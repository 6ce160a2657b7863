---------------------------- MODULE DeployScript ----------------------------
(***************************************************************************)
(* deploy/deploy.ts: a run deletes the files an earlier run generated, as  *)
(* its cache file .diffcache lists them, generates new ones, caches their  *)
(* paths, deploys UniversalAdapter and tells the frontend its address.     *)
(* Every write and every deletion is a step, a file with the folders it    *)
(* leaves empty being one; the process may die between any two, and any of *)
(* them, the scan, the reading of the cache and the tests whether a folder *)
(* is there may fail.  Names, extensions and contents, which the script    *)
(* draws at random, are members of small sets; a path is the sequence of   *)
(* its names below the project root, <<>>.                                 *)
(***************************************************************************)
EXTENDS Integers, FiniteSets, Sequences, SequencesExt

CONSTANTS
    FileNames,     \* names generateFileName and generateFileExtension draw
    FolderNames,   \* names generateFolderName draws
    OwnTree,       \* the project's own files and folders: path -> entry
    BaseDirs,      \* the folders files are generated in, in order, once per pass
    Frontend,      \* frontend/web/src
    ConfigFile,    \* frontend/web/src/config.json
    MaxDepth,      \* DIFF_CONFIG.maxDepth
    MaxFiles,      \* DIFF_CONFIG.maxFilesPerFolder
    MaxRuns,       \* bound on runs
    MaxFaults      \* bound on the kinds of fault of one behaviour

Paths == Seq(STRING)
Below(folder, p) == IsStrictPrefix(folder, p)

\* A folder the script may generate in base: its names below base are drawn
Drawn(base, p) == Below(base, p) /\ \A i \in Len(base) + 1 .. Len(p) : p[i] \in FolderNames

\* No drawn name of a folder has an extension, and those of files and config.json
\* have; and the frontend's folder, web, is no word of WORD_LIBRARY, so that no
\* drawn folder is the frontend
ASSUME DeployAssumption ==
    /\ FileNames \cup FolderNames \subseteq STRING /\ FileNames \cap FolderNames = {}
    /\ DOMAIN OwnTree \subseteq Paths \ {<<>>}
    /\ \A p \in DOMAIN OwnTree :
           /\ OwnTree[p] \in [kind : {"file", "folder"}, by : {"own"}]
           /\ \A n \in 1 .. Len(p) - 1 :
                  /\ SubSeq(p, 1, n) \in DOMAIN OwnTree
                  /\ OwnTree[SubSeq(p, 1, n)].kind = "folder"
    /\ BaseDirs \in Seq(Paths)
    /\ Frontend \in Paths /\ ConfigFile \in Paths
    /\ ConfigFile # <<>> /\ Front(ConfigFile) = Frontend /\ Last(ConfigFile) \notin FolderNames
    /\ ConfigFile \in DOMAIN OwnTree => OwnTree[ConfigFile].kind = "file"
    /\ \A i \in DOMAIN BaseDirs : ~ Drawn(BaseDirs[i], Frontend)
    /\ MaxFiles \in Nat

VARIABLES
    tree,      \* what is on disk: path -> [kind, by]
    cache,     \* .diffcache: not there, torn, or a list of absolute paths
    home,      \* the absolute path of the project root: a clone has another
    former,    \* the roots it was cloned from and that are still on disk
    phase,     \* where the run is; "idle" between runs
    known,     \* existingPaths
    queue,     \* previousFiles not yet cleaned
    list,      \* generatedFiles
    todo,      \* base directories not yet entered
    dir, depth, left, \* generateInDirectory: arguments, and the files it still makes
    deployed,  \* number of contracts deployed, the last one's address
    config,    \* the address config.json names, 0 before the first
    abi,       \* the deployment whose artifact the frontend has
    runs,
    \* History variables
    owned,     \* paths of files the project or its user wrote
    returned,  \* paths generateUniquePath returned
    clobbered, \* those that were on disk when it returned them
    causes     \* the kinds of fault that happened so far

memory == <<known, queue, list, todo, dir, depth, left>>
chain  == <<deployed, config, abi>>
vars   == <<tree, cache, home, former, phase, memory, chain, runs, owned, returned, clobbered, causes>>

NoCache == [state |-> "none", paths |-> <<>>]
TornCache == [state |-> "torn", paths |-> <<>>]   \* JSON.parse rejects it
CacheOf(paths) == [state |-> "list", paths |-> paths]
TornConfig == -1

File(by)   == [kind |-> "file", by |-> by]
Folder(by) == [kind |-> "folder", by |-> by]

NoFolders == [h \in {} |-> {}]

Put(t, p, entry) == [q \in DOMAIN t \cup {p} |-> IF q = p THEN entry ELSE t[q]]
Without(t, P) == [q \in DOMAIN t \ P |-> t[q]]

OnDisk(p) == p \in {<<>>} \cup DOMAIN tree
IsFolder(p) == p = <<>> \/ (p \in DOMAIN tree /\ tree[p].kind = "folder")

\* The faults of a step, each by its name
Faults(C) ==
    /\ causes' = causes \cup C
    /\ Cardinality(causes') <= MaxFaults
Fault(cause) == Faults({cause})
Happened(C) == causes \cap C # {}

Init ==
    /\ tree = OwnTree /\ cache = NoCache /\ home = 1 /\ former = NoFolders /\ phase = "idle"
    /\ known = {} /\ queue = <<>> /\ list = <<>> /\ todo = <<>>
    /\ dir = <<>> /\ depth = 0 /\ left = 0
    /\ deployed = 0 /\ config = 0 /\ abi = 0 /\ runs = 0
    /\ owned = {p \in DOMAIN OwnTree : OwnTree[p].kind = "file"}
    /\ returned = {} /\ clobbered = {} /\ causes = {}

----------------------------------------------------------------------------
\* The constructor: getAllExistingPaths

FullScan == DOMAIN tree

Children(folder) == {p \in DOMAIN tree : Front(p) = folder}

\* A scan misses the entries of one folder that come after one that cannot be
\* examined, or all of them if the folder cannot be read, with all below them
PartialScan ==
    \E folder \in {<<>>} \cup DOMAIN tree : \E missed \in SUBSET Children(folder) \ {{}} :
        known' = {p \in DOMAIN tree : \A q \in missed : ~ IsPrefix(q, p)}

\* The scan comes first, so paths the clean-up then deletes count as existing.
\* A cache that is not seen or cannot be read is left, with what it lists.
StartRun ==
    /\ phase = "idle" /\ runs < MaxRuns
    /\ runs' = runs + 1
    /\ \E C \in SUBSET {"scan", "read"} :
           /\ Faults(C)
           /\ IF "scan" \in C THEN PartialScan ELSE known' = FullScan
           /\ IF cache.state = "list" /\ "read" \notin C
              THEN phase' = "clean" /\ queue' = cache.paths
              ELSE phase' = "generate" /\ queue' = <<>>
    /\ list' = <<>> /\ todo' = BaseDirs /\ dir' = <<>> /\ depth' = 0 /\ left' = 0
    /\ UNCHANGED <<tree, cache, home, former, chain, owned, returned, clobbered>>

----------------------------------------------------------------------------
\* cleanPreviousFiles

\* What is on disk below the root an absolute path was made for
TreeAt(h) == IF h = home THEN tree
             ELSE IF h \in DOMAIN former THEN former[h].tree ELSE NoFolders

\* The path is on disk, here or in the folder the project was cloned from
Cleanable(entry) == entry.path \in DOMAIN TreeAt(entry.home)
Unlinkable(entry) == Cleanable(entry) /\ TreeAt(entry.home)[entry.path].kind = "file"

\* The folders above p that the loop removes: each holds only the next one
\* Mutant: the loop does not look whether a folder is empty, and the removal is
\* recursive
AllParents(t, p) == {q \in DOMAIN t : Below(q, p)}
\* Mutant: only the folder of the file is looked at
EmptiedParent(t, p) ==
    {q \in DOMAIN t : q = Front(p) /\ \A x \in DOMAIN t : Below(q, x) => x = p}
EmptiedParents(t, p) ==
    {q \in DOMAIN t : Below(q, p) /\ \A x \in DOMAIN t : Below(q, x) => IsPrefix(x, p)}

\* The tree after unlinkSync and the removal of the folders it left empty that
\* lie deeper than n.  A whole subtree goes only with AllParents.
Cleaned(t, p, n) ==
    LET gone == {p} \cup {q \in EmptiedParents(t, p) : Len(q) > n}
    IN  Without(t, {x \in DOMAIN t : \E q \in gone : IsPrefix(q, x)})

\* The loop goes up from the file and ends where a folder cannot be listed or
\* removed
CleanFile ==
    /\ phase = "clean" /\ queue # <<>>
    /\ Unlinkable(Head(queue))
    /\ LET h == Head(queue).home
           p == Head(queue).path
       IN  \E n \in 0 .. Len(p) :
               /\ IF \E q \in EmptiedParents(TreeAt(h), p) : Len(q) <= n
                  THEN Fault("rmdir")
                  ELSE UNCHANGED causes
               /\ IF h = home
                  THEN tree' = Cleaned(tree, p, n) /\ UNCHANGED former
                  ELSE /\ former' = [former EXCEPT ![h].tree = Cleaned(@, p, n)]
                       /\ UNCHANGED tree
    /\ queue' = Tail(queue)
    /\ UNCHANGED <<cache, home, phase, known, list, todo, dir, depth, left, chain, runs,
                   owned, returned, clobbered>>

\* The path is gone; or it is a folder, which unlinkSync refuses; or existsSync
\* or unlinkSync fails
SkipFile ==
    /\ phase = "clean" /\ queue # <<>>
    /\ IF Unlinkable(Head(queue)) THEN Fault("unlink") ELSE UNCHANGED causes
    /\ queue' = Tail(queue)
    /\ UNCHANGED <<tree, cache, home, former, phase, known, list, todo, dir, depth, left, chain,
                   runs, owned, returned, clobbered>>

\* The cache is deleted whether or not everything it lists was, unless that fails
EndClean ==
    /\ phase = "clean" /\ queue = <<>>
    /\ phase' = "generate"
    /\ \/ cache' = NoCache /\ UNCHANGED causes
       \/ Fault("cache") /\ UNCHANGED cache
    /\ UNCHANGED <<tree, home, former, memory, chain, runs, owned, returned, clobbered>>

----------------------------------------------------------------------------
\* generateDifferentialFiles

\* A path is new unless 50 attempts all met a known one
GenerateUniquePath(p) == known' = known \cup {p}
Collision(p) == IF p \in known THEN {"collisions"} ELSE {}

Returned(p) ==
    /\ returned' = returned \cup {p}
    /\ clobbered' = IF OnDisk(p) THEN clobbered \cup {p} ELSE clobbered

\* The next base directory; one that existsSync does not see is skipped
EnterBase ==
    /\ phase = "generate" /\ left = 0 /\ todo # <<>>
    /\ todo' = Tail(todo)
    /\ dir' = Head(todo) /\ depth' = 0
    /\ \/ /\ IsFolder(Head(todo)) /\ phase' = "files"
          /\ left' \in 1 .. MaxFiles /\ UNCHANGED causes
       \/ /\ IF IsFolder(Head(todo)) THEN Fault("stat") ELSE UNCHANGED causes
          /\ UNCHANGED <<phase, left>>
    /\ UNCHANGED <<tree, cache, home, former, known, queue, list, chain, runs,
                   owned, returned, clobbered>>

Write(p, entry) == Put(tree, p, entry)

\* One file is made and listed
GenerateFile ==
    /\ phase = "files" /\ left > 0
    /\ \E name \in FileNames :
           LET p == Append(dir, name)
           IN  /\ GenerateUniquePath(p) /\ Returned(p) /\ Faults(Collision(p))
               /\ ~ IsFolder(p)
               /\ tree' = Write(p, File("script"))
               /\ list' = Append(list, [home |-> home, path |-> p])
    /\ left' = left - 1
    /\ UNCHANGED <<cache, home, former, phase, queue, todo, dir, depth, chain, runs, owned>>

\* mkdirSync or writeFileSync fails, the latter perhaps with a part written:
\* the path stays taken, nothing is listed
FailFile ==
    /\ phase = "files" /\ left > 0
    /\ \E name \in FileNames :
           LET p == Append(dir, name)
           IN  /\ GenerateUniquePath(p) /\ Returned(p)
               /\ Faults({"write"} \cup Collision(p))
               /\ \/ UNCHANGED tree
                  \/ ~ IsFolder(p) /\ tree' = Write(p, File("script"))
    /\ left' = left - 1
    /\ UNCHANGED <<cache, home, former, phase, queue, list, todo, dir, depth, chain, runs, owned>>

\* After the last file the function may go down into one new folder, listed
\* before what is made in it; there is nothing left to do on the way back up
GenerateFolder ==
    /\ phase = "files" /\ left = 0
    /\ depth < MaxDepth
    /\ \E name \in FolderNames :
           LET p == Append(dir, name)
           IN  /\ GenerateUniquePath(p) /\ Returned(p) /\ Faults(Collision(p))
               /\ p \in DOMAIN tree => IsFolder(p)
               /\ tree' = IF IsFolder(p) THEN tree ELSE Write(p, Folder("script"))
               /\ list' = Append(list, [home |-> home, path |-> p])
               /\ dir' = p
    /\ depth' = depth + 1
    /\ left' \in 1 .. MaxFiles
    /\ UNCHANGED <<cache, home, former, phase, queue, todo, chain, runs, owned>>

FailFolder ==
    /\ phase = "files" /\ left = 0
    /\ depth < MaxDepth
    /\ \E name \in FolderNames :
           LET p == Append(dir, name)
           IN  /\ GenerateUniquePath(p) /\ Returned(p)
               /\ Faults({"write"} \cup Collision(p))
    /\ phase' = "generate"
    /\ UNCHANGED <<tree, cache, home, former, queue, list, todo, dir, depth, left, chain, runs, owned>>

LeaveFolder ==
    /\ phase = "files" /\ left = 0
    /\ phase' = "generate"
    /\ UNCHANGED <<tree, cache, home, former, memory, chain, runs, owned, returned, clobbered, causes>>

\* Nothing is cached when nothing was generated
WriteCache ==
    /\ phase = "generate" /\ todo = <<>>
    /\ cache' = IF list = <<>> THEN cache ELSE CacheOf(list)
    /\ phase' = "deploy"
    /\ UNCHANGED <<tree, home, former, memory, chain, runs, owned, returned, clobbered, causes>>

----------------------------------------------------------------------------
\* main

\* Mutant: the script does not wait for the deployment, which fails
DeployWithoutWaiting ==
    /\ phase = "deploy"
    /\ tree' = Write(ConfigFile, File("own"))
    /\ owned' = owned \cup {ConfigFile}
    /\ config' = deployed + 1
    /\ phase' = "abi"
    /\ UNCHANGED <<cache, home, former, memory, deployed, abi, runs, returned, clobbered, causes>>
DeployContract ==
    /\ phase = "deploy"
    /\ deployed' = deployed + 1
    /\ \/ IsFolder(Frontend) /\ phase' = "config" /\ UNCHANGED causes
       \/ /\ IF IsFolder(Frontend) THEN Fault("stat") ELSE UNCHANGED causes
          /\ phase' = "idle"
    /\ UNCHANGED <<tree, cache, home, former, memory, config, abi, runs, owned, returned, clobbered>>

WriteConfig ==
    /\ phase = "config"
    /\ tree' = Write(ConfigFile, File("own"))
    /\ owned' = owned \cup {ConfigFile}
    /\ config' = deployed
    /\ phase' = "abi"
    /\ UNCHANGED <<cache, home, former, memory, deployed, abi, runs, returned, clobbered, causes>>

CopyAbi ==
    /\ phase = "abi"
    /\ \/ abi' = deployed /\ UNCHANGED causes
       \/ UNCHANGED abi /\ Fault("copy")
    /\ phase' = "idle"
    /\ UNCHANGED <<tree, cache, home, former, memory, deployed, config, runs, owned, returned, clobbered>>

----------------------------------------------------------------------------
\* Faults and the user

\* The process dies, or a call throws out of main and it exits.  Died while a
\* file was being written, it leaves that file torn.
Crash ==
    /\ phase # "idle" /\ Fault("crash")
    /\ phase' = "idle"
    /\ known' = {} /\ queue' = <<>> /\ list' = <<>> /\ todo' = <<>>
    /\ dir' = <<>> /\ depth' = 0 /\ left' = 0
    /\ \/ UNCHANGED <<tree, cache, chain, owned>>
       \/ /\ phase = "generate" /\ todo = <<>> /\ list # <<>>
          /\ cache' = TornCache
          /\ UNCHANGED <<tree, chain, owned>>
       \/ /\ phase = "config"
          /\ tree' = Write(ConfigFile, File("own"))
          /\ owned' = owned \cup {ConfigFile}
          /\ config' = TornConfig
          /\ UNCHANGED <<cache, deployed, abi>>
    /\ UNCHANGED <<home, former, runs, returned, clobbered>>

\* The project, with what is in it, is moved or copied elsewhere
Clone ==
    /\ phase = "idle" /\ Fault("clone")
    /\ home' = home + 1 /\ home < MaxRuns
    /\ \/ UNCHANGED former
       \/ former' = Put(former, home, [tree |-> tree, owned |-> owned])
    /\ UNCHANGED <<tree, cache, phase, memory, chain, runs, owned, returned, clobbered>>

\* The user writes a file, a generated one or one beside generated ones
UserWrites ==
    /\ phase = "idle" /\ Fault("user")
    /\ \E folder \in {<<>>} \cup DOMAIN tree, name \in FileNames :
           LET p == Append(folder, name)
           IN  /\ IsFolder(folder) /\ ~ IsFolder(p) /\ p # ConfigFile
               /\ tree' = Write(p, File("own"))
               /\ owned' = owned \cup {p}
    /\ UNCHANGED <<cache, home, former, phase, memory, chain, runs, returned, clobbered>>

Next ==
    \/ StartRun
    \/ CleanFile \/ SkipFile \/ EndClean
    \/ EnterBase \/ GenerateFile \/ FailFile \/ GenerateFolder \/ FailFolder
    \/ LeaveFolder
    \/ WriteCache
    \/ DeployContract \/ WriteConfig \/ CopyAbi
    \/ Crash \/ Clone \/ UserWrites

Spec == Init /\ [][Next]_vars

----------------------------------------------------------------------------
\* Properties

Lost(t, p) == p \notin DOMAIN t \/ t[p].by = "script"

\* A file the project or its user wrote is deleted or overwritten only at a path
\* the script had itself generated: neither the removal of emptied folders nor
\* a list read back after a crash or in a copy of the project reaches any other
\* file, also of the folder it was copied from.  And a generated path was on
\* disk before only if the scan of the constructor was cut short (line 83) or
\* generateUniquePath gave up (line 193).
OwnFilesSurvive ==
    /\ \A p \in owned : Lost(tree, p) => p \in returned
    /\ \A h \in DOMAIN former : \A p \in former[h].owned :
           Lost(former[h].tree, p) => p \in returned
    /\ clobbered # {} => Happened({"scan", "collisions"})

StartOfGeneration == phase = "generate" /\ todo = BaseDirs

\* When a clean-up is over no generated file is left, unless a run died before
\* it had cached its list, a file could not be written or deleted, the cache
\* could not be read or came from another folder; and no generated folder,
\* unless one of these happened, a folder could not be removed or the user put
\* a file there.  That the cache cannot be deleted, or a folder not be seen,
\* leaves nothing behind.
CleanLeavesNothing ==
    StartOfGeneration =>
        \A p \in DOMAIN tree : tree[p].by = "script" =>
            \/ Happened({"crash", "unlink", "clone", "write", "read"})
            \/ (IsFolder(p) /\ Happened({"user", "rmdir"}))

\* A whole config.json names a contract that is deployed, and the frontend never
\* has the artifact of a later deployment than it names.  If no run died and the
\* folder was seen, between runs it names the last one, though a clean-up may
\* delete it meanwhile, when a generated file took the name before the first
\* deployment.
ConfigNamesDeployed ==
    /\ config # TornConfig => config \in 0 .. deployed /\ abi <= config
    /\ phase = "idle" /\ runs > 0 /\ IsFolder(Frontend) /\ ~ Happened({"crash", "stat"}) =>
           ~ Lost(tree, ConfigFile) /\ config = deployed
=============================================================================
