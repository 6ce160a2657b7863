------------------------- MODULE DeployScriptProofs -------------------------
(***************************************************************************)
(* Machine-checked proofs about DeployScript: for any project tree, any    *)
(* names the script may draw, any number of runs, and any crashes, failed  *)
(* calls, clones and user files between and within them.                   *)
(***************************************************************************)
EXTENDS DeployScript, SequenceTheorems, TLAPS

----------------------------------------------------------------------------
\* Paths

\* A prefix, position by position.
LEMMA PrefixPointwise ==
    ASSUME NEW s \in Paths, NEW t \in Paths
    PROVE  IsPrefix(s, t) <=> Len(s) <= Len(t) /\ \A i \in 1 .. Len(s) : s[i] = t[i]
<1>1. CASE Len(s) <= Len(t)
  <2>1. SubSeq(s, 1, Len(s)) = s
    BY SubSeqFull DEF Paths
  <2>2. /\ SubSeq(t, 1, Len(s)) \in Seq(STRING) /\ Len(SubSeq(t, 1, Len(s))) = Len(s)
        /\ \A i \in 1 .. Len(s) : SubSeq(t, 1, Len(s))[i] = t[i]
    BY <1>1 DEF Paths
  <2>3. s = SubSeq(t, 1, Len(s)) <=> \A i \in 1 .. Len(s) : s[i] = SubSeq(t, 1, Len(s))[i]
    BY <2>2, SeqEqual DEF Paths
  <2> QED  BY <1>1, <2>1, <2>2, <2>3 DEF IsPrefix
<1>2. CASE ~ Len(s) <= Len(t)
  BY <1>2 DEF IsPrefix
<1> QED  BY <1>1, <1>2

\* Prefixes order the paths,
LEMMA PrefixOrder ==
    ASSUME NEW s \in Paths, NEW t \in Paths
    PROVE  /\ IsPrefix(s, s) /\ ~ Below(s, s)
           /\ IsPrefix(s, t) <=> s = t \/ Below(s, t)
           /\ IsPrefix(s, t) /\ IsPrefix(t, s) => s = t
           /\ IsPrefix(s, <<>>) => s = <<>>
           /\ Below(s, t) => /\ Len(s) < Len(t) /\ s = SubSeq(t, 1, Len(s))
<1>0. <<>> \in Paths /\ Len(<<>>) = 0 /\ Len(s) \in Nat /\ Len(t) \in Nat
  BY DEF Paths
<1>1. IsPrefix(s, s)
  BY PrefixPointwise, <1>0
<1>2. Len(s) = Len(t) /\ IsPrefix(s, t) => s = t
  BY PrefixPointwise, SeqEqual DEF Paths
<1>3. IsPrefix(s, t) /\ IsPrefix(t, s) => Len(s) = Len(t)
  BY PrefixPointwise, <1>0
<1>4. IsPrefix(s, <<>>) => s = <<>>
  <2>1. s # <<>> => Len(s) \in Nat \ {0}
    BY EmptySeq DEF Paths
  <2> QED  BY PrefixPointwise, <1>0, <2>1
<1>5. Below(s, t) => /\ Len(s) < Len(t) /\ s = SubSeq(t, 1, Len(s))
  <2> SUFFICES ASSUME Below(s, t) PROVE Len(s) < Len(t) /\ s = SubSeq(t, 1, Len(s))
    OBVIOUS
  <2>1. Len(s) < Len(t)
    BY <1>0, <1>2, PrefixPointwise DEF Below, IsStrictPrefix
  <2>2. SubSeq(s, 1, Len(s)) = s
    BY SubSeqFull DEF Paths
  <2> QED  BY <2>1, <2>2 DEF Below, IsStrictPrefix, IsPrefix
<1> QED  BY <1>1, <1>2, <1>3, <1>4, <1>5 DEF Below, IsStrictPrefix

\* and the order is transitive.
LEMMA PrefixTransitive ==
    ASSUME NEW s \in Paths, NEW t \in Paths, NEW u \in Paths
    PROVE  /\ IsPrefix(s, t) /\ IsPrefix(t, u) => IsPrefix(s, u)
           /\ Below(s, t) /\ IsPrefix(t, u) => Below(s, u)
           /\ IsPrefix(s, t) /\ Below(t, u) => Below(s, u)
<1>0. Len(s) \in Nat /\ Len(t) \in Nat /\ Len(u) \in Nat
  BY DEF Paths
<1>1. IsPrefix(s, t) /\ IsPrefix(t, u) => IsPrefix(s, u)
  BY PrefixPointwise, <1>0
<1>2. IsPrefix(s, t) /\ IsPrefix(t, u) /\ s = u => s = t /\ t = u
  BY PrefixOrder
<1> QED  BY <1>1, <1>2 DEF Below, IsStrictPrefix

\* The folders of a path that is one name longer
LEMMA AppendFolders ==
    ASSUME NEW d \in Paths, NEW n \in STRING
    PROVE  /\ Append(d, n) \in Paths \ {<<>>} /\ Below(d, Append(d, n))
           /\ \A q \in Paths : Below(q, Append(d, n)) <=> IsPrefix(q, d)
<1> DEFINE p == Append(d, n)
<1>0. /\ p \in Paths /\ Len(p) = Len(d) + 1 /\ Len(d) \in Nat
      /\ \A i \in 1 .. Len(d) : p[i] = d[i]
  BY AppendProperties DEF Paths
<1> HIDE DEF p
<1>1. IsPrefix(d, p) /\ d # p /\ p # <<>>
  BY <1>0, PrefixPointwise
<1>2. ASSUME NEW q \in Paths PROVE Below(q, p) <=> IsPrefix(q, d)
  <2>1. Below(q, p) => IsPrefix(q, d)
    <3> SUFFICES ASSUME Below(q, p) PROVE IsPrefix(q, d)
      OBVIOUS
    <3>1. Len(q) \in Nat /\ Len(q) <= Len(d)
      BY <1>0, PrefixOrder DEF Paths
    <3>2. \A i \in 1 .. Len(q) : q[i] = p[i]
      BY <1>0, PrefixPointwise DEF Below, IsStrictPrefix
    <3>3. \A i \in 1 .. Len(q) : q[i] = d[i]
      BY <1>0, <3>1, <3>2
    <3> QED  BY <3>1, <3>3, PrefixPointwise
  <2>2. IsPrefix(q, d) => Below(q, p)
    BY <1>0, <1>1, PrefixTransitive DEF Below, IsStrictPrefix
  <2> QED  BY <2>1, <2>2
<1> QED  BY <1>0, <1>1, <1>2 DEF p, Below, IsStrictPrefix

----------------------------------------------------------------------------
\* The inductive invariant

Entry == [kind : {"file", "folder"}, by : {"own", "script"}]
Listed == [home : Nat, path : Paths]
Caches == {NoCache, TornCache} \cup {CacheOf(paths) : paths \in Seq(Listed)}

IsDrawn(p) == \E i \in DOMAIN BaseDirs : Drawn(BaseDirs[i], p)
IsGenerated(d) == IsDrawn(d) \/ \E i \in DOMAIN BaseDirs : d = BaseDirs[i]

\* A tree: what is above an entry is a folder; and the script's folders are
\* drawn, which config.json is not
TreeOK ==
    /\ DOMAIN tree \subseteq Paths \ {<<>>}
    /\ \A p \in DOMAIN tree : tree[p] \in Entry /\ \A q \in Paths : Below(q, p) => IsFolder(q)
    /\ \A p \in DOMAIN tree : tree[p] = Folder("script") => IsDrawn(p)
    /\ ~ IsFolder(ConfigFile)

\* The trees of the folders the project was cloned from
FolderIn(t, p) == p = <<>> \/ (p \in DOMAIN t /\ t[p].kind = "folder")
WellFormed(t) ==
    /\ DOMAIN t \subseteq Paths \ {<<>>}
    /\ \A p \in DOMAIN t : t[p] \in Entry /\ \A q \in Paths : Below(q, p) => FolderIn(t, q)

TypeOK ==
    /\ cache \in Caches /\ queue \in Seq(Listed) /\ list \in Seq(Listed)
    /\ home \in Nat /\ todo \in Seq(Paths) /\ dir \in Paths /\ left \in Nat /\ runs \in Nat
    /\ phase \in {"idle", "clean", "generate", "files", "deploy", "config", "abi"}
    /\ owned \subseteq Paths /\ returned \subseteq Paths

\* Where a run is: a list is begun by the first folder it enters
RunOK ==
    /\ phase = "files" => IsFolder(dir) /\ IsGenerated(dir) /\ Len(todo) < Len(BaseDirs)
    /\ \A i \in DOMAIN todo : \E j \in DOMAIN BaseDirs : todo[i] = BaseDirs[j]
    /\ Len(todo) <= Len(BaseDirs)
    /\ phase = "clean" => todo = BaseDirs
    /\ phase \in {"clean", "generate"} /\ Len(todo) = Len(BaseDirs) => list = <<>>

\* Only what the script returned is ever listed, in memory or on disk; own files
\* are lost only there; and a scan that was not cut short covers the disk
ListsOK ==
    /\ \A i \in DOMAIN cache.paths : cache.paths[i].path \in returned
    /\ \A i \in DOMAIN queue : queue[i].path \in returned
    /\ \A i \in DOMAIN list : list[i].path \in returned

Saved(t, files, paths) ==
    \A p \in files : /\ Lost(t, p) => p \in paths
                     /\ p \in DOMAIN t /\ t[p].by = "own" => t[p].kind = "file"
OwnOK == Saved(tree, owned, returned)

\* The same of the folders the project was cloned from
FormerOK ==
    /\ former = [h \in DOMAIN former |-> former[h]]
    /\ \A h \in DOMAIN former :
           /\ former[h] = [tree |-> former[h].tree, owned |-> former[h].owned]
           /\ WellFormed(former[h].tree) /\ Saved(former[h].tree, former[h].owned, returned)

ScanOK ==
    /\ phase \in {"clean", "generate", "files"} /\ "scan" \notin causes => DOMAIN tree \subseteq known
    /\ clobbered # {} => Happened({"scan", "collisions"})

\* The list that says what the script has on disk
Current == CASE phase = "clean" -> queue
             [] phase \in {"generate", "files"} -> list
             [] OTHER -> cache.paths

\* As long as nothing goes wrong the current list has every generated file
Clear == ~ Happened({"crash", "unlink", "clone", "write", "read"})

TrackOK ==
    Clear =>
        /\ home = 1
        /\ \A i \in DOMAIN Current : Current[i].home = 1
        /\ \A i \in DOMAIN cache.paths : cache.paths[i].home = 1
        /\ \A p \in DOMAIN tree : tree[p] = File("script") => \E i \in DOMAIN Current : Current[i].path = p

\* ... and unless the user writes a file or a removal fails, a generated folder has a generated
\* file in it, or is about to have one, and nothing of the project's
FolderOK ==
    ~ Happened({"user", "rmdir"}) =>
        \A q \in DOMAIN tree : tree[q] = Folder("script") =>
            /\ \A p \in DOMAIN tree : Below(q, p) => tree[p].by = "script"
            /\ Clear => \/ \E p \in DOMAIN tree : Below(q, p) /\ tree[p] = File("script")
                        \/ phase = "files" /\ left > 0 /\ IsPrefix(q, dir)

\* config.json and the artifact
ConfigOK ==
    /\ deployed \in Nat /\ abi \in 0 .. deployed /\ config \in {TornConfig} \cup 0 .. deployed
    /\ config # TornConfig => abi <= config
    /\ phase = "config" => IsFolder(Frontend)
    /\ phase = "abi" => ~ Lost(tree, ConfigFile) /\ config = deployed
    /\ phase = "idle" /\ runs > 0 /\ IsFolder(Frontend) /\ ~ Happened({"crash", "stat"}) =>
           ~ Lost(tree, ConfigFile) /\ config = deployed

IInv ==
    /\ TreeOK /\ TypeOK /\ RunOK
    /\ ListsOK /\ OwnOK /\ FormerOK /\ ScanOK
    /\ TrackOK /\ FolderOK /\ ConfigOK

----------------------------------------------------------------------------
\* What the constants give

\* What is above a path of the user's tree is a folder of it.
LEMMA OwnTreeFolders ==
    ASSUME NEW p \in DOMAIN OwnTree, NEW q \in Paths, Below(q, p)
    PROVE  q = <<>> \/ (q \in DOMAIN OwnTree /\ OwnTree[q].kind = "folder")
<1>1. p \in Paths
  BY DeployAssumption
<1>2. Len(q) < Len(p) /\ q = SubSeq(p, 1, Len(q)) /\ Len(p) \in Nat /\ Len(q) \in Nat
  BY <1>1, PrefixOrder DEF Paths
<1>3. CASE Len(q) = 0
  BY <1>3, EmptySeq DEF Paths
<1>4. CASE Len(q) # 0
  <2>1. Len(q) \in 1 .. Len(p) - 1
    BY <1>2, <1>4
  <2>2. \A n \in 1 .. Len(p) - 1 : SubSeq(p, 1, n) \in DOMAIN OwnTree /\ OwnTree[SubSeq(p, 1, n)].kind = "folder"
    BY DeployAssumption
  <2> QED  BY <1>2, <2>1, <2>2
<1> QED  BY <1>3, <1>4

\* The configuration file is in the frontend's folder.
LEMMA ConfigPath == \E n \in STRING : ConfigFile = Append(Frontend, n)
<1>1. ConfigFile \in Seq(STRING) /\ ConfigFile # <<>> /\ Front(ConfigFile) = Frontend
  BY DeployAssumption DEF Paths
<1>2. Len(ConfigFile) \in Nat \ {0}
  BY <1>1, EmptySeq
<1>3. ConfigFile[Len(ConfigFile)] \in STRING
  BY <1>1, <1>2
<1> DEFINE f == SubSeq(ConfigFile, 1, Len(ConfigFile) - 1)
<1>4. f = Frontend
  BY <1>1 DEF Front
<1>7. /\ f \in Seq(STRING) /\ Len(f) = Len(ConfigFile) - 1
      /\ \A i \in 1 .. Len(f) : f[i] = ConfigFile[i]
  BY <1>1, <1>2, SubSeqProperties
<1> DEFINE a == Append(Frontend, ConfigFile[Len(ConfigFile)])
<1> HIDE DEF f
<1>5. /\ a \in Seq(STRING) /\ Len(a) = Len(ConfigFile)
      /\ \A i \in 1 .. Len(a) : a[i] = ConfigFile[i]
  BY <1>2, <1>3, <1>4, <1>7, AppendProperties
<1> HIDE DEF a
<1>6. a = ConfigFile
  BY <1>1, <1>5, SeqEqual
<1> QED  BY <1>3, <1>6 DEF a

\* The script draws neither of them, and draws what it puts in a generated folder.
LEMMA DrawnPaths ==
    /\ ~ IsDrawn(Frontend) /\ ~ IsDrawn(ConfigFile)
    /\ \A d \in Paths, n \in FolderNames : IsGenerated(d) => IsDrawn(Append(d, n))
<1>1. ~ IsDrawn(Frontend)
  BY DeployAssumption DEF IsDrawn
<1>2. ~ IsDrawn(ConfigFile)
  <2> SUFFICES ASSUME NEW i \in DOMAIN BaseDirs, Drawn(BaseDirs[i], ConfigFile) PROVE FALSE
    BY DEF IsDrawn
  <2>1. BaseDirs[i] \in Paths /\ ConfigFile \in Paths
    BY DeployAssumption
  <2>2. Len(BaseDirs[i]) < Len(ConfigFile) /\ Len(BaseDirs[i]) \in Nat /\ Len(ConfigFile) \in Nat
    BY <2>1, PrefixOrder DEF Drawn, Paths
  <2>3. Len(ConfigFile) \in Len(BaseDirs[i]) + 1 .. Len(ConfigFile)
    BY <2>2
  <2> QED  BY <2>3, DeployAssumption DEF Drawn, Last
<1>3. ASSUME NEW d \in Paths, NEW n \in FolderNames, IsGenerated(d) PROVE IsDrawn(Append(d, n))
  <2> DEFINE p == Append(d, n)
  <2>1. /\ n \in STRING /\ p \in Paths /\ Len(p) = Len(d) + 1 /\ Len(d) \in Nat
        /\ \A i \in 1 .. Len(d) : p[i] = d[i]
        /\ p[Len(d) + 1] = n
    BY DeployAssumption, AppendProperties DEF Paths
  <2>2. \A q \in Paths : Below(q, p) <=> IsPrefix(q, d)
    BY <2>1, AppendFolders
  <2> HIDE DEF p
  <2>3. PICK i \in DOMAIN BaseDirs : d = BaseDirs[i] \/ Drawn(BaseDirs[i], d)
    BY <1>3 DEF IsGenerated, IsDrawn
  <2>4. BaseDirs[i] \in Paths /\ Len(BaseDirs[i]) \in Nat
    BY DeployAssumption DEF Paths
  <2>5. IsPrefix(BaseDirs[i], d)
    BY <2>3, <2>4, PrefixOrder DEF Drawn
  <2>6. ASSUME NEW k \in Len(BaseDirs[i]) + 1 .. Len(p) PROVE p[k] \in FolderNames
    <3>1. CASE k = Len(d) + 1
      BY <3>1, <2>1
    <3>2. CASE k # Len(d) + 1
      <4>1. k \in Len(BaseDirs[i]) + 1 .. Len(d) /\ k \in 1 .. Len(d)
        BY <3>2, <2>1, <2>4
      <4> QED  BY <4>1, <2>1, <2>3, <2>4 DEF Drawn
    <3> QED  BY <3>1, <3>2
  <2> QED  BY <2>2, <2>4, <2>5, <2>6 DEF IsDrawn, Drawn, p
<1> QED  BY <1>1, <1>2, <1>3

\* The invariant holds at first.
LEMMA InitInvariant == Init => IInv
<1> SUFFICES ASSUME Init PROVE IInv
  OBVIOUS
<1> USE DeployAssumption
<1>1. TreeOK
  <2>1. ASSUME NEW p \in DOMAIN tree PROVE tree[p] \in Entry /\ tree[p] # Folder("script")
    BY DEF Init, Entry, Folder
  <2>2. ASSUME NEW p \in DOMAIN tree, NEW q \in Paths, Below(q, p) PROVE IsFolder(q)
    BY <2>2, OwnTreeFolders DEF Init, IsFolder
  <2>3. ~ IsFolder(ConfigFile) /\ DOMAIN tree \subseteq Paths \ {<<>>}
    BY DEF Init, IsFolder
  <2> QED  BY <2>1, <2>2, <2>3 DEF TreeOK
<1>2. TypeOK
  BY DEF Init, TypeOK, Caches, Paths, Listed
<1>3. RunOK
  BY EmptySeq DEF Init, RunOK, Paths
<1>4. ListsOK
  BY DEF Init, ListsOK, NoCache
<1>5. OwnOK
  BY DEF Init, OwnOK, Saved, Lost
<1>9. FormerOK
  BY DEF Init, FormerOK, NoFolders
<1>6. ScanOK
  BY DEF Init, ScanOK
<1>7. TrackOK /\ FolderOK
  BY DEF Init, TrackOK, FolderOK, Current, NoCache, File, Folder
<1>8. ConfigOK
  BY DEF Init, ConfigOK
<1> QED  BY <1>1, <1>2, <1>3, <1>4, <1>5, <1>6, <1>7, <1>8, <1>9 DEF IInv

----------------------------------------------------------------------------
\* What a step makes of the tree

Places(p, entry) ==
    /\ DOMAIN tree' = DOMAIN tree \cup {p} /\ tree'[p] = entry
    /\ \A q \in DOMAIN tree \ {p} : tree'[q] = tree[q]

Removes(P) ==
    /\ DOMAIN tree' = DOMAIN tree \ P
    /\ \A q \in DOMAIN tree \ P : tree'[q] = tree[q]

\* A path below folders only
Fits(p) == p \in Paths \ {<<>>} /\ \A q \in Paths : Below(q, p) => IsFolder(q)

\* Writing a path places an entry there and nowhere else.
LEMMA WritePlaces ==
    ASSUME NEW p, NEW entry, tree' = Write(p, entry)
    PROVE  Places(p, entry)
  BY DEF Write, Put, Places

\* What is above a folder is a folder.
LEMMA FolderAbove ==
    ASSUME TreeOK, NEW d \in Paths, IsFolder(d), NEW q \in Paths, IsPrefix(q, d)
    PROVE  IsFolder(q)
  BY PrefixOrder DEF TreeOK, IsFolder

\* A name fits into a folder,
LEMMA AppendFits ==
    ASSUME TreeOK, NEW d \in Paths, IsFolder(d), NEW n \in STRING
    PROVE  Fits(Append(d, n))
  BY AppendFolders, FolderAbove DEF Fits

\* and the configuration file into its own.
LEMMA ConfigFits ==
    ASSUME TreeOK, IsFolder(Frontend)
    PROVE  Fits(ConfigFile) /\ \A q \in Paths : Below(q, ConfigFile) <=> IsPrefix(q, Frontend)
<1>1. PICK n \in STRING : ConfigFile = Append(Frontend, n)
  BY ConfigPath
<1> QED  BY <1>1, AppendFits, AppendFolders, DeployAssumption

\* A file placed where it fits keeps the tree a tree,
LEMMA PlaceFile ==
    ASSUME TreeOK, NEW p, Fits(p), ~ IsFolder(p), NEW by \in {"own", "script"}, Places(p, File(by))
    PROVE  TreeOK' /\ \A q \in Paths : IsFolder(q)' <=> IsFolder(q)
<1>1. File(by) \in Entry /\ File(by).kind = "file" /\ File(by) # Folder("script")
  BY DEF File, Folder, Entry
<1>2. ASSUME NEW q \in Paths PROVE IsFolder(q)' <=> IsFolder(q)
  BY <1>1 DEF IsFolder, Places, Fits
<1>3. ASSUME NEW x \in DOMAIN tree', NEW q \in Paths, Below(q, x) PROVE IsFolder(q)'
  BY <1>2, <1>3 DEF TreeOK, Places, Fits
<1>4. ASSUME NEW x \in DOMAIN tree' PROVE tree'[x] \in Entry /\ (tree'[x] = Folder("script") => IsDrawn(x))
  BY <1>1 DEF TreeOK, Places
<1>5. DOMAIN tree' \subseteq Paths \ {<<>>} /\ ~ IsFolder(ConfigFile)'
  BY <1>2, DeployAssumption DEF TreeOK, Places, Fits
<1> QED  BY <1>2, <1>3, <1>4, <1>5 DEF TreeOK

\* and so does a new folder.
LEMMA PlaceFolder ==
    ASSUME TreeOK, NEW p, Fits(p), p \notin DOMAIN tree, IsDrawn(p), Places(p, Folder("script"))
    PROVE  TreeOK' /\ \A q \in Paths : IsFolder(q)' <=> IsFolder(q) \/ q = p
<1>1. Folder("script") \in Entry /\ Folder("script").kind = "folder"
  BY DEF Folder, Entry
<1>2. ASSUME NEW q \in Paths PROVE IsFolder(q)' <=> IsFolder(q) \/ q = p
  BY <1>1 DEF IsFolder, Places
<1>3. ASSUME NEW x \in DOMAIN tree', NEW q \in Paths, Below(q, x) PROVE IsFolder(q)'
  BY <1>2, <1>3 DEF TreeOK, Places, Fits
<1>4. ASSUME NEW x \in DOMAIN tree' PROVE tree'[x] \in Entry /\ (tree'[x] = Folder("script") => IsDrawn(x))
  BY <1>1 DEF TreeOK, Places
<1>5. DOMAIN tree' \subseteq Paths \ {<<>>} /\ ~ IsFolder(ConfigFile)'
  BY <1>2, DrawnPaths, DeployAssumption DEF TreeOK, Places, Fits
<1> QED  BY <1>2, <1>3, <1>4, <1>5 DEF TreeOK

\* What a clean-up removes for a file
Gone(t, p, n) == {p} \cup {q \in EmptiedParents(t, p) : Len(q) > n}

\* Removing a file with the folders it leaves empty removes nothing else, and
\* what is left is a tree.
LEMMA RemoveFile ==
    ASSUME NEW t, WellFormed(t), NEW p \in DOMAIN t, t[p].kind = "file", NEW n \in Nat
    PROVE  /\ DOMAIN Cleaned(t, p, n) = DOMAIN t \ Gone(t, p, n)
           /\ \A q \in DOMAIN t \ Gone(t, p, n) : Cleaned(t, p, n)[q] = t[q]
           /\ WellFormed(Cleaned(t, p, n))
           /\ \A q \in Gone(t, p, n) : q = p \/ t[q].kind = "folder"
<1> DEFINE gone == Gone(t, p, n)
           removed == {x \in DOMAIN t : \E q \in gone : IsPrefix(q, x)}
           c == Cleaned(t, p, n)
<1>0. DOMAIN t \subseteq Paths /\ gone \subseteq DOMAIN t /\ \A x \in DOMAIN t : Len(x) \in Nat
  BY DEF WellFormed, EmptiedParents, Gone, Paths
<1>1. ASSUME NEW x \in DOMAIN t, IsPrefix(p, x) PROVE x = p
  BY <1>0, <1>1, PrefixOrder DEF WellFormed, FolderIn
<1>2. ASSUME NEW x \in DOMAIN t, NEW q \in EmptiedParents(t, p), Len(q) > n, IsPrefix(q, x) PROVE x \in gone
  <2>1. q \in DOMAIN t /\ Below(q, p) /\ \A y \in DOMAIN t : Below(q, y) => IsPrefix(y, p)
    BY DEF EmptiedParents
  <2>2. CASE x = q
    BY <1>2, <2>2 DEF Gone
  <2>3. CASE Below(q, x)
    <3>1. IsPrefix(x, p)
      BY <2>1, <2>3
    <3>2. \A y \in DOMAIN t : Below(x, y) => Below(q, y)
      BY <1>0, <2>1, <2>3, PrefixTransitive DEF Below, IsStrictPrefix
    <3>3. x = p \/ Below(x, p)
      BY <1>0, <3>1, PrefixOrder
    <3>4. Len(x) > n
      <4>1. Len(q) < Len(x)
        BY <1>0, <2>1, <2>3, PrefixOrder
      <4> QED  BY <1>0, <1>2, <2>1, <4>1
    <3>5. Below(x, p) => x \in EmptiedParents(t, p)
      BY <2>1, <3>2 DEF EmptiedParents
    <3> QED  BY <3>3, <3>4, <3>5 DEF Gone
  <2> QED  BY <1>0, <1>2, <2>1, <2>2, <2>3, PrefixOrder
<1>3. removed = gone
  <2>1. ASSUME NEW x \in removed PROVE x \in gone
    <3>1. PICK q \in gone : IsPrefix(q, x)
      OBVIOUS
    <3>2. q = p \/ (q \in EmptiedParents(t, p) /\ Len(q) > n)
      BY DEF Gone
    <3>3. p \in gone
      BY DEF Gone
    <3> QED  BY <1>1, <1>2, <3>1, <3>2, <3>3
  <2>2. ASSUME NEW x \in gone PROVE x \in removed
    BY <1>0, PrefixOrder
  <2> QED  BY <2>1, <2>2
<1>4. DOMAIN c = DOMAIN t \ gone /\ \A q \in DOMAIN t \ gone : c[q] = t[q]
  <2>1. c = Without(t, removed)
    BY DEF Cleaned, Gone
  <2> HIDE DEF c, removed, gone
  <2> QED  BY <1>3, <2>1 DEF Without
<1>5. \A q \in DOMAIN c : q \in DOMAIN t /\ c[q] = t[q]
  BY <1>4
<1> HIDE DEF c, gone
<1>6. ASSUME NEW x \in DOMAIN c, NEW q \in Paths, Below(q, x) PROVE FolderIn(c, q)
  <2>1. FolderIn(t, q)
    BY <1>5, <1>6 DEF WellFormed
  <2>2. q \in DOMAIN t => q \notin removed
    <3> SUFFICES ASSUME NEW g \in gone, q \in DOMAIN t, IsPrefix(g, q) PROVE FALSE
      OBVIOUS
    <3>1. x \in Paths /\ g \in Paths
      BY <1>0, <1>5
    <3>2. IsPrefix(g, x)
      BY <1>6, <3>1, PrefixTransitive DEF Below, IsStrictPrefix
    <3>3. x \in removed
      BY <1>5, <3>2
    <3> QED  BY <1>3, <1>4, <3>3
  <2> QED  BY <1>3, <1>4, <2>1, <2>2 DEF FolderIn
<1>7. WellFormed(c)
  BY <1>5, <1>6 DEF WellFormed
<1>8. ASSUME NEW q \in gone, q # p PROVE t[q].kind = "folder"
  <2>1. q \in DOMAIN t /\ Below(q, p)
    BY <1>8 DEF gone, Gone, EmptiedParents
  <2> QED  BY <2>1 DEF WellFormed, FolderIn
<1> QED  BY <1>4, <1>7, <1>8 DEF gone, c

----------------------------------------------------------------------------
\* The invariant holds in every step

\* The actions that leave the disk alone
QuietStep ==
    \/ StartRun \/ SkipFile \/ EndClean \/ EnterBase \/ FailFolder \/ LeaveFolder
    \/ WriteCache \/ DeployContract \/ CopyAbi \/ Clone
    \/ (FailFile \/ Crash) /\ UNCHANGED tree

\* The steps that leave the tree alone do.
LEMMA QuietSteps == QuietStep => UNCHANGED tree
  BY DEF QuietStep, StartRun, SkipFile, EndClean, EnterBase, FailFolder, LeaveFolder, WriteCache,
     DeployContract, CopyAbi, Clone

\* Those that do not, by what they make of it: a clean-up removes from the tree
\* the file and the folders it left empty, but for a call that failed, or it
\* leaves the tree alone and does the same in a folder the project was cloned from
LEMMA CleanStep ==
    ASSUME TreeOK, TypeOK, CleanFile
    PROVE  LET h == Head(queue).home
               p == Head(queue).path
           IN  /\ queue # <<>> /\ p \in Paths
               /\ \E n \in Nat :
                      \/ /\ h = home /\ p \in DOMAIN tree /\ ~ IsFolder(p) /\ UNCHANGED former
                         /\ Removes(Gone(tree, p, n)) /\ TreeOK'
                         /\ \A q \in Gone(tree, p, n) : q = p \/ tree[q].kind = "folder"
                         /\ "rmdir" \notin causes' => Gone(tree, p, n) = {p} \cup EmptiedParents(tree, p)
                      \/ /\ h # home /\ UNCHANGED tree /\ h \in DOMAIN former
                         /\ p \in DOMAIN former[h].tree /\ former[h].tree[p].kind = "file"
                         /\ former' = [former EXCEPT ![h].tree = Cleaned(@, p, n)]
<1> DEFINE h == Head(queue).home
           p == Head(queue).path
<1>1. queue # <<>> /\ p \in DOMAIN TreeAt(h) /\ TreeAt(h)[p].kind = "file"
  BY DEF CleanFile, Unlinkable, Cleanable
<1>2. PICK n \in 0 .. Len(p) :
          /\ IF \E q \in EmptiedParents(TreeAt(h), p) : Len(q) <= n THEN Fault("rmdir") ELSE UNCHANGED causes
          /\ IF h = home
             THEN tree' = Cleaned(tree, p, n) /\ UNCHANGED former
             ELSE /\ former' = [former EXCEPT ![h].tree = Cleaned(@, p, n)]
                  /\ UNCHANGED tree
  BY DEF CleanFile
<1>3. p \in Paths
  <2>1. Head(queue) \in Listed
    BY <1>1 DEF TypeOK
  <2> QED  BY <2>1 DEF Listed
<1>4. n \in Nat
  OBVIOUS
<1> HIDE DEF h, p
<1>5. CASE h = home
  <2>1. TreeAt(h) = tree
    BY <1>5 DEF TreeAt
  <2>2. WellFormed(tree)
    BY DEF TreeOK, WellFormed, IsFolder, FolderIn
  <2>8. p \in DOMAIN tree /\ tree[p].kind = "file" /\ tree' = Cleaned(tree, p, n)
    BY <1>1, <1>2, <1>5, <2>1 DEF h, p
  <2>3. /\ Removes(Gone(tree, p, n)) /\ WellFormed(tree)'
        /\ \A q \in Gone(tree, p, n) : q = p \/ tree[q].kind = "folder"
    BY <1>4, <2>2, <2>8, RemoveFile DEF Removes
  <2>4. p \in DOMAIN tree /\ ~ IsFolder(p)
    BY <1>1, <2>1, <2>2 DEF IsFolder, WellFormed
  <2>5. \A q \in DOMAIN tree' : q \in DOMAIN tree /\ tree'[q] = tree[q]
    BY <2>3 DEF Removes
  <2>6. TreeOK'
    BY <2>3, <2>5 DEF TreeOK, WellFormed, FolderIn, IsFolder
  <2>7. "rmdir" \notin causes' => Gone(tree, p, n) = {p} \cup EmptiedParents(tree, p)
    <3>1. "rmdir" \notin causes' => ~ \E q \in EmptiedParents(tree, p) : Len(q) <= n
      BY <1>2, <2>1 DEF Fault, Faults
    <3>2. \A q \in EmptiedParents(tree, p) : Len(q) \in Nat
      BY DEF EmptiedParents, TreeOK, Paths
    <3> QED  BY <3>1, <3>2, <1>4 DEF Gone
  <2> QED  BY <1>1, <1>2, <1>3, <1>4, <1>5, <2>3, <2>4, <2>6, <2>7 DEF h, p
<1>6. CASE h # home
  <2>1. h \in DOMAIN former /\ TreeAt(h) = former[h].tree
    BY <1>1, <1>6 DEF TreeAt, NoFolders
  <2> QED  BY <1>1, <1>2, <1>3, <1>4, <1>6, <2>1 DEF h, p
<1> QED  BY <1>5, <1>6

\* A generated file is placed under a name of its folder.
LEMMA FileStep ==
    ASSUME TreeOK, TypeOK, RunOK, GenerateFile \/ (FailFile /\ ~ UNCHANGED tree)
    PROVE  \E name \in FileNames :
               LET p == Append(dir, name)
               IN  /\ Fits(p) /\ ~ IsFolder(p) /\ Places(p, File("script")) /\ TreeOK'
                   /\ \A q \in Paths : IsFolder(q)' <=> IsFolder(q)
                   /\ Returned(p) /\ known' = known \cup {p}
                   /\ p \in known => "collisions" \in causes'
                   /\ GenerateFile => list' = Append(list, [home |-> home, path |-> p])
<1>1. PICK name \in FileNames :
          /\ ~ IsFolder(Append(dir, name))
          /\ tree' = Write(Append(dir, name), File("script"))
          /\ Returned(Append(dir, name)) /\ known' = known \cup {Append(dir, name)}
          /\ Append(dir, name) \in known => "collisions" \in causes'
          /\ GenerateFile => list' = Append(list, [home |-> home, path |-> Append(dir, name)])
  <2>1. CASE GenerateFile
    BY <2>1 DEF GenerateFile, GenerateUniquePath, Faults, Collision
  <2>2. CASE FailFile /\ ~ UNCHANGED tree /\ ~ GenerateFile
    BY <2>2 DEF FailFile, GenerateUniquePath, Faults, Collision
  <2> QED  BY <2>1, <2>2
<1>2. name \in STRING /\ dir \in Paths /\ IsFolder(dir)
  BY DeployAssumption DEF TypeOK, RunOK, GenerateFile, FailFile
<1>3. Fits(Append(dir, name))
  BY <1>2, AppendFits
<1> DEFINE p == Append(dir, name)
<1> HIDE DEF p
<1>4. Places(p, File("script"))
  BY <1>1, WritePlaces DEF p
<1>5. TreeOK' /\ \A q \in Paths : IsFolder(q)' <=> IsFolder(q)
  BY <1>1, <1>3, <1>4, PlaceFile DEF p
<1> QED  BY <1>1, <1>3, <1>4, <1>5 DEF p

\* A generated folder is placed where none was.
LEMMA FolderStep ==
    ASSUME TreeOK, TypeOK, RunOK, GenerateFolder
    PROVE  \E name \in FolderNames :
               LET p == Append(dir, name)
               IN  /\ Fits(p) /\ IsDrawn(p) /\ TreeOK'
                   /\ \A q \in Paths : IsFolder(q)' <=> IsFolder(q) \/ q = p
                   /\ \/ IsFolder(p) /\ UNCHANGED tree
                      \/ p \notin DOMAIN tree /\ Places(p, Folder("script"))
                   /\ Returned(p) /\ known' = known \cup {p}
                   /\ p \in known => "collisions" \in causes'
                   /\ list' = Append(list, [home |-> home, path |-> p])
                   /\ dir' = p
<1>1. PICK name \in FolderNames :
          /\ Append(dir, name) \in DOMAIN tree => IsFolder(Append(dir, name))
          /\ tree' = IF IsFolder(Append(dir, name)) THEN tree
                     ELSE Write(Append(dir, name), Folder("script"))
          /\ Returned(Append(dir, name)) /\ known' = known \cup {Append(dir, name)}
          /\ Append(dir, name) \in known => "collisions" \in causes'
          /\ list' = Append(list, [home |-> home, path |-> Append(dir, name)])
          /\ dir' = Append(dir, name)
  BY DEF GenerateFolder, GenerateUniquePath, Faults, Collision
<1>2. name \in STRING /\ dir \in Paths /\ IsFolder(dir) /\ IsGenerated(dir)
  BY DeployAssumption DEF TypeOK, RunOK, GenerateFolder
<1>3. Fits(Append(dir, name)) /\ IsDrawn(Append(dir, name))
  BY <1>2, AppendFits, DrawnPaths
<1> DEFINE p == Append(dir, name)
<1> HIDE DEF p
<1>4. CASE IsFolder(p)
  <2>1. UNCHANGED tree
    BY <1>1, <1>4 DEF p
  <2>2. TreeOK' /\ \A q \in Paths : IsFolder(q)' <=> IsFolder(q)
    BY <2>1 DEF TreeOK, IsFolder
  <2> QED  BY <1>1, <1>3, <1>4, <2>1, <2>2 DEF p
<1>5. CASE ~ IsFolder(p)
  <2>1. p \notin DOMAIN tree /\ Places(p, Folder("script"))
    BY <1>1, <1>5, WritePlaces DEF p
  <2>2. TreeOK' /\ \A q \in Paths : IsFolder(q)' <=> IsFolder(q) \/ q = p
    BY <1>3, <2>1, PlaceFolder DEF p
  <2> QED  BY <1>1, <1>3, <2>1, <2>2 DEF p
<1> QED  BY <1>4, <1>5

\* The configuration is written in its place, for the user.
LEMMA ConfigStep ==
    ASSUME TreeOK, ConfigOK, WriteConfig \/ (Crash /\ ~ UNCHANGED tree)
    PROVE  /\ phase = "config" /\ IsFolder(Frontend)
           /\ Fits(ConfigFile) /\ ~ IsFolder(ConfigFile) /\ Places(ConfigFile, File("own")) /\ TreeOK'
           /\ \A q \in Paths : IsFolder(q)' <=> IsFolder(q)
           /\ owned' = owned \cup {ConfigFile}
<1>1. phase = "config" /\ tree' = Write(ConfigFile, File("own")) /\ owned' = owned \cup {ConfigFile}
  BY DEF WriteConfig, Crash
<1>2. IsFolder(Frontend) /\ ~ IsFolder(ConfigFile)
  BY <1>1 DEF ConfigOK, TreeOK
<1>3. Fits(ConfigFile) /\ Places(ConfigFile, File("own"))
  BY <1>1, <1>2, ConfigFits, WritePlaces
<1> QED  BY <1>1, <1>2, <1>3, PlaceFile

\* The user writes another file than the configuration.
LEMMA UserStep ==
    ASSUME TreeOK, UserWrites
    PROVE  \E p \in Paths :
               /\ Fits(p) /\ ~ IsFolder(p) /\ p # ConfigFile /\ Places(p, File("own")) /\ TreeOK'
               /\ \A q \in Paths : IsFolder(q)' <=> IsFolder(q)
               /\ owned' = owned \cup {p}
<1>1. PICK folder \in {<<>>} \cup DOMAIN tree, name \in FileNames :
          /\ IsFolder(folder) /\ ~ IsFolder(Append(folder, name)) /\ Append(folder, name) # ConfigFile
          /\ tree' = Write(Append(folder, name), File("own"))
          /\ owned' = owned \cup {Append(folder, name)}
  BY DEF UserWrites
<1>2. name \in STRING /\ folder \in Paths
  <2>1. name \in STRING
    BY DeployAssumption
  <2>2. <<>> \in Paths /\ DOMAIN tree \subseteq Paths
    BY DEF TreeOK, Paths
  <2> QED  BY <2>1, <2>2
<1> DEFINE p == Append(folder, name)
<1>3. Fits(p)
  BY <1>1, <1>2, AppendFits
<1> HIDE DEF p
<1>4. ~ IsFolder(p) /\ p # ConfigFile /\ Places(p, File("own")) /\ owned' = owned \cup {p}
  BY <1>1, WritePlaces DEF p
<1> QED  BY <1>3, <1>4, PlaceFile DEF Fits

\* The steps, by what they do to the tree.
LEMMA Steps ==
    Next <=> \/ QuietStep \/ CleanFile \/ GenerateFile \/ (FailFile /\ ~ UNCHANGED tree) \/ GenerateFolder
             \/ WriteConfig \/ (Crash /\ ~ UNCHANGED tree) \/ UserWrites
  BY DEF Next, QuietStep

\* Every step keeps the tree a tree,
LEMMA TreeStep == ASSUME TreeOK, TypeOK, RunOK, ConfigOK, Next PROVE TreeOK'
<1>1. CASE QuietStep
  BY <1>1, QuietSteps DEF TreeOK, IsFolder
<1>2. CASE CleanFile
  <2>1. TreeOK' \/ UNCHANGED tree
    BY <1>2, CleanStep
  <2> QED  BY <2>1 DEF TreeOK, IsFolder
<1>3. CASE GenerateFile \/ (FailFile /\ ~ UNCHANGED tree)
  BY <1>3, FileStep
<1>4. CASE GenerateFolder
  BY <1>4, FolderStep
<1>5. CASE WriteConfig \/ (Crash /\ ~ UNCHANGED tree)
  BY <1>5, ConfigStep
<1>6. CASE UserWrites
  BY <1>6, UserStep
<1> QED  BY <1>1, <1>2, <1>3, <1>4, <1>5, <1>6, Steps

\* the types,
LEMMA TypeStep == ASSUME TreeOK, TypeOK, RunOK, ConfigOK, Next PROVE TypeOK'
<1> USE DEF memory, chain
<1>0. \A c \in Caches : c.paths \in Seq(Listed)
  <2>1. NoCache.paths = <<>> /\ TornCache.paths = <<>> /\ \A s \in Seq(Listed) : CacheOf(s).paths = s
    BY DEF NoCache, TornCache, CacheOf
  <2>2. <<>> \in Seq(Listed)
    OBVIOUS
  <2> SUFFICES ASSUME NEW c \in Caches PROVE c.paths \in Seq(Listed)
    OBVIOUS
  <2>3. c \in {NoCache, TornCache} \/ \E s \in Seq(Listed) : c = CacheOf(s)
    BY DEF Caches
  <2> QED  BY <2>1, <2>2, <2>3
<1>1. ASSUME NEW p \in Paths PROVE Append(list, [home |-> home, path |-> p]) \in Seq(Listed)
  <2>1. [home |-> home, path |-> p] \in Listed /\ list \in Seq(Listed)
    BY DEF TypeOK, Listed
  <2> QED  BY <2>1, AppendProperties
<1>2. CASE StartRun
  <2>3. queue' \in {cache.paths, <<>>} /\ todo' = BaseDirs
    BY <1>2 DEF StartRun
  <2>4. cache.paths \in Seq(Listed) /\ <<>> \in Seq(Listed)
    BY <1>0 DEF TypeOK
  <2>1. queue' \in Seq(Listed) /\ todo' \in Seq(Paths)
    BY <2>3, <2>4, DeployAssumption
  <2>2. /\ list' = <<>> /\ dir' = <<>> /\ left' = 0 /\ runs' \in Nat /\ phase' \in {"clean", "generate"}
        /\ UNCHANGED <<cache, home, owned, returned>>
    BY <1>2 DEF StartRun, TypeOK
  <2> QED  BY <2>1, <2>2 DEF TypeOK, Paths
<1>3. CASE CleanFile \/ SkipFile
  <2>1. /\ queue # <<>> /\ queue' = Tail(queue)
        /\ UNCHANGED <<cache, home, phase, list, todo, dir, left, runs, owned, returned>>
    BY <1>3 DEF CleanFile, SkipFile
  <2>2. queue' \in Seq(Listed)
    BY <2>1 DEF TypeOK
  <2> QED  BY <2>1, <2>2 DEF TypeOK
<1>4. CASE EndClean
  BY <1>4 DEF EndClean, TypeOK, Caches
<1>5. CASE EnterBase
  <2>1. todo # <<>> /\ Head(todo) \in Paths /\ Tail(todo) \in Seq(Paths)
    BY <1>5 DEF EnterBase, TypeOK
  <2>2. left' \in Nat /\ phase' \in {"files", "generate"}
    BY <1>5, DeployAssumption DEF EnterBase, TypeOK
  <2> QED  BY <1>5, <2>1, <2>2 DEF EnterBase, TypeOK
<1>6. CASE GenerateFile \/ (FailFile /\ ~ UNCHANGED tree)
  <2>1. PICK name \in FileNames :
            /\ Append(dir, name) \in Paths /\ Returned(Append(dir, name))
            /\ GenerateFile => list' = Append(list, [home |-> home, path |-> Append(dir, name)])
    BY <1>6, FileStep DEF Fits
  <2>2. list' \in Seq(Listed)
    BY <1>1, <1>6, <2>1 DEF TypeOK, FailFile
  <2>4. returned' \subseteq Paths
    BY <2>1 DEF Returned, TypeOK
  <2>3. left > 0 /\ left' = left - 1 /\ UNCHANGED <<cache, home, phase, queue, todo, dir, runs, owned>>
    BY <1>6 DEF GenerateFile, FailFile
  <2> QED  BY <2>2, <2>3, <2>4 DEF TypeOK
<1>7. CASE FailFile /\ UNCHANGED tree
  <2>1. PICK name \in FileNames : Returned(Append(dir, name))
    BY <1>7 DEF FailFile
  <2>2. Append(dir, name) \in Paths
    BY DeployAssumption, AppendFolders DEF TypeOK
  <2>3. returned' \subseteq Paths
    BY <2>1, <2>2 DEF Returned, TypeOK
  <2>4. left > 0 /\ left' = left - 1 /\ UNCHANGED <<cache, home, phase, queue, list, todo, dir, runs, owned>>
    BY <1>7 DEF FailFile
  <2> QED  BY <2>3, <2>4 DEF TypeOK
<1>8. CASE GenerateFolder
  <2>1. PICK name \in FolderNames :
            /\ Append(dir, name) \in Paths /\ Returned(Append(dir, name))
            /\ list' = Append(list, [home |-> home, path |-> Append(dir, name)])
            /\ dir' = Append(dir, name)
    BY <1>8, FolderStep DEF Fits
  <2>2. list' \in Seq(Listed) /\ dir' \in Paths
    BY <1>1, <2>1
  <2>4. returned' \subseteq Paths
    BY <2>1 DEF Returned, TypeOK
  <2>3. left' \in Nat /\ UNCHANGED <<cache, home, phase, queue, todo, runs, owned>>
    BY <1>8, DeployAssumption DEF GenerateFolder
  <2> QED  BY <2>2, <2>3, <2>4 DEF TypeOK
<1>9. CASE FailFolder
  <2>1. PICK name \in FolderNames : Returned(Append(dir, name))
    BY <1>9 DEF FailFolder
  <2>2. Append(dir, name) \in Paths
    BY DeployAssumption, AppendFolders DEF TypeOK
  <2>3. returned' \subseteq Paths
    BY <2>1, <2>2 DEF Returned, TypeOK
  <2> QED  BY <1>9, <2>3 DEF FailFolder, TypeOK
<1>10. CASE LeaveFolder \/ DeployContract \/ CopyAbi
  BY <1>10 DEF LeaveFolder, DeployContract, CopyAbi, TypeOK
<1>11. CASE WriteCache
  BY <1>11 DEF WriteCache, TypeOK, Caches
<1>12. CASE WriteConfig
  BY <1>12, DeployAssumption DEF WriteConfig, TypeOK
<1>13. CASE Crash
  <2>1. cache' \in Caches /\ owned' \subseteq Paths
    BY <1>13, DeployAssumption DEF Crash, TypeOK, Caches
  <2>2. /\ phase' = "idle" /\ queue' = <<>> /\ list' = <<>> /\ todo' = <<>> /\ dir' = <<>> /\ left' = 0
        /\ UNCHANGED <<home, runs, returned>>
    BY <1>13 DEF Crash
  <2> QED  BY <2>1, <2>2 DEF TypeOK, Paths
<1>14. CASE Clone
  BY <1>14 DEF Clone, TypeOK
<1>15. CASE UserWrites
  <2>1. owned' \subseteq Paths
    BY <1>15, UserStep DEF TypeOK
  <2> QED  BY <1>15, <2>1 DEF UserWrites, TypeOK
<1> QED
  BY <1>2, <1>3, <1>4, <1>5, <1>6, <1>7, <1>8, <1>9, <1>10, <1>11, <1>12, <1>13, <1>14, <1>15 DEF Next

\* What the cache holds in each of its states.
LEMMA CacheFacts ==
    ASSUME TypeOK
    PROVE  /\ cache.paths \in Seq(Listed) /\ (cache.state # "list" => cache.paths = <<>>)
           /\ NoCache.paths = <<>> /\ TornCache.paths = <<>>
           /\ \A s \in Seq(Listed) : CacheOf(s).paths = s /\ CacheOf(s).state = "list"
<1>1. /\ NoCache.paths = <<>> /\ TornCache.paths = <<>>
      /\ \A s \in Seq(Listed) : CacheOf(s).paths = s /\ CacheOf(s).state = "list"
  BY DEF NoCache, TornCache, CacheOf
<1>2. NoCache.state = "none" /\ TornCache.state = "torn" /\ <<>> \in Seq(Listed)
  BY DEF NoCache, TornCache
<1>3. cache \in {NoCache, TornCache} \/ \E s \in Seq(Listed) : cache = CacheOf(s)
  BY DEF TypeOK, Caches
<1> QED  BY <1>1, <1>2, <1>3

\* Every step keeps a run within its phases,
LEMMA RunStep == ASSUME TreeOK, TypeOK, RunOK, ConfigOK, Next PROVE RunOK'
<1> USE DEF memory, chain
<1>1. CASE StartRun
  BY <1>1, CacheFacts DEF StartRun, RunOK
<1>2. CASE CleanFile \/ SkipFile \/ EndClean
  BY <1>2, CacheFacts DEF CleanFile, SkipFile, EndClean, RunOK
<1>3. CASE EnterBase
  <2>1. /\ todo # <<>> /\ Head(todo) = todo[1] /\ Len(todo) \in Nat /\ Len(Tail(todo)) = Len(todo) - 1
        /\ \A i \in DOMAIN Tail(todo) : i + 1 \in DOMAIN todo /\ Tail(todo)[i] = todo[i + 1]
    BY <1>3 DEF EnterBase, TypeOK
  <2>2. Len(todo') < Len(BaseDirs) /\ Len(BaseDirs) \in Nat
    BY <1>3, <2>1, DeployAssumption DEF EnterBase, RunOK
  <2>3. \A i \in DOMAIN todo' : \E j \in DOMAIN BaseDirs : todo'[i] = BaseDirs[j]
    BY <1>3, <2>1 DEF EnterBase, RunOK
  <2>4. 1 \in DOMAIN todo
    BY <2>1 DEF TypeOK
  <2>5. phase' = "files" => IsFolder(dir)' /\ IsGenerated(dir)'
    BY <1>3, <2>1, <2>4 DEF EnterBase, RunOK, IsFolder, IsGenerated
  <2>6. phase' \in {"files", "generate"}
    BY <1>3 DEF EnterBase, RunOK
  <2> QED  BY <2>2, <2>3, <2>5, <2>6 DEF RunOK
<1>4. CASE GenerateFile \/ FailFile
  <2>1. \A q \in Paths : IsFolder(q) => IsFolder(q)'
    BY <1>4, FileStep DEF IsFolder
  <2>2. UNCHANGED <<phase, dir, todo, cache>> /\ phase = "files"
    BY <1>4 DEF GenerateFile, FailFile
  <2> QED  BY <2>1, <2>2 DEF RunOK, TypeOK, IsGenerated
<1>5. CASE GenerateFolder
  <2>1. IsFolder(dir)' /\ IsGenerated(dir)'
    BY <1>5, FolderStep DEF Fits, IsGenerated, IsFolder
  <2>2. UNCHANGED <<phase, todo, cache>> /\ phase = "files"
    BY <1>5 DEF GenerateFolder
  <2> QED  BY <2>1, <2>2 DEF RunOK
<1>6. CASE FailFolder \/ LeaveFolder
  BY <1>6, DeployAssumption DEF FailFolder, LeaveFolder, RunOK, TypeOK
<1>7. CASE WriteCache \/ DeployContract \/ WriteConfig \/ CopyAbi \/ Clone \/ UserWrites
  BY <1>7 DEF WriteCache, DeployContract, WriteConfig, CopyAbi, Clone, UserWrites, RunOK
<1>8. CASE Crash
  <2>1. phase' = "idle" /\ todo' = <<>>
    BY <1>8 DEF Crash
  <2>2. Len(BaseDirs) \in Nat
    BY DeployAssumption
  <2> QED  BY <2>1, <2>2 DEF RunOK
<1> QED  BY <1>1, <1>2, <1>3, <1>4, <1>5, <1>6, <1>7, <1>8 DEF Next

\* A step makes the list longer by one path, or begins another
LEMMA ListStep ==
    ASSUME TreeOK, TypeOK, RunOK, Next
    PROVE  /\ returned \subseteq returned' /\ causes \subseteq causes'
           /\ \/ UNCHANGED list \/ list' = <<>>
              \/ \E p \in Paths : /\ list' = Append(list, [home |-> home, path |-> p])
                                  /\ returned' = returned \cup {p}
<1> USE DEF memory, chain, Fault, Faults
<1>1. CASE GenerateFile
  <2>1. PICK name \in FileNames :
            LET p == Append(dir, name)
            IN  /\ p \in Paths /\ list' = Append(list, [home |-> home, path |-> p])
                /\ returned' = returned \cup {p}
    BY <1>1, FileStep DEF Fits, Returned
  <2>2. causes \subseteq causes'
    BY <1>1 DEF GenerateFile, GenerateUniquePath
  <2> QED  BY <2>1, <2>2
<1>2. CASE GenerateFolder
  <2>1. PICK name \in FolderNames :
            LET p == Append(dir, name)
            IN  /\ p \in Paths /\ list' = Append(list, [home |-> home, path |-> p])
                /\ returned' = returned \cup {p}
    BY <1>2, FolderStep DEF Fits, Returned
  <2>2. causes \subseteq causes'
    BY <1>2 DEF GenerateFolder, GenerateUniquePath
  <2> QED  BY <2>1, <2>2
<1>3. CASE FailFile \/ FailFolder
  BY <1>3 DEF FailFile, FailFolder, Returned
<1>4. CASE StartRun \/ SkipFile \/ Crash
  BY <1>4 DEF StartRun, SkipFile, Crash
<1>5. CASE CleanFile \/ EndClean \/ EnterBase \/ LeaveFolder \/ WriteCache
  BY <1>5 DEF CleanFile, EndClean, EnterBase, LeaveFolder, WriteCache
<1>6. CASE DeployContract \/ WriteConfig \/ CopyAbi \/ Clone \/ UserWrites
  BY <1>6 DEF DeployContract, WriteConfig, CopyAbi, Clone, UserWrites
<1> QED  BY <1>1, <1>2, <1>3, <1>4, <1>5, <1>6 DEF Next

\* Which entries of the lists a step keeps
LEMMA ListsStep ==
    ASSUME TreeOK, TypeOK, RunOK, ListsOK, Next PROVE ListsOK'
<1> USE DEF memory, chain
<1>1. returned \subseteq returned'
  BY ListStep
<1>2. \A i \in DOMAIN list' : list'[i].path \in returned'
  <2>1. ASSUME NEW p \in Paths, list' = Append(list, [home |-> home, path |-> p]),
               returned' = returned \cup {p}, NEW i \in DOMAIN list'
        PROVE  list'[i].path \in returned'
    <3>1. /\ list \in Seq(Listed) /\ [home |-> home, path |-> p] \in Listed
          /\ Len(list) \in Nat /\ DOMAIN list = 1 .. Len(list)
      BY DEF TypeOK, Listed
    <3>2. i \in 1 .. Len(list) + 1 /\ list'[i] = IF i = Len(list) + 1 THEN [home |-> home, path |-> p] ELSE list[i]
      BY <2>1, <3>1, AppendProperties
    <3> QED  BY <2>1, <3>1, <3>2 DEF ListsOK
  <2>2. CASE UNCHANGED list
    BY <1>1, <2>2 DEF ListsOK
  <2>3. CASE list' = <<>>
    BY <2>3
  <2> QED  BY <2>1, <2>2, <2>3, ListStep
<1>3. \A i \in DOMAIN queue' : queue'[i].path \in returned'
  <2>1. UNCHANGED queue \/ queue' = <<>> \/ queue' = cache.paths \/ (queue # <<>> /\ queue' = Tail(queue))
    BY DEF Next, StartRun, CleanFile, SkipFile, EndClean, EnterBase, GenerateFile, FailFile,
       GenerateFolder, FailFolder, LeaveFolder, WriteCache, DeployContract, WriteConfig, CopyAbi,
       Crash, Clone, UserWrites
  <2>2. queue # <<>> => \A i \in DOMAIN Tail(queue) : i + 1 \in DOMAIN queue /\ Tail(queue)[i] = queue[i + 1]
    BY DEF TypeOK
  <2> QED  BY <1>1, <2>1, <2>2 DEF ListsOK
<1>4. \A i \in DOMAIN cache'.paths : cache'.paths[i].path \in returned'
  <2>1. UNCHANGED cache \/ cache' \in {NoCache, TornCache} \/ cache' = CacheOf(list)
    BY DEF Next, StartRun, CleanFile, SkipFile, EndClean, EnterBase, GenerateFile, FailFile,
       GenerateFolder, FailFolder, LeaveFolder, WriteCache, DeployContract, WriteConfig, CopyAbi,
       Crash, Clone, UserWrites
  <2>2. cache'.paths \in {cache.paths, <<>>, list}
    BY <2>1, CacheFacts DEF TypeOK
  <2> QED  BY <1>1, <2>2 DEF ListsOK
<1> QED  BY <1>2, <1>3, <1>4 DEF ListsOK

\* the files of the project lost only where the script returned a path,
LEMMA OwnStep == ASSUME TreeOK, TypeOK, RunOK, ListsOK, OwnOK, ConfigOK, Next PROVE OwnOK'
<1> USE DEF File, Folder
<1>0. returned \subseteq returned'
  BY ListStep
<1>1. CASE QuietStep
  <2>1. UNCHANGED tree
    BY <1>1, QuietSteps
  <2>2. UNCHANGED owned \/ (tree' = Write(ConfigFile, File("own")) /\ owned' = owned \cup {ConfigFile})
    BY <1>1 DEF QuietStep, StartRun, SkipFile, EndClean, EnterBase, FailFolder, LeaveFolder,
       WriteCache, DeployContract, CopyAbi, Clone, FailFile, Crash
  <2>3. owned' \subseteq owned \cup {p \in DOMAIN tree : tree[p] = File("own")}
    <3>1. CASE tree' = Write(ConfigFile, File("own")) /\ owned' = owned \cup {ConfigFile}
      <4>1. Places(ConfigFile, File("own"))
        BY <3>1, WritePlaces
      <4> QED  BY <2>1, <3>1, <4>1 DEF Places
    <3> QED  BY <2>2, <3>1
  <2> QED  BY <1>0, <2>1, <2>3 DEF OwnOK, Saved, Lost
<1>2. CASE CleanFile
  <2> DEFINE p == Head(queue).path
  <2>0. UNCHANGED owned /\ p \in returned
    BY <1>2, CleanStep DEF CleanFile, ListsOK, TypeOK
  <2> HIDE DEF p
  <2>1. CASE UNCHANGED tree
    BY <1>0, <2>0, <2>1 DEF OwnOK, Saved, Lost
  <2>2. CASE ~ UNCHANGED tree
    <3>1. PICK n \in Nat : /\ Removes(Gone(tree, p, n))
                          /\ \A q \in Gone(tree, p, n) : q = p \/ tree[q].kind = "folder"
      BY <1>2, <2>2, CleanStep DEF p
    <3>2. ASSUME NEW x \in owned, x \in DOMAIN tree, x \notin DOMAIN tree' PROVE x \in returned
      <4>1. x = p \/ tree[x].kind = "folder"
        BY <3>1, <3>2 DEF Removes
      <4>2. x = p \/ tree[x].by # "own"
        BY <3>2, <4>1 DEF OwnOK, Saved
      <4> QED  BY <2>0, <3>2, <4>2 DEF OwnOK, Saved, Lost, TreeOK, Entry
    <3> QED  BY <1>0, <2>0, <3>1, <3>2 DEF OwnOK, Saved, Lost, Removes
  <2> QED  BY <2>1, <2>2
<1>3. CASE GenerateFile \/ (FailFile /\ ~ UNCHANGED tree)
  <2>1. UNCHANGED owned
    BY <1>3 DEF GenerateFile, FailFile
  <2>2. PICK p \in Paths : Places(p, File("script")) /\ returned' = returned \cup {p}
    BY <1>3, FileStep DEF Fits, Returned
  <2> QED  BY <2>1, <2>2 DEF OwnOK, Saved, Lost, Places
<1>4. CASE GenerateFolder
  <2>1. UNCHANGED owned
    BY <1>4 DEF GenerateFolder
  <2>2. UNCHANGED tree \/ \E p \in Paths : p \notin DOMAIN tree /\ Places(p, Folder("script"))
    BY <1>4, FolderStep DEF Fits
  <2>3. CASE UNCHANGED tree
    BY <1>0, <2>1, <2>3 DEF OwnOK, Saved, Lost
  <2>4. ASSUME NEW p \in Paths, p \notin DOMAIN tree, Places(p, Folder("script")) PROVE OwnOK'
    <3>1. \A x \in owned : Lost(tree, x)' => Lost(tree, x)
      BY <2>4 DEF Lost, Places
    <3>2. \A x \in owned : x \in DOMAIN tree' /\ tree'[x].by = "own" => x \in DOMAIN tree /\ tree'[x] = tree[x]
      BY <2>4 DEF Places
    <3> QED  BY <1>0, <2>1, <3>1, <3>2 DEF OwnOK, Saved
  <2> QED  BY <2>2, <2>3, <2>4
<1>5. CASE WriteConfig \/ (Crash /\ ~ UNCHANGED tree)
  BY <1>0, <1>5, ConfigStep DEF OwnOK, Saved, Lost, Places
<1>6. CASE UserWrites
  <2>1. PICK p \in Paths : Places(p, File("own")) /\ owned' = owned \cup {p}
    BY <1>6, UserStep
  <2> QED  BY <1>0, <2>1 DEF OwnOK, Saved, Lost, Places
<1> QED  BY <1>1, <1>2, <1>3, <1>4, <1>5, <1>6, Steps

\* there and in the folders the project was cloned from,
LEMMA FormerStep ==
    ASSUME TreeOK, TypeOK, RunOK, ListsOK, OwnOK, FormerOK, Next
    PROVE  FormerOK'
<1>0. returned \subseteq returned'
  BY ListStep
<1> DEFINE Kept(r) == /\ r = [tree |-> r.tree, owned |-> r.owned]
                      /\ WellFormed(r.tree) /\ Saved(r.tree, r.owned, returned')
<1>1. ASSUME NEW h \in DOMAIN former PROVE Kept(former[h])
  BY <1>0 DEF FormerOK, Saved
<1>2. CASE UNCHANGED former
  BY <1>1, <1>2 DEF FormerOK, Saved
<1>3. CASE Clone /\ ~ UNCHANGED former
  <2> DEFINE r == [tree |-> tree, owned |-> owned]
  <2>1. former' = Put(former, home, r)
    BY <1>3 DEF Clone
  <2>2. r.tree = tree /\ r.owned = owned
    OBVIOUS
  <2>3. WellFormed(tree)
    BY DEF TreeOK, WellFormed, IsFolder, FolderIn
  <2>4. Saved(tree, owned, returned)
    BY DEF OwnOK
  <2> HIDE DEF r
  <2>5. Kept(r)
    BY <1>0, <2>2, <2>3, <2>4 DEF Saved, r
  <2> HIDE DEF Kept
  <2>6. /\ DOMAIN former' = DOMAIN former \cup {home}
        /\ \A h \in DOMAIN former' : former'[h] \in {r} \cup {former[k] : k \in DOMAIN former}
    BY <2>1 DEF Put
  <2>7. \A h \in DOMAIN former' : Kept(former'[h])
    BY <1>1, <2>5, <2>6
  <2>8. former' = [h \in DOMAIN former' |-> former'[h]]
    BY <2>1 DEF Put
  <2> QED  BY <2>7, <2>8 DEF FormerOK, Kept, Saved
<1>4. CASE CleanFile /\ ~ UNCHANGED former
  <2> DEFINE h == Head(queue).home
             p == Head(queue).path
  <2>1. PICK n \in Nat :
            /\ h \in DOMAIN former /\ p \in DOMAIN former[h].tree /\ former[h].tree[p].kind = "file"
            /\ former' = [former EXCEPT ![h].tree = Cleaned(@, p, n)]
    BY <1>4, CleanStep
  <2>2. p \in returned /\ UNCHANGED returned
    BY <1>4 DEF CleanFile, ListsOK, TypeOK
  <2> HIDE DEF h, p
  <2> DEFINE t == former[h].tree
             c == Cleaned(t, p, n)
  <2>3. /\ WellFormed(t) /\ Saved(t, former[h].owned, returned)
        /\ p \in DOMAIN t /\ t[p].kind = "file"
        /\ former[h] = [tree |-> t, owned |-> former[h].owned]
    BY <2>1 DEF FormerOK
  <2>4. /\ DOMAIN former' = DOMAIN former
        /\ former'[h] = [tree |-> c, owned |-> former[h].owned]
        /\ \A k \in DOMAIN former \ {h} : former'[k] = former[k]
        /\ former' = [k \in DOMAIN former' |-> former'[k]]
    <3> HIDE DEF c
    <3>0. former' = [former EXCEPT ![h] = [former[h] EXCEPT !.tree = c]]
      BY <2>1 DEF c
    <3>1. [former[h] EXCEPT !.tree = c] = [tree |-> c, owned |-> former[h].owned]
      BY <2>3
    <3> QED  BY <2>1, <3>0, <3>1
  <2> HIDE DEF t
  <2>5. /\ DOMAIN c = DOMAIN t \ Gone(t, p, n) /\ \A q \in DOMAIN t \ Gone(t, p, n) : c[q] = t[q]
        /\ WellFormed(c)
        /\ \A q \in Gone(t, p, n) : q = p \/ t[q].kind = "folder"
    BY <2>3, RemoveFile
  <2> HIDE DEF c
  <2>6. ASSUME NEW x \in former[h].owned
        PROVE  /\ Lost(c, x) => x \in returned
               /\ x \in DOMAIN c /\ c[x].by = "own" => c[x].kind = "file"
    <3>1. CASE x \in DOMAIN c
      BY <2>3, <2>5, <3>1 DEF Saved, Lost
    <3>2. CASE x \notin DOMAIN t
      BY <2>3, <2>5, <3>2 DEF Saved, Lost
    <3>3. CASE x \in Gone(t, p, n) /\ x \in DOMAIN t
      <4>1. x = p \/ t[x].kind = "folder"
        BY <2>5, <3>3
      <4>2. CASE x # p
        <5>1. t[x].kind = "folder" /\ t[x] \in Entry
          BY <2>3, <3>3, <4>1, <4>2 DEF WellFormed
        <5>2. t[x].by = "script"
          BY <2>3, <3>3, <5>1 DEF Saved, Entry
        <5> QED  BY <2>3, <2>5, <3>3, <5>2 DEF Saved, Lost
      <4> QED  BY <2>2, <2>5, <3>3, <4>2
    <3> QED  BY <2>5, <3>1, <3>2, <3>3
  <2>7. Kept(former'[h])
    <3>1. former'[h].tree = c /\ former'[h].owned = former[h].owned
      BY <2>4
    <3> QED  BY <2>2, <2>4, <2>5, <2>6, <3>1 DEF Saved
  <2> HIDE DEF Kept
  <2>8. \A k \in DOMAIN former' : Kept(former'[k])
    BY <1>1, <2>4, <2>7
  <2> QED  BY <2>4, <2>8 DEF FormerOK, Kept, Saved
<1>5. UNCHANGED former \/ Clone \/ CleanFile
  BY DEF Next, StartRun, SkipFile, EndClean, EnterBase, GenerateFile, FailFile,
     GenerateFolder, FailFolder, LeaveFolder, WriteCache, DeployContract, WriteConfig, CopyAbi,
     Crash, UserWrites
<1> QED  BY <1>2, <1>3, <1>4, <1>5

\* a scan that was not cut short ahead of all that is on disk,
LEMMA ScanStep == ASSUME TreeOK, TypeOK, RunOK, ConfigOK, ScanOK, Next PROVE ScanOK'
<1> USE DEF memory, chain, Fault, Faults, Happened
<1>1. CASE StartRun
  BY <1>1 DEF StartRun, ScanOK, FullScan
<1>2. CASE SkipFile \/ EndClean \/ EnterBase \/ LeaveFolder
  BY <1>2 DEF SkipFile, EndClean, EnterBase, LeaveFolder, ScanOK
<1>3. CASE CleanFile
  <2>1. DOMAIN tree' \subseteq DOMAIN tree
    BY <1>3, CleanStep DEF Removes
  <2>2. causes \subseteq causes' /\ UNCHANGED <<known, clobbered, phase>>
    BY <1>3 DEF CleanFile
  <2> QED  BY <2>1, <2>2 DEF ScanOK
<1>4. CASE GenerateFile \/ (FailFile /\ ~ UNCHANGED tree)
  <2>1. PICK name \in FileNames :
            LET p == Append(dir, name)
            IN  /\ DOMAIN tree' = DOMAIN tree \cup {p} /\ Returned(p) /\ known' = known \cup {p}
                /\ p \in known => "collisions" \in causes'
                /\ p # <<>>
    BY <1>4, FileStep DEF Places, Fits
  <2>2. phase = "files" /\ phase' = phase /\ causes \subseteq causes'
    BY <1>4 DEF GenerateFile, FailFile, GenerateUniquePath
  <2> QED  BY <2>1, <2>2 DEF ScanOK, Returned, OnDisk
<1>5. CASE (FailFile \/ FailFolder) /\ UNCHANGED tree
  <2>1. PICK p \in Paths \ {<<>>} :
            (p \in known => "collisions" \in causes') /\ known' = known \cup {p} /\ Returned(p)
    <3>1. PICK name \in FileNames \cup FolderNames :
              /\ Append(dir, name) \in known => "collisions" \in causes'
              /\ known' = known \cup {Append(dir, name)}
              /\ Returned(Append(dir, name))
      BY <1>5 DEF FailFile, FailFolder, GenerateUniquePath, Collision
    <3>2. Append(dir, name) \in Paths \ {<<>>}
      BY DeployAssumption, AppendFolders DEF TypeOK
    <3> QED  BY <3>1, <3>2
  <2>2. phase = "files" /\ phase' \in {"files", "generate"} /\ causes \subseteq causes'
    BY <1>5 DEF FailFile, FailFolder
  <2> QED  BY <1>5, <2>1, <2>2 DEF ScanOK, Returned, OnDisk
<1>6. CASE GenerateFolder
  <2>1. PICK name \in FolderNames :
            LET p == Append(dir, name)
            IN  /\ DOMAIN tree' \subseteq DOMAIN tree \cup {p} /\ Returned(p) /\ known' = known \cup {p}
                /\ p \in known => "collisions" \in causes'
                /\ p # <<>>
    BY <1>6, FolderStep DEF Places, Fits
  <2>2. phase = "files" /\ phase' = phase /\ causes \subseteq causes'
    BY <1>6 DEF GenerateFolder, GenerateUniquePath
  <2> QED  BY <2>1, <2>2 DEF ScanOK, Returned, OnDisk
<1>7. CASE WriteCache \/ DeployContract \/ WriteConfig \/ CopyAbi \/ Crash \/ Clone \/ UserWrites
  <2>1. phase' \notin {"clean", "generate", "files"} /\ causes \subseteq causes' /\ UNCHANGED clobbered
    BY <1>7 DEF WriteCache, DeployContract, WriteConfig, CopyAbi, Crash, Clone, UserWrites
  <2> QED  BY <2>1 DEF ScanOK
<1>8. FailFolder => UNCHANGED tree
  BY DEF FailFolder
<1> QED  BY <1>1, <1>2, <1>3, <1>4, <1>5, <1>6, <1>7, <1>8 DEF Next

\* A step that is no fault keeps the current list, drops its first entry or adds to
\* it what it makes; or the list is empty, and a cache that was not deleted stays
LEMMA CurrentStep ==
    ASSUME TypeOK, RunOK, Next, Clear'
    PROVE  /\ Clear /\ home' = home /\ ~ Crash /\ ~ FailFile /\ ~ FailFolder
           /\ CleanFile \/ SkipFile => Current = queue /\ queue # <<>> /\ Current' = Tail(queue)
           /\ GenerateFile \/ GenerateFolder => Current = list /\ Current' = list'
           /\ \/ Current' = Current
              \/ Current = <<>> /\ Current' = cache.paths
              \/ CleanFile \/ SkipFile \/ GenerateFile \/ GenerateFolder
<1> USE DEF memory, chain, Fault, Faults, Current
<1>1. causes' \cap {"crash", "unlink", "clone", "write", "read"} = {}
  BY DEF Clear, Happened
<1>2. Clear /\ home' = home /\ ~ Crash /\ ~ FailFile /\ ~ FailFolder
  <2>1. ~ Crash /\ ~ FailFile /\ ~ FailFolder /\ ~ Clone
    BY <1>1 DEF Crash, FailFile, FailFolder, Clone
  <2>2. causes \subseteq causes' /\ home' = home
    BY <2>1 DEF Next, StartRun, CleanFile, SkipFile, EndClean, EnterBase, GenerateFile, GenerateFolder,
       GenerateUniquePath, LeaveFolder, WriteCache, DeployContract, WriteConfig, CopyAbi, UserWrites
  <2> QED  BY <1>1, <2>1, <2>2 DEF Clear, Happened
<1>3. CleanFile \/ SkipFile => Current = queue /\ queue # <<>> /\ Current' = Tail(queue)
  BY DEF CleanFile, SkipFile
<1>4. GenerateFile \/ GenerateFolder => Current = list /\ Current' = list'
  BY DEF GenerateFile, GenerateFolder
<1>5. CASE StartRun
  <2>1. Current = cache.paths
    BY <1>5 DEF StartRun
  <2>2. Current' = queue' \/ Current' = list'
    BY <1>5 DEF StartRun
  <2>3. "read" \notin causes'
    BY <1>1
  <2>4. \/ queue' = cache.paths /\ phase' = "clean"
        \/ cache.paths = <<>> /\ phase' = "generate" /\ list' = <<>>
    <3>1. PICK C \in SUBSET {"scan", "read"} :
              /\ Faults(C) /\ list' = <<>>
              /\ IF cache.state = "list" /\ "read" \notin C
                 THEN phase' = "clean" /\ queue' = cache.paths
                 ELSE phase' = "generate" /\ queue' = <<>>
      BY <1>5 DEF StartRun
    <3>2. "read" \notin C
      BY <2>3, <3>1
    <3> QED  BY <3>1, <3>2, CacheFacts
  <2>5. Current' = Current
    BY <2>1, <2>4
  <2> QED  BY <1>2, <1>3, <1>4, <2>5
<1>6. CASE EndClean
  BY <1>2, <1>3, <1>4, <1>6 DEF EndClean, RunOK
<1>7. CASE EnterBase \/ LeaveFolder
  BY <1>2, <1>3, <1>4, <1>7 DEF EnterBase, LeaveFolder
<1>8. CASE WriteCache
  <2>1. list \in Seq(Listed) /\ CacheOf(list).paths = list
    BY CacheFacts DEF TypeOK
  <2> QED  BY <1>2, <1>3, <1>4, <1>8, <2>1 DEF WriteCache, RunOK
<1>9. CASE DeployContract \/ WriteConfig \/ CopyAbi \/ UserWrites
  BY <1>2, <1>3, <1>4, <1>9 DEF DeployContract, WriteConfig, CopyAbi, UserWrites
<1>10. ~ Clone
  BY <1>1 DEF Clone
<1> QED  BY <1>2, <1>3, <1>4, <1>5, <1>6, <1>7, <1>8, <1>9, <1>10 DEF Next

\* Which generated files there are after a step
LEMMA ScriptFilesStep ==
    ASSUME TreeOK, TypeOK, RunOK, ConfigOK, Next, ~ GenerateFile, ~ FailFile
    PROVE  \A p \in DOMAIN tree' : tree'[p] = File("script") => p \in DOMAIN tree /\ tree[p] = File("script")
<1> USE DEF File, Folder
<1>1. CASE QuietStep
  BY <1>1, QuietSteps
<1>2. CASE CleanFile
  BY <1>2, CleanStep DEF Removes
<1>3. CASE GenerateFolder
  <2>1. UNCHANGED tree \/ \E p \in Paths : Places(p, Folder("script"))
    BY <1>3, FolderStep DEF Fits
  <2>2. ASSUME NEW p \in Paths, Places(p, Folder("script")), NEW x \in DOMAIN tree', tree'[x] = File("script")
        PROVE  x \in DOMAIN tree /\ tree[x] = File("script")
    BY <2>2 DEF Places
  <2> QED  BY <2>1, <2>2
<1>4. CASE WriteConfig \/ (Crash /\ ~ UNCHANGED tree) \/ UserWrites
  <2>1. PICK p \in Paths : Places(p, File("own"))
    BY <1>4, ConfigStep, UserStep, DeployAssumption
  <2>2. ASSUME NEW x \in DOMAIN tree', tree'[x] = File("script")
        PROVE  x \in DOMAIN tree /\ tree[x] = File("script")
    BY <2>1, <2>2 DEF Places
  <2> QED  BY <2>2
<1> QED  BY <1>1, <1>2, <1>3, <1>4, Steps

\* every generated file in the list of what is on disk,
LEMMA TrackStep == ASSUME TreeOK, TypeOK, RunOK, ConfigOK, TrackOK, Next PROVE TrackOK'
<1> DEFINE Homes(s) == \A i \in DOMAIN s : s[i].home = 1
           Tracks(s) == \A p \in DOMAIN tree' : tree'[p] = File("script") => \E i \in DOMAIN s : s[i].path = p
<1> SUFFICES ASSUME Clear' PROVE home' = 1 /\ Homes(Current') /\ Homes(cache'.paths) /\ Tracks(Current')
  BY DEF TrackOK
<1>1. /\ Clear /\ home' = home /\ ~ FailFile /\ ~ FailFolder
      /\ home = 1 /\ Homes(Current) /\ Homes(cache.paths)
      /\ \A p \in DOMAIN tree : tree[p] = File("script") => \E i \in DOMAIN Current : Current[i].path = p
  BY CurrentStep DEF TrackOK
<1>5. Homes(cache'.paths)
  <2>1. ~ Crash
    BY CurrentStep
  <2>2. UNCHANGED cache \/ cache' = NoCache \/ (WriteCache /\ cache' = CacheOf(list))
    BY <2>1 DEF Next, StartRun, CleanFile, SkipFile, EndClean, EnterBase, GenerateFile, FailFile,
       GenerateFolder, FailFolder, LeaveFolder, WriteCache, DeployContract, WriteConfig, CopyAbi,
       Clone, UserWrites
  <2>3. WriteCache => Current = list
    BY DEF WriteCache, Current
  <2>4. list \in Seq(Listed)
    BY DEF TypeOK
  <2> QED  BY <1>1, <2>2, <2>3, <2>4, CacheFacts
<1>2. CASE CleanFile \/ SkipFile
  <2>1. Current = queue /\ queue # <<>> /\ Current' = Tail(queue) /\ queue \in Seq(Listed)
    BY <1>2, CurrentStep DEF TypeOK
  <2>2. /\ Head(queue) = queue[1] /\ 1 \in DOMAIN queue
        /\ \A i \in DOMAIN Tail(queue) : i + 1 \in DOMAIN queue /\ Tail(queue)[i] = queue[i + 1]
        /\ \A i \in DOMAIN queue : i # 1 => i - 1 \in DOMAIN Tail(queue) /\ Tail(queue)[i - 1] = queue[i]
    BY <2>1
  <2>3. ASSUME NEW p \in DOMAIN tree', tree'[p] = File("script") PROVE p \in DOMAIN tree /\ tree[p] = File("script") /\ p # Head(queue).path
    <3>1. p \in DOMAIN tree /\ tree[p] = File("script")
      BY <1>1, <1>2, <2>3, ScriptFilesStep DEF CleanFile, SkipFile, GenerateFile
    <3>2. CASE CleanFile
      <4>1. Head(queue).home = home
        BY <1>1, <2>1, <2>2
      <4>2. PICK n \in Nat : Removes(Gone(tree, Head(queue).path, n))
        BY <3>2, <4>1, CleanStep
      <4> QED  BY <2>3, <3>1, <4>2 DEF Removes, Gone
    <3>3. CASE SkipFile
      <4>1. ~ Unlinkable(Head(queue))
        BY <3>3 DEF SkipFile, Fault, Faults, Clear, Happened
      <4>2. Head(queue).home = home
        BY <1>1, <2>1, <2>2
      <4>3. tree[p].kind = "file"
        BY <3>1 DEF File
      <4> QED  BY <3>1, <4>1, <4>2, <4>3 DEF Unlinkable, Cleanable, TreeAt
    <3> QED  BY <1>2, <3>1, <3>2, <3>3
  <2>4. ASSUME NEW p \in DOMAIN tree', tree'[p] = File("script")
        PROVE  \E i \in DOMAIN Tail(queue) : Tail(queue)[i].path = p
    <3>1. PICK i \in DOMAIN queue : queue[i].path = p
      BY <1>1, <2>1, <2>3, <2>4
    <3>2. i # 1
      BY <2>2, <2>3, <2>4, <3>1
    <3> QED  BY <2>2, <3>1, <3>2
  <2> QED  BY <1>1, <1>5, <2>1, <2>2, <2>4
<1>3. CASE GenerateFile \/ GenerateFolder
  <2>1. Current = list /\ Current' = list' /\ list \in Seq(Listed)
    BY <1>3, CurrentStep DEF TypeOK
  <2>2. PICK p \in Paths :
            /\ list' = Append(list, [home |-> home, path |-> p])
            /\ \A x \in DOMAIN tree' : tree'[x] = File("script") => x = p \/ (x \in DOMAIN tree /\ tree[x] = File("script"))
    <3>1. CASE GenerateFile
      <4>1. PICK p \in Paths : Places(p, File("script")) /\ list' = Append(list, [home |-> home, path |-> p])
        BY <3>1, FileStep DEF Fits
      <4> QED  BY <4>1 DEF Places
    <3>2. CASE GenerateFolder /\ ~ GenerateFile
      <4>1. \E p \in Paths : list' = Append(list, [home |-> home, path |-> p])
        BY <3>2, FolderStep DEF Fits
      <4> QED  BY <1>1, <3>2, <4>1, ScriptFilesStep
    <3> QED  BY <1>3, <3>1, <3>2
  <2>3. [home |-> home, path |-> p] \in Listed
    BY DEF TypeOK, Listed
  <2>4. /\ DOMAIN list' = 1 .. Len(list) + 1 /\ DOMAIN list = 1 .. Len(list) /\ Len(list) \in Nat
        /\ list'[Len(list) + 1] = [home |-> home, path |-> p]
        /\ \A i \in 1 .. Len(list) : list'[i] = list[i]
    BY <2>1, <2>2, <2>3, AppendProperties
  <2>5. Homes(list')
    BY <1>1, <2>1, <2>4
  <2>6. ASSUME NEW x \in DOMAIN tree', tree'[x] = File("script") PROVE \E i \in DOMAIN list' : list'[i].path = x
    <3>1. CASE x = p
      BY <3>1, <2>4
    <3>2. CASE x \in DOMAIN tree /\ tree[x] = File("script")
      BY <1>1, <2>1, <2>4, <3>2
    <3> QED  BY <2>2, <2>6, <3>1, <3>2
  <2> QED  BY <1>1, <1>5, <2>1, <2>5, <2>6
<1>4. CASE ~ (CleanFile \/ SkipFile \/ GenerateFile \/ GenerateFolder)
  <2>1. Current' = Current \/ (Current = <<>> /\ Current' = cache.paths)
    BY <1>4, CurrentStep
  <2>2. \A p \in DOMAIN tree' : tree'[p] = File("script") => p \in DOMAIN tree /\ tree[p] = File("script")
    BY <1>1, <1>4, ScriptFilesStep
  <2> HIDE DEF Current
  <2>3. CASE Current' = Current
    BY <1>1, <1>5, <2>2, <2>3
  <2>4. CASE Current = <<>> /\ Current' = cache.paths
    BY <1>1, <1>5, <2>2, <2>4
  <2> QED  BY <2>1, <2>3, <2>4
<1> QED  BY <1>2, <1>3, <1>4

\* every generated folder filled,
LEMMA FolderOKStep ==
    ASSUME TreeOK, TypeOK, RunOK, ConfigOK, FolderOK, Next PROVE FolderOK'
<1> USE DEF File, Folder
<1> DEFINE Filled(q) == \E p \in DOMAIN tree : Below(q, p) /\ tree[p] = File("script")
           Exempt(q) == phase = "files" /\ left > 0 /\ IsPrefix(q, dir)
           Own(q) == \A p \in DOMAIN tree : Below(q, p) => tree[p].by = "script"
<1> SUFFICES ASSUME ~ Happened({"user", "rmdir"})',
                    NEW q \in DOMAIN tree', tree'[q] = Folder("script")
             PROVE  Own(q)' /\ (Clear' => Filled(q)' \/ Exempt(q)')
  BY DEF FolderOK
<1>0. ~ Happened({"user", "rmdir"}) /\ "rmdir" \notin causes' /\ (Clear' => Clear)
  BY ListStep DEF Happened, Clear
<1>1. CASE QuietStep
  <2>1. UNCHANGED tree
    BY <1>1, QuietSteps
  <2>2. Own(q) /\ (Clear => Filled(q) \/ Exempt(q))
    BY <1>0, <2>1 DEF FolderOK
  <2>3. Own(q)' /\ (Filled(q) => Filled(q)')
    BY <2>1, <2>2
  <2>4. Clear' => ~ Exempt(q)
    <3>1. Clear' => ~ Crash /\ ~ FailFile /\ ~ FailFolder
      BY CurrentStep
    <3>2. ~ Crash /\ ~ FailFile /\ ~ FailFolder => ~ Exempt(q)
      BY <1>1 DEF QuietStep, StartRun, SkipFile, EndClean, EnterBase, LeaveFolder, WriteCache,
         DeployContract, CopyAbi, Clone
    <3> QED  BY <3>1, <3>2
  <2> QED  BY <1>0, <2>2, <2>3, <2>4
<1>7. CASE CleanFile /\ UNCHANGED tree
  <2>1. phase = "clean" /\ UNCHANGED phase
    BY <1>7 DEF CleanFile
  <2>2. Own(q) /\ (Clear => Filled(q))
    BY <1>0, <1>7, <2>1 DEF FolderOK
  <2>3. Own(q)' /\ (Filled(q) => Filled(q)')
    BY <1>7, <2>2
  <2> QED  BY <1>0, <2>2, <2>3
<1>2. CASE CleanFile /\ ~ UNCHANGED tree
  <2> DEFINE p == Head(queue).path
  <2>1. /\ p \in DOMAIN tree /\ ~ IsFolder(p) /\ Removes({p} \cup EmptiedParents(tree, p))
    BY <1>0, <1>2, CleanStep
  <2>2. phase = "clean"
    BY <1>2 DEF CleanFile
  <2> HIDE DEF p
  <2>3. /\ q \in DOMAIN tree /\ tree[q] = Folder("script") /\ q # p /\ q \notin EmptiedParents(tree, p)
        /\ \A x \in DOMAIN tree' : x \in DOMAIN tree /\ tree'[x] = tree[x]
    BY <2>1 DEF Removes
  <2>4. Own(q)
    BY <1>0, <2>3 DEF FolderOK
  <2>5. Own(q)'
    BY <2>3, <2>4
  <2>6. ASSUME Clear PROVE Filled(q)'
    <3>0. DOMAIN tree \subseteq Paths
      BY DEF TreeOK
    <3>1. PICK x \in DOMAIN tree : Below(q, x) /\ tree[x] = File("script")
      BY <1>0, <2>2, <2>3, <2>6 DEF FolderOK
    <3>2. ASSUME NEW y \in DOMAIN tree, tree[y] = File("script"), Below(q, y), y # p PROVE Filled(q)'
      <4>1. y \notin EmptiedParents(tree, p)
        <5>1. y \in EmptiedParents(tree, p) => IsFolder(y)
          BY <2>1, <3>0 DEF EmptiedParents, TreeOK
        <5> QED  BY <3>0, <3>2, <5>1 DEF IsFolder, TreeOK
      <4>2. y \in DOMAIN tree' /\ tree'[y] = File("script")
        BY <2>1, <3>2, <4>1 DEF Removes
      <4> QED  BY <3>2, <4>2
    <3>3. ASSUME \A y \in DOMAIN tree : tree[y] = File("script") /\ Below(q, y) => y = p PROVE FALSE
      <4>1. Below(q, p)
        BY <3>1, <3>3
      <4>2. ASSUME NEW y \in DOMAIN tree, Below(q, y) PROVE IsPrefix(y, p)
        <5>1. tree[y] \in Entry /\ tree[y].by = "script"
          BY <2>4, <4>2 DEF TreeOK
        <5>2. tree[y] = File("script") \/ tree[y] = Folder("script")
          BY <5>1 DEF Entry
        <5>3. CASE tree[y] = File("script")
          BY <3>0, <3>3, <4>2, <5>3, PrefixOrder
        <5>4. CASE tree[y] = Folder("script")
          <6>1. PICK z \in DOMAIN tree : Below(y, z) /\ tree[z] = File("script")
            BY <1>0, <2>2, <2>6, <5>4 DEF FolderOK
          <6>2. Below(q, z)
            BY <2>3, <3>0, <4>2, <6>1, PrefixTransitive DEF Below, IsStrictPrefix
          <6> QED  BY <3>3, <6>1, <6>2 DEF Below, IsStrictPrefix
        <5> QED  BY <5>2, <5>3, <5>4
      <4> QED  BY <2>3, <4>1, <4>2 DEF EmptiedParents
    <3> QED  BY <3>2, <3>3
  <2> QED  BY <1>0, <2>5, <2>6
<1>3. CASE GenerateFile \/ (FailFile /\ ~ UNCHANGED tree)
  <2>1. PICK name \in FileNames :
            LET p == Append(dir, name)
            IN  Places(p, File("script")) /\ \A x \in Paths : Below(x, p) <=> IsPrefix(x, dir)
    <3>1. \A name \in FileNames : \A x \in Paths : Below(x, Append(dir, name)) <=> IsPrefix(x, dir)
      BY DeployAssumption, AppendFolders DEF TypeOK
    <3> QED  BY <1>3, <3>1, FileStep
  <2> DEFINE p == Append(dir, name)
  <2>2. /\ Places(p, File("script")) /\ \A x \in Paths : Below(x, p) <=> IsPrefix(x, dir)
    BY <2>1
  <2> HIDE DEF p
  <2>3. q \in DOMAIN tree /\ tree[q] = Folder("script") /\ q \in Paths
    BY <2>2 DEF Places, TreeOK
  <2>4. Own(q) /\ (Clear => Filled(q) \/ Exempt(q))
    BY <1>0, <2>3 DEF FolderOK
  <2>5. Own(q)'
    BY <2>2, <2>4 DEF Places
  <2>6. Exempt(q) => Filled(q)'
    BY <2>2, <2>3 DEF Places
  <2>7. Filled(q) => Filled(q)'
    BY <2>2 DEF Places
  <2> QED  BY <1>0, <2>4, <2>5, <2>6, <2>7
<1>4. CASE GenerateFolder
  <2>1. PICK p \in Paths \ {<<>>} :
            /\ \/ UNCHANGED tree
               \/ p \notin DOMAIN tree /\ Places(p, Folder("script"))
            /\ dir' = p
    BY <1>4, FolderStep DEF Fits
  <2>2. left = 0 /\ left' \in 1 .. MaxFiles /\ phase' = "files" /\ ~ Exempt(q)
    BY <1>4 DEF GenerateFolder
  <2>3. CASE q \in DOMAIN tree /\ tree[q] = Folder("script")
    <3>1. Own(q) /\ (Clear => Filled(q))
      BY <1>0, <2>2, <2>3 DEF FolderOK
    <3>2. Own(q)' /\ (Filled(q) => Filled(q)')
      BY <2>1, <3>1 DEF Places
    <3> QED  BY <1>0, <3>1, <3>2
  <2>4. CASE q = p /\ p \notin DOMAIN tree /\ Places(p, Folder("script"))
    <3>1. \A x \in DOMAIN tree : ~ Below(p, x)
      BY <2>1, <2>4 DEF TreeOK, IsFolder
    <3>2. Own(q)'
      BY <2>1, <2>4, <3>1, PrefixOrder DEF Places
    <3>3. Exempt(q)'
      BY <2>1, <2>2, <2>4, DeployAssumption, PrefixOrder
    <3> QED  BY <3>2, <3>3
  <2> QED  BY <2>1, <2>3, <2>4 DEF Places
<1>5. CASE WriteConfig \/ (Crash /\ ~ UNCHANGED tree)
  <2>1. /\ phase = "config" /\ IsFolder(Frontend) /\ Places(ConfigFile, File("own"))
        /\ \A x \in Paths : Below(x, ConfigFile) <=> IsPrefix(x, Frontend)
    BY <1>5, ConfigStep, ConfigFits
  <2>2. q \in DOMAIN tree /\ tree[q] = Folder("script") /\ q \in Paths
    BY <2>1 DEF Places, TreeOK
  <2>3. Own(q) /\ (Clear => Filled(q))
    BY <1>0, <2>1, <2>2 DEF FolderOK
  <2>4. ~ Below(q, ConfigFile)
    <3> SUFFICES ASSUME Below(q, ConfigFile) PROVE FALSE
      OBVIOUS
    <3>1. q = Frontend \/ Below(q, Frontend)
      BY <2>1, <2>2, PrefixOrder, DeployAssumption
    <3>2. IsDrawn(q) /\ q # Frontend
      BY <2>2, DrawnPaths DEF TreeOK
    <3>3. Frontend # <<>>
      BY <2>2, <3>1, <3>2, PrefixOrder DEF Below, IsStrictPrefix, TreeOK
    <3>4. Frontend \in DOMAIN tree /\ tree[Frontend].kind = "folder" /\ tree[Frontend].by = "script"
      BY <2>1, <2>3, <3>1, <3>2, <3>3 DEF IsFolder
    <3>5. tree[Frontend] = Folder("script")
      BY <3>4 DEF TreeOK, Entry
    <3> QED  BY <3>4, <3>5, DrawnPaths DEF TreeOK
  <2>5. Own(q)' /\ (Filled(q) => Filled(q)')
    BY <2>1, <2>3, <2>4 DEF Places
  <2> QED  BY <1>0, <2>3, <2>5
<1>6. CASE UserWrites
  BY <1>6 DEF UserWrites, Fault, Faults, Happened
<1> QED  BY <1>1, <1>2, <1>3, <1>4, <1>5, <1>6, <1>7, Steps

\* the configuration with the deployed address,
LEMMA ConfigOKStep == ASSUME TreeOK, TypeOK, RunOK, ConfigOK, Next PROVE ConfigOK'
<1> USE DEF memory, chain
<1>0. causes \subseteq causes' /\ Frontend \in Paths
  BY ListStep, DeployAssumption
<1> DEFINE Shown == ~ Lost(tree, ConfigFile) /\ config = deployed
<1>1. CASE StartRun \/ SkipFile \/ EndClean \/ EnterBase \/ LeaveFolder \/ FailFolder \/ WriteCache
  <2>1. phase' \in {"clean", "generate", "files", "deploy"} /\ UNCHANGED chain
    BY <1>1 DEF StartRun, SkipFile, EndClean, EnterBase, LeaveFolder, FailFolder, WriteCache
  <2> QED  BY <2>1 DEF ConfigOK
<1>2. CASE CleanFile \/ GenerateFile \/ FailFile \/ GenerateFolder
  <2>1. phase' \in {"clean", "files"} /\ UNCHANGED chain
    BY <1>2 DEF CleanFile, GenerateFile, FailFile, GenerateFolder
  <2> QED  BY <2>1 DEF ConfigOK
<1>3. CASE DeployContract
  <2>1. deployed' = deployed + 1 /\ UNCHANGED <<tree, config, abi>> /\ phase' \in {"config", "idle"}
    BY <1>3 DEF DeployContract
  <2>2. phase' = "config" => IsFolder(Frontend)'
    BY <1>3 DEF DeployContract, IsFolder
  <2>3. phase' = "idle" /\ IsFolder(Frontend)' => "stat" \in causes'
    BY <1>3 DEF DeployContract, IsFolder, Fault, Faults
  <2> QED  BY <2>1, <2>2, <2>3 DEF ConfigOK, TornConfig, Happened
<1>4. CASE WriteConfig
  <2>1. Places(ConfigFile, File("own"))
    BY <1>4, ConfigStep
  <2>2. ~ Lost(tree, ConfigFile)'
    BY <2>1 DEF Places, Lost, File
  <2> QED  BY <1>4, <2>2 DEF WriteConfig, ConfigOK, TornConfig
<1>5. CASE CopyAbi
  BY <1>5 DEF CopyAbi, ConfigOK, TornConfig, Lost
<1>6. CASE Crash
  <2>1. phase' = "idle" /\ "crash" \in causes' /\ UNCHANGED <<deployed, abi>> /\ config' \in {config, TornConfig}
    BY <1>6 DEF Crash, Fault, Faults
  <2> QED  BY <2>1 DEF ConfigOK, Happened
<1>7. CASE Clone
  BY <1>7 DEF Clone, ConfigOK, Fault, Faults, Happened, IsFolder, Lost
<1>8. CASE UserWrites
  <2>1. PICK p \in Paths : /\ p # ConfigFile /\ Places(p, File("own"))
                           /\ \A q \in Paths : IsFolder(q)' <=> IsFolder(q)
    BY <1>8, UserStep
  <2>2. ~ Lost(tree, ConfigFile) => ~ Lost(tree, ConfigFile)'
    BY <2>1 DEF Places, Lost
  <2>3. phase = "idle" /\ UNCHANGED <<phase, chain, runs>>
    BY <1>8 DEF UserWrites
  <2> QED  BY <1>0, <2>1, <2>2, <2>3 DEF ConfigOK, Happened
<1> QED  BY <1>1, <1>2, <1>3, <1>4, <1>5, <1>6, <1>7, <1>8 DEF Next

\* and so the invariant.
LEMMA StepInvariant == IInv /\ [Next]_vars => IInv'
<1> SUFFICES ASSUME IInv, [Next]_vars PROVE IInv'
  OBVIOUS
<1>1. CASE Next
  BY <1>1, TreeStep, TypeStep, RunStep, ListsStep, OwnStep, FormerStep, ScanStep, TrackStep, FolderOKStep,
     ConfigOKStep DEF IInv
<1>2. CASE UNCHANGED vars
  <2> USE DEF vars, memory, chain
  <2>1. TreeOK' /\ TypeOK' /\ RunOK' /\ ListsOK'
    BY <1>2 DEF IInv, TreeOK, TypeOK, RunOK, ListsOK, IsFolder
  <2>2. OwnOK' /\ ScanOK'
    BY <1>2 DEF IInv, OwnOK, Saved, ScanOK, Lost, Happened
  <2>6. FormerOK'
    BY <1>2 DEF IInv, FormerOK, Saved
  <2>3. TrackOK'
    BY <1>2 DEF IInv, TrackOK, Clear, Happened, Current
  <2>4. FolderOK'
    BY <1>2 DEF IInv, FolderOK, Clear, Happened
  <2>5. ConfigOK'
    BY <1>2 DEF IInv, ConfigOK, Lost, Happened, IsFolder
  <2> QED  BY <2>1, <2>2, <2>3, <2>4, <2>5, <2>6 DEF IInv
<1> QED  BY <1>1, <1>2

----------------------------------------------------------------------------
\* The theorems

\* The script's bookkeeping holds in every reachable state: the tree is one,
\* only what was generated is listed, and unless something goes wrong all of it.
THEOREM DeployInvariantHolds == Spec => []IInv
BY InitInvariant, StepInvariant, PTL DEF Spec

\* Whatever fails, a file that the project or its user wrote is lost only at a
\* path generateUniquePath returned, also in a folder the project was copied from,
\* and such a path was on disk only if the
\* constructor's scan was cut short or 50 draws met a known one.
THEOREM OwnFilesCorrect == Spec => []OwnFilesSurvive
<1>1. IInv => OwnFilesSurvive
  BY DEF IInv, OwnOK, FormerOK, Saved, ScanOK, OwnFilesSurvive
<1> QED  BY <1>1, DeployInvariantHolds, PTL

\* A clean-up leaves no file an earlier run generated, unless a run died, the
\* project was cloned, or the cache could not be read or a file not be written or
\* deleted; and no folder, unless one of these, the removal of a folder failed or
\* the user wrote into a generated folder.
THEOREM CleanCorrect == Spec => []CleanLeavesNothing
<1>1. IInv => CleanLeavesNothing
  <2> SUFFICES ASSUME IInv, StartOfGeneration, NEW p \in DOMAIN tree, tree[p].by = "script", Clear
               PROVE  IsFolder(p) /\ Happened({"user", "rmdir"})
    BY DEF CleanLeavesNothing, Clear
  <2>1. Current = <<>>
    BY DEF IInv, RunOK, StartOfGeneration, Current
  <2>2. \A x \in DOMAIN tree : tree[x] # File("script")
    BY <2>1 DEF IInv, TrackOK
  <2>3. tree[p] = Folder("script")
    BY <2>2 DEF IInv, TreeOK, Entry, File, Folder
  <2>4. IsFolder(p)
    BY <2>3 DEF IsFolder, Folder
  <2>5. Happened({"user", "rmdir"})
    BY <2>2, <2>3 DEF IInv, FolderOK, StartOfGeneration
  <2> QED  BY <2>4, <2>5
<1> QED  BY <1>1, DeployInvariantHolds, PTL

\* A whole config.json names a deployed contract no older than the artifact
\* beside it, and the last one when no run has died and the folder was seen.
THEOREM ConfigCorrect == Spec => []ConfigNamesDeployed
<1>1. IInv => ConfigNamesDeployed
  BY DEF IInv, ConfigOK, ConfigNamesDeployed
<1> QED  BY <1>1, DeployInvariantHolds, PTL
=============================================================================
