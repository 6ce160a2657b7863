-------------------------- MODULE MCDeployScript ---------------------------
(***************************************************************************)
(* DeployScript for TLC: a project with one source file, and a frontend    *)
(* whose config.json a run may also generate; one pass per folder, as with *)
(* the smallest folderCount.                                               *)
(***************************************************************************)
EXTENDS DeployScript, TLC

FrontendDir == <<"web">>
FrontendConfig == <<"web", "config">>
Bases == <<<<>>, FrontendDir>>
Project == (FrontendDir :> Folder("own")) @@ (<<"web", "main">> :> File("own"))
=============================================================================
