------------------------- MODULE MCTaskCoordinator -------------------------
(* Tasks for checking TaskCoordinator: the automatic backup of world 2,    *)
(* which submits a run; two remote "backup all" requests that take the     *)
(* keys of worlds 1 and 2; a manual backup of world 1, which submits a     *)
(* cloud upload; a cloud history sync.                                     *)
EXTENDS TaskCoordinator

CONSTANTS auto, run, all, all2, backup, upload, sync

MCKeysOf == [t \in Tasks |->
    CASE t = backup -> {1}
      [] t = run -> {2}
      [] t \in {all, all2} -> {1, 2}
      [] t \in {upload, sync} -> {3}
      [] t = auto -> {}]

MCCaller == [t \in Tasks |->
    CASE t = run -> auto
      [] t = upload -> backup
      [] OTHER -> Main]

MCNameOf == [t \in Tasks |->
    CASE t = backup -> "manual-backup"
      [] t = auto -> "auto-backup"
      [] t = run -> "automatic backup run"
      [] t \in {all, all2} -> "KnotLink v2 backup all"
      [] t = upload -> "cloud-upload-after-backup"
      [] t = sync -> "cloud-history-sync"]
=============================================================================
