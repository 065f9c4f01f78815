--------------------------- MODULE MCBackupChain ---------------------------
(* Model values for checking BackupChain: two files, one of which, like    *)
(* level.dat, the game never deletes.                                      *)
EXTENDS BackupChain

CONSTANTS a, b
=============================================================================
