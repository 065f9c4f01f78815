------------------------- MODULE MCRestoreWorkspace -------------------------
(* Model values for checking RestoreWorkspace: one ordinary file and       *)
(* session.lock, which every Clean restore preserves.                      *)
EXTENDS RestoreWorkspace

CONSTANTS level, lock
=============================================================================
