--------------------------- MODULE MCCloudHistory ---------------------------
(* Two computers that share a remote with another configuration.           *)
EXTENDS CloudHistory

CONSTANTS m1, m2, foreign
=============================================================================
