--------------------------- MODULE MCServeRuntime ---------------------------
(* One backup, one hot restore and a job of three steps in two stages.     *)
EXTENDS ServeRuntime

CONSTANTS b1, h1, s1, s2, s3

MCStage == [s \in Steps |-> IF s = s3 THEN 2 ELSE 1]
=============================================================================
