---------------------------- MODULE MCMtTerminal ----------------------------
(* Instances of MtTerminal for TLC.                                         *)
EXTENDS MtTerminal

CONSTANTS r1, r2, t1
=============================================================================
