------------------------------ MODULE MCFddBuf ------------------------------
(* Instances of FddBuf for TLC.                                            *)
EXTENDS FddBuf, TLC

(* Every combination of the flags of fdd_buf.h, and the one the tree uses. *)
AllFlags == SUBSET {"RSVD", "WAIT"}
NoFlags  == {{}}
WaitFlags == {{}, {"WAIT"}}

Symm == Permutations(Blk) \cup Permutations(Thread) \cup Permutations(Handle)
=============================================================================
