------------------------------ MODULE MCVnNode ------------------------------
(* Instances of VnNode: two processes, one of which has two threads.       *)
EXTENDS VnNode, TLC

CONSTANTS t1, t2, t3, p1, p2

MCProcOf == [t \in Thread |-> IF t = t3 THEN p2 ELSE p1]

(* Two ports with a channel each.                                          *)
MCChanNum == [p \in 0 .. 1 |-> 1]

(* The threads of p1 and the files are alike.                              *)
Symmetry == Permutations({t1, t2}) \cup Permutations(File)
=============================================================================
