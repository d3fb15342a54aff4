------------------------------- MODULE MCMtUa -------------------------------
(* Instances of MtUa for TLC: agent a with one thread, agent b with two.   *)
EXTENDS MtUa

CONSTANTS a, b, t1, t2, t3, c1, c2, c3

MCUaOf == [x \in Thread \union Cmd |-> IF x \in {t1, c1, c2} THEN a ELSE b]
=============================================================================
