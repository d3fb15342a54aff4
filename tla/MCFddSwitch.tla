----------------------------- MODULE MCFddSwitch -----------------------------
(* Instances of FddSwitch: channels of three types.                        *)
EXTENDS FddSwitch, TLC

CONSTANTS a, b, c, d, v1, v2, v3, v4

MCChanType == [x \in Chan |-> IF x = a THEN "ES" ELSE IF x = c THEN "PS" ELSE "TS"]

(* The converters of the tree all make other types of the base type.       *)
MCShipped == {<< "ES", "TS" >>, << "ES", "PS" >>}

(* One that is registered beside them: the other way round.                *)
MCBothWays == MCShipped \cup {<< "TS", "ES" >>}

Symmetry == Permutations(VswId)
=============================================================================
