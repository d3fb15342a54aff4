------------------------------- MODULE MCVnRx -------------------------------
(* An instance of VnRx for TLC.  The ring has eight bytes; its indices wrap   *)
(* after 16, in the third packet.                                             *)
EXTENDS VnRx, TLC

\* "$", the header of an empty packet, one byte, and more than is taken
SomePayloads == {<<36>>, <<0, 36, 5>>, <<>>, <<0, 0, 0, 0>>}
SomeRemains == {<<>>, <<0, 7>>}

OfSenders == Permutations(Senders)
=============================================================================
