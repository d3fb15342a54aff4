------------------------------ MODULE MCVkChan ------------------------------
(* Instances of VkChan for TLC.                                            *)
EXTENDS VkChan, TLC
CONSTANTS s1, s2, r1, r2

(* Nothing goes wrong; or puts and lists fail; or holds and lists do, with *)
(* two receivers; or channels are connected meanwhile, with two senders.   *)
MCSettings == {
  [chans |-> {s1, r1}, faults |-> {}, limit |-> 0, usr |-> 3,
   lens |-> {1, 3}, frames |-> 3],
  [chans |-> {s1, r1}, faults |-> {"put", "sg"}, limit |-> 2, usr |-> 2,
   lens |-> {1, 2, 3}, frames |-> 3],
  [chans |-> {s1, r1, r2}, faults |-> {"hold", "sg"}, limit |-> 2, usr |-> 2,
   lens |-> {2}, frames |-> 2],
  [chans |-> {s1, s2, r1}, faults |-> {"put", "reconnect"}, limit |-> 2, usr |-> 3,
   lens |-> {3}, frames |-> 1] }
=============================================================================
