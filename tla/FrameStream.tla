----------------------------- MODULE FrameStream -----------------------------
(***************************************************************************)
(* What the kernel channels promise to their readers: of the frames that   *)
(* were put, in the order they were put, each at most once.  A reader may  *)
(* miss frames: the queue in front of it has a limit.                      *)
(***************************************************************************)
EXTENDS Naturals

CONSTANT Reader

VARIABLES
  put,    (* how many frames were put; they are numbered from 1            *)
  got     (* the frame a reader got last, 0 if none                        *)

Init == put = 0 /\ got = [r \in Reader |-> 0]

Put == put' = put + 1 /\ UNCHANGED got

Get(r) == /\ \E n \in got[r] + 1 .. put : got' = [got EXCEPT ![r] = n]
          /\ UNCHANGED put

Next == Put \/ \E r \in Reader : Get(r)

Spec == Init /\ [][Next]_<< put, got >>
=============================================================================
