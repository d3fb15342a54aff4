--------------------------- MODULE FddConnections ---------------------------
(***************************************************************************)
(* What the switch promises to those who connect channels: data of a       *)
(* channel reaches exactly the channels it was connected to.  To connect   *)
(* or to disconnect two channels is of no consequence to any other.  A     *)
(* channel that closes is connected no more, loses its connections, and    *)
(* only then goes.                                                         *)
(***************************************************************************)
CONSTANT Chan

VARIABLES
  there,   (* the channels whose memory is in use                          *)
  open,    (* those of them that can be connected                          *)
  conn     (* << l, r >> : data of l reaches r                             *)

Init == there = {} /\ open = {} /\ conn = {}

Open(c) == /\ c \notin there
           /\ there' = there \cup {c} /\ open' = open \cup {c}
           /\ UNCHANGED conn

Connect(l, r) == /\ {l, r} \subseteq open /\ l # r
                 /\ conn' = conn \cup {<< l, r >>}
                 /\ UNCHANGED << there, open >>

Disconnect(l, r) == /\ << l, r >> \in conn
                    /\ conn' = conn \ {<< l, r >>}
                    /\ UNCHANGED << there, open >>

Close(c) == /\ c \in open
            /\ open' = open \ {c}
            /\ UNCHANGED << there, conn >>

Leave(c) == /\ c \in there \ open
            /\ \A d \in Chan : << c, d >> \notin conn /\ << d, c >> \notin conn
            /\ there' = there \ {c}
            /\ UNCHANGED << open, conn >>

Next == \/ \E c \in Chan : Open(c) \/ Close(c) \/ Leave(c)
        \/ \E l, r \in Chan : Connect(l, r) \/ Disconnect(l, r)

Spec == Init /\ [][Next]_<< there, open, conn >>
=============================================================================
