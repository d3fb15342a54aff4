------------------------------- MODULE VaChan -------------------------------
(***************************************************************************)
(* The channels (src/kern/chan/va_chan_base.c) and the files bound to them *)
(* (vk_file.c).                                                            *)
(*                                                                         *)
(* The driver of a type of channels makes a table of them when it meets    *)
(* the board's device, and destroys it with the device or itself; the      *)
(* channels of nodes are made and taken back one by one while others work  *)
(* (vn_chan.c).  A program opens "vchan" files and binds each to a channel *)
(* of any kind.  A bind looks at the file, finds the channel, counts it    *)
(* and writes the file without a lock, and a channel that goes is freed    *)
(* before its entry is cleared: binds of a file cross each other, and the  *)
(* end of a channel.                                                       *)
(***************************************************************************)
EXTENDS Naturals, FiniteSets

CONSTANTS
  Chan,     (* channels: the memory of each                                *)
  NodeChan, (* those of nodes; the others are the board's                  *)
  ChanDev,  (* the board's devices with channels                           *)
  DevOf,    (* the device of each of its channels                          *)
  Fd,       (* open files of "vchan"                                       *)
  Thread,   (* threads that bind them                                      *)
  MaxRef,   (* bound: references of a channel                              *)
  NULL

ASSUME ChanAssumption == NodeChan \subseteq Chan
ASSUME DevAssumption == DevOf \in [Chan \ NodeChan -> ChanDev]
ASSUME RefAssumption == MaxRef \in Nat
ASSUME NullAssumption == NULL \notin Chan \cup Fd

VARIABLES
  chanTbl,  (* the channels in their tables                                *)
  ref,      (* stRef of each channel; 0: not allocated, or freed           *)
  opened,   (* the open files                                              *)
  priv,     (* private_data of each file                                   *)
  binding,  (* a bind under way: its file, the channel it has found, and   *)
            (* whether it has counted it                                   *)
  busy,    (* the channel that is made or taken back, and how far: a node *)
            (* under stLock, or a table by its driver                      *)
  lost,     (* history: references of binds another bind wrote over        *)
  stale     (* history: freed channels that a bind has counted             *)

chanVars == << chanTbl, ref, opened, priv, binding, busy, lost, stale >>
fdVars == << opened, priv, binding, lost, stale >>
tblVars == << chanTbl, busy >>

NoBind == [fd |-> NULL, chan |-> NULL, got |-> FALSE]
Idle == [chan |-> NULL, at |-> "idle"]
IsAt(c, a) == busy = [chan |-> c, at |-> a]
Goes(c, a) == busy' = [chan |-> c, at |-> a]

ChanInit ==
  /\ chanTbl = {} /\ ref = [c \in Chan |-> 0] /\ busy = Idle
  /\ opened = {} /\ priv = [f \in Fd |-> NULL] /\ binding = [t \in Thread |-> NoBind]
  /\ lost = [c \in Chan |-> 0] /\ stale = {}

ChansOf(d) == {c \in Chan \ NodeChan : DevOf[c] = d}

-----------------------------------------------------------------------------
(* The tables of the board's drivers.                                      *)

(* VA_CHAN_CreatePortTbl: channels are seen once all of the port are made. *)
CreatePortTbl(d) ==
  /\ chanTbl' = chanTbl \cup ChansOf(d)
  /\ ref' = [c \in Chan |-> IF c \in ChansOf(d) THEN 1 ELSE ref[c]]
  /\ UNCHANGED << fdVars, busy >>

(* It fails at a channel: those made before are released, and no table is  *)
(* kept.                                                                   *)
CreateFails(d) == UNCHANGED chanVars

(* FDD_PutChan, and its last reference frees.                              *)
Put(c) == ref' = [ref EXCEPT ![c] = @ - 1]

(* VA_CHAN_DestroyChanTbl: each channel is released, then its entry        *)
(* cleared.                                                                *)
DestroyPortTbl(d) ==
  /\ \E c \in ChansOf(d) :
       \/ busy = Idle /\ c \in chanTbl /\ Put(c) /\ Goes(c, "clear") /\ UNCHANGED chanTbl
       \/ IsAt(c, "clear") /\ chanTbl' = chanTbl \ {c} /\ busy' = Idle /\ UNCHANGED ref
  /\ UNCHANGED fdVars

Destroyed(d) == chanTbl \cap ChansOf(d) = {} /\ UNCHANGED chanVars

-----------------------------------------------------------------------------
(* Channels of nodes, one at a time (gstVnChanMgr.stLock).                 *)

(* VN_AddNode up to VA_CHAN_Init, after which binds find the channel.      *)
AddNode(c) ==
  /\ busy = Idle /\ c \notin chanTbl /\ ref[c] = 0 /\ c \notin stale
  /\ chanTbl' = chanTbl \cup {c} /\ ref' = [ref EXCEPT ![c] = 1] /\ Goes(c, "add")
  /\ UNCHANGED fdVars

(* The rest of it: the listen port, the socket, the transport.             *)
Added(c) == IsAt(c, "add") /\ busy' = Idle /\ UNCHANGED << chanTbl, ref, fdVars >>

(* Or it fails there: VA_CHAN_Destroy releases, then clears.               *)
AddFails(c) == IsAt(c, "add") /\ Put(c) /\ Goes(c, "clear") /\ UNCHANGED << chanTbl, fdVars >>

(* VN_DelNode, and VN_CpInstNotify for the nodes of a program that ends:   *)
(* the channel is counted before it is taken apart.                        *)
DelNode(c) ==
  /\ busy = Idle /\ c \in chanTbl /\ ref[c] < MaxRef
  /\ ref' = [ref EXCEPT ![c] = @ + 1] /\ Goes(c, "del")
  /\ UNCHANGED << chanTbl, fdVars >>

ReleaseChan(c) == IsAt(c, "del") /\ Put(c) /\ Goes(c, "delclear") /\ UNCHANGED << chanTbl, fdVars >>

Clear(c) ==
  /\ \/ IsAt(c, "clear") /\ busy' = Idle
     \/ IsAt(c, "delclear") /\ Goes(c, "put")
  /\ chanTbl' = chanTbl \ {c}
  /\ UNCHANGED << ref, fdVars >>

Deleted(c) == IsAt(c, "put") /\ Put(c) /\ busy' = Idle /\ UNCHANGED << chanTbl, fdVars >>

NodeStep(c) == Added(c) \/ AddFails(c) \/ ReleaseChan(c) \/ Clear(c) \/ Deleted(c)

-----------------------------------------------------------------------------
(* The files.                                                              *)

Open(f) ==
  /\ f \notin opened
  /\ opened' = opened \cup {f} /\ priv' = [priv EXCEPT ![f] = NULL]
  /\ UNCHANGED << tblVars, ref, binding, lost, stale >>

(* VA_BindChan to where VA_GetChan has read the entry.                     *)
BindChan(t, f, c) ==
  /\ f \in opened /\ binding[t] = NoBind
  /\ priv[f] = NULL /\ c \in chanTbl
  /\ binding' = [binding EXCEPT ![t] = [fd |-> f, chan |-> c, got |-> FALSE]]
  /\ UNCHANGED << tblVars, ref, opened, priv, lost, stale >>

(* FDD_GetChan.  A channel that is freed by then is counted all the same:  *)
(* what happens in its memory from there on is not told.                   *)
(* Mutant: VA_GetChan returns the pointer alone.                           *)
Looked(c) == ref
Got(c) == [ref EXCEPT ![c] = @ + 1]

GetChan(t) ==
  LET c == binding[t].chan IN
  /\ binding[t] # NoBind /\ ~binding[t].got
  /\ binding' = [binding EXCEPT ![t] = [fd |-> @.fd, chan |-> c, got |-> TRUE]]
  /\ \/ ref[c] > 0 /\ ref[c] < MaxRef /\ ref' = Got(c) /\ UNCHANGED stale
     \/ ref[c] = 0 /\ stale' = stale \cup {c} /\ UNCHANGED ref
  /\ UNCHANGED << tblVars, opened, priv, lost >>

(* What was in the file is written over: a bind crossed.                   *)
WrittenOver(c) == IF c \in Chan \ stale THEN [lost EXCEPT ![c] = @ + 1] ELSE lost

Bound(t) ==
  LET b == binding[t] IN
  /\ b.got
  /\ priv' = [priv EXCEPT ![b.fd] = b.chan] /\ lost' = WrittenOver(priv[b.fd])
  /\ binding' = [binding EXCEPT ![t] = NoBind]
  /\ UNCHANGED << tblVars, ref, opened, stale >>

(* The last close of the file: VA_ReleaseChan.  A call under way has it    *)
(* open.                                                                   *)
Close(f) ==
  /\ f \in opened /\ \A t \in Thread : binding[t].fd # f
  /\ opened' = opened \ {f} /\ priv' = [priv EXCEPT ![f] = NULL]
  /\ IF priv[f] \in Chan \ stale THEN Put(priv[f]) ELSE UNCHANGED ref
  /\ UNCHANGED << tblVars, binding, lost, stale >>

-----------------------------------------------------------------------------
Alive == {c \in Chan : ref[c] > 0}
Lost == {c \in Chan : lost[c] > 0}

(* Whose references a channel has: its table's until it is released, the   *)
(* files bound to it, the binds that have counted it, the deletion that    *)
(* has, and what crossing binds have lost.                                 *)
Filed(c) == {f \in Fd : priv[f] = c}
Binders(c) == {t \in Thread : binding[t].chan = c /\ binding[t].got}
InTable(c) == c \in chanTbl /\ ~IsAt(c, "clear") /\ ~IsAt(c, "delclear")
Deleting(c) == IsAt(c, "del") \/ IsAt(c, "delclear") \/ IsAt(c, "put")
Owed(c) ==
  Cardinality(Filed(c)) + Cardinality(Binders(c)) + lost[c]
    + (IF InTable(c) THEN 1 ELSE 0) + (IF Deleting(c) THEN 1 ELSE 0)

(* A channel has exactly the references of those that have it, and is so   *)
(* freed neither before the last of them is done nor kept after: but for   *)
(* those that two binds of one file lost by crossing, in whatever order    *)
(* channels are found, counted, released and cleared.  Of a freed channel  *)
(* a bind gets hold only when it found the channel of a node, and counted  *)
(* it after the node had gone: never of a channel of the board.            *)
BoundIsLive ==
  /\ stale \subseteq NodeChan
  /\ \A c \in Chan \ stale : ref[c] = Owed(c)
=============================================================================
