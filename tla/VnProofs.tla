------------------------------ MODULE VnProofs ------------------------------
(***************************************************************************)
(* Proofs about network channels.  VnNode, for any processes, threads,     *)
(* files, sockets and channels: no circle of agents waits for each other's *)
(* mutexes, every node has an owner whose closing will find it, and        *)
(* outside stMutex every node is whole.  VnRx, for any size of the ring,   *)
(* limit of a packet and width of the indices: a receiver that waits has   *)
(* room, and what is due is forwarded as it was sent.                      *)
(***************************************************************************)
EXTENDS VnRx, VnNode, FiniteSetTheorems, SequenceTheorems, WellFoundedInduction, TLAPS

Busy == {"reg", "copy", "undo", "unreg"}
Pcs == Busy \cup {"idle", "inst", "cmd", "drv", "vn", "scan"}
Call == [pc : Pcs, op : {NULL, "add", "del"}, file : File \cup {NULL}, idx : Nat]

(* Where each kind of agent can be, and that an index it uses is one.      *)
Fits(a, c) ==
  /\ c.pc \in IF a \in Thread THEN Busy \cup {"idle", "cmd", "vn"}
             ELSE IF a \in File THEN {"idle", "inst", "vn", "scan", "unreg"}
             ELSE {"idle", "inst", "cmd", "drv", "vn", "scan"}
  /\ c.pc \in Busy => c.idx < TotChanNum
  /\ c.pc = "scan" => c.idx <= TotChanNum
  /\ a \notin Thread /\ c.pc \in {"idle", "inst", "cmd", "drv", "vn"} => c.idx = 0
CallInv == call \in [Agent -> Call] /\ \A a \in Agent : Fits(a, call[a])

(* The mutexes an agent has where it is.                                   *)
Has(a) ==
  IF a \in Thread THEN IF call[a].pc \in {"idle", "cmd"} THEN {}
                       ELSE IF call[a].pc = "vn" THEN {"cmd"} ELSE {"cmd", "vn"}
  ELSE IF a \in File THEN IF call[a].pc \in {"idle", "inst"} THEN {}
                          ELSE IF call[a].pc = "vn" THEN {"inst"} ELSE {"inst", "vn"}
  ELSE IF call[a].pc \in {"idle", "inst", "cmd", "drv"} THEN {}
       ELSE IF call[a].pc = "vn" THEN {"core"} ELSE {"core", "vn"}

LockInv == \A a \in Agent, l \in Lock : lock[l] = a <=> l \in Has(a)

(* Calls of threads hold their file open, a close has the file for itself, *)
(* and the unloading has the module for itself.                            *)
AloneInv ==
  /\ \A t \in Thread :
       IF At(t, "idle") THEN call[t].file = NULL
       ELSE call[t].file \in File /\ inst[call[t].file] = ProcOf[t]
  /\ \A f \in File : inst[f] = NULL => At(f, "idle")
  /\ \A f \in File : ~At(f, "idle") => holders[f] = {} /\ \A t \in Thread : call[t].file # f
  /\ loaded # "in" => \A f \in File : inst[f] = NULL
  /\ ~At(Exit, "idle") => loaded = "going"

(* Nodes have an owner that will find them: a close has yet to come to     *)
(* those of its process that only it would release.                        *)
OwnerOf(f, n) ==
  /\ inst[f] = n.inst
  /\ call[f].pc \in {"scan", "unreg"} => call[f].idx <= n.idx
OwnedInv == \A id \in Nodes : \E f \in File : OwnerOf(f, chanTbl[id])

PlaceInv == \A id \in Nodes : IndxToId[chanTbl[id].idx] = id

(* A node has its bit, or is of an ADD_NODE that has yet to set it.        *)
Making(t) == call[t].pc \in {"reg", "copy", "undo"}
BitInv ==
  /\ \A id \in Nodes : chanTbl[id].idx \in bitMap
       \/ \E t \in Thread : Making(t) /\ call[t].idx = chanTbl[id].idx
  /\ \A i \in bitMap : IndxToId[i] \in Nodes
  /\ \A t \in Thread : Making(t) => IdAt(t) \in Nodes /\ call[t].idx \notin bitMap
  /\ \A a \in Agent : At(a, "unreg") => IdAt(a) \in Nodes /\ call[a].idx \in bitMap

(* It has its device once that was registered.                             *)
DevInv == \A id \in ChanId :
  /\ id \in devs <=> id \in Nodes /\ \A t \in Thread : At(t, "reg") => IdAt(t) # id
  /\ id \in privCb <=> id \in devs /\ chanTbl[id].sock \in Driven

(* Nodes do not share a socket.                                            *)
RefInv ==
  /\ \A s \in Sock : fileRef[s] = IF Given(s) THEN 1 ELSE 0
  /\ \A id, jd \in Nodes : chanTbl[id].sock = chanTbl[jd].sock => id = jd

(* The callbacks are the node's from its start to the begin of its         *)
(* release, but a failure at the end of its start leaves them as they are. *)
Hooked(id) == \A a \in Agent : call[a].pc \in {"reg", "unreg"} => IdAt(a) # id
OwnSk == [ready |-> "own", user |-> NULL]
SkInv ==
  /\ \A id \in Nodes : chanTbl[id].sock \notin tainted =>
       /\ chanTbl[id].old = "own"
       /\ sk[chanTbl[id].sock] =
            IF chanTbl[id].sock \in Driven /\ Hooked(id) THEN [ready |-> "vn", user |-> id] ELSE OwnSk
  /\ \A s \in Sock \ tainted : Given(s) \/ sk[s] = OwnSk

TaintInv == \A t \in Thread : At(t, "undo") => chanTbl[IdAt(t)].sock \in tainted

LEMMA AgentsApart ==
  /\ Thread \cap File = {} /\ Exit \notin Thread \cup File
  /\ NULL \notin Proc /\ NULL \notin Agent /\ ProcOf \in [Thread -> Proc]
  BY AgentAssumption DEF Agent

(* Every index stands for a channel of its own.                            *)
LEMMA IndexIsId ==
  /\ TotChanNum \in Nat
  /\ \A i \in 0 .. TotChanNum - 1 : IndxToId[i] \in ChanId
  /\ \A i, j \in 0 .. TotChanNum - 1 : IndxToId[i] = IndxToId[j] => i = j
<1>1. ASSUME NEW i \in 0 .. TotChanNum - 1
      PROVE  IndxToId[i] \in ChanId /\ Before(IndxToId[i][1]) + IndxToId[i][2] = i
  <2>1. \E id \in ChanId : Before(id[1]) + id[2] = i
    BY IndexAssumption
  <2>2. IndxToId[i] = CHOOSE id \in ChanId : Before(id[1]) + id[2] = i
    BY DEF IndxToId
  <2> HIDE DEF Before, ChanId
  <2> QED
    BY <2>1, <2>2
<1> QED
  BY <1>1, IndexAssumption

LessThan == {ss \in Nat \X Nat : ss[1] < ss[2]}

LEMMA LessThanWellFounded == IsWellFoundedOn(LessThan, Nat)
  BY NatLessThanWellFounded DEF OpToRel, LessThan

LEMMA MinOfNats ==
  ASSUME NEW S \in SUBSET Nat, S # {}
  PROVE  Min(S) \in S
<1>1. PICK x \in S : \A y \in S : <<y, x>> \notin LessThan
  BY LessThanWellFounded, WFMin
<1>2. ASSUME NEW y \in S PROVE x <= y
  <2>1. ~(y < x)
    BY <1>1, <<y, x>> \in Nat \X Nat, <<y, x>>[1] = y, <<y, x>>[2] = x DEF LessThan
  <2> QED
    BY <2>1
<1> QED
  BY <1>2 DEF Min

-----------------------------------------------------------------------------
(* Types, and where agents are.                                            *)

VnInv == TypeOK /\ CallInv /\ LockInv /\ AloneInv /\ OwnedInv /\ PlaceInv /\ BitInv /\ DevInv /\ RefInv /\ SkInv /\ TaintInv

LEMMA InitInv == Init => VnInv
<1> SUFFICES ASSUME Init PROVE VnInv
  OBVIOUS
<1> USE AgentsApart DEF Init
<1>0. TotChanNum \in Nat
  BY IndexIsId
<1>1. TypeOK
  BY DEF TypeOK, Lock
<1>2. CallInv
  BY <1>0 DEF CallInv, Fits, Busy, Call, Pcs, Idle, Agent
<1>3. LockInv
  BY DEF LockInv, Has, Idle, Agent, Lock
<1>4. AloneInv
  BY DEF AloneInv, At, Idle, Agent
<1>5. OwnedInv /\ PlaceInv /\ BitInv /\ DevInv /\ RefInv /\ SkInv /\ TaintInv
  BY DEF TaintInv, OwnedInv, PlaceInv, Nodes, BitInv, Making, DevInv, RefInv, Given, SkInv, OwnSk,
         At, Idle, Agent
<1> QED
  BY <1>1, <1>2, <1>3, <1>4, <1>5 DEF VnInv

-----------------------------------------------------------------------------
(* Who has what.                                                           *)

AtNodes == Busy \cup {"scan"}

(* At most one agent is at the nodes, and it has stMutex.                  *)
LEMMA OneAtNodes ==
  ASSUME VnInv, NEW a \in Agent, call[a].pc \in AtNodes
  PROVE  lock["vn"] = a /\ \A b \in Agent : b # a => call[b].pc \notin AtNodes
<1>1. ASSUME NEW b \in Agent, call[b].pc \in AtNodes
      PROVE  lock["vn"] = b
  BY <1>1, AgentsApart DEF VnInv, CallInv, Fits, LockInv, Has, Lock, Agent, AtNodes, Busy
<1> QED
  BY <1>1

LEMMA NoneAtNodes ==
  ASSUME VnInv, Free("vn")
  PROVE  \A b \in Agent : call[b].pc \notin AtNodes
  BY OneAtNodes, AgentsApart DEF Free

(* Once no file is open there is no node.                                  *)
LEMMA NoNodesLeft ==
  ASSUME VnInv, loaded # "in"
  PROVE  Nodes = {}
<1> SUFFICES ASSUME NEW id \in Nodes PROVE FALSE
  OBVIOUS
<1>1. chanTbl[id] \in Node
  BY DEF VnInv, TypeOK, Nodes
<1>2. chanTbl[id].inst \in Proc
  BY <1>1 DEF Node
<1>3. PICK f \in File : inst[f] = chanTbl[id].inst
  BY DEF VnInv, OwnedInv, OwnerOf
<1> QED
  BY <1>2, <1>3, AgentsApart DEF VnInv, AloneInv

LEMMA NodeIsNode ==
  ASSUME VnInv, NEW id \in Nodes
  PROVE  /\ id \in ChanId /\ chanTbl[id] \in Node /\ chanTbl[id].idx \in 0 .. TotChanNum - 1
         /\ chanTbl[id].inst \in Proc /\ chanTbl[id].sock \in Sock /\ chanTbl[id].old \in {"own", "vn"}
         /\ \A i \in 0 .. TotChanNum - 1 : IndxToId[i] = id <=> i = chanTbl[id].idx
<1>1. id \in ChanId /\ chanTbl[id] \in Node
  BY DEF VnInv, TypeOK, Nodes
<1>2. IndxToId[chanTbl[id].idx] = id
  BY DEF VnInv, PlaceInv
<1> QED
  BY <1>1, <1>2, IndexIsId DEF Node

-----------------------------------------------------------------------------
(* What an agent does without touching a node.                             *)

LEMMA CallStep ==
  ASSUME CallInv, NEW a \in Agent, NEW r \in Call, Fits(a, r), call' = [call EXCEPT ![a] = r]
  PROVE  CallInv'
  BY DEF CallInv, Fits

LEMMA QuietStep ==
  ASSUME VnInv, UNCHANGED nodeVars,
         \A b \in Agent : call'[b] = call[b] \/ (call[b].pc \notin Busy /\ call'[b].pc \notin Busy)
  PROVE  PlaceInv' /\ BitInv' /\ DevInv' /\ RefInv' /\ SkInv' /\ TaintInv'
<1> USE DEF VnInv, nodeVars
<1>0. Nodes' = Nodes
  BY DEF Nodes
<1>1. PlaceInv' /\ RefInv'
  BY <1>0 DEF PlaceInv, RefInv, Given
<1>2. ASSUME NEW b \in Agent
      PROVE  /\ call'[b].pc \in Busy \/ call[b].pc \in Busy => call'[b] = call[b]
             /\ At(b, "undo")' = At(b, "undo")
             /\ At(b, "unreg")' = At(b, "unreg")
             /\ At(b, "reg")' = At(b, "reg")
             /\ (Making(b))' = Making(b)
  BY DEF Busy, At, Making
<1>3. BitInv'
  BY <1>0, <1>2 DEF BitInv, Making, At, IdAt, Busy, Agent
<1>4. DevInv'
  BY <1>0, <1>2 DEF DevInv, At, IdAt, Busy, Agent
<1>5. \A id : (Hooked(id))' = Hooked(id)
  BY <1>2 DEF Hooked, IdAt, Busy
<1>6. SkInv'
  BY <1>0, <1>5 DEF SkInv, Given, OwnSk
<1>7. TaintInv'
  BY <1>2 DEF TaintInv, At, IdAt, Busy, Agent
<1> QED
  BY <1>1, <1>3, <1>4, <1>6, <1>7

LEMMA OpenInv ==
  ASSUME VnInv, NEW p \in Proc, NEW f \in File, Open(p, f)
  PROVE  VnInv'
<1> USE AgentsApart DEF Open, At, procVars
<1>1. TypeOK'
  BY DEF nodeVars, VnInv, TypeOK, Lock, Agent, Nodes
<1>3. CallInv'
  BY DEF VnInv, CallInv
<1>4. LockInv'
  BY DEF VnInv, TypeOK, CallInv, Fits, LockInv, Has, Agent, Lock, Busy
<1>5. AloneInv'
  BY DEF VnInv, TypeOK, CallInv, Call, AloneInv, Agent
<1>6. OwnedInv'
  BY NodeIsNode, IndexIsId DEF nodeVars, VnInv, TypeOK, CallInv, Call, Fits, OwnedInv, OwnerOf, Nodes, Agent
<1>7. \A b \in Agent : call'[b] = call[b] \/ (call[b].pc \notin Busy /\ call'[b].pc \notin Busy)
  BY DEF VnInv, CallInv, Busy
<1>8. PlaceInv' /\ BitInv' /\ DevInv' /\ RefInv' /\ SkInv' /\ TaintInv'
  BY <1>7, QuietStep
<1> QED
  BY <1>1, <1>3, <1>4, <1>5, <1>6, <1>8 DEF VnInv

LEMMA ForkInv ==
  ASSUME VnInv, NEW p \in Proc, NEW q \in Proc, Fork(p, q)
  PROVE  VnInv'
<1> USE AgentsApart DEF Fork, At, procVars
<1>1. TypeOK'
  BY DEF nodeVars, VnInv, TypeOK, Lock, Agent, Nodes
<1>3. CallInv'
  BY DEF VnInv, CallInv
<1>4. LockInv'
  BY DEF VnInv, TypeOK, CallInv, Fits, LockInv, Has, Agent, Lock, Busy
<1>5. AloneInv'
  BY DEF VnInv, TypeOK, CallInv, Call, AloneInv, Agent
<1>6. OwnedInv'
  BY NodeIsNode, IndexIsId DEF nodeVars, VnInv, TypeOK, CallInv, Call, Fits, OwnedInv, OwnerOf, Nodes, Agent
<1>7. \A b \in Agent : call'[b] = call[b] \/ (call[b].pc \notin Busy /\ call'[b].pc \notin Busy)
  BY DEF VnInv, CallInv, Busy
<1>8. PlaceInv' /\ BitInv' /\ DevInv' /\ RefInv' /\ SkInv' /\ TaintInv'
  BY <1>7, QuietStep
<1> QED
  BY <1>1, <1>3, <1>4, <1>5, <1>6, <1>8 DEF VnInv

LEMMA CloseInv ==
  ASSUME VnInv, NEW p \in Proc, NEW f \in File, Close(p, f)
  PROVE  VnInv'
<1> USE AgentsApart DEF Close, At, procVars
<1>1. TypeOK'
  BY DEF nodeVars, VnInv, TypeOK, Lock, Agent, Nodes
<1>3. CallInv'
  BY DEF VnInv, CallInv
<1>4. LockInv'
  BY DEF VnInv, TypeOK, CallInv, Fits, LockInv, Has, Agent, Lock, Busy
<1>5. AloneInv'
  BY DEF VnInv, TypeOK, CallInv, Call, AloneInv, Agent
<1>6. OwnedInv'
  BY NodeIsNode, IndexIsId DEF nodeVars, VnInv, TypeOK, CallInv, Call, Fits, OwnedInv, OwnerOf, Nodes, Agent
<1>7. \A b \in Agent : call'[b] = call[b] \/ (call[b].pc \notin Busy /\ call'[b].pc \notin Busy)
  BY DEF VnInv, CallInv, Busy
<1>8. PlaceInv' /\ BitInv' /\ DevInv' /\ RefInv' /\ SkInv' /\ TaintInv'
  BY <1>7, QuietStep
<1> QED
  BY <1>1, <1>3, <1>4, <1>5, <1>6, <1>8 DEF VnInv

LEMMA IoctlInv ==
  ASSUME VnInv, NEW t \in Thread, NEW f \in File, NEW op \in {"add", "del"}, Ioctl(t, f, op)
  PROVE  VnInv'
<1> USE AgentsApart DEF Ioctl, MayCall, Idle, At, procVars
<1>1. TypeOK'
  BY DEF nodeVars, VnInv, TypeOK, Lock, Agent, Nodes
<1>2. /\ [Idle EXCEPT !.pc = "cmd", !.op = op, !.file = f] \in Call /\ Fits(t, [Idle EXCEPT !.pc = "cmd", !.op = op, !.file = f])
      /\ call' = [call EXCEPT ![t] = [Idle EXCEPT !.pc = "cmd", !.op = op, !.file = f]]
  BY IndexIsId DEF VnInv, CallInv, Fits, Call, Pcs, Busy, Agent
<1>3. CallInv'
  BY <1>2, CallStep DEF VnInv, Agent
<1>4. LockInv'
  BY <1>2 DEF VnInv, TypeOK, CallInv, Fits, LockInv, Has, Agent, Lock, Busy
<1>5. AloneInv'
  BY DEF VnInv, TypeOK, CallInv, Call, AloneInv, Agent
<1>6. OwnedInv'
  BY NodeIsNode, IndexIsId DEF nodeVars, VnInv, TypeOK, CallInv, Call, Fits, OwnedInv, OwnerOf, Nodes, Agent
<1>7. \A b \in Agent : call'[b] = call[b] \/ (call[b].pc \notin Busy /\ call'[b].pc \notin Busy)
  BY <1>2 DEF VnInv, CallInv, Busy
<1>8. PlaceInv' /\ BitInv' /\ DevInv' /\ RefInv' /\ SkInv' /\ TaintInv'
  BY <1>7, QuietStep
<1> QED
  BY <1>1, <1>3, <1>4, <1>5, <1>6, <1>8 DEF VnInv

LEMMA FileReleaseInv ==
  ASSUME VnInv, NEW f \in File, FileRelease(f)
  PROVE  VnInv'
<1> USE AgentsApart DEF FileRelease, Goto, At, procVars
<1>1. TypeOK'
  BY DEF nodeVars, VnInv, TypeOK, Lock, Agent, Nodes
<1>2. /\ [call[f] EXCEPT !.pc = "inst"] \in Call /\ Fits(f, [call[f] EXCEPT !.pc = "inst"])
      /\ call' = [call EXCEPT ![f] = [call[f] EXCEPT !.pc = "inst"]]
  BY IndexIsId DEF VnInv, CallInv, Fits, Call, Pcs, Busy, Agent
<1>3. CallInv'
  BY <1>2, CallStep DEF VnInv, Agent
<1>4. LockInv'
  BY <1>2 DEF VnInv, TypeOK, CallInv, Fits, LockInv, Has, Agent, Lock, Busy
<1>5. AloneInv'
  BY DEF VnInv, TypeOK, CallInv, Call, AloneInv, Agent
<1>6. OwnedInv'
  BY NodeIsNode, IndexIsId DEF nodeVars, VnInv, TypeOK, CallInv, Call, Fits, OwnedInv, OwnerOf, Nodes, Agent
<1>7. \A b \in Agent : call'[b] = call[b] \/ (call[b].pc \notin Busy /\ call'[b].pc \notin Busy)
  BY <1>2 DEF VnInv, CallInv, Busy
<1>8. PlaceInv' /\ BitInv' /\ DevInv' /\ RefInv' /\ SkInv' /\ TaintInv'
  BY <1>7, QuietStep
<1> QED
  BY <1>1, <1>3, <1>4, <1>5, <1>6, <1>8 DEF VnInv

LEMMA UnloadInv ==
  ASSUME VnInv, Unload
  PROVE  VnInv'
<1> USE AgentsApart DEF Unload, Goto, At, procVars
<1>1. TypeOK'
  BY DEF nodeVars, VnInv, TypeOK, Lock, Agent, Nodes
<1>2. /\ [call[Exit] EXCEPT !.pc = "inst"] \in Call /\ Fits(Exit, [call[Exit] EXCEPT !.pc = "inst"])
      /\ call' = [call EXCEPT ![Exit] = [call[Exit] EXCEPT !.pc = "inst"]]
  BY IndexIsId DEF VnInv, AloneInv, CallInv, Fits, Call, Pcs, Busy, Agent
<1>3. CallInv'
  BY <1>2, CallStep DEF VnInv, Agent
<1>4. LockInv'
  BY <1>2 DEF VnInv, AloneInv, TypeOK, CallInv, Fits, LockInv, Has, Agent, Lock, Busy
<1>5. AloneInv'
  BY DEF VnInv, TypeOK, CallInv, Call, AloneInv, Agent
<1>6. OwnedInv'
  BY NodeIsNode, IndexIsId DEF nodeVars, VnInv, TypeOK, CallInv, Call, Fits, OwnedInv, OwnerOf, Nodes, Agent
<1>7. \A b \in Agent : call'[b] = call[b] \/ (call[b].pc \notin Busy /\ call'[b].pc \notin Busy)
  BY <1>2 DEF VnInv, AloneInv, CallInv, Busy
<1>8. PlaceInv' /\ BitInv' /\ DevInv' /\ RefInv' /\ SkInv' /\ TaintInv'
  BY <1>7, QuietStep
<1> QED
  BY <1>1, <1>3, <1>4, <1>5, <1>6, <1>8 DEF VnInv

LEMMA CmdLockInv ==
  ASSUME VnInv, NEW a \in Agent, CmdLock(a)
  PROVE  VnInv'
<1> USE AgentsApart DEF CmdLock, Take, Goto, Free, At, procVars
<1>1. TypeOK'
  BY DEF nodeVars, VnInv, TypeOK, Lock, Agent, Nodes
<1>2. /\ [call[a] EXCEPT !.pc = "vn"] \in Call /\ Fits(a, [call[a] EXCEPT !.pc = "vn"])
      /\ call' = [call EXCEPT ![a] = [call[a] EXCEPT !.pc = "vn"]]
  BY IndexIsId DEF VnInv, CallInv, Fits, Call, Pcs, Busy, Agent
<1>3. CallInv'
  BY <1>2, CallStep DEF VnInv, Agent
<1>4. LockInv'
  BY <1>2 DEF VnInv, TypeOK, CallInv, Fits, LockInv, Has, Agent, Lock, Busy
<1>5. AloneInv'
  BY DEF VnInv, TypeOK, CallInv, Call, AloneInv, Agent
<1>6. OwnedInv'
  BY NodeIsNode, IndexIsId DEF nodeVars, VnInv, TypeOK, CallInv, Call, Fits, OwnedInv, OwnerOf, Nodes, Agent
<1>7. \A b \in Agent : call'[b] = call[b] \/ (call[b].pc \notin Busy /\ call'[b].pc \notin Busy)
  BY <1>2 DEF VnInv, CallInv, Busy
<1>8. PlaceInv' /\ BitInv' /\ DevInv' /\ RefInv' /\ SkInv' /\ TaintInv'
  BY <1>7, QuietStep
<1> QED
  BY <1>1, <1>3, <1>4, <1>5, <1>6, <1>8 DEF VnInv

LEMMA AddRefusedInv ==
  ASSUME VnInv, NEW a \in Agent, a \in Thread, AddRefused(a)
  PROVE  VnInv'
<1> USE AgentsApart DEF AddRefused, Return, UnlockAll, Idle, Free, At, procVars
<1>1. TypeOK'
  BY DEF nodeVars, VnInv, TypeOK, Lock, Agent, Nodes
<1>2. /\ Idle \in Call /\ Fits(a, Idle)
      /\ call' = [call EXCEPT ![a] = Idle]
  BY IndexIsId DEF VnInv, CallInv, Fits, Call, Pcs, Busy, Agent
<1>3. CallInv'
  BY <1>2, CallStep DEF VnInv, Agent
<1>4. LockInv'
  BY <1>2 DEF VnInv, TypeOK, CallInv, Fits, LockInv, Has, Agent, Lock, Busy
<1>5. AloneInv'
  BY DEF VnInv, TypeOK, CallInv, Call, AloneInv, Agent
<1>6. OwnedInv'
  BY NodeIsNode, IndexIsId DEF nodeVars, VnInv, TypeOK, CallInv, Call, Fits, OwnedInv, OwnerOf, Nodes, Agent
<1>7. \A b \in Agent : call'[b] = call[b] \/ (call[b].pc \notin Busy /\ call'[b].pc \notin Busy)
  BY <1>2 DEF VnInv, CallInv, Busy
<1>8. PlaceInv' /\ BitInv' /\ DevInv' /\ RefInv' /\ SkInv' /\ TaintInv'
  BY <1>7, QuietStep
<1> QED
  BY <1>1, <1>3, <1>4, <1>5, <1>6, <1>8 DEF VnInv

LEMMA DelNoneInv ==
  ASSUME VnInv, NEW a \in Agent, a \in Thread, DelNone(a)
  PROVE  VnInv'
<1> USE AgentsApart DEF DelNone, Return, UnlockAll, Idle, Free, At, procVars
<1>1. TypeOK'
  BY DEF nodeVars, VnInv, TypeOK, Lock, Agent, Nodes
<1>2. /\ Idle \in Call /\ Fits(a, Idle)
      /\ call' = [call EXCEPT ![a] = Idle]
  BY IndexIsId DEF VnInv, CallInv, Fits, Call, Pcs, Busy, Agent
<1>3. CallInv'
  BY <1>2, CallStep DEF VnInv, Agent
<1>4. LockInv'
  BY <1>2 DEF VnInv, TypeOK, CallInv, Fits, LockInv, Has, Agent, Lock, Busy
<1>5. AloneInv'
  BY DEF VnInv, TypeOK, CallInv, Call, AloneInv, Agent
<1>6. OwnedInv'
  BY NodeIsNode, IndexIsId DEF nodeVars, VnInv, TypeOK, CallInv, Call, Fits, OwnedInv, OwnerOf, Nodes, Agent
<1>7. \A b \in Agent : call'[b] = call[b] \/ (call[b].pc \notin Busy /\ call'[b].pc \notin Busy)
  BY <1>2 DEF VnInv, CallInv, Busy
<1>8. PlaceInv' /\ BitInv' /\ DevInv' /\ RefInv' /\ SkInv' /\ TaintInv'
  BY <1>7, QuietStep
<1> QED
  BY <1>1, <1>3, <1>4, <1>5, <1>6, <1>8 DEF VnInv

LEMMA InstLockInv ==
  ASSUME VnInv, NEW a \in Agent, InstLock(a)
  PROVE  VnInv'
<1> USE AgentsApart DEF InstLock, Take, Goto, Free, At, procVars
<1>1. TypeOK'
  BY DEF nodeVars, VnInv, TypeOK, Lock, Agent, Nodes
<1>2. /\ [call[a] EXCEPT !.pc = "vn"] \in Call /\ Fits(a, [call[a] EXCEPT !.pc = "vn"])
      /\ call' = [call EXCEPT ![a] = [call[a] EXCEPT !.pc = "vn"]]
  BY IndexIsId DEF VnInv, CallInv, Fits, Call, Pcs, Busy, Agent
<1>3. CallInv'
  BY <1>2, CallStep DEF VnInv, Agent
<1>4. LockInv'
  BY <1>2 DEF VnInv, TypeOK, CallInv, Fits, LockInv, Has, Agent, Lock, Busy
<1>5. AloneInv'
  BY DEF VnInv, TypeOK, CallInv, Call, AloneInv, Agent
<1>6. OwnedInv'
  BY NodeIsNode, IndexIsId DEF nodeVars, VnInv, TypeOK, CallInv, Call, Fits, OwnedInv, OwnerOf, Nodes, Agent
<1>7. \A b \in Agent : call'[b] = call[b] \/ (call[b].pc \notin Busy /\ call'[b].pc \notin Busy)
  BY <1>2 DEF VnInv, CallInv, Busy
<1>8. PlaceInv' /\ BitInv' /\ DevInv' /\ RefInv' /\ SkInv' /\ TaintInv'
  BY <1>7, QuietStep
<1> QED
  BY <1>1, <1>3, <1>4, <1>5, <1>6, <1>8 DEF VnInv

LEMMA ScanLockInv ==
  ASSUME VnInv, NEW a \in Agent, ScanLock(a)
  PROVE  VnInv'
<1> USE AgentsApart DEF ScanLock, Take, Goto, Free, At, procVars
<1>1. TypeOK'
  BY DEF nodeVars, VnInv, TypeOK, Lock, Agent, Nodes
<1>2. /\ [call[a] EXCEPT !.pc = "scan"] \in Call /\ Fits(a, [call[a] EXCEPT !.pc = "scan"])
      /\ call' = [call EXCEPT ![a] = [call[a] EXCEPT !.pc = "scan"]]
  BY IndexIsId DEF VnInv, CallInv, Fits, Call, Pcs, Busy, Agent
<1>3. CallInv'
  BY <1>2, CallStep DEF VnInv, Agent
<1>4. LockInv'
  BY <1>2 DEF VnInv, TypeOK, CallInv, Fits, LockInv, Has, Agent, Lock, Busy
<1>5. AloneInv'
  BY DEF VnInv, TypeOK, CallInv, Call, AloneInv, Agent
<1>6. OwnedInv'
  BY NodeIsNode, IndexIsId DEF nodeVars, VnInv, TypeOK, CallInv, Call, Fits, OwnedInv, OwnerOf, Nodes, Agent
<1>7. \A b \in Agent : call'[b] = call[b] \/ (call[b].pc \notin Busy /\ call'[b].pc \notin Busy)
  BY <1>2 DEF VnInv, CallInv, Busy
<1>8. PlaceInv' /\ BitInv' /\ DevInv' /\ RefInv' /\ SkInv' /\ TaintInv'
  BY <1>7, QuietStep
<1> QED
  BY <1>1, <1>3, <1>4, <1>5, <1>6, <1>8 DEF VnInv

LEMMA FileReleasedInv ==
  ASSUME VnInv, NEW a \in Agent, FileReleased(a)
  PROVE  VnInv'
<1> USE AgentsApart DEF FileReleased, Scanned, Return, UnlockAll, Idle, At, procVars
<1>1. TypeOK'
  BY DEF nodeVars, VnInv, TypeOK, Lock, Agent, Nodes
<1>2. /\ Idle \in Call /\ Fits(a, Idle)
      /\ call' = [call EXCEPT ![a] = Idle]
  BY IndexIsId DEF VnInv, CallInv, Fits, Call, Pcs, Busy, Agent
<1>3. CallInv'
  BY <1>2, CallStep DEF VnInv, Agent
<1>4. LockInv'
  BY <1>2 DEF VnInv, TypeOK, CallInv, Fits, LockInv, Has, Agent, Lock, Busy
<1>5. AloneInv'
  BY DEF VnInv, TypeOK, CallInv, Call, AloneInv, Agent
<1>6. OwnedInv'
  BY SMTT(30), NodeIsNode, IndexIsId DEF nodeVars, VnInv, TypeOK, CallInv, Call, Fits, OwnedInv, OwnerOf, Nodes, Agent
<1>7. \A b \in Agent : call'[b] = call[b] \/ (call[b].pc \notin Busy /\ call'[b].pc \notin Busy)
  BY <1>2 DEF VnInv, CallInv, Busy
<1>8. PlaceInv' /\ BitInv' /\ DevInv' /\ RefInv' /\ SkInv' /\ TaintInv'
  BY <1>7, QuietStep
<1> QED
  BY <1>1, <1>3, <1>4, <1>5, <1>6, <1>8 DEF VnInv

LEMMA UnRegDrvInv ==
  ASSUME VnInv, NEW a \in Agent, UnRegDrv(a)
  PROVE  VnInv'
<1> USE AgentsApart DEF UnRegDrv, Take, Goto, Free, At, procVars
<1>1. TypeOK'
  BY DEF nodeVars, VnInv, TypeOK, Lock, Agent, Nodes
<1>2. /\ [call[a] EXCEPT !.pc = "vn"] \in Call /\ Fits(a, [call[a] EXCEPT !.pc = "vn"])
      /\ call' = [call EXCEPT ![a] = [call[a] EXCEPT !.pc = "vn"]]
  BY IndexIsId DEF VnInv, CallInv, Fits, Call, Pcs, Busy, Agent
<1>3. CallInv'
  BY <1>2, CallStep DEF VnInv, Agent
<1>4. LockInv'
  BY <1>2 DEF VnInv, TypeOK, CallInv, Fits, LockInv, Has, Agent, Lock, Busy
<1>5. AloneInv'
  BY DEF VnInv, TypeOK, CallInv, Call, AloneInv, Agent
<1>6. OwnedInv'
  BY NodeIsNode, IndexIsId DEF nodeVars, VnInv, TypeOK, CallInv, Call, Fits, OwnedInv, OwnerOf, Nodes, Agent
<1>7. \A b \in Agent : call'[b] = call[b] \/ (call[b].pc \notin Busy /\ call'[b].pc \notin Busy)
  BY <1>2 DEF VnInv, CallInv, Busy
<1>8. PlaceInv' /\ BitInv' /\ DevInv' /\ RefInv' /\ SkInv' /\ TaintInv'
  BY <1>7, QuietStep
<1> QED
  BY <1>1, <1>3, <1>4, <1>5, <1>6, <1>8 DEF VnInv

LEMMA UnloadedInv ==
  ASSUME VnInv, NEW a \in Agent, Unloaded(a)
  PROVE  VnInv'
<1> USE AgentsApart DEF Unloaded, Scanned, Return, UnlockAll, Idle, At, procVars
<1>1. TypeOK'
  BY DEF nodeVars, VnInv, TypeOK, Lock, Agent, Nodes
<1>2. /\ Idle \in Call /\ Fits(a, Idle)
      /\ call' = [call EXCEPT ![a] = Idle]
  BY IndexIsId DEF VnInv, CallInv, Fits, Call, Pcs, Busy, Agent
<1>3. CallInv'
  BY <1>2, CallStep DEF VnInv, Agent
<1>4. LockInv'
  BY <1>2 DEF VnInv, TypeOK, CallInv, Fits, LockInv, Has, Agent, Lock, Busy
<1>5. AloneInv'
  BY DEF VnInv, TypeOK, CallInv, Call, AloneInv, Agent
<1>6. OwnedInv'
  BY NodeIsNode, IndexIsId DEF nodeVars, VnInv, TypeOK, CallInv, Call, Fits, OwnedInv, OwnerOf, Nodes, Agent
<1>7. \A b \in Agent : call'[b] = call[b] \/ (call[b].pc \notin Busy /\ call'[b].pc \notin Busy)
  BY <1>2 DEF VnInv, CallInv, Busy
<1>8. PlaceInv' /\ BitInv' /\ DevInv' /\ RefInv' /\ SkInv' /\ TaintInv'
  BY <1>7, QuietStep
<1> QED
  BY <1>1, <1>3, <1>4, <1>5, <1>6, <1>8 DEF VnInv

LEMMA UnRegNotifyInv ==
  ASSUME VnInv, NEW a \in Agent, NEW l \in {"inst", "cmd"}, NEW next \in {"cmd", "drv"}, UnRegNotify(a, l, next)
  PROVE  VnInv'
<1> USE AgentsApart DEF UnRegNotify, Goto, Free, At, procVars
<1>1. TypeOK'
  BY DEF nodeVars, VnInv, TypeOK, Lock, Agent, Nodes
<1>2. /\ [call[a] EXCEPT !.pc = next] \in Call /\ Fits(a, [call[a] EXCEPT !.pc = next])
      /\ call' = [call EXCEPT ![a] = [call[a] EXCEPT !.pc = next]]
  BY IndexIsId DEF VnInv, CallInv, Fits, Call, Pcs, Busy, Agent
<1>3. CallInv'
  BY <1>2, CallStep DEF VnInv, Agent
<1>4. LockInv'
  BY <1>2 DEF VnInv, TypeOK, CallInv, Fits, LockInv, Has, Agent, Lock, Busy
<1>5. AloneInv'
  BY DEF VnInv, TypeOK, CallInv, Call, AloneInv, Agent
<1>6. OwnedInv'
  BY NodeIsNode, IndexIsId DEF nodeVars, VnInv, TypeOK, CallInv, Call, Fits, OwnedInv, OwnerOf, Nodes, Agent
<1>7. \A b \in Agent : call'[b] = call[b] \/ (call[b].pc \notin Busy /\ call'[b].pc \notin Busy)
  BY <1>2 DEF VnInv, CallInv, Busy
<1>8. PlaceInv' /\ BitInv' /\ DevInv' /\ RefInv' /\ SkInv' /\ TaintInv'
  BY <1>7, QuietStep
<1> QED
  BY <1>1, <1>3, <1>4, <1>5, <1>6, <1>8 DEF VnInv

-----------------------------------------------------------------------------
(* The steps at a node.                                                    *)

(* Whoever is busy with a node is so with one that is there.               *)
LEMMA BusyNode ==
  ASSUME VnInv, NEW a \in Agent, call[a].pc \in Busy
  PROVE  /\ IdAt(a) \in Nodes /\ call[a].idx \in 0 .. TotChanNum - 1
         /\ chanTbl[IdAt(a)].idx = call[a].idx
         /\ a \in Thread \/ (At(a, "unreg") /\ a \in File)
         /\ (call[a].idx \in bitMap <=> At(a, "unreg"))
<1>1. IdAt(a) \in Nodes /\ (call[a].idx \in bitMap <=> At(a, "unreg"))
  BY DEF VnInv, BitInv, CallInv, Fits, Making, Busy, Agent, At
<1>2. call[a].idx \in 0 .. TotChanNum - 1
  BY IndexIsId DEF VnInv, CallInv, Call, Fits
<1>3. a \in Thread \/ (At(a, "unreg") /\ a \in File)
  BY DEF VnInv, CallInv, Fits, Busy, Agent, At
<1> QED
  BY <1>1, <1>2, <1>3, NodeIsNode DEF IdAt

LEMMA AddNodeInv ==
  ASSUME VnInv, NEW t \in Thread, AddNode(t)
  PROVE  VnInv'
<1>1. t \in Agent /\ At(t, "vn")
  BY DEF AddNode, Agent
<1>2. PICK i \in 0 .. TotChanNum - 1 : i \notin bitMap /\ i = Min(FreeBits)
  <2>1. FreeBits \in SUBSET Nat /\ FreeBits # {}
    BY IndexIsId DEF AddNode, FreeBits
  <2>2. Min(FreeBits) \in FreeBits
    BY <2>1, MinOfNats
  <2> QED
    BY <2>2 DEF FreeBits
<1> DEFINE id == IndxToId[i]
<1>3. PICK s \in Sock :
        /\ ~Given(s) /\ chanTbl[id] = NULL
        /\ chanTbl' = [chanTbl EXCEPT ![id] = NewNode(i, t, s)]
        /\ fileRef' = [fileRef EXCEPT ![s] = @ + 1]
        /\ call' = [call EXCEPT ![t].pc = "reg", ![t].idx = i]
  BY <1>2 DEF AddNode, ChanInit
<1> DEFINE n == NewNode(i, t, s)
           r == [call[t] EXCEPT !.pc = "reg", !.idx = i]
<1>4. /\ lock' = [lock EXCEPT !["vn"] = t] /\ Free("vn")
      /\ UNCHANGED << procVars, bitMap, devs, privCb, sk, tainted >>
  BY DEF AddNode, Take
<1>5. \A b \in Agent : call[b].pc \notin AtNodes
  BY <1>4, NoneAtNodes
<1>6. id \in ChanId /\ n \in Node /\ n # NULL /\ n.idx = i /\ n.inst = ProcOf[t] /\ n.sock = s
      /\ n.old = sk[s].ready
  BY <1>2, IndexIsId, AgentsApart, NodeAssumption DEF NewNode, Node, VnInv, TypeOK
<1> HIDE DEF n
<1>7. Nodes' = Nodes \cup {id} /\ id \notin Nodes /\ chanTbl'[id] = n
      /\ \A jd \in Nodes : chanTbl'[jd] = chanTbl[jd]
  BY <1>3, <1>6 DEF Nodes, VnInv, TypeOK, n
<1>8. r \in Call /\ Fits(t, r) /\ call' = [call EXCEPT ![t] = r]
  <2>1. call[t] \in Call /\ i \in Nat /\ i < TotChanNum
    BY <1>1, <1>2, IndexIsId DEF VnInv, CallInv
  <2>2. r \in Call /\ r.pc = "reg" /\ r.idx = i
    BY <2>1 DEF Call, Pcs, Busy
  <2>3. Fits(t, r)
    BY <2>1, <2>2 DEF Fits, Busy
  <2>4. call' = [call EXCEPT ![t] = r]
    BY <1>1, <1>3, <2>1 DEF VnInv, CallInv, Call
  <2> QED
    BY <2>2, <2>3, <2>4
<1>9. CallInv'
  BY <1>1, <1>8, CallStep DEF VnInv
<1>10. TypeOK'
  BY <1>1, <1>3, <1>4, <1>6 DEF VnInv, TypeOK, procVars, Lock, n
<1>11. LockInv'
  BY <1>1, <1>4, <1>8, AgentsApart DEF VnInv, LockInv, Has, TypeOK, CallInv, Fits, At, Free, Lock, Agent
<1>12. AloneInv'
  BY <1>1, <1>4, <1>8, AgentsApart DEF VnInv, CallInv, Call, AloneInv, At, procVars, Agent
<1>13. OwnedInv'
  <2>1. call[t].file \in File /\ OwnerOf(call[t].file, n)
    BY <1>1, <1>5, <1>6 DEF VnInv, AloneInv, At, OwnerOf, AtNodes, Busy, Agent
  <2>2. \A f \in File : call'[f] = call[f] /\ inst'[f] = inst[f]
    BY <1>4, <1>8, AgentsApart DEF VnInv, CallInv, Agent, procVars
  <2> QED
    BY <1>7, <2>1, <2>2 DEF VnInv, OwnedInv, OwnerOf
<1>14. PlaceInv'
  BY <1>6, <1>7 DEF VnInv, PlaceInv
<1>15. BitInv'
  BY SMTT(30), <1>1, <1>2, <1>4, <1>5, <1>6, <1>7, <1>8 DEF VnInv, BitInv, CallInv, Call, Making, At, IdAt, AtNodes, Busy, Agent
<1>16. DevInv'
  BY SMTT(30), <1>1, <1>4, <1>5, <1>6, <1>7, <1>8 DEF VnInv, DevInv, CallInv, Call, At, IdAt, AtNodes, Busy, Agent
<1>17. RefInv'
  BY <1>3, <1>6, <1>7 DEF VnInv, RefInv, Given, TypeOK
<1>18. SkInv'
  <2>1. sk[s] = OwnSk \/ s \in tainted
    BY <1>3 DEF VnInv, SkInv
  <2>2. \A jd \in Nodes : (Hooked(jd))' = Hooked(jd)
    BY <1>1, <1>5, <1>7, <1>8 DEF Hooked, IdAt, VnInv, CallInv, Call, AtNodes, Busy
  <2>3. ~Hooked(id)'
    BY <1>1, <1>8 DEF Hooked, IdAt, VnInv, CallInv, Call
  <2>4. ASSUME NEW jd \in Nodes', chanTbl'[jd].sock \notin tainted'
        PROVE  /\ chanTbl'[jd].old = "own"
               /\ sk'[chanTbl'[jd].sock] =
                    IF chanTbl'[jd].sock \in Driven /\ (Hooked(jd))' THEN [ready |-> "vn", user |-> jd] ELSE OwnSk
    <3>1. CASE jd = id
      BY <1>4, <1>6, <1>7, <2>1, <2>3, <2>4, <3>1 DEF OwnSk
    <3>2. CASE jd # id
      BY <1>4, <1>7, <2>2, <2>4, <3>2 DEF VnInv, SkInv
    <3> QED
      BY <3>1, <3>2
  <2>5. ASSUME NEW x \in Sock \ tainted' PROVE (Given(x))' \/ sk'[x] = OwnSk
    BY <1>4, <1>7, <2>5 DEF VnInv, SkInv, Given
  <2> QED
    BY <2>4, <2>5 DEF SkInv, OwnSk
<1>19. TaintInv'
  BY <1>1, <1>5, <1>8 DEF TaintInv, VnInv, CallInv, Call, At, AtNodes, Busy, Agent
<1> QED
  BY <1>9, <1>10, <1>11, <1>12, <1>13, <1>14, <1>15, <1>16, <1>17, <1>18, <1>19 DEF VnInv

(* What is left once a node has been taken back.                           *)
LEMMA NodeGone ==
  ASSUME VnInv, NEW id \in Nodes, TakenBack(id)
  PROVE  /\ Nodes' = Nodes \ {id} /\ \A jd \in Nodes : jd # id => chanTbl'[jd] = chanTbl[jd]
         /\ chanTbl' \in [ChanId -> Node \cup {NULL}] /\ fileRef' \in [Sock -> Nat]
         /\ \A s \in Sock : (Given(s))' = (Given(s) /\ s # chanTbl[id].sock)
         /\ PlaceInv' /\ RefInv'
<1> DEFINE n == chanTbl[id]
<1>1. id \in ChanId /\ n.sock \in Sock
  BY NodeIsNode
<1>2. chanTbl' = [chanTbl EXCEPT ![id] = NULL] /\ fileRef' = [fileRef EXCEPT ![n.sock] = @ - 1]
  BY DEF TakenBack, Put
<1>3. Nodes' = Nodes \ {id} /\ \A jd \in Nodes : jd # id => chanTbl'[jd] = chanTbl[jd]
  BY <1>1, <1>2 DEF Nodes, VnInv, TypeOK
<1>4. \A jd \in Nodes : chanTbl[jd].sock = n.sock => jd = id
  BY DEF VnInv, RefInv
<1>5. ASSUME NEW s \in Sock PROVE (Given(s))' = (Given(s) /\ s # n.sock)
  <2>1. ASSUME NEW jd \in Nodes', chanTbl'[jd].sock = s PROVE Given(s) /\ s # n.sock
    BY <1>3, <1>4, <2>1 DEF Given
  <2>2. ASSUME NEW jd \in Nodes, chanTbl[jd].sock = s, s # n.sock PROVE jd \in Nodes' /\ chanTbl'[jd].sock = s
    BY <1>3, <2>2
  <2> QED
    BY <2>1, <2>2 DEF Given
<1>6. fileRef[n.sock] = 1 /\ fileRef \in [Sock -> Nat] /\ chanTbl \in [ChanId -> Node \cup {NULL}]
  BY <1>1 DEF VnInv, RefInv, Given, TypeOK
<1>7. PlaceInv'
  BY <1>3 DEF VnInv, PlaceInv
<1>8. RefInv'
  <2>1. ASSUME NEW s \in Sock PROVE fileRef'[s] = IF (Given(s))' THEN 1 ELSE 0
    <3>1. fileRef'[s] = IF s = n.sock THEN 0 ELSE fileRef[s]
      BY <1>1, <1>2, <1>6
    <3>2. fileRef[s] = IF Given(s) THEN 1 ELSE 0
      BY DEF VnInv, RefInv
    <3> QED
      BY <1>5, <3>1, <3>2
  <2>2. \A kd, jd \in Nodes' : chanTbl'[kd].sock = chanTbl'[jd].sock => kd = jd
    BY <1>3 DEF VnInv, RefInv
  <2> QED
    BY <2>1, <2>2 DEF RefInv
<1> QED
  BY <1>1, <1>2, <1>3, <1>5, <1>6, <1>7, <1>8

LEMMA RegDevInv ==
  ASSUME VnInv, NEW t \in Agent, RegDev(t)
  PROVE  VnInv'
<1>1. PICK id \in Nodes : id = IdAt(t) /\ chanTbl[id].idx = call[t].idx
  BY BusyNode DEF RegDev, At, Busy
<1> DEFINE n == chanTbl[id]
           r == [call[t] EXCEPT !.pc = "copy"]
<1>2. /\ At(t, "reg") /\ t \in Thread /\ call[t].idx \in 0 .. TotChanNum - 1 /\ call[t].idx \notin bitMap
      /\ lock["vn"] = t
      /\ \A b \in Agent : b # t => call[b].pc \notin AtNodes
  BY BusyNode, OneAtNodes DEF RegDev, At, Busy, AtNodes
<1>3. /\ id \in ChanId /\ n \in Node /\ n.inst \in Proc /\ n.sock \in Sock
      /\ \A j \in 0 .. TotChanNum - 1 : IndxToId[j] = id <=> j = call[t].idx
  BY <1>1, NodeIsNode
<1>4. /\ call' = [call EXCEPT ![t] = r]
      /\ UNCHANGED << procVars, lock, bitMap, chanTbl, fileRef, tainted >>
      /\ devs' = devs \cup {id}
      /\ IF n.sock \in Driven
         THEN privCb' = privCb \cup {id} /\ sk' = [sk EXCEPT ![n.sock] = [ready |-> "vn", user |-> id]]
         ELSE UNCHANGED << privCb, sk >>
  BY <1>1, <1>2 DEF RegDev, RegDev, Goto, DriverInit, Hook
<1>5. r \in Call /\ Fits(t, r)
  BY <1>2, IndexIsId, AgentsApart DEF VnInv, CallInv, Call, Pcs, Busy, Fits, Agent, Idle
<1>6. CallInv'
  BY <1>4, <1>5, CallStep DEF VnInv
<1>7. \A b \in Agent : b # t => call'[b] = call[b]
  BY <1>4 DEF VnInv, CallInv
<1>8. /\ call'[t] = r /\ call'[t].pc = "copy"
      /\ call'[t].idx = call[t].idx /\ call'[t].file = call[t].file
  BY <1>4 DEF VnInv, CallInv, Call
<1>9. Nodes' = Nodes
  BY <1>4 DEF Nodes
<1>10. TypeOK'
  BY <1>3, <1>4 DEF VnInv, TypeOK, procVars
<1>11. LockInv'
  BY <1>2, <1>4, <1>7, <1>8, AgentsApart DEF VnInv, LockInv, Has, TypeOK, At, Lock, Agent, Busy, Idle
<1>12. AloneInv'
  BY <1>2, <1>4, <1>7, <1>8, AgentsApart DEF VnInv, CallInv, Call, AloneInv, At, procVars, Agent, Idle
<1>13. OwnedInv'
  BY <1>2, <1>4, <1>7, <1>9, AgentsApart DEF VnInv, OwnedInv, OwnerOf, procVars, Agent
<1>14. PlaceInv'
  BY <1>4, <1>9 DEF VnInv, PlaceInv
<1>15. BitInv'
  BY SMTT(30), <1>1, <1>2, <1>4, <1>7, <1>8, <1>9 DEF VnInv, BitInv, Making, At, IdAt, AtNodes, Busy, Agent
<1>16. DevInv'
  BY SMTT(30), <1>1, <1>2, <1>3, <1>4, <1>7, <1>8, <1>9 DEF VnInv, DevInv, At, IdAt, AtNodes, Busy, Agent
<1>17. RefInv'
  BY <1>4, <1>9 DEF VnInv, RefInv, Given
<1>18. SkInv'
  <2>1. ASSUME NEW jd \in Nodes, jd # id PROVE (Hooked(jd))' = Hooked(jd)
    <3>1. Hooked(jd)
      BY <1>1, <1>2, <2>1 DEF Hooked, AtNodes, Busy
    <3>2. (Hooked(jd))'
      BY ZenonT(40), <1>2, <1>7, <1>8 DEF Hooked, AtNodes, Busy
    <3> QED
      BY <3>1, <3>2
  <2>2. (Hooked(id))' /\ ~Hooked(id)
    BY ZenonT(40), <1>1, <1>2, <1>7, <1>8 DEF Hooked, IdAt, At, AtNodes, Busy
  <2>3. \A jd \in Nodes : chanTbl[jd].sock = n.sock => jd = id
    BY DEF VnInv, RefInv
  <2>4. ASSUME NEW jd \in Nodes', chanTbl'[jd].sock \notin tainted'
        PROVE  /\ chanTbl'[jd].old = "own"
               /\ sk'[chanTbl'[jd].sock] =
                    IF chanTbl'[jd].sock \in Driven /\ (Hooked(jd))' THEN [ready |-> "vn", user |-> jd] ELSE OwnSk
    <3>1. CASE jd = id
      <4>1. n.sock \notin tainted => n.old = "own" /\ sk[n.sock] = OwnSk
        BY <2>2 DEF VnInv, SkInv
      <4> QED
        BY <1>3, <1>4, <2>2, <2>4, <3>1, <4>1 DEF VnInv, TypeOK
    <3>2. CASE jd # id
      <4>1. sk'[chanTbl[jd].sock] = sk[chanTbl[jd].sock]
        BY <1>4, <1>9, <2>3, <2>4, <3>2, NodeIsNode DEF VnInv, TypeOK
      <4> QED
        BY <1>4, <1>9, <2>1, <2>4, <3>2, <4>1 DEF VnInv, SkInv
    <3> QED
      BY <3>1, <3>2
  <2>5. ASSUME NEW x \in Sock \ tainted' PROVE (Given(x))' \/ sk'[x] = OwnSk
    BY <1>4, <1>9, <2>5 DEF VnInv, SkInv, Given, TypeOK
  <2> QED
    BY <2>4, <2>5 DEF SkInv, OwnSk
<1>19. TaintInv'
  <2>1. \A b \in Agent : call'[b].pc # "undo"
    BY <1>2, <1>7, <1>8 DEF AtNodes, Busy
  <2> QED
    BY <2>1 DEF TaintInv, At, Agent
<1> QED
  BY <1>6, <1>10, <1>11, <1>12, <1>13, <1>14, <1>15, <1>16, <1>17, <1>18, <1>19 DEF VnInv

LEMMA RegDevFailsInv ==
  ASSUME VnInv, NEW t \in Agent, RegDevFails(t)
  PROVE  VnInv'
<1>1. PICK id \in Nodes : id = IdAt(t) /\ chanTbl[id].idx = call[t].idx
  BY BusyNode DEF RegDevFails, At, Busy
<1> DEFINE n == chanTbl[id]
           r == Idle
<1>2. /\ At(t, "reg") /\ t \in Thread /\ call[t].idx \in 0 .. TotChanNum - 1 /\ call[t].idx \notin bitMap
      /\ lock["vn"] = t
      /\ \A b \in Agent : b # t => call[b].pc \notin AtNodes
  BY BusyNode, OneAtNodes DEF RegDevFails, At, Busy, AtNodes
<1>3. /\ id \in ChanId /\ n \in Node /\ n.inst \in Proc /\ n.sock \in Sock
      /\ \A j \in 0 .. TotChanNum - 1 : IndxToId[j] = id <=> j = call[t].idx
  BY <1>1, NodeIsNode
<1>4. /\ call' = [call EXCEPT ![t] = r]
      /\ UNCHANGED << procVars, bitMap, devs, privCb, sk, tainted >>
      /\ TakenBack(id)
      /\ lock' = [l \in Lock |-> IF lock[l] = t THEN NULL ELSE lock[l]]
  BY <1>1, <1>2 DEF RegDevFails, RegDevFails, Return, UnlockAll
<1>5. r \in Call /\ Fits(t, r)
  BY <1>2, IndexIsId, AgentsApart DEF VnInv, CallInv, Call, Pcs, Busy, Fits, Agent, Idle
<1>6. CallInv'
  BY <1>4, <1>5, CallStep DEF VnInv
<1>7. \A b \in Agent : b # t => call'[b] = call[b]
  BY <1>4 DEF VnInv, CallInv
<1>8. call'[t] = r
  BY <1>4 DEF VnInv, CallInv
<1>9. /\ Nodes' = Nodes \ {id} /\ \A jd \in Nodes : jd # id => chanTbl'[jd] = chanTbl[jd]
      /\ chanTbl' \in [ChanId -> Node \cup {NULL}] /\ fileRef' \in [Sock -> Nat]
      /\ \A s \in Sock : (Given(s))' = (Given(s) /\ s # n.sock)
  BY <1>4, NodeGone
<1>10. TypeOK'
  BY <1>3, <1>4, <1>9, AgentsApart DEF VnInv, TypeOK, procVars
<1>11. LockInv'
  BY <1>2, <1>4, <1>7, <1>8, AgentsApart DEF VnInv, LockInv, Has, TypeOK, At, Lock, Agent, Busy, Idle
<1>12. AloneInv'
  BY <1>2, <1>4, <1>7, <1>8, AgentsApart DEF VnInv, CallInv, Call, AloneInv, At, procVars, Agent, Idle
<1>13. OwnedInv'
  BY <1>2, <1>4, <1>7, <1>9, AgentsApart DEF VnInv, OwnedInv, OwnerOf, procVars, Agent
<1>14. PlaceInv' /\ RefInv'
  BY <1>4, NodeGone
<1>15. BitInv'
  <2>1. ASSUME NEW jd \in Nodes'
        PROVE  chanTbl'[jd].idx \in bitMap' \/ \E b \in Thread : (Making(b))' /\ call'[b].idx = chanTbl'[jd].idx
    <3>1. jd # id /\ chanTbl[jd].idx # call[t].idx
      BY <1>1, <1>9, NodeIsNode
    <3> QED
      BY <1>4, <1>7, <1>9, <3>1 DEF VnInv, BitInv, Making, Agent
  <2>2. ASSUME NEW i \in bitMap' PROVE IndxToId[i] \in Nodes'
    BY <1>2, <1>3, <1>4, <1>9 DEF VnInv, BitInv, TypeOK
  <2>3. \A b \in Agent : call'[b].pc \notin Busy
    BY <1>2, <1>7, <1>8 DEF AtNodes, Busy, Idle
  <2> QED
    BY <2>1, <2>2, <2>3 DEF BitInv, Making, Busy, At, Agent
<1>16. DevInv'
  BY SMTT(30), <1>1, <1>2, <1>3, <1>4, <1>7, <1>8, <1>9 DEF VnInv, DevInv, At, IdAt, AtNodes, Busy, Agent, Idle
<1>18. SkInv'
  <2>1. ASSUME NEW jd \in Nodes, jd # id PROVE (Hooked(jd))' = Hooked(jd)
    BY <1>1, <1>2, <1>7, <1>8, <2>1 DEF Hooked, IdAt, At, AtNodes, Busy, Idle
  <2>2. ~Hooked(id)
    BY <1>1, <1>2 DEF Hooked, IdAt, At
  <2>3. n.sock \notin tainted => sk[n.sock] = OwnSk
    BY <2>2 DEF VnInv, SkInv
  <2>4. ASSUME NEW jd \in Nodes', chanTbl'[jd].sock \notin tainted'
        PROVE  /\ chanTbl'[jd].old = "own"
               /\ sk'[chanTbl'[jd].sock] =
                    IF chanTbl'[jd].sock \in Driven /\ (Hooked(jd))' THEN [ready |-> "vn", user |-> jd] ELSE OwnSk
    BY <1>4, <1>9, <2>1, <2>4 DEF VnInv, SkInv
  <2>5. ASSUME NEW x \in Sock \ tainted' PROVE (Given(x))' \/ sk'[x] = OwnSk
    BY <1>4, <1>9, <2>3, <2>5 DEF VnInv, SkInv
  <2> QED
    BY <2>4, <2>5 DEF SkInv, OwnSk
<1>19. TaintInv'
  BY <1>2, <1>7, <1>8 DEF TaintInv, At, AtNodes, Busy, Agent, Idle
<1> QED
  BY <1>6, <1>10, <1>11, <1>12, <1>13, <1>14, <1>15, <1>16, <1>18, <1>19 DEF VnInv

LEMMA CopyOutInv ==
  ASSUME VnInv, NEW t \in Agent, CopyOut(t)
  PROVE  VnInv'
<1>1. PICK id \in Nodes : id = IdAt(t) /\ chanTbl[id].idx = call[t].idx
  BY BusyNode DEF CopyOut, At, Busy
<1> DEFINE n == chanTbl[id]
           r == Idle
<1>2. /\ At(t, "copy") /\ t \in Thread /\ call[t].idx \in 0 .. TotChanNum - 1 /\ call[t].idx \notin bitMap
      /\ lock["vn"] = t
      /\ \A b \in Agent : b # t => call[b].pc \notin AtNodes
  BY BusyNode, OneAtNodes DEF CopyOut, At, Busy, AtNodes
<1>3. /\ id \in ChanId /\ n \in Node /\ n.inst \in Proc /\ n.sock \in Sock
      /\ \A j \in 0 .. TotChanNum - 1 : IndxToId[j] = id <=> j = call[t].idx
  BY <1>1, NodeIsNode
<1>4. /\ call' = [call EXCEPT ![t] = r]
      /\ UNCHANGED << procVars, chanTbl, devs, privCb, fileRef, sk, tainted >>
      /\ bitMap' = bitMap \cup {call[t].idx}
      /\ lock' = [l \in Lock |-> IF lock[l] = t THEN NULL ELSE lock[l]]
  BY <1>1, <1>2 DEF CopyOut, CopyOut, Return, UnlockAll
<1>5. r \in Call /\ Fits(t, r)
  BY <1>2, IndexIsId, AgentsApart DEF VnInv, CallInv, Call, Pcs, Busy, Fits, Agent, Idle
<1>6. CallInv'
  BY <1>4, <1>5, CallStep DEF VnInv
<1>7. \A b \in Agent : b # t => call'[b] = call[b]
  BY <1>4 DEF VnInv, CallInv
<1>8. call'[t] = r
  BY <1>4 DEF VnInv, CallInv
<1>9. Nodes' = Nodes
  BY <1>4 DEF Nodes
<1>10. TypeOK'
  BY <1>2, <1>4, AgentsApart DEF VnInv, TypeOK, procVars
<1>11. LockInv'
  BY <1>2, <1>4, <1>7, <1>8, AgentsApart DEF VnInv, LockInv, Has, TypeOK, At, Lock, Agent, Busy, Idle
<1>12. AloneInv'
  BY <1>2, <1>4, <1>7, <1>8, AgentsApart DEF VnInv, CallInv, Call, AloneInv, At, procVars, Agent, Idle
<1>13. OwnedInv'
  BY <1>2, <1>4, <1>7, <1>9, AgentsApart DEF VnInv, OwnedInv, OwnerOf, procVars, Agent
<1>14. PlaceInv'
  BY <1>4, <1>9 DEF VnInv, PlaceInv
<1>15. BitInv'
  BY SMTT(30), <1>1, <1>2, <1>4, <1>7, <1>8, <1>9 DEF VnInv, BitInv, Making, At, IdAt, AtNodes, Busy, Agent, Idle
<1>16. DevInv'
  BY SMTT(30), <1>1, <1>2, <1>3, <1>4, <1>7, <1>8, <1>9 DEF VnInv, DevInv, At, IdAt, AtNodes, Busy, Agent, Idle
<1>17. RefInv'
  BY <1>4, <1>9 DEF VnInv, RefInv, Given
<1>18. SkInv'
  <2>1. ASSUME NEW jd \in Nodes PROVE (Hooked(jd))' = Hooked(jd)
    BY <1>1, <1>2, <1>7, <1>8 DEF Hooked, IdAt, At, AtNodes, Busy, Idle
  <2>2. ASSUME NEW jd \in Nodes', chanTbl'[jd].sock \notin tainted'
        PROVE  /\ chanTbl'[jd].old = "own"
               /\ sk'[chanTbl'[jd].sock] =
                    IF chanTbl'[jd].sock \in Driven /\ (Hooked(jd))' THEN [ready |-> "vn", user |-> jd] ELSE OwnSk
    BY <1>4, <1>9, <2>1, <2>2 DEF VnInv, SkInv
  <2>3. ASSUME NEW x \in Sock \ tainted' PROVE (Given(x))' \/ sk'[x] = OwnSk
    BY <1>4, <1>9, <2>3 DEF VnInv, SkInv, Given
  <2> QED
    BY <2>2, <2>3 DEF SkInv, OwnSk
<1>19. TaintInv'
  BY <1>2, <1>7, <1>8 DEF TaintInv, At, AtNodes, Busy, Agent, Idle
<1> QED
  BY <1>6, <1>10, <1>11, <1>12, <1>13, <1>14, <1>15, <1>16, <1>17, <1>18, <1>19 DEF VnInv

LEMMA CopyFailsInv ==
  ASSUME VnInv, NEW t \in Agent, CopyFails(t)
  PROVE  VnInv'
<1>1. PICK id \in Nodes : id = IdAt(t) /\ chanTbl[id].idx = call[t].idx
  BY BusyNode DEF CopyFails, At, Busy
<1> DEFINE n == chanTbl[id]
           r == [call[t] EXCEPT !.pc = "undo"]
<1>2. /\ At(t, "copy") /\ t \in Thread /\ call[t].idx \in 0 .. TotChanNum - 1 /\ call[t].idx \notin bitMap
      /\ lock["vn"] = t
      /\ \A b \in Agent : b # t => call[b].pc \notin AtNodes
  BY BusyNode, OneAtNodes DEF CopyFails, At, Busy, AtNodes
<1>3. /\ id \in ChanId /\ n \in Node /\ n.inst \in Proc /\ n.sock \in Sock
      /\ \A j \in 0 .. TotChanNum - 1 : IndxToId[j] = id <=> j = call[t].idx
  BY <1>1, NodeIsNode
<1>4. /\ call' = [call EXCEPT ![t] = r]
      /\ UNCHANGED << procVars, lock, bitMap, chanTbl, devs, privCb, fileRef, sk >>
      /\ tainted' = tainted \cup {n.sock}
  BY <1>1, <1>2 DEF CopyFails, CopyFails, Goto
<1>5. r \in Call /\ Fits(t, r)
  BY <1>2, IndexIsId, AgentsApart DEF VnInv, CallInv, Call, Pcs, Busy, Fits, Agent, Idle
<1>6. CallInv'
  BY <1>4, <1>5, CallStep DEF VnInv
<1>7. \A b \in Agent : b # t => call'[b] = call[b]
  BY <1>4 DEF VnInv, CallInv
<1>8. /\ call'[t] = r /\ call'[t].pc = "undo"
      /\ call'[t].idx = call[t].idx /\ call'[t].file = call[t].file
  BY <1>4 DEF VnInv, CallInv, Call
<1>9. Nodes' = Nodes
  BY <1>4 DEF Nodes
<1>10. TypeOK'
  BY <1>3, <1>4 DEF VnInv, TypeOK, procVars
<1>11. LockInv'
  BY <1>2, <1>4, <1>7, <1>8, AgentsApart DEF VnInv, LockInv, Has, TypeOK, At, Lock, Agent, Busy, Idle
<1>12. AloneInv'
  BY <1>2, <1>4, <1>7, <1>8, AgentsApart DEF VnInv, CallInv, Call, AloneInv, At, procVars, Agent, Idle
<1>13. OwnedInv'
  BY <1>2, <1>4, <1>7, <1>9, AgentsApart DEF VnInv, OwnedInv, OwnerOf, procVars, Agent
<1>14. PlaceInv'
  BY <1>4, <1>9 DEF VnInv, PlaceInv
<1>15. BitInv'
  BY SMTT(30), <1>1, <1>2, <1>4, <1>7, <1>8, <1>9 DEF VnInv, BitInv, Making, At, IdAt, AtNodes, Busy, Agent
<1>16. DevInv'
  BY SMTT(30), <1>1, <1>2, <1>3, <1>4, <1>7, <1>8, <1>9 DEF VnInv, DevInv, At, IdAt, AtNodes, Busy, Agent
<1>17. RefInv'
  BY <1>4, <1>9 DEF VnInv, RefInv, Given
<1>18. SkInv'
  <2>1. ASSUME NEW jd \in Nodes PROVE (Hooked(jd))' = Hooked(jd)
    <3>1. Hooked(jd)
      BY <1>2 DEF Hooked, At, AtNodes, Busy
    <3>2. (Hooked(jd))'
      BY <1>2, <1>7, <1>8 DEF Hooked, AtNodes, Busy
    <3> QED
      BY <3>1, <3>2
  <2>2. ASSUME NEW jd \in Nodes', chanTbl'[jd].sock \notin tainted'
        PROVE  /\ chanTbl'[jd].old = "own"
               /\ sk'[chanTbl'[jd].sock] =
                    IF chanTbl'[jd].sock \in Driven /\ (Hooked(jd))' THEN [ready |-> "vn", user |-> jd] ELSE OwnSk
    BY <1>4, <1>9, <2>1, <2>2 DEF VnInv, SkInv
  <2>3. ASSUME NEW x \in Sock \ tainted' PROVE (Given(x))' \/ sk'[x] = OwnSk
    BY <1>4, <1>9, <2>3 DEF VnInv, SkInv, Given
  <2> QED
    BY <2>2, <2>3 DEF SkInv, OwnSk
<1>19. TaintInv'
  BY <1>1, <1>2, <1>4, <1>7, <1>8 DEF TaintInv, IdAt, At, AtNodes, Busy, Agent
<1> QED
  BY <1>6, <1>10, <1>11, <1>12, <1>13, <1>14, <1>15, <1>16, <1>17, <1>18, <1>19 DEF VnInv

LEMMA UndoNodeInv ==
  ASSUME VnInv, NEW t \in Agent, UndoNode(t)
  PROVE  VnInv'
<1>1. PICK id \in Nodes : id = IdAt(t) /\ chanTbl[id].idx = call[t].idx
  BY BusyNode DEF UndoNode, At, Busy
<1> DEFINE n == chanTbl[id]
           r == Idle
<1>2. /\ At(t, "undo") /\ t \in Thread /\ call[t].idx \in 0 .. TotChanNum - 1 /\ call[t].idx \notin bitMap
      /\ lock["vn"] = t
      /\ \A b \in Agent : b # t => call[b].pc \notin AtNodes
  BY BusyNode, OneAtNodes DEF UndoNode, At, Busy, AtNodes
<1>3. /\ id \in ChanId /\ n \in Node /\ n.inst \in Proc /\ n.sock \in Sock
      /\ \A j \in 0 .. TotChanNum - 1 : IndxToId[j] = id <=> j = call[t].idx
  BY <1>1, NodeIsNode
<1>4. /\ call' = [call EXCEPT ![t] = r]
      /\ UNCHANGED << procVars, bitMap, tainted >>
      /\ devs' = devs \ {id} /\ privCb' = privCb \ {id}
      /\ sk' = [s \in Sock |-> IF sk[s].user = id THEN [sk[s] EXCEPT !.user = Freed] ELSE sk[s]]
      /\ TakenBack(id)
      /\ lock' = [l \in Lock |-> IF lock[l] = t THEN NULL ELSE lock[l]]
  BY <1>1, <1>2 DEF UndoNode, UndoNode, UnRegDev, DriverExit, Return, UnlockAll
<1>5. r \in Call /\ Fits(t, r)
  BY <1>2, IndexIsId, AgentsApart DEF VnInv, CallInv, Call, Pcs, Busy, Fits, Agent, Idle
<1>6. CallInv'
  BY <1>4, <1>5, CallStep DEF VnInv
<1>7. \A b \in Agent : b # t => call'[b] = call[b]
  BY <1>4 DEF VnInv, CallInv
<1>8. call'[t] = r
  BY <1>4 DEF VnInv, CallInv
<1>9. /\ Nodes' = Nodes \ {id} /\ \A jd \in Nodes : jd # id => chanTbl'[jd] = chanTbl[jd]
      /\ chanTbl' \in [ChanId -> Node \cup {NULL}] /\ fileRef' \in [Sock -> Nat]
      /\ \A s \in Sock : (Given(s))' = (Given(s) /\ s # n.sock)
  BY <1>4, NodeGone
<1>10. TypeOK'
  BY <1>3, <1>4, <1>9, AgentsApart DEF VnInv, TypeOK, procVars
<1>11. LockInv'
  BY <1>2, <1>4, <1>7, <1>8, AgentsApart DEF VnInv, LockInv, Has, TypeOK, At, Lock, Agent, Busy, Idle
<1>12. AloneInv'
  BY <1>2, <1>4, <1>7, <1>8, AgentsApart DEF VnInv, CallInv, Call, AloneInv, At, procVars, Agent, Idle
<1>13. OwnedInv'
  BY <1>2, <1>4, <1>7, <1>9, AgentsApart DEF VnInv, OwnedInv, OwnerOf, procVars, Agent
<1>14. PlaceInv' /\ RefInv'
  BY <1>4, NodeGone
<1>15. BitInv'
  <2>1. ASSUME NEW jd \in Nodes'
        PROVE  chanTbl'[jd].idx \in bitMap' \/ \E b \in Thread : (Making(b))' /\ call'[b].idx = chanTbl'[jd].idx
    <3>1. jd # id /\ chanTbl[jd].idx # call[t].idx
      BY <1>1, <1>9, NodeIsNode
    <3> QED
      BY <1>4, <1>7, <1>9, <3>1 DEF VnInv, BitInv, Making, Agent
  <2>2. ASSUME NEW i \in bitMap' PROVE IndxToId[i] \in Nodes'
    BY <1>2, <1>3, <1>4, <1>9 DEF VnInv, BitInv, TypeOK
  <2>3. \A b \in Agent : call'[b].pc \notin Busy
    BY <1>2, <1>7, <1>8 DEF AtNodes, Busy, Idle
  <2> QED
    BY <2>1, <2>2, <2>3 DEF BitInv, Making, Busy, At, Agent
<1>16. DevInv'
  BY SMTT(30), <1>1, <1>2, <1>3, <1>4, <1>7, <1>8, <1>9 DEF VnInv, DevInv, At, IdAt, AtNodes, Busy, Agent, Idle
<1>18. SkInv'
  <2>1. ASSUME NEW jd \in Nodes, jd # id PROVE (Hooked(jd))' = Hooked(jd)
    BY <1>1, <1>2, <1>7, <1>8, <2>1 DEF Hooked, IdAt, At, AtNodes, Busy, Idle
  <2>2. n.sock \in tainted
    BY <1>1, <1>2 DEF VnInv, TaintInv
  <2>3. ASSUME NEW s \in Sock \ tainted PROVE sk'[s] = sk[s]
    <3>1. CASE Given(s)
      <4>1. PICK jd \in Nodes : chanTbl[jd].sock = s
        BY <3>1 DEF Given
      <4>2. jd # id /\ (sk[s] = OwnSk \/ sk[s] = [ready |-> "vn", user |-> jd])
        BY <2>2, <2>3, <4>1 DEF VnInv, SkInv
      <4> QED
        BY <1>3, <1>4, <4>2, ChanAssumption DEF OwnSk
    <3>2. CASE ~Given(s)
      <4>1. sk[s] = OwnSk
        BY <2>3, <3>2 DEF VnInv, SkInv
      <4> QED
        BY <1>3, <1>4, <4>1, ChanAssumption DEF OwnSk
    <3> QED
      BY <3>1, <3>2
  <2>4. ASSUME NEW jd \in Nodes', chanTbl'[jd].sock \notin tainted'
        PROVE  /\ chanTbl'[jd].old = "own"
               /\ sk'[chanTbl'[jd].sock] =
                    IF chanTbl'[jd].sock \in Driven /\ (Hooked(jd))' THEN [ready |-> "vn", user |-> jd] ELSE OwnSk
    <3>1. chanTbl'[jd] = chanTbl[jd] /\ jd \in Nodes /\ jd # id
      BY <1>9, <2>4
    <3>2. chanTbl[jd].sock \in Sock \ tainted
      BY <1>4, <2>4, <3>1, NodeIsNode
    <3> QED
      BY <2>1, <2>3, <3>1, <3>2 DEF VnInv, SkInv
  <2>5. ASSUME NEW x \in Sock \ tainted' PROVE (Given(x))' \/ sk'[x] = OwnSk
    BY <1>4, <1>9, <2>2, <2>3, <2>5 DEF VnInv, SkInv
  <2> QED
    BY <2>4, <2>5 DEF SkInv, OwnSk
<1>19. TaintInv'
  BY <1>2, <1>7, <1>8 DEF TaintInv, At, AtNodes, Busy, Agent, Idle
<1> QED
  BY <1>6, <1>10, <1>11, <1>12, <1>13, <1>14, <1>15, <1>16, <1>18, <1>19 DEF VnInv

(* VN_ReleaseChan has begun with a node, nobody else being at the nodes.   *)
LEMMA ReleaseBegins ==
  ASSUME VnInv, NEW a \in Agent, NEW id \in Nodes, NEW r \in Call, call' = [call EXCEPT ![a] = r],
         r.pc = "unreg", r.idx = chanTbl[id].idx, Restore(id),
         call[a].pc \notin Busy, \A b \in Agent : b # a => call[b].pc \notin AtNodes,
         UNCHANGED << bitMap, chanTbl, devs, privCb, fileRef, tainted >>
  PROVE  sk' \in [Sock -> [ready : {"own", "vn"}, user : ChanId \cup {NULL, Freed}]]
         /\ PlaceInv' /\ BitInv' /\ DevInv' /\ RefInv' /\ SkInv' /\ TaintInv'
<1> DEFINE n == chanTbl[id]
<1>1. /\ id \in ChanId /\ n.sock \in Sock /\ n.old \in {"own", "vn"} /\ n.idx \in 0 .. TotChanNum - 1
      /\ IndxToId[r.idx] = id
  BY NodeIsNode
<1>2. sk' = [sk EXCEPT ![n.sock] = [ready |-> n.old, user |-> NULL]]
  BY DEF Restore, Restored
<1>3. /\ call'[a] = r /\ \A b \in Agent : b # a => call'[b] = call[b]
      /\ \A b \in Agent : call[b].pc \notin Busy
      /\ \A b \in Agent : b # a => call'[b].pc \notin Busy
  BY DEF VnInv, CallInv, AtNodes
<1>4. Nodes' = Nodes
  BY DEF Nodes
<1>5. sk' \in [Sock -> [ready : {"own", "vn"}, user : ChanId \cup {NULL, Freed}]]
  BY <1>1, <1>2 DEF VnInv, TypeOK
<1>6. PlaceInv' /\ RefInv'
  BY <1>4 DEF VnInv, PlaceInv, RefInv, Given
<1>7. BitInv'
  <2>1. n.idx \in bitMap
    BY <1>3 DEF VnInv, BitInv, Making, Busy, Agent
  <2> QED
    BY <1>1, <1>3, <1>4, <2>1 DEF VnInv, BitInv, Making, At, IdAt, Busy, Agent
<1>8. DevInv'
  BY <1>3, <1>4 DEF VnInv, DevInv, At, Busy, Agent
<1>9. SkInv'
  <2>1. ASSUME NEW jd \in Nodes, jd # id PROVE Hooked(jd) /\ (Hooked(jd))'
    BY <1>1, <1>3, <2>1 DEF Hooked, IdAt, Busy
  <2>2. Hooked(id) /\ ~(Hooked(id))'
    BY <1>1, <1>3 DEF Hooked, IdAt, Busy
  <2>3. ASSUME NEW jd \in Nodes', chanTbl'[jd].sock \notin tainted'
        PROVE  /\ chanTbl'[jd].old = "own"
               /\ sk'[chanTbl'[jd].sock] =
                    IF chanTbl'[jd].sock \in Driven /\ (Hooked(jd))' THEN [ready |-> "vn", user |-> jd] ELSE OwnSk
    <3>1. CASE jd = id
      BY <1>1, <1>2, <1>4, <2>2, <2>3, <3>1 DEF VnInv, SkInv, TypeOK, OwnSk
    <3>2. CASE jd # id
      <4>1. jd \in Nodes /\ chanTbl[jd].sock # n.sock /\ chanTbl[jd].sock \in Sock
        BY <1>4, <3>2, NodeIsNode DEF VnInv, RefInv
      <4>2. sk'[chanTbl[jd].sock] = sk[chanTbl[jd].sock]
        BY <1>1, <1>2, <4>1 DEF VnInv, TypeOK
      <4> QED
        BY <1>4, <2>1, <2>3, <3>2, <4>1, <4>2 DEF VnInv, SkInv
    <3> QED
      BY <3>1, <3>2
  <2>4. ASSUME NEW x \in Sock \ tainted' PROVE (Given(x))' \/ sk'[x] = OwnSk
    BY <1>1, <1>2, <1>4 DEF VnInv, SkInv, Given, TypeOK
  <2> QED
    BY <2>3, <2>4 DEF SkInv, OwnSk
<1>10. TaintInv'
  BY <1>3 DEF TaintInv, At, Busy, Agent
<1> QED
  BY <1>5, <1>6, <1>7, <1>8, <1>9, <1>10

LEMMA DelNodeInv ==
  ASSUME VnInv, NEW t \in Agent, DelNode(t)
  PROVE  VnInv'
<1>1. PICK i \in 0 .. TotChanNum - 1 :
        /\ IndxToId[i] \in Nodes /\ Restore(IndxToId[i])
        /\ call' = [call EXCEPT ![t].pc = "unreg", ![t].idx = i]
  BY DEF DelNode
<1>2. PICK id \in Nodes : id = IndxToId[i] /\ chanTbl[id].idx = i
  BY <1>1, NodeIsNode
<1> DEFINE r == [call[t] EXCEPT !.pc = "unreg", !.idx = i]
<1>3. /\ t \in Thread /\ At(t, "vn") /\ Free("vn") /\ lock' = [lock EXCEPT !["vn"] = t]
      /\ UNCHANGED << procVars, bitMap, chanTbl, devs, privCb, fileRef, tainted >>
  BY DEF DelNode, Take
<1>4. \A b \in Agent : call[b].pc \notin AtNodes
  BY <1>3, NoneAtNodes
<1>5. /\ r \in Call /\ r.pc = "unreg" /\ r.idx = i /\ r.file = call[t].file
      /\ call' = [call EXCEPT ![t] = r]
  <2>1. call[t] \in Call /\ i \in Nat
    BY IndexIsId DEF VnInv, CallInv
  <2>2. r \in Call /\ r.pc = "unreg" /\ r.idx = i /\ r.file = call[t].file
    BY <2>1 DEF Call, Pcs, Busy
  <2>3. call' = [call EXCEPT ![t] = r]
    BY <1>1, <2>1 DEF VnInv, CallInv, Call
  <2> QED
    BY <2>2, <2>3
<1> HIDE DEF r
<1>6. Fits(t, r)
  BY <1>3, <1>5, IndexIsId DEF Fits, Busy
<1>7. CallInv'
  BY <1>5, <1>6, CallStep DEF VnInv
<1>8. call'[t] = r /\ \A b \in Agent : b # t => call'[b] = call[b]
  BY <1>5 DEF VnInv, CallInv
<1>9. /\ sk' \in [Sock -> [ready : {"own", "vn"}, user : ChanId \cup {NULL, Freed}]]
      /\ PlaceInv' /\ BitInv' /\ DevInv' /\ RefInv' /\ SkInv' /\ TaintInv'
  BY <1>1, <1>2, <1>3, <1>4, <1>5, ReleaseBegins DEF AtNodes
<1>10. TypeOK'
  BY <1>3, <1>9, AgentsApart DEF VnInv, TypeOK, procVars, Agent, Lock
<1>11. LockInv'
  BY <1>3, <1>5, <1>8, AgentsApart DEF VnInv, LockInv, Has, TypeOK, At, Free, Lock, Agent
<1>12. AloneInv'
  BY <1>3, <1>5, <1>8, AgentsApart DEF VnInv, CallInv, Call, AloneInv, At, procVars, Agent
<1>13. OwnedInv'
  BY <1>3, <1>8, AgentsApart DEF VnInv, OwnedInv, OwnerOf, procVars, Agent, Nodes
<1> QED
  BY <1>7, <1>9, <1>10, <1>11, <1>12, <1>13 DEF VnInv

(* Where a close stands with its scan.                                     *)
LEMMA ScanFacts ==
  ASSUME VnInv, NEW a \in Agent, Scan(a)
  PROVE  /\ a \notin Thread /\ call[a] \in Call /\ At(a, "scan") /\ call[a].idx \in 0 .. TotChanNum - 1
         /\ (a = Exit => Nodes = {})
<1>1. At(a, "scan") /\ call[a].idx < TotChanNum
  BY DEF Scan
<1>2. a \notin Thread /\ call[a] \in Call /\ call[a].idx \in Nat
  BY <1>1 DEF VnInv, CallInv, Fits, At, Busy, Call
<1>3. a = Exit => Nodes = {}
  BY <1>1, NoNodesLeft DEF VnInv, AloneInv, At
<1> QED
  BY <1>1, <1>2, <1>3, IndexIsId

LEMMA ScanInv ==
  ASSUME VnInv, NEW a \in Agent, Scan(a)
  PROVE  VnInv'
<1>1. /\ a \notin Thread /\ call[a] \in Call /\ At(a, "scan") /\ call[a].idx \in 0 .. TotChanNum - 1
      /\ (a = Exit => Nodes = {})
  BY ScanFacts
<1>2. UNCHANGED << procVars, lock, bitMap, chanTbl, devs, privCb, fileRef, tainted >>
  BY DEF Scan
<1>3. \A b \in Agent : b # a => call[b].pc \notin AtNodes
  BY <1>1, OneAtNodes DEF At, AtNodes
<1>4. CASE Wanted(a, IdAt(a))
  <2> DEFINE r == [call[a] EXCEPT !.pc = "unreg"]
  <2>1. a \in File
    BY <1>1, <1>4 DEF Wanted, Agent
  <2>2. PICK id \in Nodes : id = IdAt(a) /\ chanTbl[id].idx = call[a].idx
    BY <1>1, <1>4, NodeIsNode DEF Wanted, IdAt
  <2>3. Restore(id) /\ call' = [call EXCEPT ![a] = r]
    BY <1>4, <2>2 DEF Scan, Goto
  <2>4. r \in Call /\ r.pc = "unreg" /\ r.idx = call[a].idx /\ r.file = call[a].file
    BY <1>1 DEF Call, Pcs, Busy
  <2> HIDE DEF r
  <2>5. Fits(a, r)
    BY <1>1, <2>1, <2>4, IndexIsId DEF Fits, Busy
  <2>6. CallInv'
    BY <2>3, <2>4, <2>5, CallStep DEF VnInv
  <2>7. call'[a] = r /\ \A b \in Agent : b # a => call'[b] = call[b]
    BY <2>3 DEF VnInv, CallInv
  <2>8. /\ sk' \in [Sock -> [ready : {"own", "vn"}, user : ChanId \cup {NULL, Freed}]]
        /\ PlaceInv' /\ BitInv' /\ DevInv' /\ RefInv' /\ SkInv' /\ TaintInv'
    BY <1>1, <1>2, <1>3, <2>2, <2>3, <2>4, ReleaseBegins DEF At, AtNodes, Busy
  <2>9. TypeOK'
    BY <1>2, <2>8 DEF VnInv, TypeOK, procVars
  <2>10. LockInv'
    BY <1>1, <1>2, <2>1, <2>4, <2>7, AgentsApart DEF VnInv, LockInv, Has, At
  <2>11. AloneInv'
    BY <1>1, <1>2, <2>1, <2>4, <2>7, AgentsApart DEF VnInv, AloneInv, At, procVars, Agent
  <2>12. OwnedInv'
    BY <1>1, <1>2, <2>1, <2>4, <2>7, AgentsApart DEF VnInv, OwnedInv, OwnerOf, At, procVars, Agent, Nodes
  <2> QED
    BY <2>6, <2>8, <2>9, <2>10, <2>11, <2>12 DEF VnInv
<1>5. CASE ~Wanted(a, IdAt(a))
  <2> DEFINE r == [call[a] EXCEPT !.idx = @ + 1]
  <2>1. call' = [call EXCEPT ![a] = r] /\ UNCHANGED nodeVars
    BY <1>2, <1>5 DEF Scan, nodeVars
  <2>2. r \in Call /\ r.pc = "scan" /\ r.idx = call[a].idx + 1 /\ r.file = call[a].file
    BY <1>1, IndexIsId DEF Call, Pcs, Busy, At
  <2> HIDE DEF r
  <2>3. Fits(a, r)
    BY <1>1, <2>2, IndexIsId DEF Fits, Busy, VnInv, CallInv, At
  <2>4. CallInv'
    BY <2>1, <2>2, <2>3, CallStep DEF VnInv
  <2>5. call'[a] = r /\ \A b \in Agent : b # a => call'[b] = call[b]
    BY <2>1 DEF VnInv, CallInv
  <2>6. PlaceInv' /\ BitInv' /\ DevInv' /\ RefInv' /\ SkInv' /\ TaintInv'
    BY <1>1, <2>1, <2>2, <2>5, QuietStep DEF Busy, At
  <2>7. TypeOK'
    BY <1>2, <2>1 DEF VnInv, TypeOK, procVars, nodeVars
  <2>8. LockInv'
    BY <1>1, <1>2, <2>2, <2>5, AgentsApart DEF VnInv, LockInv, Has, At
  <2>9. AloneInv'
    BY <1>1, <1>2, <2>2, <2>5, AgentsApart DEF VnInv, AloneInv, At, procVars, Agent
  <2>10. OwnedInv'
    <3>1. Nodes' = Nodes
      BY <1>2 DEF Nodes
    <3>2. ASSUME NEW jd \in Nodes, NEW f \in File, OwnerOf(f, chanTbl[jd])
          PROVE  (OwnerOf(f, chanTbl[jd]))'
      <4>1. CASE f = a
        <5>1. inst[a] = chanTbl[jd].inst /\ call[a].idx <= chanTbl[jd].idx
          BY <1>1, <3>2, <4>1 DEF OwnerOf, At
        <5>2. chanTbl[jd].idx # call[a].idx
          BY <1>5, <5>1, NodeIsNode DEF Wanted, IdAt
        <5>3. call[a].idx + 1 <= chanTbl[jd].idx
          BY <1>1, <5>1, <5>2, NodeIsNode, IndexIsId
        <5> QED
          BY <1>2, <2>2, <2>5, <4>1, <5>1, <5>3 DEF OwnerOf, procVars
      <4>2. CASE f # a
        BY <1>2, <2>5, <3>2, <4>2 DEF OwnerOf, procVars, Agent
      <4> QED
        BY <4>1, <4>2
    <3> QED
      BY <1>2, <3>1, <3>2 DEF VnInv, OwnedInv
  <2> QED
    BY <2>4, <2>6, <2>7, <2>8, <2>9, <2>10 DEF VnInv
<1> QED
  BY <1>4, <1>5

LEMMA ReleaseChanInv ==
  ASSUME VnInv, NEW a \in Agent, ReleaseChan(a)
  PROVE  VnInv'
<1>1. PICK id \in Nodes : id = IdAt(a) /\ chanTbl[id].idx = call[a].idx
  BY BusyNode DEF ReleaseChan, At, Busy
<1> DEFINE n == chanTbl[id]
           r == IF a \in Thread THEN Idle ELSE [call[a] EXCEPT !.pc = "scan", !.idx = @ + 1]
<1>2. /\ At(a, "unreg") /\ a \in Thread \cup File /\ call[a] \in Call /\ lock["vn"] = a
      /\ call[a].idx \in 0 .. TotChanNum - 1
      /\ \A b \in Agent : b # a => call[b].pc \notin AtNodes
  BY BusyNode, OneAtNodes DEF ReleaseChan, At, Busy, AtNodes, VnInv, CallInv
<1>3. /\ id \in ChanId /\ n \in Node /\ n.inst \in Proc /\ n.sock \in Sock
      /\ \A j \in 0 .. TotChanNum - 1 : IndxToId[j] = id <=> j = call[a].idx
  BY <1>1, NodeIsNode
<1>4. /\ UNCHANGED << procVars, sk, tainted >>
      /\ devs' = devs \ {id} /\ privCb' = privCb \ {id} /\ bitMap' = bitMap \ {n.idx}
      /\ TakenBack(id)
      /\ lock' = IF a \in Thread THEN [l \in Lock |-> IF lock[l] = a THEN NULL ELSE lock[l]] ELSE lock
  BY <1>1 DEF ReleaseChan, UnRegDev, DriverExit, BitCleared, Return, UnlockAll
<1>5. call' = [call EXCEPT ![a] = r]
  <2>1. CASE a \in Thread
    BY <2>1 DEF ReleaseChan, Return
  <2>2. CASE a \notin Thread
    BY <1>2, <2>2 DEF ReleaseChan, VnInv, CallInv, Call
  <2> QED
    BY <2>1, <2>2
<1>6. /\ r \in Call /\ r.pc \in {"idle", "scan"}
      /\ (a \in Thread => r = Idle) /\ (a \notin Thread => r.pc = "scan" /\ r.idx = call[a].idx + 1)
  <2>1. CASE a \in Thread
    BY <2>1, IndexIsId DEF Call, Pcs, Busy, Idle
  <2>2. CASE a \notin Thread
    <3> DEFINE q == [call[a] EXCEPT !.pc = "scan", !.idx = @ + 1]
    <3>1. call[a].idx + 1 \in Nat
      BY <1>2, IndexIsId
    <3>2. q \in Call /\ q.pc = "scan" /\ q.idx = call[a].idx + 1
      BY <1>2, <3>1 DEF Call, Pcs, Busy
    <3> QED
      BY <2>2, <3>2
  <2> QED
    BY <2>1, <2>2
<1> HIDE DEF r
<1>7. Fits(a, r)
  BY <1>2, <1>6, IndexIsId, AgentsApart DEF Fits, Busy, Idle
<1>8. CallInv'
  BY <1>5, <1>6, <1>7, CallStep DEF VnInv
<1>9. call'[a] = r /\ \A b \in Agent : b # a => call'[b] = call[b]
  BY <1>5 DEF VnInv, CallInv
<1>10. /\ Nodes' = Nodes \ {id} /\ \A jd \in Nodes : jd # id => chanTbl'[jd] = chanTbl[jd]
       /\ chanTbl' \in [ChanId -> Node \cup {NULL}] /\ fileRef' \in [Sock -> Nat]
       /\ \A s \in Sock : (Given(s))' = (Given(s) /\ s # n.sock)
       /\ PlaceInv' /\ RefInv'
  BY <1>4, NodeGone
<1>11. \A b \in Agent : call'[b].pc \notin Busy
  BY <1>2, <1>6, <1>9 DEF AtNodes, Busy
<1>12. TypeOK'
  BY <1>2, <1>4, <1>10, AgentsApart DEF VnInv, TypeOK, procVars, Lock
<1>13. LockInv'
  <2>1. CASE a \in Thread
    BY <1>2, <1>4, <1>6, <1>9, <2>1, AgentsApart DEF VnInv, LockInv, Has, TypeOK, At, Lock, Agent, Idle
  <2>2. CASE a \in File
    BY <1>2, <1>4, <1>6, <1>9, <2>2, AgentsApart DEF VnInv, LockInv, Has, At, Lock, Agent
  <2> QED
    BY <1>2, <2>1, <2>2
<1>14. AloneInv'
  <2>1. CASE a \in Thread
    BY <1>2, <1>4, <1>6, <1>9, <2>1, AgentsApart DEF VnInv, AloneInv, At, procVars, Agent, Idle
  <2>2. CASE a \in File
    BY <1>2, <1>4, <1>6, <1>9, <2>2, AgentsApart DEF VnInv, AloneInv, At, procVars, Agent
  <2> QED
    BY <1>2, <2>1, <2>2
<1>15. OwnedInv'
  <2>1. ASSUME NEW jd \in Nodes', NEW f \in File, OwnerOf(f, chanTbl[jd])
        PROVE  (OwnerOf(f, chanTbl[jd]))'
    <3>1. /\ jd \in Nodes /\ chanTbl'[jd] = chanTbl[jd] /\ chanTbl[jd].idx # call[a].idx
          /\ chanTbl[jd].idx \in 0 .. TotChanNum - 1
      BY <1>1, <1>10, NodeIsNode
    <3>2. CASE f = a
      <4>1. call[a].idx + 1 <= chanTbl[jd].idx
        BY <1>2, <2>1, <3>1, <3>2, IndexIsId DEF OwnerOf, At
      <4> QED
        BY <1>4, <1>6, <1>9, <2>1, <3>1, <3>2, <4>1, AgentsApart DEF OwnerOf, procVars
    <3>3. CASE f # a
      BY <1>4, <1>9, <2>1, <3>1, <3>3 DEF OwnerOf, procVars, Agent
    <3> QED
      BY <3>2, <3>3
  <2> QED
    BY <1>10, <2>1 DEF VnInv, OwnedInv
<1>16. BitInv'
  <2>1. ASSUME NEW jd \in Nodes' PROVE chanTbl'[jd].idx \in bitMap'
    <3>1. jd \in Nodes /\ chanTbl'[jd] = chanTbl[jd] /\ chanTbl[jd].idx # n.idx
      BY <1>1, <1>10, NodeIsNode
    <3>2. \A b \in Thread : ~Making(b)
      BY <1>2 DEF Making, At, AtNodes, Busy, Agent
    <3> QED
      BY <1>4, <3>1, <3>2 DEF VnInv, BitInv
  <2>2. ASSUME NEW i \in bitMap' PROVE IndxToId[i] \in Nodes'
    BY <1>1, <1>3, <1>4, <1>10 DEF VnInv, BitInv, TypeOK
  <2> QED
    BY <1>11, <2>1, <2>2 DEF BitInv, Making, Busy, At, Agent
<1>17. DevInv'
  <2>1. ASSUME NEW b \in Thread PROVE ~At(b, "reg") /\ ~(At(b, "reg"))'
    BY <1>2, <1>11 DEF At, AtNodes, Busy, Agent
  <2> QED
    BY <1>3, <1>4, <1>10, <2>1 DEF VnInv, DevInv
<1>18. SkInv'
  <2>1. ~Hooked(id) /\ \A jd \in Nodes' : Hooked(jd) /\ (Hooked(jd))'
    BY <1>1, <1>2, <1>10, <1>11 DEF Hooked, IdAt, At, AtNodes, Busy
  <2>2. n.sock \notin tainted => sk[n.sock] = OwnSk
    BY <2>1 DEF VnInv, SkInv
  <2>3. ASSUME NEW jd \in Nodes', chanTbl'[jd].sock \notin tainted'
        PROVE  /\ chanTbl'[jd].old = "own"
               /\ sk'[chanTbl'[jd].sock] =
                    IF chanTbl'[jd].sock \in Driven /\ (Hooked(jd))' THEN [ready |-> "vn", user |-> jd] ELSE OwnSk
    BY <1>4, <1>10, <2>1, <2>3 DEF VnInv, SkInv
  <2>4. ASSUME NEW x \in Sock \ tainted' PROVE (Given(x))' \/ sk'[x] = OwnSk
    BY <1>4, <1>10, <2>2, <2>4 DEF VnInv, SkInv
  <2> QED
    BY <2>3, <2>4 DEF SkInv, OwnSk
<1>19. TaintInv'
  BY <1>11 DEF TaintInv, At, Busy, Agent
<1> QED
  BY <1>8, <1>10, <1>12, <1>13, <1>14, <1>15, <1>16, <1>17, <1>18, <1>19 DEF VnInv

LEMMA LoadInv ==
  ASSUME VnInv, Load
  PROVE  VnInv'
<1>1. /\ loaded = "out" /\ loaded' = "in" /\ bitMap' = {}
      /\ UNCHANGED << inst, holders, lock, call, chanTbl, devs, privCb, fileRef, sk, tainted >>
  BY DEF Load
<1>2. Nodes = {} /\ Nodes' = {}
  BY <1>1, NoNodesLeft DEF Nodes
<1>3. TypeOK' /\ CallInv' /\ LockInv'
  BY <1>1 DEF VnInv, TypeOK, CallInv, LockInv, Has
<1>4. AloneInv'
  BY <1>1 DEF VnInv, AloneInv, At
<1>5. OwnedInv' /\ PlaceInv' /\ BitInv' /\ RefInv' /\ TaintInv'
  BY <1>1, <1>2 DEF VnInv, OwnedInv, PlaceInv, BitInv, RefInv, TaintInv, Making, At, IdAt, Given
<1>6. DevInv'
  BY SMTT(30), <1>1, <1>2 DEF VnInv, DevInv, At, IdAt
<1>7. SkInv'
  BY <1>1, <1>2 DEF VnInv, SkInv, OwnSk, Given
<1> QED
  BY <1>3, <1>4, <1>5, <1>6, <1>7 DEF VnInv

-----------------------------------------------------------------------------
(* The invariant.                                                          *)

LEMMA StepInv ==
  ASSUME VnInv, NEW a \in Agent, Step(a)
  PROVE  VnInv'
<1>1. CASE AddRefused(a) \/ AddNode(a) \/ DelNone(a) \/ DelNode(a)
  BY <1>1, AddRefusedInv, AddNodeInv, DelNoneInv, DelNodeInv DEF AddRefused, AddNode, DelNone
<1>2. CASE RegDev(a) \/ RegDevFails(a) \/ CopyOut(a) \/ CopyFails(a) \/ UndoNode(a) \/ ReleaseChan(a)
  BY <1>2, RegDevInv, RegDevFailsInv, CopyOutInv, CopyFailsInv, UndoNodeInv, ReleaseChanInv
<1>3. CASE CmdLock(a) \/ InstLock(a) \/ ScanLock(a) \/ Scan(a) \/ FileReleased(a)
  BY <1>3, CmdLockInv, InstLockInv, ScanLockInv, ScanInv, FileReleasedInv
<1>4. CASE UnRegNotify(a, "inst", "cmd") \/ UnRegNotify(a, "cmd", "drv") \/ UnRegDrv(a) \/ Unloaded(a)
  BY <1>4, UnRegNotifyInv, UnRegDrvInv, UnloadedInv
<1> QED
  BY <1>1, <1>2, <1>3, <1>4 DEF Step

LEMMA StutterInv ==
  ASSUME VnInv, UNCHANGED vars
  PROVE  VnInv'
<1> USE DEF vars, procVars, nodeVars
<1>1. TypeOK' /\ CallInv' /\ LockInv' /\ AloneInv'
  BY DEF VnInv, TypeOK, CallInv, LockInv, Has, AloneInv, At
<1>2. OwnedInv'
  BY DEF VnInv, OwnedInv, OwnerOf, Nodes
<1>3. PlaceInv' /\ BitInv' /\ DevInv' /\ RefInv' /\ SkInv' /\ TaintInv'
  BY QuietStep
<1> QED
  BY <1>1, <1>2, <1>3 DEF VnInv

LEMMA NextInv == VnInv /\ [Next]_vars => VnInv'
<1> SUFFICES ASSUME VnInv, [Next]_vars PROVE VnInv'
  OBVIOUS
<1>1. CASE \E p \in Proc, f \in File : Open(p, f) \/ Close(p, f)
  BY <1>1, OpenInv, CloseInv
<1>2. CASE \E p, q \in Proc : Fork(p, q)
  BY <1>2, ForkInv
<1>3. CASE \E t \in Thread, f \in File, op \in {"add", "del"} : Ioctl(t, f, op)
  BY <1>3, IoctlInv
<1>4. CASE \E f \in File : FileRelease(f)
  BY <1>4, FileReleaseInv
<1>5. CASE Unload \/ Load
  BY <1>5, UnloadInv, LoadInv
<1>6. CASE \E a \in Agent : Step(a)
  BY <1>6, StepInv
<1>7. CASE UNCHANGED vars
  BY <1>7, StutterInv
<1> QED
  BY <1>1, <1>2, <1>3, <1>4, <1>5, <1>6, <1>7 DEF Next

(* The invariant, in every state of every run.                             *)
THEOREM VnInvHolds == Spec => []VnInv
  BY InitInv, NextInv, PTL DEF Spec

-----------------------------------------------------------------------------
(* The properties.                                                         *)

LEMMA OwnedFromInv == VnInv => NodesOwned
<1> SUFFICES ASSUME VnInv, Free("vn"), NEW id \in Nodes
             PROVE  \E f \in File : inst[f] = chanTbl[id].inst /\ call[f].pc \in {"idle", "inst", "vn"}
  BY DEF NodesOwned
<1>1. PICK f \in File : OwnerOf(f, chanTbl[id])
  BY DEF VnInv, OwnedInv
<1>2. call[f].pc \in {"idle", "inst", "vn"}
  BY NoneAtNodes, AgentsApart DEF VnInv, CallInv, Fits, AtNodes, Busy, Agent
<1> QED
  BY <1>1, <1>2 DEF OwnerOf

(* Every node belongs to a process whose files' closing will find it, when *)
(* nobody is at the nodes: none outlives the files of its process, and the *)
(* module is unloaded without one (VA_CP_ioctl, VN_CpInstNotify).          *)
THEOREM NodesAreOwned == Spec => []NodesOwned
  BY VnInvHolds, OwnedFromInv, PTL

LEMMA KeptFromInv == VnInv /\ Free("vn") => NodeKept
<1> SUFFICES ASSUME VnInv, Free("vn") PROVE NodeKept
  OBVIOUS
<1>1. \A b \in Agent : call[b].pc \notin AtNodes
  BY NoneAtNodes
<1>2. \A t \in Thread : ~Making(t) /\ ~At(t, "reg")
  BY <1>1 DEF AtNodes, Busy, Making, At, Agent
<1>3. Nodes = {IndxToId[i] : i \in bitMap}
  <2>1. \A id \in Nodes : chanTbl[id].idx \in bitMap /\ IndxToId[chanTbl[id].idx] = id
    BY <1>2 DEF VnInv, BitInv, PlaceInv
  <2>2. \A i \in bitMap : IndxToId[i] \in Nodes
    BY DEF VnInv, BitInv
  <2> QED
    BY <2>1, <2>2
<1>4. devs = Nodes /\ privCb = {id \in Nodes : chanTbl[id].sock \in Driven}
  <2>1. \A id \in ChanId : (id \in devs <=> id \in Nodes) /\ (id \in privCb <=> id \in Nodes /\ chanTbl[id].sock \in Driven)
    BY <1>2 DEF VnInv, DevInv
  <2>2. devs \subseteq ChanId /\ privCb \subseteq ChanId /\ Nodes \subseteq ChanId
    BY DEF VnInv, TypeOK, Nodes
  <2> QED
    BY <2>1, <2>2
<1>5. ASSUME NEW s \in Sock
      PROVE  fileRef[s] = Cardinality({id \in Nodes : chanTbl[id].sock = s})
  <2> DEFINE N == {id \in Nodes : chanTbl[id].sock = s}
  <2>1. CASE Given(s)
    <3>1. PICK id \in Nodes : chanTbl[id].sock = s
      BY <2>1 DEF Given
    <3>2. N = {id}
      BY <3>1 DEF VnInv, RefInv
    <3> QED
      BY <2>1, <3>2, FS_Singleton DEF VnInv, RefInv
  <2>2. CASE ~Given(s)
    <3>1. N = {}
      BY <2>2 DEF Given
    <3> QED
      BY <2>2, <3>1, FS_EmptySet DEF VnInv, RefInv
  <2> QED
    BY <2>1, <2>2
<1> QED
  BY <1>3, <1>4, <1>5 DEF NodeKept, VnInv, PlaceInv

LEMMA SocketsFromInv == VnInv /\ Free("vn") => SocketsRight
<1> SUFFICES ASSUME VnInv, Free("vn"), NEW s \in Sock \ tainted
             PROVE  LET mine == {id \in Nodes : chanTbl[id].sock = s /\ s \in Driven}
                    IN IF mine = {} THEN sk[s] = OwnSk ELSE sk[s].ready = "vn" /\ sk[s].user \in mine
  BY DEF SocketsRight, OwnSk
<1>1. \A id \in Nodes : Hooked(id)
  BY NoneAtNodes DEF Hooked, AtNodes, Busy
<1>2. CASE Given(s)
  <2>1. PICK id \in Nodes : chanTbl[id].sock = s
    BY <1>2 DEF Given
  <2>2. sk[s] = IF s \in Driven THEN [ready |-> "vn", user |-> id] ELSE OwnSk
    BY <1>1, <2>1 DEF VnInv, SkInv
  <2> QED
    BY <2>1, <2>2
<1>3. CASE ~Given(s)
  BY <1>3 DEF VnInv, SkInv, Given
<1> QED
  BY <1>2, <1>3

(* When nobody is at the nodes, every node is whole or not there: its bit, *)
(* its place, its device, its driver's memory, its socket's reference and  *)
(* its socket's callbacks, after every error path of an ADD_NODE and any   *)
(* release (VN_AddNode, VN_ReleaseChan).                                   *)
THEOREM NodesAreWhole == Spec => []NodesWhole
<1>1. VnInv => NodesWhole
  BY KeptFromInv, SocketsFromInv DEF NodesWhole
<1> QED
  BY <1>1, VnInvHolds, PTL

(* Who has a mutex that others may need is at a later one.                 *)
LEMMA LaterNeeds ==
  ASSUME VnInv, NEW a \in Thread \cup File
  PROVE  /\ "core" \notin Has(a)
         /\ "vn" \in Has(a) => Needs(a) \in {NULL, "core"}
         /\ Has(a) # {} => Needs(a) \in {NULL, "vn", "core"}
         /\ Needs(a) \in {NULL, "cmd", "inst", "vn", "core"}
  BY AgentsApart DEF VnInv, CallInv, Fits, Has, Needs, Busy, Agent

LEMMA ExitAlone ==
  ASSUME VnInv, ~At(Exit, "idle")
  PROVE  /\ \A b \in Thread \cup File : At(b, "idle")
         /\ Needs(Exit) \notin Has(Exit) \/ Needs(Exit) = NULL
<1>1. \A f \in File : inst[f] = NULL
  BY DEF VnInv, AloneInv
<1>2. \A b \in Thread \cup File : At(b, "idle")
  BY <1>1, AgentsApart DEF VnInv, AloneInv
<1>3. Exit \in Agent /\ call[Exit].pc \in {"idle", "inst", "cmd", "drv", "vn", "scan"}
  BY AgentsApart DEF VnInv, CallInv, Fits, Agent
<1>4. Needs(Exit) \notin Has(Exit) \/ Needs(Exit) = NULL
  BY <1>3, AgentsApart DEF Needs, Has
<1> QED
  BY <1>2, <1>4

LEMMA NoCircle ==
  ASSUME VnInv, NEW S \in SUBSET Agent, S # {}
  PROVE  \E a \in S : Needs(a) = NULL \/ lock[Needs(a)] \notin S
<1> SUFFICES ASSUME \A a \in S : Needs(a) # NULL /\ lock[Needs(a)] \in S
             PROVE  FALSE
  OBVIOUS
<1>1. ASSUME NEW a \in S
      PROVE  /\ Needs(a) \in Lock /\ lock[Needs(a)] \in S
             /\ Needs(a) \in Has(lock[Needs(a)]) /\ ~At(a, "idle")
  <2>1. Needs(a) \in Lock /\ ~At(a, "idle")
    BY DEF Needs, Lock, At
  <2> QED
    BY <2>1 DEF VnInv, LockInv
<1>2. Exit \notin S
  <2> SUFFICES ASSUME Exit \in S PROVE FALSE
    OBVIOUS
  <2>1. lock[Needs(Exit)] \in S /\ Needs(Exit) \in Has(lock[Needs(Exit)])
    BY <1>1
  <2>2. lock[Needs(Exit)] = Exit
    BY <1>1, <2>1, ExitAlone DEF Agent
  <2> QED
    BY <1>1, <2>1, <2>2, ExitAlone
<1>3. S \subseteq Thread \cup File
  BY <1>2 DEF Agent
<1>4. \A a \in S : Needs(a) # "core"
  BY <1>1, <1>3, LaterNeeds
<1>5. \A a \in S : Needs(a) # "vn"
  BY <1>1, <1>3, <1>4, LaterNeeds
<1>6. PICK a \in S : TRUE
  OBVIOUS
<1>7. lock[Needs(a)] \in S /\ Has(lock[Needs(a)]) # {}
  BY <1>1
<1> QED
  BY <1>3, <1>4, <1>5, <1>7, LaterNeeds

(* Every ioctl, close and unloading can go on: no set of agents waits for  *)
(* mutexes of its own members, though the unloading takes stMutex before   *)
(* stLock, and who has returned has no mutex (VN_Ioctl, VN_CpInstNotify,   *)
(* VA_UnRegDrv).                                                           *)
THEOREM NoDeadlockHolds == Spec => []NoDeadlock
<1>1. ASSUME VnInv PROVE NoDeadlock
  <2>1. ASSUME NEW l \in Lock, ~Free(l) PROVE ~At(lock[l], "idle")
    <3>1. lock[l] \in Agent /\ l \in Has(lock[l])
      BY <1>1, <2>1 DEF VnInv, TypeOK, LockInv, Free
    <3> QED
      BY <3>1 DEF Has, At
  <2> QED
    BY <1>1, <2>1, NoCircle DEF NoDeadlock
<1> QED
  BY <1>1, VnInvHolds, PTL

-----------------------------------------------------------------------------
(* The receiving end: bytes and indices                                    *)

Byte == 0 .. 255
Idx == 0 .. IdxMod - 1

-----------------------------------------------------------------------------
(* Arithmetic of the indices                                               *)

\* The difference of two indices is an index.
LEMMA SubIdx == ASSUME NEW a \in Idx, NEW b \in Idx PROVE Sub(a, b) \in Idx
BY RingAssumption DEF Sub, Idx

\* So is the sum of an index and what is less than the modulus.
LEMMA AddIdx == ASSUME NEW a \in Idx, NEW n \in Idx PROVE Add(a, n) \in Idx
BY RingAssumption DEF Add, Idx

\* Writing n bytes moves the writer n away from the reader.
LEMMA AddAhead ==
  ASSUME NEW a \in Idx, NEW b \in Idx, NEW n \in Nat, Sub(a, b) + n < IdxMod
  PROVE  Sub(Add(a, n), b) = Sub(a, b) + n
BY RingAssumption DEF Add, Sub, Idx

\* Reading n of the bytes there are moves the reader n towards the writer.
LEMMA AddBehind ==
  ASSUME NEW a \in Idx, NEW b \in Idx, NEW n \in Nat, n <= Sub(a, b)
  PROVE  Sub(a, Add(b, n)) = Sub(a, b) - n
BY RingAssumption DEF Add, Sub, Idx

\* A remainder is less than the modulus.
LEMMA ModRange == ASSUME NEW m \in Nat \ {0}, NEW i \in Nat PROVE i % m \in 0 .. m - 1
OBVIOUS

\* A slot of the ring is in it.
LEMMA SlotInRing == ASSUME NEW i \in Nat PROVE i % BufLen \in 0 .. BufLen - 1
BY ModRange, RingAssumption

\* A piece of a sequence of bytes is one.
LEMMA PieceOfBytes ==
  ASSUME NEW s \in Seq(Byte), NEW m \in Nat \ {0}, NEW n \in 0 .. Len(s)
  PROVE  SubSeq(s, m, n) \in Seq(Byte)
<1>1. \A i \in m .. n : s[i] \in Byte
  <2>1. \A i \in m .. n : i \in 1 .. Len(s) OBVIOUS
  <2> QED BY <2>1
<1> QED BY <1>1, SubSeqProperties

-----------------------------------------------------------------------------
(* Types                                                                   *)

\* What is read from the ring is a byte.
LEMMA ByteRead ==
  ASSUME TcpTypeOK, NEW k \in Idx
  PROVE  ByteAt(k) \in Byte
<1>1. Add(rd, k) \in Nat BY AddIdx DEF TcpTypeOK, Idx
<1> QED BY <1>1, SlotInRing DEF ByteAt, TcpTypeOK, Byte

\* A header has the length of a packet.
LEMMA LenRead == ASSUME TcpTypeOK, LeftLen > HdrLen PROVE PktLen \in Nat
<1>1. LeftLen \in Idx BY SubIdx DEF LeftLen, TcpTypeOK, Idx
<1>2. 2 \in Idx /\ 3 \in Idx BY <1>1, RingAssumption DEF HdrLen, Idx
<1>3. ByteAt(2) \in Byte /\ ByteAt(3) \in Byte BY <1>2, ByteRead
<1>4. \A b, c \in Byte : 256 * b + c \in Nat BY DEF Byte
<1> QED BY <1>3, <1>4 DEF PktLen

\* What a read of the socket takes is what it has, or what there is room for.
LEMMA ReadSize ==
  ASSUME RoomLeft, TcpTypeOK
  PROVE  LET room == BufLen - LeftLen
             n == IF Len(sock) < room THEN Len(sock) ELSE room
         IN  n \in 0 .. Len(sock) /\ n \in Idx /\ n <= room
<1>1. LeftLen \in Idx BY SubIdx DEF LeftLen, TcpTypeOK, Idx
<1>2. LeftLen <= BufLen BY DEF RoomLeft
<1>3. Len(sock) \in Nat BY DEF TcpTypeOK
<1> QED BY <1>1, <1>2, <1>3, RingAssumption DEF Idx

\* The initial state is typed.
LEMMA TypeInit == TcpInit => TcpTypeOK
<1> SUFFICES ASSUME TcpInit PROVE TcpTypeOK OBVIOUS
<1>1. wire \in Seq(0 .. 255) BY StreamAssumption DEF TcpInit
<1>2. sock = <<>> /\ sent = <<>> /\ got = <<>> BY DEF TcpInit
<1>3. ring \in [0 .. BufLen - 1 -> 0 .. 255] BY DEF TcpInit
<1>4. rd = 0 /\ wr = 0 /\ 0 \in 0 .. IdxMod - 1 BY RingAssumption DEF TcpInit
<1>5. cuts \in 0 .. MaxCut BY StreamAssumption DEF TcpInit
<1>6. pending \in BOOLEAN /\ rxwork \in {"idle", "parse"} BY DEF TcpInit
<1>7. txCache \in [hdr : Seq(0 .. 255), base : Seq(0 .. 255), len : Seq(0 .. 255)] BY DEF TcpInit
<1>8. /\ tx \in [Senders -> [pkt : Payloads, at : {"base", "len", "send"}] \union {NotSending}]
      /\ mixed \in BOOLEAN
  BY DEF TcpInit
<1> QED BY <1>1, <1>2, <1>3, <1>4, <1>5, <1>6, <1>7, <1>8 DEF TcpTypeOK

\* A header is four bytes.
LEMMA HeaderBytes ==
  ASSUME NEW p \in Seq(Byte)
  PROVE  Header(p) \in Seq(Byte)
<1>1. Len(p) \in Nat OBVIOUS
<1> DEFINE hi == (Len(p) \div 256) % 256
           lo == Len(p) % 256
<1>2. hi \in Byte /\ lo \in Byte
  <2>1. Len(p) \div 256 \in Nat BY <1>1
  <2>2. 256 \in Nat \ {0} /\ Byte = 0 .. 256 - 1 BY DEF Byte
  <2> QED BY ZenonT(40), <1>1, <2>1, <2>2, ModRange
<1> HIDE DEF hi, lo
<1>3. Dollar \in Byte /\ 0 \in Byte BY DEF Dollar, Byte
<1>4. <<Dollar, 0, hi, lo>> \in Seq(Byte) BY <1>2, <1>3
<1>5. Header(p) = <<Dollar, 0, hi, lo>> BY DEF Header, hi, lo
<1> QED BY <1>4, <1>5

-----------------------------------------------------------------------------
(* The sending end                                                         *)

Bytes(p) == Header(p) \o p

\* Until two senders have met, the header and the iovecs of the one that is
\* sending are of its packet.
TxInv ==
  ~mixed =>
    \A s \in Sending :
      /\ Sending = {s} /\ txCache.hdr = tx[s].pkt
      /\ tx[s].at \in {"len", "send"} => txCache.base = tx[s].pkt
      /\ tx[s].at = "send" => txCache.len = tx[s].pkt

\* A sender that is sending has a packet.
LEMMA SenderIs ==
  ASSUME TcpTypeOK, NEW s \in Senders
  PROVE  /\ tx[s] \in [pkt : Payloads, at : {"base", "len", "send"}] \union {NotSending}
         /\ tx[s].at \in {"idle", "base", "len", "send"}
         /\ s \in Sending => tx[s].pkt \in Payloads
         /\ s \in Sending <=> tx[s].at # "idle"
<1>1. tx[s] \in [pkt : Payloads, at : {"base", "len", "send"}] \union {NotSending}
  BY DEF TcpTypeOK
<1>2. CASE tx[s] = NotSending BY <1>2 DEF NotSending, Sending
<1>3. CASE tx[s] \in [pkt : Payloads, at : {"base", "len", "send"}] BY <1>3 DEF Sending
<1> QED BY <1>1, <1>2, <1>3

\* What kernel_sendmsg puts on the wire: the packet, or a part of it, or what
\* two senders have made of the header and the iovecs.
LEMMA SendIs ==
  ASSUME TcpTypeOK, NEW s \in Senders, Send(s)
  PROVE  \E p \in Payloads, w \in Seq(Byte) :
           /\ sent' = Append(sent, p) /\ wire' = wire \o w
           /\ cuts' = cuts \/ (cuts < MaxCut /\ cuts' = cuts + 1)
           /\ TxInv /\ ~mixed => (cuts' = cuts /\ w = Bytes(p)) \/ cuts' = cuts + 1
<1> DEFINE p == tx[s].pkt
           data(b) == [k \in 1 .. Len(txCache.len) |->
                         IF k <= Len(txCache.base) THEN txCache.base[k] ELSE b]
           bytes(b) == Header(txCache.hdr) \o data(b)
<1>1. tx[s].at = "send" /\ sent' = Append(sent, p) BY DEF Send
<1>2. PICK b \in Stray :
        \/ wire' = wire \o bytes(b) /\ UNCHANGED cuts
        \/ /\ IF mixed THEN UNCHANGED cuts ELSE cuts < MaxCut /\ cuts' = cuts + 1
           /\ \E n \in 0 .. Len(bytes(b)) - 1 : wire' = wire \o SubSeq(bytes(b), 1, n)
  BY DEF Send
<1>3. s \in Sending /\ p \in Payloads BY <1>1, SenderIs
<1>4. /\ txCache.hdr \in Seq(Byte) /\ txCache.base \in Seq(Byte) /\ txCache.len \in Seq(Byte)
      /\ b \in Byte
  BY StreamAssumption DEF TcpTypeOK, Byte
<1>5. bytes(b) \in Seq(Byte)
  <2> DEFINE B == txCache.base
             L == Len(txCache.len)
  <2>1. B \in Seq(Byte) /\ Len(B) \in Nat /\ L \in Nat BY <1>4
  <2>2. data(b) = [k \in 1 .. L |-> IF k <= Len(B) THEN B[k] ELSE b] OBVIOUS
  <2> HIDE DEF B, L
  <2>3. \A k \in 1 .. L : (IF k <= Len(B) THEN B[k] ELSE b) \in Byte BY <1>4, <2>1
  <2>4. data(b) \in Seq(Byte) BY <2>1, <2>2, <2>3
  <2>5. Header(txCache.hdr) \in Seq(Byte) BY <1>4, HeaderBytes
  <2> HIDE DEF data
  <2> QED BY <2>4, <2>5
<1>6. ASSUME TxInv, ~mixed PROVE bytes(b) = Bytes(p)
  <2>1. txCache.hdr = p /\ txCache.base = p /\ txCache.len = p BY <1>1, <1>3, <1>6 DEF TxInv
  <2> HIDE DEF p
  <2>2. p \in Seq(Byte) BY <1>4, <2>1
  <2>3. data(b) = p
    <3>1. data(b) = [k \in 1 .. Len(p) |-> IF k <= Len(p) THEN p[k] ELSE b] BY <2>1
    <3>2. p = [k \in 1 .. Len(p) |-> p[k]] BY <2>2
    <3> HIDE DEF data
    <3> QED BY <3>1, <3>2
  <2> HIDE DEF data
  <2> QED BY <2>1, <2>3 DEF Bytes
<1> HIDE DEF bytes
<1>7. CASE wire' = wire \o bytes(b) /\ UNCHANGED cuts
  <2> HIDE DEF p
  <2> QED BY <1>1, <1>3, <1>5, <1>6, <1>7
<1>8. CASE /\ IF mixed THEN UNCHANGED cuts ELSE cuts < MaxCut /\ cuts' = cuts + 1
           /\ \E n \in 0 .. Len(bytes(b)) - 1 : wire' = wire \o SubSeq(bytes(b), 1, n)
  <2>1. PICK n \in 0 .. Len(bytes(b)) - 1 : wire' = wire \o SubSeq(bytes(b), 1, n) BY <1>8
  <2>2. SubSeq(bytes(b), 1, n) \in Seq(Byte)
    <3>1. n \in 0 .. Len(bytes(b)) /\ 1 \in Nat \ {0} BY <1>5
    <3> QED BY <1>5, <3>1, PieceOfBytes
  <2>3. mixed => cuts' = cuts BY <1>8
  <2>4. ~mixed => cuts < MaxCut /\ cuts' = cuts + 1 BY <1>8
  <2> HIDE DEF p
  <2> QED BY <1>1, <1>3, <2>1, <2>2, <2>3, <2>4
<1> QED BY <1>2, <1>7, <1>8

\* At first nobody is sending.
LEMMA TxInit == TcpInit => TxInv
BY DEF TcpInit, TxInv, Sending, NotSending

\* Every step keeps the header and the iovecs of a sender that is alone.
LEMMA TxStep == TcpTypeOK /\ TxInv /\ [TcpNext]_tcpVars => TxInv'
<1> SUFFICES ASSUME TcpTypeOK, TxInv, [TcpNext]_tcpVars PROVE TxInv' OBVIOUS
<1>t. txCache \in [hdr : Seq(Byte), base : Seq(Byte), len : Seq(Byte)] /\ DOMAIN tx = Senders
  BY DEF TcpTypeOK, Byte
<1>1. ASSUME NEW s \in Senders, OutPkt(s) PROVE TxInv'
  <2>1. PICK p \in Payloads :
          /\ txCache' = [txCache EXCEPT !.hdr = p]
          /\ tx' = [tx EXCEPT ![s] = [pkt |-> p, at |-> "base"]]
    BY <1>1 DEF OutPkt
  <2>2. mixed' = (mixed \/ Sending # {}) BY <1>1 DEF OutPkt
  <2>3. /\ txCache'.hdr = p /\ tx'[s].pkt = p /\ tx'[s].at = "base"
        /\ \A r \in Senders : r # s => tx'[r] = tx[r]
    BY <1>t, <2>1
  <2>4. ASSUME ~mixed', NEW r \in Sending' PROVE r = s
    <3>1. r \in Senders /\ tx'[r].at # "idle" BY DEF Sending
    <3>2. Sending = {} BY <2>2, <2>4
    <3> QED BY <2>3, <3>1, <3>2 DEF Sending
  <2>5. s \in Sending' BY <2>3 DEF Sending
  <2>6. ~mixed' => Sending' = {s} BY <2>4, <2>5
  <2> QED BY <2>3, <2>6 DEF TxInv
<1>2. ASSUME NEW s \in Senders, Fill(s) PROVE TxInv'
  <2>1. /\ tx[s].at \in {"base", "len"} /\ mixed' = mixed
        /\ txCache' = [txCache EXCEPT ![tx[s].at] = tx[s].pkt]
        /\ tx' = [tx EXCEPT ![s].at = IF @ = "base" THEN "len" ELSE "send"]
    BY <1>2 DEF Fill
  <2>2. /\ tx'[s].pkt = tx[s].pkt
        /\ tx'[s].at = IF tx[s].at = "base" THEN "len" ELSE "send"
        /\ \A r \in Senders : r # s => tx'[r] = tx[r]
    <3>1. tx[s] \in [pkt : Payloads, at : {"base", "len", "send"}] \union {NotSending} BY SenderIs
    <3> QED BY <1>t, <2>1, <3>1 DEF NotSending
  <2>3. /\ txCache'.hdr = txCache.hdr
        /\ tx[s].at = "base" => txCache'.base = tx[s].pkt
        /\ tx[s].at = "len" => txCache'.base = txCache.base /\ txCache'.len = tx[s].pkt
    BY <1>t, <2>1
  <2>4. s \in Sending BY <2>1 DEF Sending
  <2>5. Sending' = Sending
    <3>1. \A r \in Senders : tx'[r].at # "idle" <=> tx[r].at # "idle" BY <2>1, <2>2
    <3> QED BY <3>1 DEF Sending
  <2>6. ASSUME ~mixed
        PROVE  /\ Sending = {s} /\ txCache.hdr = tx[s].pkt
               /\ tx[s].at = "len" => txCache.base = tx[s].pkt
    BY <2>4, <2>6 DEF TxInv
  <2>7. ASSUME ~mixed', NEW r \in Sending'
        PROVE  /\ Sending' = {r} /\ txCache'.hdr = tx'[r].pkt
               /\ tx'[r].at \in {"len", "send"} => txCache'.base = tx'[r].pkt
               /\ tx'[r].at = "send" => txCache'.len = tx'[r].pkt
    <3>1. ~mixed /\ r = s BY <2>1, <2>5, <2>6, <2>7
    <3> QED BY <2>1, <2>2, <2>3, <2>5, <2>6, <3>1
  <2> QED BY <2>7 DEF TxInv
<1>3. ASSUME NEW s \in Senders, Send(s) PROVE TxInv'
  <2>1. tx[s].at = "send" /\ tx' = [tx EXCEPT ![s] = NotSending] /\ mixed' = mixed BY <1>3 DEF Send
  <2>2. tx'[s].at = "idle" /\ \A r \in Senders : r # s => tx'[r] = tx[r]
    BY <1>t, <2>1 DEF NotSending
  <2>3. s \in Sending BY <2>1 DEF Sending
  <2>4. ASSUME ~mixed' PROVE Sending' = {}
    <3>1. Sending = {s} BY <2>1, <2>3, <2>4 DEF TxInv
    <3>2. \A r \in Senders : r \in Sending' => r \in Sending /\ r # s BY <2>2 DEF Sending
    <3> QED BY <3>1, <3>2 DEF Sending
  <2> QED BY <2>4 DEF TxInv
<1>4. ASSUME UNCHANGED txVars PROVE TxInv' BY <1>4 DEF txVars, TxInv, Sending
<1>5. CASE DataReady \/ RxWork \/ Wait \/ Forward \/ Skip
  BY <1>4, <1>5 DEF DataReady, RxWork, Wait, Forward, Skip
<1>6. CASE UNCHANGED tcpVars BY <1>4, <1>6 DEF tcpVars
<1> QED BY <1>1, <1>2, <1>3, <1>5, <1>6 DEF TcpNext

-----------------------------------------------------------------------------
(* Types of the whole                                                      *)

\* Every step keeps the types, as long as a read finds the room it takes.
LEMMA TypeStep == TcpTypeOK /\ RoomLeft /\ [TcpNext]_tcpVars => TcpTypeOK'
<1> SUFFICES ASSUME TcpTypeOK, RoomLeft, [TcpNext]_tcpVars PROVE TcpTypeOK' OBVIOUS
<1>t. /\ txCache \in [hdr : Seq(Byte), base : Seq(Byte), len : Seq(Byte)] /\ DOMAIN tx = Senders
      /\ tx \in [Senders -> [pkt : Payloads, at : {"base", "len", "send"}] \union {NotSending}]
  BY DEF TcpTypeOK, Byte
<1>1. ASSUME NEW s \in Senders, OutPkt(s) PROVE TcpTypeOK'
  <2>1. PICK p \in Payloads :
          /\ txCache' = [txCache EXCEPT !.hdr = p]
          /\ tx' = [tx EXCEPT ![s] = [pkt |-> p, at |-> "base"]]
    BY <1>1 DEF OutPkt
  <2>2. p \in Seq(Byte) BY StreamAssumption DEF Byte
  <2>3. txCache' \in [hdr : Seq(Byte), base : Seq(Byte), len : Seq(Byte)] BY <1>t, <2>1, <2>2
  <2>4. tx' \in [Senders -> [pkt : Payloads, at : {"base", "len", "send"}] \union {NotSending}]
    BY <1>t, <2>1
  <2>5. mixed' \in BOOLEAN BY <1>1 DEF OutPkt
  <2> QED BY <1>1, <2>3, <2>4, <2>5 DEF OutPkt, TcpTypeOK, Byte
<1>1a. ASSUME NEW s \in Senders, Fill(s) PROVE TcpTypeOK'
  <2>1. /\ tx[s].at \in {"base", "len"}
        /\ txCache' = [txCache EXCEPT ![tx[s].at] = tx[s].pkt]
        /\ tx' = [tx EXCEPT ![s].at = IF @ = "base" THEN "len" ELSE "send"]
    BY <1>1a DEF Fill
  <2>2. tx[s] \in [pkt : Payloads, at : {"base", "len", "send"}]
    BY <2>1, SenderIs DEF NotSending
  <2>3. tx[s].pkt \in Seq(Byte) BY <2>2, StreamAssumption DEF Byte
  <2>4. txCache' \in [hdr : Seq(Byte), base : Seq(Byte), len : Seq(Byte)]
    <3> DEFINE q == tx[s].pkt
    <3>1. q \in Seq(Byte) BY <2>3
    <3>2. txCache' = [txCache EXCEPT !.base = q] \/ txCache' = [txCache EXCEPT !.len = q] BY <2>1
    <3> HIDE DEF q
    <3> QED BY <1>t, <3>1, <3>2
  <2>5. tx' \in [Senders -> [pkt : Payloads, at : {"base", "len", "send"}] \union {NotSending}]
    <3>1. \E x \in [pkt : Payloads, at : {"base", "len", "send"}] : tx' = [tx EXCEPT ![s] = x]
      BY <2>1, <2>2
    <3> QED BY <1>t, <3>1
  <2> QED BY <1>1a, <2>4, <2>5 DEF Fill, TcpTypeOK, Byte
<1>1b. ASSUME NEW s \in Senders, Send(s) PROVE TcpTypeOK'
  <2>1. PICK p \in Payloads, w \in Seq(Byte) :
          /\ sent' = Append(sent, p) /\ wire' = wire \o w
          /\ cuts' = cuts \/ (cuts < MaxCut /\ cuts' = cuts + 1)
    BY <1>1b, SendIs
  <2>2. p \in Seq(Byte) BY StreamAssumption DEF Byte
  <2>3. sent' \in Seq(Seq(Byte)) BY <2>1, <2>2 DEF TcpTypeOK, Byte
  <2>4. wire' \in Seq(Byte) BY <2>1 DEF TcpTypeOK, Byte
  <2>5. cuts' \in 0 .. MaxCut BY <2>1, StreamAssumption DEF TcpTypeOK
  <2>6. tx' \in [Senders -> [pkt : Payloads, at : {"base", "len", "send"}] \union {NotSending}]
    BY <1>t, <1>1b DEF Send
  <2> QED BY <1>1b, <2>3, <2>4, <2>5, <2>6 DEF Send, TcpTypeOK, Byte
<1>2. CASE DataReady
  <2>1. PICK n \in 1 .. Len(wire) :
          /\ sock' = sock \o SubSeq(wire, 1, n)
          /\ wire' = SubSeq(wire, n + 1, Len(wire))
    BY <1>2 DEF DataReady
  <2>2. SubSeq(wire, 1, n) \in Seq(Byte) /\ SubSeq(wire, n + 1, Len(wire)) \in Seq(Byte)
    <3>1. wire \in Seq(Byte) BY DEF TcpTypeOK, Byte
    <3>2. /\ n \in 0 .. Len(wire) /\ n + 1 \in Nat \ {0}
          /\ 1 \in Nat \ {0} /\ Len(wire) \in 0 .. Len(wire)
      BY <3>1
    <3> QED BY <3>1, <3>2, PieceOfBytes
  <2>3. sock' \in Seq(Byte) /\ wire' \in Seq(Byte) BY <2>1, <2>2 DEF TcpTypeOK, Byte
  <2> QED BY <1>2, <2>3 DEF DataReady, TcpTypeOK, Byte, txVars
<1>3. CASE RxWork
  <2> DEFINE room == BufLen - LeftLen
             n == IF Len(sock) < room THEN Len(sock) ELSE room
             slot(k) == Add(wr, k - 1) % BufLen
             from(i) == CHOOSE k \in 1 .. n : slot(k) = i
  <2>1. n \in 0 .. Len(sock) /\ n \in Idx BY ReadSize DEF TcpTypeOK
  <2>2. wr' \in Idx BY <1>3, <2>1, AddIdx DEF RxWork, TcpTypeOK, Idx
  <2>3. sock' \in Seq(Byte)
    <3>1. sock' = SubSeq(sock, n + 1, Len(sock)) BY <1>3 DEF RxWork
    <3>2. n + 1 \in Nat \ {0} /\ Len(sock) \in 0 .. Len(sock) BY <2>1 DEF TcpTypeOK
    <3> HIDE DEF n
    <3> QED BY <3>1, <3>2, PieceOfBytes DEF TcpTypeOK, Byte
  <2>4. ring' \in [0 .. BufLen - 1 -> Byte]
    <3>1. ring' = [i \in DOMAIN ring |-> IF \E k \in 1 .. n : slot(k) = i THEN sock[from(i)] ELSE ring[i]]
      BY <1>3 DEF RxWork
    <3> HIDE DEF n, slot
    <3>2. ASSUME NEW i, \E k \in 1 .. n : slot(k) = i PROVE sock[from(i)] \in Byte
      <4>1. from(i) \in 1 .. n BY <3>2
      <4>2. from(i) \in 1 .. Len(sock) BY <4>1, <2>1
      <4>3. sock \in Seq(Byte) BY DEF TcpTypeOK, Byte
      <4> QED BY <4>2, <4>3
    <3> HIDE DEF from
    <3> QED BY ZenonT(40), <3>1, <3>2 DEF TcpTypeOK, Byte
  <2> QED BY <1>3, <2>2, <2>3, <2>4 DEF RxWork, TcpTypeOK, Idx, Byte, txVars
<1>4. CASE Wait BY <1>4 DEF Wait, TcpTypeOK, txVars
<1>5. CASE Forward
  <2>1. PktLen \in Nat /\ NeedLen \in Idx /\ PktLen + HdrLen <= LeftLen /\ LeftLen \in Idx
    <3>1. LeftLen > HdrLen /\ NeedLen <= LeftLen BY <1>5 DEF Forward, Whole, Headed
    <3>2. PktLen \in Nat BY <3>1, LenRead
    <3>3. LeftLen \in Idx BY SubIdx DEF LeftLen, TcpTypeOK, Idx
    <3> QED BY <3>1, <3>2, <3>3, RingAssumption DEF NeedLen, HdrLen, Idx
  <2>2. \A k \in 1 .. PktLen : ByteAt(HdrLen + k - 1) \in Byte
    <3>1. \A k \in 1 .. PktLen : HdrLen + k - 1 \in Idx BY <2>1, RingAssumption DEF Idx, HdrLen
    <3> QED BY <3>1, ByteRead
  <2>3. [k \in 1 .. PktLen |-> ByteAt(HdrLen + k - 1)] \in Seq(Byte) BY <2>1, <2>2
  <2>4. got' \in Seq(Seq(Byte)) BY <1>5, <2>3 DEF Forward, TcpTypeOK, Byte
  <2>5. rd' \in Idx BY <1>5, <2>1, AddIdx DEF Forward, TcpTypeOK, Idx
  <2> QED BY <1>5, <2>4, <2>5 DEF Forward, TcpTypeOK, Byte, Idx, txVars
<1>6. CASE Skip
  <2>1. rd' \in Idx BY <1>6, AddIdx, RingAssumption DEF Skip, TcpTypeOK, Idx
  <2> QED BY <1>6, <2>1 DEF Skip, TcpTypeOK, Idx, txVars
<1>7. CASE UNCHANGED tcpVars BY <1>7 DEF tcpVars, txVars, TcpTypeOK
<1> QED BY <1>1, <1>1a, <1>1b, <1>2, <1>3, <1>4, <1>5, <1>6, <1>7 DEF TcpNext

-----------------------------------------------------------------------------
(* Room                                                                    *)

\* At first the ring is empty.
LEMMA RoomInit == TcpInit => RoomLeft
BY RingAssumption DEF TcpInit, RoomLeft, LeftLen, Sub

\* Every step leaves room: a receiver goes idle only with less than a packet.
LEMMA RoomStep == TcpTypeOK /\ RoomLeft /\ [TcpNext]_tcpVars => RoomLeft'
<1> SUFFICES ASSUME TcpTypeOK, RoomLeft, [TcpNext]_tcpVars PROVE RoomLeft' OBVIOUS
<1>l. LeftLen \in Idx BY SubIdx DEF LeftLen, TcpTypeOK, Idx
<1>1. ASSUME NEW s \in Senders, OutPkt(s) \/ Fill(s) \/ Send(s) PROVE RoomLeft'
  BY <1>1 DEF OutPkt, Fill, Send, RoomLeft, LeftLen
<1>2. CASE DataReady BY <1>2 DEF DataReady, RoomLeft, LeftLen
<1>3. CASE RxWork
  <2> DEFINE room == BufLen - LeftLen
             n == IF Len(sock) < room THEN Len(sock) ELSE room
  <2>1. n \in Nat /\ n <= room BY ReadSize
  <2>2. wr' = Add(wr, n) /\ rd' = rd /\ rxwork' = "parse" BY <1>3 DEF RxWork
  <2> HIDE DEF n
  <2>3. LeftLen + n <= BufLen BY <2>1, <1>l, RingAssumption DEF Idx
  <2>4. Sub(wr, rd) + n < IdxMod BY <2>3, <2>1, <1>l, RingAssumption DEF LeftLen, Idx
  <2>5. Sub(Add(wr, n), rd) = Sub(wr, rd) + n BY <2>1, <2>4, AddAhead DEF TcpTypeOK, Idx
  <2>6. LeftLen' = LeftLen + n BY <2>2, <2>5 DEF LeftLen
  <2> QED BY <2>2, <2>3, <2>6 DEF RoomLeft
<1>4. CASE Wait
  <2>1. LeftLen < BufLen
    <3>1. CASE LeftLen <= HdrLen BY <3>1, <1>l, RingAssumption DEF HdrLen, Idx
    <3>2. CASE Headed /\ ~Whole
      <4>1. LeftLen > HdrLen /\ PktLen < MaxPkt /\ ~(NeedLen <= LeftLen) BY <3>2 DEF Headed, Whole
      <4>2. PktLen \in Nat BY <4>1, LenRead
      <4> QED BY <4>1, <4>2, <1>l, RingAssumption DEF NeedLen, HdrLen, Idx
    <3> QED BY <3>1, <3>2, <1>4 DEF Wait
  <2>2. LeftLen' = LeftLen BY <1>4 DEF Wait, LeftLen
  <2> QED BY <2>1, <2>2 DEF RoomLeft
<1>5. CASE Forward
  <2>1. LeftLen > HdrLen /\ NeedLen <= LeftLen BY <1>5 DEF Forward, Whole, Headed
  <2>2. NeedLen \in Nat BY <2>1, LenRead DEF NeedLen, HdrLen
  <2>3. LeftLen' = LeftLen - NeedLen
    <3>1. rd' = Add(rd, NeedLen) /\ wr' = wr BY <1>5 DEF Forward
    <3>2. Sub(wr, Add(rd, NeedLen)) = Sub(wr, rd) - NeedLen
      BY <2>1, <2>2, AddBehind DEF TcpTypeOK, Idx, LeftLen
    <3> QED BY <3>1, <3>2 DEF LeftLen
  <2>4. rxwork' = "parse" BY <1>5 DEF Forward
  <2> QED BY <2>2, <2>3, <2>4, <1>l, RingAssumption DEF RoomLeft, Idx
<1>6. CASE Skip
  <2>1. LeftLen > HdrLen /\ rd' = Add(rd, 1) /\ wr' = wr /\ rxwork' = "parse" BY <1>6 DEF Skip
  <2>2. LeftLen' = LeftLen - 1
    <3>1. 1 <= Sub(wr, rd) BY <2>1, <1>l DEF LeftLen, HdrLen, Idx
    <3>2. Sub(wr, Add(rd, 1)) = Sub(wr, rd) - 1 BY <3>1, AddBehind DEF TcpTypeOK, Idx
    <3> QED BY <2>1, <3>2 DEF LeftLen
  <2> QED BY <2>1, <2>2, <1>l, RingAssumption DEF RoomLeft, Idx
<1>7. CASE UNCHANGED tcpVars BY <1>7 DEF tcpVars, RoomLeft, LeftLen
<1> QED BY <1>1, <1>2, <1>3, <1>4, <1>5, <1>6, <1>7 DEF TcpNext

\* For a ring of any size that holds the longest packet, whatever bytes arrive
\* in whatever pieces: the ring is never overfull, and whenever the receiver
\* waits for more bytes it has room for them.
THEOREM AlwaysRoom == TcpSpec => [](TcpTypeOK /\ RoomLeft)
<1>1. TcpInit => TcpTypeOK /\ RoomLeft BY TypeInit, RoomInit
<1>2. TcpTypeOK /\ RoomLeft /\ [TcpNext]_tcpVars => TcpTypeOK' /\ RoomLeft' BY TypeStep, RoomStep
<1> QED BY <1>1, <1>2, PTL DEF TcpSpec
-----------------------------------------------------------------------------
(* What was forwarded of what was sent, by either transport                *)

\* those of D that are not behind n
UpTo(D, n) == {m \in D : m <= n}

\* g is what is in D of the first c of s, in order
Taken(g, s, D, c) ==
  /\ Len(g) = Cardinality(UpTo(D, c))
  /\ \A i \in DOMAIN g : \E n \in UpTo(D, c) :
       g[i] = s[n] /\ Cardinality(UpTo(D, n)) = i

\* There are no more of D up to n than there are numbers.
LEMMA UpToFinite ==
  ASSUME NEW D \in SUBSET (Nat \ {0}), NEW n \in Nat
  PROVE  IsFiniteSet(UpTo(D, n)) /\ Cardinality(UpTo(D, n)) \in Nat
<1>1. UpTo(D, n) \in SUBSET (1 .. n)
  <2>1. ASSUME NEW m \in UpTo(D, n) PROVE m \in 1 .. n
    <3>1. m \in D /\ m <= n BY DEF UpTo
    <3>2. m \in Nat \ {0} BY <3>1
    <3> QED BY <3>1, <3>2
  <2> QED BY <2>1
<1>2. IsFiniteSet(1 .. n) BY FS_Interval
<1> QED BY <1>1, <1>2, FS_Subset, FS_CardinalityType

\* One more number.
LEMMA UpToNext ==
  ASSUME NEW D \in SUBSET (Nat \ {0}), NEW c \in Nat
  PROVE  UpTo(D, c + 1) = UpTo(D, c) \union (D \intersect {c + 1}) /\ c + 1 \notin UpTo(D, c)
<1>1. ASSUME NEW m \in UpTo(D, c + 1) PROVE m \in UpTo(D, c) \union (D \intersect {c + 1})
  <2>1. m \in D /\ m <= c + 1 BY DEF UpTo
  <2>2. m \in Nat BY <2>1
  <2>3. m <= c \/ m = c + 1 BY <2>1, <2>2
  <2> QED BY <2>1, <2>3 DEF UpTo
<1>2. ASSUME NEW m \in UpTo(D, c) \union (D \intersect {c + 1}) PROVE m \in UpTo(D, c + 1)
  <2>1. m \in D /\ (m <= c \/ m = c + 1) BY DEF UpTo
  <2>2. m \in Nat BY <2>1
  <2>3. m <= c + 1 BY <2>1, <2>2
  <2> QED BY <2>1, <2>3 DEF UpTo
<1>3. c + 1 \notin UpTo(D, c) BY DEF UpTo
<1> QED BY <1>1, <1>2, <1>3

\* At first nothing was forwarded.
LEMMA NothingTaken ==
  ASSUME NEW s, NEW D \in SUBSET (Nat \ {0})
  PROVE  Taken(<<>>, s, D, 0)
<1>1. UpTo(D, 0) = {}
  <2>1. ASSUME NEW m \in UpTo(D, 0) PROVE FALSE
    <3>1. m \in D /\ m <= 0 BY DEF UpTo
    <3>2. m \in Nat \ {0} BY <3>1
    <3> QED BY <3>1, <3>2
  <2> QED BY <2>1
<1>2. Len(<<>>) = 0 /\ DOMAIN <<>> = {} OBVIOUS
<1> QED BY <1>1, <1>2, FS_EmptySet DEF Taken

\* The next one is not in D.
LEMMA TakenSkip ==
  ASSUME NEW g, NEW s, NEW D \in SUBSET (Nat \ {0}), NEW c \in Nat,
         Taken(g, s, D, c), c + 1 \notin D
  PROVE  Taken(g, s, D, c + 1)
<1>1. UpTo(D, c + 1) = UpTo(D, c) BY UpToNext
<1> QED BY <1>1 DEF Taken

\* The next one is in D and is forwarded.
LEMMA TakenNext ==
  ASSUME NEW X, NEW g \in Seq(X), NEW s \in Seq(X), NEW D \in SUBSET (Nat \ {0}),
         NEW c \in Nat, Taken(g, s, D, c), c + 1 \in D, NEW x \in X, x = s[c + 1]
  PROVE  Taken(Append(g, x), s, D, c + 1)
<1> DEFINE h == Append(g, x)
           l == Len(g)
<1>1. IsFiniteSet(UpTo(D, c)) /\ Cardinality(UpTo(D, c)) = l BY UpToFinite DEF Taken
<1>2. UpTo(D, c + 1) = UpTo(D, c) \union {c + 1} BY UpToNext
<1>3. c + 1 \notin UpTo(D, c) BY UpToNext
<1>4. Cardinality(UpTo(D, c + 1)) = l + 1 BY <1>1, <1>2, <1>3, FS_AddElement
<1>5. l \in Nat /\ Len(h) = l + 1 /\ h[l + 1] = x /\ \A i \in 1 .. l : h[i] = g[i]
      /\ DOMAIN h = 1 .. l + 1 /\ DOMAIN g = 1 .. l
  OBVIOUS
<1> HIDE DEF h, l
<1>6. ASSUME NEW i \in DOMAIN h
      PROVE  \E n \in UpTo(D, c + 1) : h[i] = s[n] /\ Cardinality(UpTo(D, n)) = i
  <2>1. CASE i \in 1 .. l
    <3>1. PICK n \in UpTo(D, c) : g[i] = s[n] /\ Cardinality(UpTo(D, n)) = i
      BY <1>5, <2>1 DEF Taken
    <3>2. n \in UpTo(D, c + 1) /\ h[i] = g[i] BY <1>2, <1>5, <2>1
    <3> QED BY <3>1, <3>2
  <2>2. CASE i = l + 1
    <3>1. c + 1 \in UpTo(D, c + 1) BY <1>2
    <3>2. h[i] = s[c + 1] BY <1>5, <2>2
    <3> QED BY <1>4, <2>2, <3>1, <3>2
  <2> QED BY <1>5, <1>6, <2>1, <2>2
<1> QED BY <1>4, <1>5, <1>6 DEF Taken, h

\* More is sent.
LEMMA TakenMore ==
  ASSUME NEW X, NEW g, NEW s \in Seq(X), NEW D \in SUBSET DOMAIN s, NEW c \in 0 .. Len(s),
         Taken(g, s, D, c), NEW x \in X, NEW E, E = D \/ E = D \union {Len(s) + 1}
  PROVE  Taken(g, Append(s, x), E, c)
<1>1. DOMAIN s = 1 .. Len(s) /\ Len(s) \in Nat /\ \A n \in 1 .. Len(s) : Append(s, x)[n] = s[n]
  OBVIOUS
<1>2. \A n \in 0 .. Len(s) : UpTo(E, n) = UpTo(D, n) BY <1>1 DEF UpTo
<1>3. \A n \in UpTo(D, c) : n \in 1 .. Len(s) BY <1>1 DEF UpTo
<1>4. UpTo(E, c) = UpTo(D, c) BY <1>2
<1>5. ASSUME NEW i \in DOMAIN g
      PROVE  \E n \in UpTo(E, c) : g[i] = Append(s, x)[n] /\ Cardinality(UpTo(E, n)) = i
  <2>1. PICK n \in UpTo(D, c) : g[i] = s[n] /\ Cardinality(UpTo(D, n)) = i BY DEF Taken
  <2>2. n \in 1 .. Len(s) /\ n \in UpTo(E, c) BY <1>3, <1>4
  <2>3. UpTo(E, n) = UpTo(D, n) /\ Append(s, x)[n] = s[n] BY <1>1, <1>2, <2>2
  <2> QED BY <2>1, <2>2, <2>3
<1> QED BY <1>4, <1>5 DEF Taken

-----------------------------------------------------------------------------
(* Where the packets lie                                                   *)

\* A header says how long the packet is.
LEMMA BytesOf ==
  ASSUME NEW p \in Seq(Byte), Len(p) < 65536
  PROVE  /\ Bytes(p) \in Seq(Byte) /\ Len(Bytes(p)) = HdrLen + Len(p)
         /\ Bytes(p)[1] = Dollar /\ 256 * Bytes(p)[3] + Bytes(p)[4] = Len(p)
         /\ \A k \in 1 .. Len(p) : Bytes(p)[HdrLen + k] = p[k]
<1> DEFINE hi == (Len(p) \div 256) % 256
           lo == Len(p) % 256
           l == Len(p)
<1>1. l \in Nat OBVIOUS
<1>2. hi \in Byte /\ lo \in Byte
  <2>1. \A x \in Nat : x % 256 \in Byte BY ONLY TRUE DEF Byte
  <2>2. Len(p) \div 256 \in Nat BY <1>1
  <2> QED BY <1>1, <2>1, <2>2
<1>3. 256 * hi + lo = l
  <2> DEFINE y == l \div 256
  <2>1. l < 65536 OBVIOUS
  <2> HIDE DEF l
  <2>2. y \in Nat /\ 256 * y + (l % 256) = l /\ y < 256 BY ONLY <1>1, <2>1
  <2> HIDE DEF y
  <2>3. y % 256 = y BY ONLY <2>2
  <2> QED BY <2>2, <2>3 DEF y, l
<1>4. Header(p) = <<Dollar, 0, hi, lo>> BY DEF Header
<1> DEFINE h == <<Dollar, 0, hi, lo>>
<1> HIDE DEF hi, lo
<1>5. Dollar \in Byte /\ 0 \in Byte BY DEF Dollar, Byte
<1>6. h \in Seq(Byte) /\ Len(h) = 4 /\ h[1] = Dollar /\ h[3] = hi /\ h[4] = lo BY <1>2, <1>5
<1> HIDE DEF h, l
<1>7. /\ h \o p \in Seq(Byte) /\ Len(h \o p) = Len(h) + Len(p)
      /\ \A i \in 1 .. Len(h) + Len(p) : (h \o p)[i] = IF i <= Len(h) THEN h[i] ELSE p[i - Len(h)]
  BY ONLY <1>6, p \in Seq(Byte), ConcatProperties
<1>8. /\ Len(h \o p) = 4 + Len(p) /\ (h \o p)[1] = Dollar
      /\ (h \o p)[3] = hi /\ (h \o p)[4] = lo
      /\ \A k \in 1 .. Len(p) : (h \o p)[4 + k] = p[k]
  <2>1. Len(p) \in Nat OBVIOUS
  <2> QED BY ONLY <1>6, <1>7, <2>1
<1>9. Bytes(p) = h \o p BY <1>4 DEF Bytes, h
<1> QED BY <1>3, <1>7, <1>8, <1>9 DEF HdrLen, l

\* The packets behind the first c of s lie in R from the places that at gives,
\* one behind the other, and nothing before them looks like a header.
Lies(R, s, c, at) ==
  /\ at \in [c + 1 .. Len(s) + 1 -> 0 .. Len(R)]
  /\ at[Len(s) + 1] = Len(R)
  /\ \A m, n \in c + 1 .. Len(s) + 1 : m <= n => at[m] <= at[n]
  /\ \A n \in c + 1 .. Len(s) :
       /\ at[n + 1] = at[n] + HdrLen + Len(s[n])
       /\ \A k \in 1 .. HdrLen + Len(s[n]) : R[at[n] + k] = Bytes(s[n])[k]
  /\ \A i \in 1 .. at[c + 1] : R[i] # Dollar

\* Q is R and the packet of p behind it
Behind(Q, R, p) ==
  /\ Q \in Seq(Byte) /\ Len(Q) = Len(R) + HdrLen + Len(p)
  /\ \A k \in 1 .. Len(R) : Q[k] = R[k]
  /\ \A k \in 1 .. HdrLen + Len(p) : Q[Len(R) + k] = Bytes(p)[k]

\* Q is R without its first n bytes
Without(Q, R, n) ==
  /\ Q \in Seq(Byte) /\ Len(Q) = Len(R) - n
  /\ \A k \in 1 .. Len(R) - n : Q[k] = R[k + n]

\* One more packet.
LEMMA LiesMore ==
  ASSUME NEW R \in Seq(Byte), NEW s \in Seq(Seq(Byte)), NEW c \in 0 .. Len(s),
         NEW at, Lies(R, s, c, at), NEW p \in Seq(Byte), NEW Q, Behind(Q, R, p)
  PROVE  \E a : Lies(Q, Append(s, p), c, a)
<1> DEFINE N == Len(s)
           t == Append(s, p)
           L == Len(R)
           M == Len(Q)
           a == [n \in c + 1 .. N + 2 |-> IF n <= N + 1 THEN at[n] ELSE M]
<1>1. /\ N \in Nat /\ L \in Nat /\ M \in Nat /\ Len(t) = N + 1 /\ t[N + 1] = p
      /\ \A n \in 1 .. N : t[n] = s[n] /\ Len(s[n]) \in Nat
      /\ Len(p) \in Nat /\ c \in 0 .. N /\ HdrLen = 4 /\ M = L + 4 + Len(p)
  BY DEF HdrLen, Behind
<1>2. /\ at \in [c + 1 .. N + 1 -> 0 .. L] /\ at[N + 1] = L
      /\ \A m, n \in c + 1 .. N + 1 : m <= n => at[m] <= at[n]
      /\ \A n \in c + 1 .. N :
           /\ at[n + 1] = at[n] + 4 + Len(s[n])
           /\ \A k \in 1 .. 4 + Len(s[n]) : R[at[n] + k] = Bytes(s[n])[k]
      /\ \A i \in 1 .. at[c + 1] : R[i] # Dollar
  BY DEF Lies, HdrLen
<1>3. \A k \in 1 .. L : Q[k] = R[k] BY DEF Behind
<1>4. \A k \in 1 .. 4 + Len(p) : Q[L + k] = Bytes(p)[k] BY DEF HdrLen, Behind
<1> HIDE DEF N, t, L, M
<1>n. N \in Nat /\ L \in Nat /\ c \in 0 .. N BY <1>1
<1>5. \A n \in c + 1 .. N + 1 : a[n] = at[n] /\ at[n] \in 0 .. L BY <1>1, <1>2
<1>6. a[N + 2] = M BY <1>1
<1>7. a \in [c + 1 .. N + 2 -> 0 .. M] BY <1>1, <1>2
<1> HIDE DEF a
<1>8. ASSUME NEW m \in c + 1 .. N + 2, NEW n \in c + 1 .. N + 2, m <= n PROVE a[m] <= a[n]
  <2>1. CASE n = N + 2
    <3>1. a[m] \in 0 .. M BY <1>7
    <3> QED BY <1>1, <1>6, <2>1, <3>1
  <2>2. CASE n # N + 2
    <3>1. m \in c + 1 .. N + 1 /\ n \in c + 1 .. N + 1 BY ONLY <1>n, <1>8, <2>2, m \in c + 1 .. N + 2, n \in c + 1 .. N + 2
    <3> QED BY <1>2, <1>5, <1>8, <3>1
  <2> QED BY <2>1, <2>2
<1>9. ASSUME NEW n \in c + 1 .. N + 1
      PROVE  /\ a[n + 1] = a[n] + 4 + Len(t[n])
             /\ \A k \in 1 .. 4 + Len(t[n]) : Q[a[n] + k] = Bytes(t[n])[k]
  <2>1. CASE n = N + 1 BY SMTT(30), <1>1, <1>2, <1>4, <1>5, <1>6, <2>1
  <2>2. CASE n # N + 1
    <3>1. n \in c + 1 .. N /\ n \in 1 .. N /\ n + 1 \in c + 1 .. N + 1 /\ n \in c + 1 .. N + 1
      BY <1>1, <2>2
    <3>2. a[n] = at[n] /\ a[n + 1] = at[n + 1] /\ t[n] = s[n] /\ at[n] \in 0 .. L
          /\ at[n + 1] \in 0 .. L /\ Len(s[n]) \in Nat
      BY <1>1, <1>5, <3>1
    <3>3. at[n + 1] = at[n] + 4 + Len(s[n]) BY <1>2, <3>1
    <3>4. ASSUME NEW k \in 1 .. 4 + Len(s[n]) PROVE Q[at[n] + k] = Bytes(s[n])[k]
      <4> DEFINE x == at[n]
                 y == at[n + 1]
                 z == Len(s[n])
      <4>1. x \in 0 .. L /\ y \in 0 .. L /\ z \in Nat /\ y = x + 4 + z /\ k \in 1 .. 4 + z
        BY <3>2, <3>3
      <4>2. R[x + k] = Bytes(s[n])[k] BY <1>2, <3>1
      <4> HIDE DEF x, y, z
      <4>3. x + k \in 1 .. L BY ONLY <4>1, <1>n
      <4>4. Q[x + k] = R[x + k] BY <1>3, <4>3
      <4> QED BY <4>2, <4>4 DEF x
    <3> QED BY <3>2, <3>3, <3>4
  <2> QED BY <2>1, <2>2
<1>10. \A i \in 1 .. a[c + 1] : Q[i] # Dollar
  <2>1. c + 1 \in c + 1 .. N + 1 BY <1>1
  <2> DEFINE x == at[c + 1]
  <2>2. a[c + 1] = x /\ x \in 0 .. L BY <1>5, <2>1
  <2>3. \A i \in 1 .. x : R[i] # Dollar BY <1>2
  <2> HIDE DEF x
  <2>4. \A i \in 1 .. x : i \in 1 .. L BY ONLY <2>2, <1>n
  <2>5. \A i \in 1 .. x : Q[i] = R[i] BY <1>3, <2>4
  <2> QED BY ONLY <2>2, <2>3, <2>5
<1>11. Lies(Q, t, c, a)
  <2>1. (N + 1) + 1 = N + 2 /\ Len(t) = N + 1 BY <1>1
  <2> QED BY ONLY <1>6, <1>7, <1>8, <1>9, <1>10, <2>1 DEF Lies, M, HdrLen
<1> QED BY <1>11 DEF t

\* The first n bytes are taken away, and with them up to d packets.
LEMMA LiesOn ==
  ASSUME NEW R \in Seq(Byte), NEW s \in Seq(Seq(Byte)), NEW c \in 0 .. Len(s),
         NEW at, Lies(R, s, c, at), NEW d \in c .. Len(s), NEW n \in 0 .. at[d + 1],
         NEW Q, Without(Q, R, n),
         \A i \in 1 .. at[d + 1] - n : R[i + n] # Dollar
  PROVE  \E a : Lies(Q, s, d, a)
<1> DEFINE N == Len(s)
           L == Len(R)
           M == Len(Q)
           a == [m \in d + 1 .. N + 1 |-> at[m] - n]
<1>1. /\ N \in Nat /\ L \in Nat /\ M \in Nat /\ c \in 0 .. N /\ d \in c .. N /\ HdrLen = 4
      /\ \A m \in 1 .. N : Len(s[m]) \in Nat
  BY DEF HdrLen, Without
<1>2. /\ at \in [c + 1 .. N + 1 -> 0 .. L] /\ at[N + 1] = L
      /\ \A m, k \in c + 1 .. N + 1 : m <= k => at[m] <= at[k]
      /\ \A m \in c + 1 .. N :
           /\ at[m + 1] = at[m] + 4 + Len(s[m])
           /\ \A k \in 1 .. 4 + Len(s[m]) : R[at[m] + k] = Bytes(s[m])[k]
  BY DEF Lies, HdrLen
<1>3. /\ M = L - n /\ n \in 0 .. at[d + 1] /\ \A k \in 1 .. L - n : Q[k] = R[k + n]
      /\ \A i \in 1 .. at[d + 1] - n : R[i + n] # Dollar
  BY DEF Without
<1> HIDE DEF N, L, M
<1>n. N \in Nat /\ L \in Nat /\ M \in Nat /\ M = L - n /\ c \in 0 .. N /\ d \in c .. N
  BY <1>1, <1>3
<1>4. \A m \in d + 1 .. N + 1 : m \in c + 1 .. N + 1 /\ at[m] \in 0 .. L BY <1>1, <1>2
<1>5. d + 1 \in d + 1 .. N + 1 /\ at[d + 1] \in 0 .. L /\ n \in Nat BY <1>1, <1>3, <1>4
<1>6. ASSUME NEW m \in d + 1 .. N + 1 PROVE a[m] = at[m] - n /\ a[m] \in 0 .. M
  <2> DEFINE x == at[m]
             y == at[d + 1]
  <2>0. d + 1 <= m /\ m \in c + 1 .. N + 1 /\ d + 1 \in c + 1 .. N + 1 BY <1>n, <1>4
  <2>1. y <= x BY <1>2, <2>0
  <2>2. x \in 0 .. L /\ y \in 0 .. L /\ n \in 0 .. y BY <1>3, <1>4, <1>5
  <2>3. a[m] = x - n OBVIOUS
  <2> HIDE DEF x, y, a
  <2>4. x - n \in 0 .. M BY ONLY <2>1, <2>2, <1>n
  <2> QED BY <2>3, <2>4 DEF x
<1>7. a \in [d + 1 .. N + 1 -> 0 .. M] BY <1>6
<1> HIDE DEF a
<1>8. a[N + 1] = M BY <1>1, <1>2, <1>3, <1>6
<1>9. \A m, k \in d + 1 .. N + 1 : m <= k => a[m] <= a[k] BY <1>2, <1>4, <1>5, <1>6
<1>10. ASSUME NEW m \in d + 1 .. N
       PROVE  /\ a[m + 1] = a[m] + 4 + Len(s[m])
              /\ \A k \in 1 .. 4 + Len(s[m]) : Q[a[m] + k] = Bytes(s[m])[k]
  <2>1. m \in c + 1 .. N /\ m \in d + 1 .. N + 1 /\ m + 1 \in d + 1 .. N + 1 /\ m \in 1 .. N
    BY <1>1
  <2>2. a[m] = at[m] - n /\ a[m + 1] = at[m + 1] - n /\ a[m] \in 0 .. M /\ a[m + 1] \in 0 .. M
        /\ at[m] \in 0 .. L /\ at[m + 1] \in 0 .. L /\ Len(s[m]) \in Nat
    BY <1>1, <1>4, <1>6, <2>1
  <2>3. at[m + 1] = at[m] + 4 + Len(s[m]) BY <1>2, <2>1
  <2> DEFINE x == at[m]
             y == at[m + 1]
             z == Len(s[m])
  <2>4. x \in 0 .. L /\ y \in 0 .. L /\ z \in Nat /\ y = x + 4 + z
        /\ x - n \in 0 .. M /\ y - n \in 0 .. M /\ n \in Nat
    BY <1>5, <2>2, <2>3
  <2>5. a[m] = x - n /\ a[m + 1] = y - n BY <2>2
  <2>6. \A k \in 1 .. 4 + z : R[x + k] = Bytes(s[m])[k] BY <1>2, <2>1
  <2> HIDE DEF x, y, z
  <2>7. ASSUME NEW k \in 1 .. 4 + z PROVE Q[(x - n) + k] = Bytes(s[m])[k]
    <3>1. (x - n) + k \in 1 .. L - n /\ ((x - n) + k) + n = x + k BY ONLY <1>n, <2>4, k \in 1 .. 4 + z
    <3>2. Q[(x - n) + k] = R[((x - n) + k) + n] BY <1>3, <3>1
    <3> QED BY <2>6, <3>1, <3>2
  <2>8. y - n = (x - n) + 4 + z BY ONLY <2>4
  <2> QED BY <2>5, <2>7, <2>8 DEF z
<1>11. ASSUME NEW i \in 1 .. a[d + 1] PROVE Q[i] # Dollar
  <2>1. a[d + 1] = at[d + 1] - n /\ i \in 1 .. at[d + 1] - n BY <1>5, <1>6
  <2>2. i \in 1 .. L - n BY <1>1, <1>5, <2>1
  <2> QED BY <1>3, <2>1, <2>2
<1>12. Lies(Q, s, d, a) BY <1>1, <1>7, <1>8, <1>9, <1>10, <1>11 DEF Lies, M, N, HdrLen
<1> QED BY <1>12

-----------------------------------------------------------------------------
(* What is on the way                                                      *)

\* Multiples of the ring's size are that far apart.
LEMMA Multiples ==
  ASSUME NEW B \in Nat \ {0}, NEW q \in Int, B * q > 0
  PROVE  B * q >= B
<1>1. q >= 1 OBVIOUS
<1>2. \A n \in Int : n >= 1 => B * n >= B OBVIOUS
<1> QED BY <1>1, <1>2

\* Two indices that are less than a ring apart are at two places in it, also
\* when they wrap between the two.
LEMMA PlacesApart ==
  ASSUME NEW a \in Idx, NEW x \in 0 .. BufLen - 1, NEW y \in 0 .. BufLen - 1, x < y
  PROVE  Add(a, x) % BufLen # Add(a, y) % BufLen
<1> SUFFICES ASSUME Add(a, x) % BufLen = Add(a, y) % BufLen PROVE FALSE OBVIOUS
<1> DEFINE u == Add(a, x)
           v == Add(a, y)
           r == u % BufLen
           p == u \div BufLen
           q == v \div BufLen
           m == IdxMod \div BufLen
<1>1. /\ BufLen \in Nat \ {0} /\ IdxMod \in Nat /\ IdxMod > BufLen /\ IdxMod % BufLen = 0
      /\ x \in Nat /\ y \in Nat /\ y < BufLen
  BY RingAssumption
<1>2. u \in Nat /\ v \in Nat BY <1>1 DEF Add, Idx
<1>3. v - u = y - x \/ v - u = (y - x) - IdxMod BY <1>1 DEF Add, Idx
<1>4. r = v % BufLen OBVIOUS
<1>5. \A l \in Nat : l = BufLen * (l \div BufLen) + (l % BufLen) /\ l \div BufLen \in Int
                     /\ l % BufLen \in Nat
  BY <1>1
<1>6. u = BufLen * p + r /\ v = BufLen * q + r /\ IdxMod = BufLen * m
      /\ p \in Int /\ q \in Int /\ m \in Int /\ r \in Nat
  <2>1. u = BufLen * p + r /\ p \in Int /\ r \in Nat BY <1>2, <1>5
  <2>2. v = BufLen * q + r /\ q \in Int BY <1>2, <1>4, <1>5
  <2>3. IdxMod = BufLen * m /\ m \in Int BY <1>1, <1>5
  <2> QED BY <2>1, <2>2, <2>3
<1> HIDE DEF u, v, r, p, q, m
<1>7. v - u = BufLen * (q - p) BY <1>1, <1>6
<1>8. y - x = BufLen * (q - p) \/ y - x = BufLen * (q - p + m)
  <2>1. BufLen * (q - p + m) = BufLen * (q - p) + BufLen * m BY <1>1, <1>6
  <2> DEFINE e == BufLen * (q - p)
             f == BufLen * (q - p + m)
  <2>2. e \in Int /\ f \in Int /\ v - u = e /\ f = e + IdxMod BY <1>1, <1>6, <1>7, <2>1
  <2> HIDE DEF e, f
  <2>3. y - x = e \/ y - x = f BY <1>1, <1>2, <1>3, <2>2
  <2> QED BY <2>3 DEF e, f
<1>9. y - x > 0 /\ y - x < BufLen BY <1>1
<1>10. ASSUME NEW k \in Int, y - x = BufLen * k PROVE FALSE
  <2>1. BufLen * k > 0 BY <1>9, <1>10
  <2>2. BufLen * k >= BufLen BY <1>1, <2>1, Multiples
  <2> QED BY <1>1, <1>9, <1>10, <2>2
<1> QED BY <1>6, <1>8, <1>10

\* The reader is that far behind the writer.
LEMMA AddBack ==
  ASSUME NEW a \in Idx, NEW b \in Idx, NEW k \in Nat, Sub(a, b) + k < IdxMod
  PROVE  Add(a, k) = Add(b, Sub(a, b) + k)
BY RingAssumption DEF Add, Sub, Idx

\* Steps add up.
LEMMA AddAdd ==
  ASSUME NEW a \in Idx, NEW n \in Nat, NEW k \in Nat, n + k < IdxMod
  PROVE  Add(Add(a, n), k) = Add(a, n + k)
BY RingAssumption DEF Add, Idx

\* the bytes that are there from the reader on: in the ring, in the socket, and
\* yet to arrive
Rest == [k \in 1 .. LeftLen + Len(sock) + Len(wire) |->
           IF k <= LeftLen THEN ByteAt(k - 1)
           ELSE IF k <= LeftLen + Len(sock) THEN sock[k - LeftLen]
           ELSE wire[k - LeftLen - Len(sock)]]

\* What there is is a sequence of bytes.
LEMMA RestIs ==
  ASSUME TcpTypeOK, RoomLeft
  PROVE  /\ Rest \in Seq(Byte) /\ Len(Rest) = LeftLen + Len(sock) + Len(wire)
         /\ LeftLen \in Idx /\ LeftLen \in 0 .. BufLen /\ Len(sock) \in Nat /\ Len(wire) \in Nat
         /\ \A k \in 1 .. LeftLen : Rest[k] = ByteAt(k - 1)
         /\ \A k \in 1 .. Len(sock) : Rest[LeftLen + k] = sock[k]
         /\ \A k \in 1 .. Len(wire) : Rest[LeftLen + Len(sock) + k] = wire[k]
<1> DEFINE a == LeftLen
           b == Len(sock)
           c == Len(wire)
<1>1. a \in Idx BY SubIdx DEF LeftLen, TcpTypeOK, Idx
<1>2. a \in 0 .. BufLen BY <1>1, RingAssumption DEF RoomLeft, Idx
<1>3. sock \in Seq(Byte) /\ wire \in Seq(Byte) BY DEF TcpTypeOK, Byte
<1>4. b \in Nat /\ c \in Nat BY <1>3
<1>5. \A k \in 1 .. a : ByteAt(k - 1) \in Byte
  <2>1. \A k \in 1 .. a : k - 1 \in Idx BY <1>1, RingAssumption DEF Idx
  <2> QED BY <2>1, ByteRead
<1>6. Rest = [k \in 1 .. a + b + c |->
                IF k <= a THEN ByteAt(k - 1) ELSE IF k <= a + b THEN sock[k - a] ELSE wire[k - a - b]]
  BY DEF Rest
<1>7. (\A k \in 1 .. b : sock[k] \in Byte) /\ (\A k \in 1 .. c : wire[k] \in Byte) BY <1>3
<1> HIDE DEF a, b, c
<1>8. a \in Nat BY <1>2
<1>9. ASSUME NEW k \in 1 .. a + b + c PROVE Rest[k] \in Byte
  <2>1. CASE k <= a
    <3>1. k \in 1 .. a BY <1>8, <2>1
    <3> QED BY <1>5, <1>6, <2>1, <3>1
  <2>2. CASE ~(k <= a) /\ k <= a + b
    <3>1. k - a \in 1 .. b BY <1>4, <1>8, <2>2
    <3> QED BY <1>6, <1>7, <2>2, <3>1
  <2>3. CASE ~(k <= a) /\ ~(k <= a + b)
    <3>1. k - a - b \in 1 .. c BY <1>4, <1>8, <2>3
    <3> QED BY <1>6, <1>7, <2>3, <3>1
  <2> QED BY <2>1, <2>2, <2>3
<1>10. a + b + c \in Nat BY <1>4, <1>8
<1>11. Rest \in [1 .. a + b + c -> Byte] BY <1>6, <1>9
<1>12. Rest \in Seq(Byte) /\ Len(Rest) = a + b + c BY <1>10, <1>11
<1>13. \A k \in 1 .. a : Rest[k] = ByteAt(k - 1) BY <1>4, <1>6, <1>8
<1>14. ASSUME NEW k \in 1 .. b PROVE Rest[a + k] = sock[k]
  <2> DEFINE i == a + k
  <2>1. i \in 1 .. a + b + c /\ ~(i <= a) /\ i <= a + b /\ i - a = k BY ONLY <1>4, <1>8, k \in 1 .. b
  <2> HIDE DEF i
  <2>2. Rest[i] = sock[i - a] BY ONLY <1>6, <2>1
  <2> QED BY <2>1, <2>2 DEF i
<1>15. ASSUME NEW k \in 1 .. c PROVE Rest[a + b + k] = wire[k]
  <2> DEFINE i == a + b + k
  <2>1. i \in 1 .. a + b + c /\ ~(i <= a) /\ ~(i <= a + b) /\ i - a - b = k
    BY ONLY <1>4, <1>8, k \in 1 .. c
  <2> HIDE DEF i
  <2>2. Rest[i] = wire[i - a - b] BY ONLY <1>6, <2>1
  <2> QED BY <2>1, <2>2 DEF i
<1> QED BY <1>1, <1>2, <1>4, <1>12, <1>13, <1>14, <1>15 DEF a, b, c

\* Two sequences of bytes are equal when they are byte by byte.
LEMMA SameBytes ==
  ASSUME NEW R \in Seq(Byte), NEW Q \in Seq(Byte), Len(R) = Len(Q),
         \A k \in 1 .. Len(R) : R[k] = Q[k]
  PROVE  R = Q
OBVIOUS

\* Bytes arrive.
LEMMA RestArrives ==
  ASSUME TcpTypeOK, RoomLeft, TcpTypeOK', RoomLeft', DataReady
  PROVE  Rest' = Rest
<1>1. PICK n \in 1 .. Len(wire) :
        /\ sock' = sock \o SubSeq(wire, 1, n)
        /\ wire' = SubSeq(wire, n + 1, Len(wire))
  BY DEF DataReady
<1>2. rd' = rd /\ wr' = wr /\ ring' = ring BY DEF DataReady
<1>3. LeftLen' = LeftLen BY <1>2 DEF LeftLen
<1>4. \A k : ByteAt(k)' = ByteAt(k) BY <1>2 DEF ByteAt
<1> DEFINE a == LeftLen
           b == Len(sock)
           c == Len(wire)
           x == sock'
           y == wire'
<1>5. sock \in Seq(Byte) /\ wire \in Seq(Byte) BY DEF TcpTypeOK, Byte
<1>6. a \in Nat /\ b \in Nat /\ c \in Nat BY RestIs
<1>7. /\ Len(x) = b + n /\ \A k \in 1 .. b : x[k] = sock[k]
      /\ \A k \in 1 .. n : x[b + k] = wire[k]
  <2> DEFINE t == SubSeq(wire, 1, n)
  <2>1. t \in Seq(Byte) /\ Len(t) = n /\ \A k \in 1 .. n : t[k] = wire[k] BY <1>5
  <2> HIDE DEF t
  <2>2. /\ Len(sock \o t) = Len(sock) + Len(t)
        /\ \A i \in 1 .. Len(sock) + Len(t) : (sock \o t)[i] =
             IF i <= Len(sock) THEN sock[i] ELSE t[i - Len(sock)]
    BY ONLY <1>5, <2>1, ConcatProperties
  <2>3. x = sock \o t BY <1>1 DEF t
  <2> QED BY <1>6, <2>1, <2>2, <2>3
<1>8. Len(y) = c - n /\ \A k \in 1 .. c - n : y[k] = wire[n + k] BY <1>1, <1>5
<1>9. /\ Rest \in Seq(Byte) /\ Len(Rest) = a + b + c
      /\ \A k \in 1 .. a : Rest[k] = ByteAt(k - 1)
      /\ \A k \in 1 .. b : Rest[a + k] = sock[k]
      /\ \A k \in 1 .. c : Rest[a + b + k] = wire[k]
  BY RestIs
<1> DEFINE R == Rest'
<1>10. /\ R \in Seq(Byte) /\ Len(R) = a + Len(x) + Len(y)
       /\ \A k \in 1 .. a : R[k] = ByteAt(k - 1)
       /\ \A k \in 1 .. Len(x) : R[a + k] = x[k]
       /\ \A k \in 1 .. Len(y) : R[a + Len(x) + k] = y[k]
  <2>1. (TcpTypeOK /\ RoomLeft
          => /\ Rest \in Seq(Byte) /\ Len(Rest) = LeftLen + Len(sock) + Len(wire)
             /\ \A k \in 1 .. LeftLen : Rest[k] = ByteAt(k - 1)
             /\ \A k \in 1 .. Len(sock) : Rest[LeftLen + k] = sock[k]
             /\ \A k \in 1 .. Len(wire) : Rest[LeftLen + Len(sock) + k] = wire[k])'
    BY RestIs, PTL
  <2> QED BY <1>3, <1>4, <2>1
<1>n. n \in 1 .. c OBVIOUS
<1> HIDE DEF a, b, c, x, y, R
<1>11. Len(R) = Len(Rest) BY SMTT(30), <1>6, <1>7, <1>8, <1>9, <1>10, <1>n
<1>12. ASSUME NEW k \in 1 .. Len(Rest) PROVE R[k] = Rest[k]
  <2>0. k \in 1 .. a + b + c BY <1>9
  <2>1. CASE k <= a
    <3>1. k \in 1 .. a BY ONLY <2>0, <2>1, <1>6
    <3> QED BY <1>9, <1>10, <3>1
  <2>2. CASE ~(k <= a) /\ k <= a + b
    <3>1. PICK j \in 1 .. b : k = a + j
      <4>1. k - a \in 1 .. b /\ k = a + (k - a) BY ONLY <2>0, <2>2, <1>6
      <4> QED BY <4>1
    <3>2. j \in 1 .. Len(x) BY <1>6, <1>7, <1>n
    <3> QED BY <1>7, <1>9, <1>10, <3>1, <3>2
  <2>3. CASE ~(k <= a + b) /\ k <= a + b + n
    <3>1. PICK j \in 1 .. n : k = a + b + j
      <4>1. k - a - b \in 1 .. n /\ k = a + b + (k - a - b) BY ONLY <2>0, <2>3, <1>6, <1>n
      <4> QED BY <4>1
    <3>2. b + j \in 1 .. Len(x) /\ j \in 1 .. c /\ k = a + (b + j) BY ONLY <1>6, <1>7, <1>n, <3>1
    <3>3. R[a + (b + j)] = x[b + j] /\ x[b + j] = wire[j] /\ Rest[a + b + j] = wire[j]
      BY <1>7, <1>9, <1>10, <3>2
    <3> QED BY <3>1, <3>2, <3>3
  <2>4. CASE ~(k <= a + b + n)
    <3>1. PICK j \in 1 .. c - n : k = a + b + n + j
      <4>1. k - a - b - n \in 1 .. c - n /\ k = a + b + n + (k - a - b - n)
        BY ONLY <2>0, <2>4, <1>6, <1>n
      <4> QED BY <4>1
    <3>2. n + j \in 1 .. c /\ k = a + b + (n + j) /\ k = a + Len(x) + j /\ j \in 1 .. Len(y)
      BY ONLY <1>6, <1>7, <1>8, <1>n, <3>1
    <3>3. R[a + Len(x) + j] = y[j] /\ y[j] = wire[n + j] /\ Rest[a + b + (n + j)] = wire[n + j]
      BY <1>8, <1>9, <1>10, <3>2
    <3> QED BY <3>2, <3>3
  <2> QED BY <2>1, <2>2, <2>3, <2>4
<1> QED BY <1>9, <1>10, <1>11, <1>12, SameBytes DEF R

\* The invariant parts of a state are those of the next one, too.
LEMMA RestIsNext ==
  ASSUME TcpTypeOK', RoomLeft'
  PROVE  /\ Rest' \in Seq(Byte) /\ Len(Rest') = LeftLen' + Len(sock') + Len(wire')
         /\ LeftLen' \in Idx
         /\ \A k \in 1 .. LeftLen' : Rest'[k] = ByteAt(k - 1)'
         /\ \A k \in 1 .. Len(sock') : Rest'[LeftLen' + k] = sock'[k]
         /\ \A k \in 1 .. Len(wire') : Rest'[LeftLen' + Len(sock') + k] = wire'[k]
<1>1. (TcpTypeOK /\ RoomLeft
         => /\ Rest \in Seq(Byte) /\ Len(Rest) = LeftLen + Len(sock) + Len(wire)
            /\ LeftLen \in Idx
            /\ \A k \in 1 .. LeftLen : Rest[k] = ByteAt(k - 1)
            /\ \A k \in 1 .. Len(sock) : Rest[LeftLen + k] = sock[k]
            /\ \A k \in 1 .. Len(wire) : Rest[LeftLen + Len(sock) + k] = wire[k])'
  BY RestIs, PTL
<1> QED BY <1>1

\* A read of the socket: what was in the ring is left alone, wherever in it
\* the writer goes on.
LEMMA RestRead ==
  ASSUME TcpTypeOK, RoomLeft, TcpTypeOK', RoomLeft', RxWork
  PROVE  Rest' = Rest
<1> DEFINE room == BufLen - LeftLen
           n == IF Len(sock) < room THEN Len(sock) ELSE room
           slot(k) == Add(wr, k - 1) % BufLen
           a == LeftLen
           b == Len(sock)
           c == Len(wire)
           x == sock'
<1>1. /\ ring' = [i \in DOMAIN ring |->
                    IF \E k \in 1 .. n : slot(k) = i
                    THEN sock[CHOOSE k \in 1 .. n : slot(k) = i] ELSE ring[i]]
      /\ wr' = Add(wr, n) /\ rd' = rd
      /\ sock' = SubSeq(sock, n + 1, Len(sock)) /\ wire' = wire
  BY DEF RxWork
<1>2. n \in 0 .. b /\ n \in Idx /\ n <= BufLen - a BY ReadSize
<1>3. rd \in Idx /\ wr \in Idx /\ a \in Idx /\ a \in 0 .. BufLen /\ b \in Nat /\ c \in Nat
      /\ sock \in Seq(Byte)
  BY RestIs DEF TcpTypeOK, Idx, Byte
<1>4. /\ Rest \in Seq(Byte) /\ Len(Rest) = a + b + c
      /\ \A k \in 1 .. a : Rest[k] = ByteAt(k - 1)
      /\ \A k \in 1 .. b : Rest[a + k] = sock[k]
      /\ \A k \in 1 .. c : Rest[a + b + k] = wire[k]
  BY RestIs
<1> HIDE DEF n
<1>5. a + n <= BufLen /\ a + n < IdxMod /\ n \in Nat BY <1>2, <1>3, RingAssumption DEF Idx
<1>6. LeftLen' = a + n
  <2>1. Sub(wr, rd) + n < IdxMod BY <1>5 DEF LeftLen
  <2>2. Sub(Add(wr, n), rd) = Sub(wr, rd) + n BY <1>3, <1>5, <2>1, AddAhead
  <2> QED BY <1>1, <2>2 DEF LeftLen
<1>7. Len(x) = b - n /\ \A k \in 1 .. b - n : x[k] = sock[n + k] BY <1>1, <1>2, <1>3
\* where the k-th byte from the reader on lies
<1> DEFINE place(k) == Add(rd, k) % BufLen
<1>8. \A i, j \in 0 .. BufLen - 1 : place(i) = place(j) => i = j
  <2>1. ASSUME NEW i \in 0 .. BufLen - 1, NEW j \in 0 .. BufLen - 1, place(i) = place(j), i # j
        PROVE  FALSE
    <3>1. CASE i < j BY <1>3, <2>1, <3>1, PlacesApart
    <3>2. CASE j < i BY <1>3, <2>1, <3>2, PlacesApart
    <3> QED BY <2>1, <3>1, <3>2
  <2> QED BY <2>1
<1>9. \A k \in 1 .. n : slot(k) = place(a + k - 1)
  <2>1. ASSUME NEW k \in 1 .. n PROVE Add(wr, k - 1) = Add(rd, a + k - 1)
    <3>1. k - 1 \in Nat /\ Sub(wr, rd) + (k - 1) < IdxMod
      <4> DEFINE z == Sub(wr, rd)
      <4>1. z = LeftLen /\ z \in Int /\ IdxMod \in Nat BY <1>3, RingAssumption DEF LeftLen, Idx
      <4>2. z + n < IdxMod BY <1>5, <4>1
      <4> HIDE DEF z
      <4>3. k - 1 \in Nat /\ z + (k - 1) < IdxMod BY ONLY <1>5, <4>1, <4>2, k \in 1 .. n
      <4> QED BY <4>3 DEF z
    <3>2. Add(wr, k - 1) = Add(rd, Sub(wr, rd) + (k - 1)) BY <1>3, <3>1, AddBack
    <3>3. Sub(wr, rd) + (k - 1) = a + k - 1 BY <1>3, <1>5 DEF LeftLen, Idx
    <3> QED BY <3>2, <3>3
  <2> QED BY <2>1
<1>10. \A k \in 0 .. BufLen - 1 : place(k) \in DOMAIN ring
  <2>1. \A k \in 0 .. BufLen - 1 : k \in Idx BY RingAssumption DEF Idx
  <2>2. \A k \in Idx : Add(rd, k) \in Nat BY <1>3, AddIdx DEF Idx
  <2>3. DOMAIN ring = 0 .. BufLen - 1 BY DEF TcpTypeOK
  <2> QED BY <2>1, <2>2, <2>3, SlotInRing
<1> HIDE DEF slot, place
<1>11. ASSUME NEW k \in 1 .. a PROVE ring'[place(k - 1)] = ring[place(k - 1)]
  <2>1. k - 1 \in 0 .. BufLen - 1
    <3>1. a \in 0 .. BufLen /\ BufLen \in Nat BY <1>3, RingAssumption
    <3> HIDE DEF a
    <3> QED BY ONLY <3>1, k \in 1 .. a
  <2>2. ~\E j \in 1 .. n : slot(j) = place(k - 1)
    <3>1. ASSUME NEW j \in 1 .. n, slot(j) = place(k - 1) PROVE FALSE
      <4>1. a + j - 1 \in 0 .. BufLen - 1 /\ a + j - 1 # k - 1 BY <1>3, <1>5, RingAssumption
      <4>2. place(a + j - 1) = place(k - 1) BY <1>9, <3>1
      <4> QED BY <1>8, <2>1, <4>1, <4>2
    <3> QED BY <3>1
  <2> QED BY <1>1, <1>10, <2>1, <2>2
<1>12. ASSUME NEW k \in 1 .. n PROVE ring'[place(a + k - 1)] = sock[k]
  <2> DEFINE i == place(a + k - 1)
             e == CHOOSE j \in 1 .. n : slot(j) = i
  <2>1. a + k - 1 \in 0 .. BufLen - 1 BY <1>3, <1>5, RingAssumption
  <2>2. slot(k) = i BY <1>9
  <2>3. e \in 1 .. n /\ slot(e) = i BY <2>2
  <2> HIDE DEF e
  <2>4. a + e - 1 \in 0 .. BufLen - 1 BY <1>3, <1>5, <2>3, RingAssumption
  <2>5. place(a + e - 1) = place(a + k - 1) BY <1>9, <2>3
  <2>6. a + e - 1 = a + k - 1 BY <1>8, <2>1, <2>4, <2>5
  <2>7. e = k BY <1>3, <1>5, <2>3, <2>6
  <2>8. ring'[i] = sock[e] BY <1>1, <1>10, <2>1, <2>2 DEF e
  <2> QED BY <2>7, <2>8
<1> DEFINE R == Rest'
<1>13. /\ R \in Seq(Byte) /\ Len(R) = (a + n) + Len(x) + c
       /\ \A k \in 1 .. a + n : R[k] = ByteAt(k - 1)'
       /\ \A k \in 1 .. Len(x) : R[(a + n) + k] = x[k]
       /\ \A k \in 1 .. c : R[(a + n) + Len(x) + k] = wire[k]
  BY <1>1, <1>6, RestIsNext
<1>14. \A k : ByteAt(k)' = ring'[place(k)] BY <1>1 DEF ByteAt, place
<1>15. \A k : ByteAt(k) = ring[place(k)] BY DEF ByteAt, place
<1> HIDE DEF a, b, c, x, R
<1>n. a \in Nat /\ b \in Nat /\ c \in Nat /\ n \in 0 .. b BY <1>2, <1>3
<1>16. Len(R) = Len(Rest) BY <1>4, <1>7, <1>13, <1>n
<1>17. ASSUME NEW k \in 1 .. Len(Rest) PROVE R[k] = Rest[k]
  <2>0. k \in 1 .. a + b + c BY <1>4
  <2>1. CASE k <= a
    <3>1. k \in 1 .. a /\ k \in 1 .. a + n BY ONLY <2>0, <2>1, <1>n
    <3>2. R[k] = ring'[place(k - 1)] BY <1>13, <1>14, <3>1
    <3>3. Rest[k] = ring[place(k - 1)] BY <1>4, <1>15, <3>1
    <3> QED BY <1>11, <3>1, <3>2, <3>3
  <2>2. CASE ~(k <= a) /\ k <= a + n
    <3>1. PICK j \in 1 .. n : k = a + j
      <4>1. k - a \in 1 .. n /\ k = a + (k - a) BY ONLY <2>0, <2>2, <1>n
      <4> QED BY <4>1
    <3>2. a + j \in 1 .. a + n /\ j \in 1 .. b BY ONLY <1>n, <3>1
    <3>3. k \in 1 .. a + n /\ k - 1 = a + j - 1 BY ONLY <1>n, <3>1, <3>2
    <3>4. R[k] = ring'[place(k - 1)] BY <1>13, <1>14, <3>3
    <3>5. ring'[place(k - 1)] = sock[j]
      <4>1. \A i \in 1 .. n : ring'[place(a + i - 1)] = sock[i] BY <1>12
      <4> QED BY <3>3, <4>1
    <3>6. Rest[a + j] = sock[j] BY <1>4, <3>2
    <3> QED BY <3>1, <3>4, <3>5, <3>6
  <2>3. CASE ~(k <= a + n) /\ k <= a + b
    <3>1. PICK j \in 1 .. b - n : k = a + n + j
      <4>1. k - a - n \in 1 .. b - n /\ k = a + n + (k - a - n) BY ONLY <2>0, <2>3, <1>n
      <4> QED BY <4>1
    <3>2. j \in 1 .. Len(x) /\ n + j \in 1 .. b /\ k = a + (n + j) /\ k = (a + n) + j
      BY ONLY <1>7, <1>n, <3>1
    <3>3. R[(a + n) + j] = x[j] /\ x[j] = sock[n + j] /\ Rest[a + (n + j)] = sock[n + j]
      BY <1>4, <1>7, <1>13, <3>1, <3>2
    <3> QED BY <3>2, <3>3
  <2>4. CASE ~(k <= a + b)
    <3>1. PICK j \in 1 .. c : k = a + b + j
      <4>1. k - a - b \in 1 .. c /\ k = a + b + (k - a - b) BY ONLY <2>0, <2>4, <1>n
      <4> QED BY <4>1
    <3>2. k = (a + n) + Len(x) + j BY ONLY <1>7, <1>n, <3>1
    <3> QED BY <1>4, <1>13, <3>1, <3>2
  <2> QED BY <2>1, <2>2, <2>3, <2>4
<1> QED BY <1>4, <1>13, <1>16, <1>17, SameBytes DEF R

\* The reader moves on.
LEMMA RestMoves ==
  ASSUME TcpTypeOK, RoomLeft, TcpTypeOK', RoomLeft', NEW n \in 0 .. LeftLen, rd' = Add(rd, n),
         UNCHANGED <<ring, wr, sock, wire>>
  PROVE  Without(Rest', Rest, n)
<1> DEFINE a == LeftLen
           b == Len(sock)
           c == Len(wire)
           R == Rest'
<1>1. rd \in Idx /\ wr \in Idx /\ a \in Idx /\ a \in 0 .. BufLen /\ b \in Nat /\ c \in Nat
  BY RestIs DEF TcpTypeOK, Idx
<1>2. /\ Rest \in Seq(Byte) /\ Len(Rest) = a + b + c
      /\ \A k \in 1 .. a : Rest[k] = ByteAt(k - 1)
      /\ \A k \in 1 .. b : Rest[a + k] = sock[k]
      /\ \A k \in 1 .. c : Rest[a + b + k] = wire[k]
  BY RestIs
<1>3. a \in Nat /\ n \in 0 .. a BY <1>1
<1>4. LeftLen' = a - n
  <2>1. n \in Nat /\ n <= Sub(wr, rd) BY <1>3 DEF LeftLen
  <2>2. Sub(wr, Add(rd, n)) = Sub(wr, rd) - n BY <1>1, <2>1, AddBehind
  <2> QED BY <2>2 DEF LeftLen
<1>5. /\ R \in Seq(Byte) /\ Len(R) = (a - n) + b + c
      /\ \A k \in 1 .. a - n : R[k] = ByteAt(k - 1)'
      /\ \A k \in 1 .. b : R[(a - n) + k] = sock[k]
      /\ \A k \in 1 .. c : R[(a - n) + b + k] = wire[k]
  BY <1>4, RestIsNext
<1>6. \A k : ByteAt(k)' = ring[Add(Add(rd, n), k) % BufLen] BY DEF ByteAt
<1>7. ASSUME NEW k \in 1 .. a - n PROVE R[k] = Rest[k + n]
  <2> DEFINE i == k - 1
             j == (k + n) - 1
  <2>1. a \in Nat /\ a < IdxMod /\ IdxMod \in Nat BY <1>1, RingAssumption DEF Idx
  <2>2. k + n \in 1 .. a
    <3> HIDE DEF a
    <3> QED BY ONLY <1>3, k \in 1 .. a - n
  <2>3. i \in Nat /\ n \in Nat /\ n + i < IdxMod /\ j = n + i
    <3> HIDE DEF a
    <3> QED BY ONLY <1>3, <2>1, k \in 1 .. a - n
  <2>4. R[k] = ring[Add(Add(rd, n), i) % BufLen] BY <1>5, <1>6
  <2>5. Rest[k + n] = ring[Add(rd, j) % BufLen]
    <3> DEFINE m == k + n
    <3>1. \A l \in 1 .. a : Rest[l] = ring[Add(rd, l - 1) % BufLen] BY <1>2 DEF ByteAt
    <3>2. m \in 1 .. a BY <2>2
    <3> HIDE DEF m, a
    <3>3. Rest[m] = ring[Add(rd, m - 1) % BufLen] BY <3>1, <3>2
    <3> QED BY <3>3 DEF m
  <2> HIDE DEF i, j
  <2>6. Add(Add(rd, n), i) = Add(rd, j) BY <1>1, <2>3, AddAdd
  <2> QED BY <2>4, <2>5, <2>6
<1> HIDE DEF a, b, c, R
<1>8. Len(R) = Len(Rest) - n BY <1>1, <1>2, <1>3, <1>5
<1>9. ASSUME NEW k \in 1 .. Len(Rest) - n PROVE R[k] = Rest[k + n]
  <2>0. k \in 1 .. a + b + c - n BY <1>1, <1>2, <1>3
  <2>1. CASE k <= a - n
    <3>1. k \in 1 .. a - n BY ONLY <1>3, <2>0, <2>1
    <3> QED BY <1>7, <3>1
  <2>2. CASE ~(k <= a - n) /\ k <= (a - n) + b
    <3>1. PICK j \in 1 .. b : k = (a - n) + j
      <4>1. k - (a - n) \in 1 .. b /\ k = (a - n) + (k - (a - n))
        BY ONLY <1>1, <1>3, <2>0, <2>2
      <4> QED BY <4>1
    <3>2. k + n = a + j BY ONLY <1>3, <3>1
    <3> QED BY <1>2, <1>5, <3>1, <3>2
  <2>3. CASE ~(k <= (a - n) + b)
    <3>1. PICK j \in 1 .. c : k = (a - n) + b + j
      <4>1. k - ((a - n) + b) \in 1 .. c /\ k = (a - n) + b + (k - ((a - n) + b))
        BY ONLY <1>1, <1>3, <2>0, <2>3
      <4> QED BY <4>1
    <3>2. k + n = a + b + j BY ONLY <1>1, <1>3, <3>1
    <3> QED BY <1>2, <1>5, <3>1, <3>2
  <2> QED BY <2>1, <2>2, <2>3
<1> QED BY <1>5, <1>8, <1>9 DEF R, Without

\* A packet is sent.
LEMMA RestSent ==
  ASSUME TcpTypeOK, RoomLeft, TcpTypeOK', RoomLeft', NEW p \in Payloads, Len(p) < 65536,
         wire' = wire \o Bytes(p), UNCHANGED <<ring, rd, wr, sock>>
  PROVE  Behind(Rest', Rest, p)
<1> DEFINE a == LeftLen
           b == Len(sock)
           c == Len(wire)
           l == HdrLen + Len(p)
           R == Rest'
           w == wire'
<1>1. a \in Nat /\ b \in Nat /\ c \in Nat BY RestIs
<1>2. /\ Rest \in Seq(Byte) /\ Len(Rest) = a + b + c
      /\ \A k \in 1 .. a : Rest[k] = ByteAt(k - 1)
      /\ \A k \in 1 .. b : Rest[a + k] = sock[k]
      /\ \A k \in 1 .. c : Rest[a + b + k] = wire[k]
  BY RestIs
<1>3. p \in Seq(Byte) BY StreamAssumption DEF Byte
<1>4. Bytes(p) \in Seq(Byte) /\ Len(Bytes(p)) = l /\ l \in Nat BY <1>3, BytesOf DEF HdrLen
<1>5. /\ Len(w) = c + l /\ \A k \in 1 .. c : w[k] = wire[k]
      /\ \A k \in 1 .. l : w[c + k] = Bytes(p)[k]
  <2> DEFINE t == Bytes(p)
  <2>0. wire \in Seq(Byte) /\ t \in Seq(Byte) /\ Len(t) = l BY <1>4 DEF TcpTypeOK, Byte
  <2>1. w = wire \o t OBVIOUS
  <2> HIDE DEF t, l, w
  <2>2. /\ Len(wire \o t) = Len(wire) + Len(t)
        /\ \A i \in 1 .. Len(wire) + Len(t) : (wire \o t)[i] =
             IF i <= Len(wire) THEN wire[i] ELSE t[i - Len(wire)]
    BY ONLY <2>0, ConcatProperties
  <2>3. Len(w) = c + l BY <2>0, <2>1, <2>2
  <2>4. ASSUME NEW k \in 1 .. c PROVE w[k] = wire[k] BY <1>1, <1>4, <2>0, <2>1, <2>2
  <2>5. ASSUME NEW k \in 1 .. l PROVE w[c + k] = t[k] BY <1>1, <1>4, <2>0, <2>1, <2>2
  <2>6. Len(w) = c + l /\ (\A k \in 1 .. c : w[k] = wire[k]) /\ \A k \in 1 .. l : w[c + k] = t[k]
    BY <2>3, <2>4, <2>5
  <2> QED BY <2>6 DEF t
<1>6. LeftLen' = a BY DEF LeftLen
<1>7. \A k : ByteAt(k)' = ByteAt(k) BY DEF ByteAt
<1>8. /\ R \in Seq(Byte) /\ Len(R) = a + b + (c + l)
      /\ \A k \in 1 .. a : R[k] = ByteAt(k - 1)
      /\ \A k \in 1 .. b : R[a + k] = sock[k]
      /\ \A k \in 1 .. c + l : R[a + b + k] = w[k]
  <2>1. /\ R \in Seq(Byte) /\ Len(R) = LeftLen' + Len(sock') + Len(w)
        /\ \A k \in 1 .. LeftLen' : R[k] = ByteAt(k - 1)'
        /\ \A k \in 1 .. Len(sock') : R[LeftLen' + k] = sock'[k]
        /\ \A k \in 1 .. Len(w) : R[LeftLen' + Len(sock') + k] = w[k]
    BY RestIsNext
  <2>2. LeftLen' = a /\ Len(sock') = b /\ Len(w) = c + l BY <1>5, <1>6
  <2> HIDE DEF a, b, c, l, R, w
  <2> QED BY <1>7, <2>1, <2>2
<1> HIDE DEF a, b, c, l, R, w
<1>9. Len(R) = Len(Rest) + l BY <1>1, <1>2, <1>4, <1>8
<1>10. ASSUME NEW k \in 1 .. Len(Rest) PROVE R[k] = Rest[k]
  <2>0. k \in 1 .. a + b + c BY <1>2
  <2>1. CASE k <= a BY <1>1, <1>2, <1>8, <2>1
  <2>2. CASE ~(k <= a) /\ k <= a + b
    <3>1. PICK j \in 1 .. b : k = a + j
      <4>1. k - a \in 1 .. b /\ k = a + (k - a) BY ONLY <1>1, <2>0, <2>2
      <4> QED BY <4>1
    <3> QED BY <1>2, <1>8, <3>1
  <2>3. CASE ~(k <= a + b)
    <3>1. PICK j \in 1 .. c : k = a + b + j
      <4>1. k - a - b \in 1 .. c /\ k = a + b + (k - a - b) BY ONLY <1>1, <2>0, <2>3
      <4> QED BY <4>1
    <3>2. j \in 1 .. c + l BY ONLY <1>1, <1>4, <3>1
    <3>3. R[a + b + j] = w[j] BY ONLY <1>8, <3>2
    <3>4. w[j] = wire[j] BY ONLY <1>5, j \in 1 .. c
    <3>5. Rest[a + b + j] = wire[j] BY ONLY <1>2, j \in 1 .. c
    <3> QED BY ONLY <3>1, <3>3, <3>4, <3>5
  <2> QED BY <2>1, <2>2, <2>3
<1>11. ASSUME NEW k \in 1 .. l PROVE R[Len(Rest) + k] = Bytes(p)[k]
  <2>1. c + k \in 1 .. c + l /\ a + b + (c + k) = Len(Rest) + k BY ONLY <1>1, <1>2, <1>4, k \in 1 .. l
  <2> DEFINE i == c + k
  <2>2. w[i] = Bytes(p)[k] BY <1>5
  <2>3. i \in 1 .. c + l /\ a + b + i = Len(Rest) + k BY <2>1
  <2> HIDE DEF i
  <2>4. R[a + b + i] = w[i] BY <1>8, <2>3
  <2> QED BY <2>2, <2>3, <2>4
<1>12. Len(Rest) + l = Len(Rest) + HdrLen + Len(p)
  <2>1. Len(Rest) \in Nat /\ Len(p) \in Nat BY <1>1, <1>2, <1>3
  <2> QED BY <2>1 DEF l, HdrLen
<1> QED BY <1>8, <1>9, <1>10, <1>11, <1>12 DEF R, l, Behind

-----------------------------------------------------------------------------
(* The stream                                                              *)

\* What is forwarded is what is due of the first packets, and the others are on
\* the way, each in one piece.
StreamInv ==
  /\ \A n \in DOMAIN sent : sent[n] \in Payloads
  /\ cuts = 0 /\ ~mixed /\ Harmless =>
       \E c \in 0 .. Len(sent) : Taken(got, sent, Due, c) /\ \E at : Lies(Rest, sent, c, at)

\* What is due was sent.
LEMMA DueSent ==
  ASSUME TcpTypeOK
  PROVE  /\ sent \in Seq(Seq(Byte)) /\ got \in Seq(Seq(Byte)) /\ Len(sent) \in Nat
         /\ DOMAIN sent = 1 .. Len(sent)
         /\ Due \in SUBSET DOMAIN sent /\ Due \in SUBSET (Nat \ {0})
BY DEF TcpTypeOK, Due, Byte

\* What may be sent is not too long for a header, and what is skipped of it
\* does not look like one.
LEMMA PayloadIs ==
  ASSUME Harmless, NEW p \in Payloads
  PROVE  /\ p \in Seq(Byte) /\ Len(p) < 65536
         /\ Len(p) >= MaxPkt => \A i \in 2 .. HdrLen + Len(p) : Bytes(p)[i] # Dollar
<1>1. p \in Seq(Byte) BY StreamAssumption DEF Byte
<1>2. Len(p) < 65536 BY DEF Harmless
<1>3. Len(Bytes(p)) = HdrLen + Len(p) BY <1>1, <1>2, BytesOf
<1>4. ASSUME Len(p) >= MaxPkt PROVE \A i \in 2 .. HdrLen + Len(p) : Bytes(p)[i] # Dollar
  <2>1. Dollar \notin {Bytes(p)[i] : i \in 2 .. Len(Bytes(p))} BY <1>4 DEF Harmless, Bytes
  <2> QED BY <1>3, <2>1
<1> QED BY <1>1, <1>2, <1>4

\* At first there are only the remains of a packet.
LEMMA StreamInit == TcpInit => StreamInv
<1> SUFFICES ASSUME TcpInit PROVE StreamInv OBVIOUS
<1>1. sent = <<>> /\ got = <<>> /\ wire \in Remains BY DEF TcpInit
<1>2. TcpTypeOK /\ RoomLeft BY TypeInit, RoomInit
<1>3. DOMAIN sent = {} /\ Len(sent) = 0 BY <1>1
<1>4. Taken(got, sent, Due, 0) BY <1>1, <1>2, DueSent, NothingTaken
<1>5. Rest \in Seq(Byte) BY <1>2, RestIs
<1>6. ASSUME Harmless PROVE \E at : Lies(Rest, sent, 0, at)
  <2> DEFINE a == [n \in 1 .. 1 |-> Len(Rest)]
  <2>1. \A i \in 1 .. Len(Rest) : Rest[i] # Dollar
    <3>1. LeftLen = 0 BY RingAssumption DEF TcpInit, LeftLen, Sub
    <3>2. Len(sock) = 0 BY DEF TcpInit
    <3>3. /\ Len(Rest) = LeftLen + Len(sock) + Len(wire) /\ Len(wire) \in Nat
          /\ \A k \in 1 .. Len(wire) : Rest[LeftLen + Len(sock) + k] = wire[k]
      BY <1>2, RestIs
    <3>4. Len(Rest) = Len(wire) /\ \A k \in 1 .. Len(wire) : Rest[k] = wire[k]
      BY <3>1, <3>2, <3>3
    <3>5. wire \in Seq(Byte) BY <1>2 DEF TcpTypeOK, Byte
    <3>6. DOMAIN wire = 1 .. Len(wire) BY <3>5
    <3>7. Dollar \notin {wire[i] : i \in DOMAIN wire} BY <1>1, <1>6 DEF Harmless
    <3> QED BY <3>4, <3>6, <3>7
  <2>2. Lies(Rest, sent, 0, a)
    <3> DEFINE L == Len(Rest)
    <3>1. L \in Nat BY <1>5
    <3>2. a \in [1 .. 1 -> 0 .. L] /\ a[1] = L BY <3>1
    <3> HIDE DEF a, L
    <3>3. \A m, n \in 1 .. 1 : a[m] <= a[n] BY <3>1, <3>2
    <3> QED BY <1>3, <2>1, <3>2, <3>3 DEF Lies, L
  <2> QED BY <2>2
<1> QED BY <1>3, <1>4, <1>6 DEF StreamInv

\* A step that neither sends nor forwards, and leaves what is on the way.
LEMMA StreamStays ==
  ASSUME StreamInv, UNCHANGED <<sent, got, cuts>>, mixed => mixed', Rest' = Rest
  PROVE  StreamInv'
BY DEF StreamInv, Due

\* A packet is sent.
LEMMA StreamSent ==
  ASSUME TcpTypeOK, RoomLeft, TcpTypeOK', RoomLeft', TxInv, StreamInv, NEW s \in Senders, Send(s)
  PROVE  StreamInv'
<1>1. PICK p \in Payloads :
        /\ sent' = Append(sent, p)
        /\ ~mixed => (cuts' = cuts /\ wire' = wire \o Bytes(p)) \/ cuts' = cuts + 1
  BY SendIs
<1>2. UNCHANGED <<mixed, ring, rd, wr, sock, got>> BY DEF Send
<1>3. sent \in Seq(Seq(Byte)) /\ DOMAIN sent = 1 .. Len(sent) /\ Len(sent) \in Nat
      /\ Due \in SUBSET DOMAIN sent
  BY DueSent
<1>4. p \in Seq(Byte) BY StreamAssumption DEF Byte
<1>5. \A n \in DOMAIN sent' : sent'[n] \in Payloads
  <2>1. DOMAIN sent' = 1 .. Len(sent) + 1 /\ sent'[Len(sent) + 1] = p
        /\ \A n \in 1 .. Len(sent) : sent'[n] = sent[n]
    BY <1>1, <1>3
  <2>2. \A n \in 1 .. Len(sent) : sent[n] \in Payloads BY <1>3 DEF StreamInv
  <2>3. \A n \in 1 .. Len(sent) + 1 : n \in 1 .. Len(sent) \/ n = Len(sent) + 1 BY <1>3
  <2> QED BY <2>1, <2>2, <2>3
<1>6. ASSUME cuts' = 0, ~mixed, Harmless
      PROVE  \E c \in 0 .. Len(sent') : Taken(got', sent', Due', c) /\ \E at : Lies(Rest', sent', c, at)
  <2>1. wire' = wire \o Bytes(p) /\ cuts = 0
    <3>1. cuts \in Nat BY StreamAssumption DEF TcpTypeOK
    <3> QED BY <1>1, <1>6, <3>1
  <2>2. PICK c \in 0 .. Len(sent) : Taken(got, sent, Due, c) /\ \E at : Lies(Rest, sent, c, at)
    BY <1>6, <2>1 DEF StreamInv
  <2>3. PICK at : Lies(Rest, sent, c, at) BY <2>2
  <2>4. Len(p) < 65536 BY <1>6, PayloadIs
  <2>5. Due' = Due \/ Due' = Due \union {Len(sent) + 1}
    <3>1. Len(sent') = Len(sent) + 1 /\ DOMAIN sent' = 1 .. Len(sent) + 1
          /\ \A n \in 1 .. Len(sent) : sent'[n] = sent[n]
      BY <1>1, <1>3
    <3>2. Due' = {n \in 1 .. Len(sent) + 1 : Len(sent'[n]) < MaxPkt} BY <3>1 DEF Due
    <3>3. Due = {n \in 1 .. Len(sent) : Len(sent[n]) < MaxPkt} BY <1>3 DEF Due
    <3>4. ASSUME NEW n \in 1 .. Len(sent) PROVE n \in Due' <=> n \in Due
      <4>1. n \in 1 .. Len(sent) + 1 BY <1>3
      <4> QED BY <3>1, <3>2, <3>3, <4>1
    <3>5. \A n \in Due' : n \in 1 .. Len(sent) \/ n = Len(sent) + 1 BY <1>3, <3>2
    <3>6. \A n \in Due : n \in 1 .. Len(sent) BY <3>3
    <3> QED BY <3>4, <3>5, <3>6
  <2>6. Taken(got', sent', Due', c)
    <3>1. Taken(got, Append(sent, p), Due', c) BY <1>3, <1>4, <2>2, <2>5, TakenMore
    <3> QED BY <1>1, <1>2, <3>1
  <2>7. \E a : Lies(Rest', sent', c, a)
    <3>1. Behind(Rest', Rest, p)
      <4>1. UNCHANGED <<ring, rd, wr, sock>> BY <1>2
      <4>2. wire' = wire \o Bytes(p) BY <2>1
      <4>3. TcpTypeOK /\ RoomLeft /\ TcpTypeOK' /\ RoomLeft' /\ p \in Payloads OBVIOUS
      <4> QED BY ONLY <2>4, <4>1, <4>2, <4>3, RestSent
    <3>2. Rest \in Seq(Byte) BY RestIs
    <3>3. \E a : Lies(Rest', Append(sent, p), c, a) BY <1>3, <1>4, <2>3, <3>1, <3>2, LiesMore
    <3> QED BY <1>1, <3>3
  <2>8. c \in 0 .. Len(sent')
    <3>1. Len(sent') = Len(sent) + 1 BY <1>1, <1>3
    <3> QED BY <1>3, <3>1
  <2> QED BY <2>6, <2>7, <2>8
<1>7. Harmless' = Harmless BY DEF Harmless, Header
<1> QED BY <1>2, <1>5, <1>6, <1>7 DEF StreamInv

\* What the receiver finds a header in is the next packet.
LEMMA FirstPacket ==
  ASSUME TcpTypeOK, RoomLeft, StreamInv, Harmless, NEW c \in 0 .. Len(sent), NEW at,
         Lies(Rest, sent, c, at), LeftLen > HdrLen, ByteAt(0) = Dollar \/ at[c + 1] = 0
  PROVE  /\ c + 1 \in 1 .. Len(sent) /\ at[c + 1] = 0 /\ at[c + 2] = NeedLen
         /\ sent[c + 1] \in Payloads /\ PktLen = Len(sent[c + 1]) /\ ByteAt(0) = Dollar
         /\ PktLen \in Nat /\ NeedLen \in Nat
         /\ \A k \in 1 .. NeedLen : Rest[k] = Bytes(sent[c + 1])[k]
<1>1. sent \in Seq(Seq(Byte)) /\ DOMAIN sent = 1 .. Len(sent) /\ Len(sent) \in Nat BY DueSent
<1>2. Rest \in Seq(Byte) /\ LeftLen \in Nat /\ Len(Rest) \in Nat /\ Len(Rest) >= LeftLen
      /\ \A k \in 1 .. LeftLen : Rest[k] = ByteAt(k - 1)
  BY RestIs
<1>3. /\ at \in [c + 1 .. Len(sent) + 1 -> 0 .. Len(Rest)]
      /\ at[Len(sent) + 1] = Len(Rest)
      /\ \A n \in c + 1 .. Len(sent) :
           /\ at[n + 1] = at[n] + HdrLen + Len(sent[n])
           /\ \A k \in 1 .. HdrLen + Len(sent[n]) : Rest[at[n] + k] = Bytes(sent[n])[k]
      /\ \A i \in 1 .. at[c + 1] : Rest[i] # Dollar
  BY DEF Lies
<1>4. LeftLen > 4 BY DEF HdrLen
<1>5. Rest[1] = ByteAt(0) /\ Rest[3] = ByteAt(2) /\ Rest[4] = ByteAt(3) BY <1>2, <1>4
<1>6. c + 1 \in c + 1 .. Len(sent) + 1 BY <1>1
<1>7. at[c + 1] = 0
  <2> DEFINE x == at[c + 1]
  <2>1. x \in Nat BY <1>3, <1>6
  <2>2. \A i \in 1 .. x : Rest[i] # Dollar BY <1>3
  <2>3. x = 0 \/ ByteAt(0) = Dollar OBVIOUS
  <2> HIDE DEF x
  <2>4. x = 0 \/ 1 \in 1 .. x BY <2>1
  <2>5. x = 0 BY <1>5, <2>2, <2>3, <2>4
  <2> QED BY <2>5 DEF x
<1>8. c + 1 \in 1 .. Len(sent)
  <2>1. c # Len(sent)
    <3>1. ASSUME c = Len(sent) PROVE FALSE
      <4>1. Len(Rest) = 0 BY <1>3, <1>7, <3>1
      <4>2. LeftLen \in Nat /\ Len(Rest) >= LeftLen BY <1>2
      <4> QED BY ONLY <1>4, <4>1, <4>2
    <3> QED BY <3>1
  <2> DEFINE N == Len(sent)
  <2>2. N \in Nat /\ c \in 0 .. N /\ c # N BY <1>1, <2>1
  <2> HIDE DEF N
  <2>3. c + 1 \in 1 .. N BY ONLY <2>2
  <2> QED BY <2>3 DEF N
<1> DEFINE p == sent[c + 1]
           l == Len(p)
<1>9. p \in Payloads /\ p \in Seq(Byte) /\ l < 65536 /\ l \in Nat
  <2>1. p \in Payloads BY <1>1, <1>8 DEF StreamInv
  <2> QED BY <2>1, PayloadIs
<1>10. at[(c + 1) + 1] = 0 + HdrLen + l /\ \A k \in 1 .. HdrLen + l : Rest[0 + k] = Bytes(p)[k]
  <2>1. c + 1 \in c + 1 .. Len(sent) BY <1>1, <1>8
  <2> QED BY <1>3, <1>7, <2>1
<1>11. (c + 1) + 1 = c + 2 BY <1>8
<1>12. /\ Bytes(p)[1] = Dollar /\ 256 * Bytes(p)[3] + Bytes(p)[4] = l BY <1>9, BytesOf
<1> HIDE DEF p, l
<1>13. at[c + 2] = l + 4 /\ \A k \in 1 .. l + 4 : Rest[k] = Bytes(p)[k]
  BY <1>9, <1>10, <1>11 DEF HdrLen
<1>14. Rest[1] = Dollar /\ 256 * Rest[3] + Rest[4] = l
  <2>1. 1 \in 1 .. l + 4 /\ 3 \in 1 .. l + 4 /\ 4 \in 1 .. l + 4 BY <1>9
  <2> QED BY <1>12, <1>13, <2>1
<1>15. PktLen = l /\ ByteAt(0) = Dollar BY <1>5, <1>14 DEF PktLen
<1>16. NeedLen = l + 4 BY <1>15 DEF NeedLen, HdrLen
<1> QED BY <1>7, <1>8, <1>9, <1>13, <1>15, <1>16 DEF p, l

\* A packet is forwarded: it is the next one, whole, and it is due.
LEMMA StreamForward ==
  ASSUME TcpTypeOK, RoomLeft, TcpTypeOK', RoomLeft', StreamInv, Forward
  PROVE  StreamInv'
<1>1. /\ LeftLen > HdrLen /\ ByteAt(0) = Dollar /\ PktLen < MaxPkt /\ NeedLen <= LeftLen
      /\ got' = Append(got, [k \in 1 .. PktLen |-> ByteAt(HdrLen + k - 1)])
      /\ rd' = Add(rd, NeedLen) /\ UNCHANGED <<mixed, wire, sock, ring, wr, sent, cuts>>
  BY DEF Forward, Whole, Headed, txVars
<1>2. Due' = Due BY <1>1 DEF Due
<1>3. ASSUME cuts = 0, ~mixed, Harmless
      PROVE  \E c \in 0 .. Len(sent) : Taken(got', sent, Due, c) /\ \E at : Lies(Rest', sent, c, at)
  <2>1. PICK c \in 0 .. Len(sent) : Taken(got, sent, Due, c) /\ \E at : Lies(Rest, sent, c, at)
    BY <1>3 DEF StreamInv
  <2>2. PICK at : Lies(Rest, sent, c, at) BY <2>1
  <2> DEFINE p == sent[c + 1]
             l == Len(p)
  <2>3. /\ c + 1 \in 1 .. Len(sent) /\ at[c + 2] = NeedLen
        /\ p \in Payloads /\ PktLen = l /\ PktLen \in Nat /\ NeedLen \in Nat
        /\ \A k \in 1 .. NeedLen : Rest[k] = Bytes(p)[k]
    BY <1>1, <1>3, <2>2, FirstPacket
  <2>4. p \in Seq(Byte) /\ l < 65536 BY <1>3, <2>3, PayloadIs
  <2>5. sent \in Seq(Seq(Byte)) /\ got \in Seq(Seq(Byte)) /\ DOMAIN sent = 1 .. Len(sent)
        /\ Len(sent) \in Nat /\ Due \in SUBSET (Nat \ {0})
    BY DueSent
  <2>6. [k \in 1 .. PktLen |-> ByteAt(HdrLen + k - 1)] = p
    <3>1. \A k \in 1 .. l : Bytes(p)[4 + k] = p[k] BY <2>4, BytesOf DEF HdrLen
    <3>2. NeedLen = l + 4 BY <2>3 DEF NeedLen, HdrLen
    <3>3. \A k \in 1 .. LeftLen : Rest[k] = ByteAt(k - 1) BY RestIs
    <3>4. LeftLen \in Nat BY RestIs
    <3>5. p = [k \in 1 .. l |-> p[k]] BY <2>4
    <3>6. ASSUME NEW k \in 1 .. l PROVE ByteAt(4 + k - 1) = p[k]
      <4> DEFINE i == 4 + k
      <4>1. Bytes(p)[i] = p[k] BY <3>1
      <4>2. i \in 1 .. NeedLen /\ i \in 1 .. LeftLen /\ i - 1 = 4 + k - 1
        <5> HIDE DEF l
        <5>1. k \in 1 .. l /\ l \in Nat /\ NeedLen <= LeftLen BY <1>1, <2>3
        <5> QED BY ONLY <3>2, <3>4, <5>1
      <4> HIDE DEF i
      <4>3. Rest[i] = ByteAt(i - 1) /\ Rest[i] = Bytes(p)[i] BY <2>3, <3>3, <4>2
      <4> QED BY <4>1, <4>2, <4>3
    <3> HIDE DEF p, l
    <3> QED BY <2>3, <3>5, <3>6 DEF HdrLen
  <2>7. c + 1 \in Due BY <1>1, <2>3, <2>5 DEF Due
  <2>8. Taken(got', sent, Due, c + 1)
    <3>1. p \in Seq(Byte) /\ c \in Nat BY <2>4
    <3>2. Taken(Append(got, p), sent, Due, c + 1)
      BY <2>1, <2>5, <2>7, <3>1, TakenNext
    <3> HIDE DEF p
    <3> QED BY <1>1, <2>6, <3>2
  <2>9. \E a : Lies(Rest', sent, c + 1, a)
    <3>1. Without(Rest', Rest, NeedLen)
      <4>1. NeedLen \in 0 .. LeftLen
        <5>1. LeftLen \in Nat BY RestIs
        <5> QED BY <1>1, <2>3, <5>1
      <4>2. UNCHANGED <<ring, wr, sock, wire>> BY <1>1
      <4> QED BY <1>1, <4>1, <4>2, RestMoves
    <3> DEFINE d == c + 1
               n == NeedLen
    <3>2. d \in c .. Len(sent) /\ d + 1 = c + 2
      <4> DEFINE N == Len(sent)
      <4>1. c \in 0 .. N /\ N \in Nat /\ c + 1 \in 1 .. N BY <2>3, <2>5
      <4> HIDE DEF N
      <4>2. c + 1 \in c .. N /\ (c + 1) + 1 = c + 2 BY ONLY <4>1
      <4> QED BY <4>2 DEF N
    <3>3. n = at[d + 1] /\ n \in 0 .. n BY <2>3, <3>2
    <3>4. \A i \in 1 .. at[d + 1] - n : Rest[i + n] # Dollar
      <4>1. n \in Nat /\ at[d + 1] - n = 0 BY <2>3, <3>3
      <4>2. \A i \in 1 .. 0 : FALSE OBVIOUS
      <4> QED BY <4>1, <4>2
    <3>5. Rest \in Seq(Byte) BY RestIs
    <3> HIDE DEF d, n
    <3>6. \E a : Lies(Rest', sent, d, a)
      BY <2>2, <2>5, <3>1, <3>2, <3>3, <3>4, <3>5, LiesOn DEF n
    <3> QED BY <3>6 DEF d
  <2> QED BY <2>3, <2>5, <2>8, <2>9
<1>4. \A n \in DOMAIN sent : sent[n] \in Payloads BY DEF StreamInv
<1>5. Harmless' = Harmless BY DEF Harmless, Header
<1> QED BY <1>1, <1>2, <1>3, <1>4, <1>5 DEF StreamInv

\* A byte is skipped: of the remains, or of a packet that is too long, and then
\* no other byte of it looks like a header.
LEMMA StreamSkip ==
  ASSUME TcpTypeOK, RoomLeft, TcpTypeOK', RoomLeft', StreamInv, Skip
  PROVE  StreamInv'
<1>1. /\ LeftLen > HdrLen /\ ~Headed
      /\ rd' = Add(rd, 1) /\ UNCHANGED <<mixed, wire, sock, ring, wr, sent, cuts, got>>
  BY DEF Skip, txVars
<1>2. Due' = Due BY <1>1 DEF Due
<1>3. ASSUME cuts = 0, ~mixed, Harmless
      PROVE  \E c \in 0 .. Len(sent) : Taken(got, sent, Due, c) /\ \E at : Lies(Rest', sent, c, at)
  <2>1. PICK c \in 0 .. Len(sent) : Taken(got, sent, Due, c) /\ \E at : Lies(Rest, sent, c, at)
    BY <1>3 DEF StreamInv
  <2>2. PICK at : Lies(Rest, sent, c, at) BY <2>1
  <2>3. sent \in Seq(Seq(Byte)) /\ DOMAIN sent = 1 .. Len(sent)
        /\ Len(sent) \in Nat /\ Due \in SUBSET (Nat \ {0})
    BY DueSent
  <2>4. Without(Rest', Rest, 1)
    <3>1. 1 \in 0 .. LeftLen
      <4>1. LeftLen \in Nat BY RestIs
      <4> QED BY <1>1, <4>1 DEF HdrLen
    <3>2. UNCHANGED <<ring, wr, sock, wire>> BY <1>1
    <3> QED BY <1>1, <3>1, <3>2, RestMoves
  <2>5. Rest \in Seq(Byte) /\ Len(Rest) \in Nat BY RestIs
  <2>6. at[c + 1] \in Nat /\ \A i \in 1 .. at[c + 1] : Rest[i] # Dollar
    <3>1. c + 1 \in c + 1 .. Len(sent) + 1 BY <2>3
    <3> QED BY <2>2, <2>5, <3>1 DEF Lies
  <2>7. CASE at[c + 1] # 0
    <3> DEFINE x == at[c + 1]
    <3>1. x \in Nat /\ x # 0 /\ \A i \in 1 .. x : Rest[i] # Dollar BY <2>6, <2>7
    <3> HIDE DEF x
    <3>2. 1 \in 0 .. x BY <3>1
    <3>3. ASSUME NEW i \in 1 .. x - 1 PROVE Rest[i + 1] # Dollar
      <4>1. i + 1 \in 1 .. x BY <3>1
      <4> QED BY <3>1, <4>1
    <3>4. c \in c .. Len(sent) BY <2>3
    <3>5. \E a : Lies(Rest', sent, c, a)
      BY <2>2, <2>3, <2>4, <2>5, <3>2, <3>3, <3>4, LiesOn DEF x
    <3> QED BY <2>1, <3>5
  <2>8. CASE at[c + 1] = 0
    <3> DEFINE p == sent[c + 1]
               d == c + 1
               n == NeedLen
    <3>1. /\ d \in 1 .. Len(sent) /\ at[c + 2] = n
          /\ p \in Payloads /\ PktLen = Len(p) /\ PktLen \in Nat /\ ByteAt(0) = Dollar
          /\ \A k \in 1 .. n : Rest[k] = Bytes(p)[k]
      BY <1>1, <1>3, <2>2, <2>8, FirstPacket
    <3>2. Len(p) >= MaxPkt
      <4>1. ~(PktLen < MaxPkt) BY <1>1, <3>1 DEF Headed
      <4> QED BY <3>1, <4>1, RingAssumption
    <3>3. n = PktLen + 4 BY DEF NeedLen, HdrLen
    <3>4. \A i \in 2 .. HdrLen + Len(p) : Bytes(p)[i] # Dollar BY <1>3, <3>1, <3>2, PayloadIs
    <3>5. ASSUME NEW i \in 1 .. n - 1 PROVE Rest[i + 1] # Dollar
      <4> DEFINE j == i + 1
      <4>1. n \in Nat /\ HdrLen + Len(p) = n BY <3>1, <3>3 DEF HdrLen
      <4> HIDE DEF n
      <4>2. j \in 1 .. n /\ j \in 2 .. n BY ONLY <4>1, i \in 1 .. n - 1
      <4> HIDE DEF j, p
      <4>3. Rest[j] # Dollar BY <3>1, <3>4, <4>1, <4>2
      <4> QED BY <4>3 DEF j
    <3>6. d \notin Due
      <4>1. Len(p) \in Nat BY <3>1
      <4>2. ~(Len(sent[d]) < MaxPkt) BY <3>2, <4>1, RingAssumption
      <4> QED BY <4>2 DEF Due
    <3>7. Taken(got, sent, Due, d) BY <2>1, <2>3, <3>6, TakenSkip
    <3>8. d \in c .. Len(sent) /\ d + 1 = c + 2
      <4> DEFINE N == Len(sent)
      <4>1. c \in 0 .. N /\ N \in Nat /\ c + 1 \in 1 .. N BY <2>3, <3>1
      <4> HIDE DEF N
      <4>2. c + 1 \in c .. N /\ (c + 1) + 1 = c + 2 BY ONLY <4>1
      <4> QED BY <4>2 DEF N
    <3>9. at[d + 1] = n /\ 1 \in 0 .. at[d + 1]
      <4>1. at[d + 1] = n BY <3>1, <3>8
      <4>2. 1 \in 0 .. n BY <3>1, <3>3
      <4> QED BY <4>1, <4>2
    <3> HIDE DEF d, n, p
    <3>10. \A i \in 1 .. at[d + 1] - 1 : Rest[i + 1] # Dollar BY <3>5, <3>9
    <3>11. \E a : Lies(Rest', sent, d, a)
      BY <2>2, <2>3, <2>4, <2>5, <3>8, <3>9, <3>10, LiesOn
    <3>12. d \in 0 .. Len(sent) BY <2>3, <3>1
    <3> QED BY <3>7, <3>11, <3>12
  <2> QED BY <2>7, <2>8
<1>4. \A n \in DOMAIN sent : sent[n] \in Payloads BY DEF StreamInv
<1>5. Harmless' = Harmless BY DEF Harmless, Header
<1> QED BY <1>1, <1>2, <1>3, <1>4, <1>5 DEF StreamInv

\* Every step keeps the packets that are on the way in one piece each.
LEMMA StreamStep == TcpTypeOK /\ RoomLeft /\ TxInv /\ StreamInv /\ [TcpNext]_tcpVars => StreamInv'
<1> SUFFICES ASSUME TcpTypeOK, RoomLeft, TxInv, StreamInv, [TcpNext]_tcpVars PROVE StreamInv' OBVIOUS
<1>t. TcpTypeOK' /\ RoomLeft' BY TypeStep, RoomStep
<1>1. ASSUME NEW s \in Senders, Send(s) PROVE StreamInv' BY <1>t, <1>1, StreamSent
<1>1a. ASSUME NEW s \in Senders, OutPkt(s) \/ Fill(s) PROVE StreamInv'
  <2>1. UNCHANGED <<wire, sock, ring, rd, wr, sent, cuts, got>> BY <1>1a DEF OutPkt, Fill
  <2>2. mixed => mixed'
    <3>1. mixed' = mixed \/ mixed' = (mixed \/ Sending # {}) BY <1>1a DEF OutPkt, Fill
    <3> QED BY Zenon, <3>1
  <2>3. Rest' = Rest BY <2>1 DEF Rest, LeftLen, ByteAt
  <2> QED BY <2>1, <2>2, <2>3, StreamStays
<1>2. CASE DataReady
  <2>1. Rest' = Rest BY <1>t, <1>2, RestArrives
  <2> QED BY <1>2, <2>1, StreamStays DEF DataReady, txVars
<1>3. CASE RxWork
  <2>1. Rest' = Rest BY <1>t, <1>3, RestRead
  <2> QED BY <1>3, <2>1, StreamStays DEF RxWork, txVars
<1>4. CASE Wait
  <2>1. UNCHANGED <<mixed, wire, sock, ring, rd, wr, sent, cuts, got>> BY <1>4 DEF Wait, txVars
  <2>2. Rest' = Rest BY <2>1 DEF Rest, LeftLen, ByteAt
  <2> QED BY <2>1, <2>2, StreamStays
<1>5. CASE Forward BY <1>t, <1>5, StreamForward
<1>6. CASE Skip BY <1>t, <1>6, StreamSkip
<1>7. CASE UNCHANGED tcpVars
  <2>1. UNCHANGED <<mixed, wire, sock, ring, rd, wr, sent, cuts, got>> BY <1>7 DEF tcpVars, txVars
  <2>2. Rest' = Rest BY <2>1 DEF Rest, LeftLen, ByteAt
  <2> QED BY <2>1, <2>2, StreamStays
<1> QED BY <1>1, <1>1a, <1>2, <1>3, <1>4, <1>5, <1>6, <1>7 DEF TcpNext

\* What was forwarded is what was due.
LEMMA StreamForwards == TcpTypeOK /\ StreamInv => Forwarded
<1> SUFFICES ASSUME StreamInv, cuts = 0, ~mixed, Harmless, NEW i \in DOMAIN got
             PROVE  \E n \in Due : got[i] = sent[n] /\ Cardinality({m \in Due : m <= n}) = i
  BY DEF Forwarded
<1>1. PICK c \in 0 .. Len(sent) : Taken(got, sent, Due, c) BY DEF StreamInv
<1>2. PICK n \in UpTo(Due, c) : got[i] = sent[n] /\ Cardinality(UpTo(Due, n)) = i
  BY <1>1 DEF Taken
<1>3. n \in Due BY DEF UpTo
<1> QED BY <1>2, <1>3 DEF UpTo

-----------------------------------------------------------------------------
(* The datagrams                                                           *)

Datagram == [from : U!Addr, empty : BOOLEAN, id : Nat]

\* What is forwarded is what is due of the first datagrams, and the socket has
\* the others.
DatagramInv ==
  /\ sent \in Seq(Datagram) /\ sock \in Seq(Datagram) /\ got \in Seq(Datagram)
  /\ \E c \in 0 .. Len(sent) :
       /\ Taken(got, sent, U!Due, c)
       /\ Len(sock) = Len(sent) - c /\ \A k \in 1 .. Len(sock) : sock[k] = sent[c + k]

\* What is due did arrive.
LEMMA DueArrived ==
  ASSUME DatagramInv
  PROVE  /\ DOMAIN sent = 1 .. Len(sent) /\ Len(sent) \in Nat
         /\ U!Due \in SUBSET DOMAIN sent /\ U!Due \in SUBSET (Nat \ {0})
BY DEF DatagramInv, U!Due

\* At first nothing has arrived.
LEMMA DatagramInit == U!Init => DatagramInv
<1> SUFFICES ASSUME U!Init PROVE DatagramInv OBVIOUS
<1>1. sent = <<>> /\ sock = <<>> /\ got = <<>> BY DEF U!Init
<1>2. U!Due \in SUBSET (Nat \ {0}) BY <1>1 DEF U!Due
<1>3. Taken(got, sent, U!Due, 0) BY <1>1, <1>2, NothingTaken
<1>4. Len(sent) = 0 /\ Len(sock) = 0 BY <1>1
<1>5. \A k \in 1 .. 0 : sock[k] = sent[0 + k] OBVIOUS
<1>6. sent \in Seq(Datagram) /\ sock \in Seq(Datagram) /\ got \in Seq(Datagram) BY <1>1
<1>7. 0 \in 0 .. Len(sent) /\ Len(sock) = Len(sent) - 0
      /\ \A k \in 1 .. Len(sock) : sock[k] = sent[0 + k]
  BY <1>4, <1>5
<1> QED BY <1>3, <1>6, <1>7 DEF DatagramInv

\* The work takes what is at the head of the socket, which is the next one.
LEMMA NextDatagram ==
  ASSUME DatagramInv, sock # <<>>, NEW c \in 0 .. Len(sent),
         Len(sock) = Len(sent) - c, \A k \in 1 .. Len(sock) : sock[k] = sent[c + k]
  PROVE  /\ c + 1 \in 1 .. Len(sent) /\ Head(sock) = sent[c + 1] /\ Head(sock) \in Datagram
         /\ Tail(sock) \in Seq(Datagram) /\ Len(Tail(sock)) = Len(sent) - (c + 1)
         /\ \A k \in 1 .. Len(Tail(sock)) : Tail(sock)[k] = sent[(c + 1) + k]
<1> DEFINE N == Len(sent)
           S == Len(sock)
           t == Tail(sock)
<1>1. sock \in Seq(Datagram) /\ sent \in Seq(Datagram) BY DEF DatagramInv
<1>2. /\ S \in Nat /\ S # 0 /\ Head(sock) = sock[1] /\ sock[1] \in Datagram
      /\ t \in Seq(Datagram) /\ Len(t) = S - 1 /\ \A k \in 1 .. S - 1 : t[k] = sock[k + 1]
  BY <1>1
<1>3. N \in Nat /\ c \in 0 .. N /\ S = N - c /\ \A k \in 1 .. S : sock[k] = sent[c + k] BY <1>1
<1> HIDE DEF N, S, t
<1>4. c + 1 \in 1 .. N /\ Len(t) = N - (c + 1) BY ONLY <1>2, <1>3
<1>5. 1 \in 1 .. S BY <1>2
<1>6. Head(sock) = sent[c + 1] BY <1>2, <1>3, <1>5
<1>7. ASSUME NEW k \in 1 .. Len(t) PROVE t[k] = sent[(c + 1) + k]
  <2> DEFINE j == k + 1
  <2>1. k \in 1 .. S - 1 /\ j \in 1 .. S /\ c + j = (c + 1) + k
    BY ONLY <1>2, <1>3, k \in 1 .. Len(t)
  <2>2. t[k] = sock[j] BY <1>2, <2>1
  <2> HIDE DEF j
  <2>3. sock[j] = sent[c + j] BY <1>3, <2>1
  <2> QED BY <2>1, <2>2, <2>3
<1> QED BY <1>2, <1>4, <1>6, <1>7 DEF N, t

\* Every step keeps the order of what has arrived.
LEMMA DatagramStep == DatagramInv /\ [U!Next]_U!vars => DatagramInv'
<1> SUFFICES ASSUME DatagramInv, [U!Next]_U!vars PROVE DatagramInv' OBVIOUS
<1>1. /\ sent \in Seq(Datagram) /\ sock \in Seq(Datagram) /\ got \in Seq(Datagram)
      /\ DOMAIN sent = 1 .. Len(sent) /\ Len(sent) \in Nat
      /\ U!Due \in SUBSET DOMAIN sent /\ U!Due \in SUBSET (Nat \ {0})
  BY DueArrived DEF DatagramInv
<1>2. PICK c \in 0 .. Len(sent) :
        /\ Taken(got, sent, U!Due, c)
        /\ Len(sock) = Len(sent) - c /\ \A k \in 1 .. Len(sock) : sock[k] = sent[c + k]
  BY DEF DatagramInv
<1>3. CASE U!DataReady
  <2>1. PICK a \in U!Addr, e \in BOOLEAN :
          LET d == [from |-> a, empty |-> e, id |-> Len(sent)]
          IN  sock' = Append(sock, d) /\ sent' = Append(sent, d)
    BY <1>3 DEF U!DataReady
  <2> DEFINE d == [from |-> a, empty |-> e, id |-> Len(sent)]
             N == Len(sent)
             S == Len(sock)
  <2>2. d \in Datagram BY <1>1 DEF Datagram
  <2>3. sock' = Append(sock, d) /\ sent' = Append(sent, d) /\ UNCHANGED <<remote, got>>
    BY <1>3, <2>1 DEF U!DataReady
  <2> HIDE DEF d
  <2>4. /\ sent' \in Seq(Datagram) /\ Len(sent') = N + 1 /\ sent'[N + 1] = d
        /\ \A n \in 1 .. N : sent'[n] = sent[n]
        /\ DOMAIN sent' = 1 .. N + 1
    BY <1>1, <2>2, <2>3
  <2>5. /\ sock' \in Seq(Datagram) /\ Len(sock') = S + 1 /\ sock'[S + 1] = d
        /\ \A n \in 1 .. S : sock'[n] = sock[n]
    BY <1>1, <2>2, <2>3
  <2>6. U!Due' = U!Due \/ U!Due' = U!Due \union {N + 1}
    <3>1. U!Due' = {n \in 1 .. N + 1 : U!FromRemote(sent'[n]) /\ ~sent'[n].empty}
      BY <2>3, <2>4 DEF U!Due, U!FromRemote
    <3>2. U!Due = {n \in 1 .. N : U!FromRemote(sent[n]) /\ ~sent[n].empty} BY <1>1 DEF U!Due
    <3>3. ASSUME NEW n \in 1 .. N PROVE n \in U!Due' <=> n \in U!Due
      <4>1. n \in 1 .. N + 1 BY <1>1
      <4> QED BY <2>4, <3>1, <3>2, <4>1
    <3>4. \A n \in U!Due' : n \in 1 .. N \/ n = N + 1 BY <1>1, <3>1
    <3>5. \A n \in U!Due : n \in 1 .. N BY <3>2
    <3> QED BY <3>3, <3>4, <3>5
  <2>7. Taken(got', sent', U!Due', c)
    <3>1. Taken(got, Append(sent, d), U!Due', c) BY <1>1, <1>2, <2>2, <2>6, TakenMore
    <3> QED BY <2>3, <3>1
  <2>8. S \in Nat /\ N \in Nat /\ c \in 0 .. N /\ S = N - c BY <1>1, <1>2
  <2>9. \A k \in 1 .. S : sock[k] = sent[c + k] BY <1>2
  <2> HIDE DEF S, N
  <2>10. c \in 0 .. N + 1 /\ S + 1 = (N + 1) - c BY ONLY <2>8
  <2>11. ASSUME NEW k \in 1 .. S + 1 PROVE sock'[k] = sent'[c + k]
    <3>1. CASE k = S + 1
      <4>1. c + k = N + 1 BY ONLY <2>8, <3>1
      <4> QED BY <2>4, <2>5, <3>1, <4>1
    <3>2. CASE k # S + 1
      <4>1. k \in 1 .. S /\ c + k \in 1 .. N BY ONLY <2>8, <3>2, k \in 1 .. S + 1
      <4> QED BY <2>4, <2>5, <2>9, <4>1
    <3> QED BY <3>1, <3>2
  <2>12. got' \in Seq(Datagram) BY <1>1, <2>3
  <2> QED BY <2>4, <2>5, <2>7, <2>10, <2>11, <2>12 DEF DatagramInv
<1>4. ASSUME UNCHANGED <<remote, sock, sent, got>> PROVE DatagramInv'
  BY <1>4 DEF DatagramInv, U!Due, U!FromRemote
<1>5. CASE U!RxWork BY <1>4, <1>5 DEF U!RxWork
<1> DEFINE IsDue == U!FromRemote(Head(sock)) /\ ~Head(sock).empty
<1>7. ASSUME sock # <<>>, sock' = Tail(sock), UNCHANGED <<remote, sent>>,
             \/ got' = Append(got, Head(sock)) /\ IsDue
             \/ got' = got /\ ~IsDue
      PROVE  DatagramInv'
  <2>1. /\ c + 1 \in 1 .. Len(sent) /\ Head(sock) = sent[c + 1] /\ Head(sock) \in Datagram
        /\ Tail(sock) \in Seq(Datagram) /\ Len(Tail(sock)) = Len(sent) - (c + 1)
        /\ \A k \in 1 .. Len(Tail(sock)) : Tail(sock)[k] = sent[(c + 1) + k]
    BY <1>2, <1>7, NextDatagram
  <2>2. U!Due' = U!Due BY <1>7 DEF U!Due, U!FromRemote
  <2>3. c + 1 \in U!Due <=> IsDue BY <1>1, <2>1 DEF U!Due
  <2>4. got' \in Seq(Datagram) /\ Taken(got', sent, U!Due, c + 1)
    <3>1. c \in Nat OBVIOUS
    <3>2. CASE got' = Append(got, Head(sock)) /\ IsDue
      <4>1. Taken(Append(got, Head(sock)), sent, U!Due, c + 1)
        BY <1>1, <1>2, <2>1, <2>3, <3>1, <3>2, TakenNext
      <4> QED BY <1>1, <2>1, <3>2, <4>1
    <3>3. CASE got' = got /\ ~IsDue
      BY <1>1, <1>2, <2>3, <3>1, <3>3, TakenSkip
    <3> QED BY <1>7, <3>2, <3>3
  <2>5. c + 1 \in 0 .. Len(sent) BY <1>1, <2>1
  <2> QED BY <1>1, <1>7, <2>1, <2>2, <2>4, <2>5 DEF DatagramInv
<1>6. CASE U!Empty
  <2>1. CASE sock = <<>> /\ UNCHANGED sock BY <1>4, <1>6, <2>1 DEF U!Empty
  <2>2. CASE sock # <<>> /\ Head(sock).empty /\ sock' = Tail(sock)
    BY <1>6, <1>7, <2>2 DEF U!Empty
  <2> QED BY <1>6, <2>1, <2>2 DEF U!Empty
<1>8. CASE U!Forward BY <1>7, <1>8 DEF U!Forward
<1>9. CASE U!Stranger BY <1>7, <1>9 DEF U!Stranger
<1>10. CASE UNCHANGED U!vars BY <1>4, <1>10 DEF U!vars
<1> QED BY <1>3, <1>5, <1>6, <1>8, <1>9, <1>10 DEF U!Next

\* The instance counts as this module does.
LEMMA SameCount == ASSUME NEW S PROVE U!Cardinality(S) = Cardinality(S)
BY DEF U!Cardinality, Cardinality

\* What was forwarded is what was due.
LEMMA DatagramForwards == DatagramInv => U!Forwarded
<1> SUFFICES ASSUME DatagramInv PROVE U!Forwarded OBVIOUS
<1>1. PICK c \in 0 .. Len(sent) : Taken(got, sent, U!Due, c) BY DEF DatagramInv
<1>2. ASSUME NEW i \in DOMAIN got
      PROVE  \E n \in U!Due : got[i] = sent[n] /\ Cardinality({m \in U!Due : m <= n}) = i
  <2>1. PICK n \in UpTo(U!Due, c) : got[i] = sent[n] /\ Cardinality(UpTo(U!Due, n)) = i
    BY <1>1 DEF Taken
  <2>2. n \in U!Due BY DEF UpTo
  <2> QED BY <2>1, <2>2 DEF UpTo
<1> QED BY <1>2, SameCount DEF U!Forwarded

-----------------------------------------------------------------------------
(* Either transport                                                        *)

\* The invariants of the two, whichever the channel has.
RxInv ==
  /\ transport \in {"tcp", "udp"}
  /\ transport = "tcp" => TcpTypeOK /\ RoomLeft /\ TxInv /\ StreamInv
  /\ transport = "udp" => DatagramInv

\* For a ring of any size, any limit of a packet, any width of the indices and
\* any payloads, addresses and senders: by the stream, where the sender's socket
\* takes packets whole, no two senders have met in VN_TCP_OutPkt and what is
\* skipped does not look like a header, and by datagrams, of which those without
\* bytes are not due, the packets due are forwarded as they were sent, each once
\* and in their order.
THEOREM AllIsForwarded == RxSpec => []AllForwarded
<1>1. RxInit => RxInv
  <2>1. ASSUME RxInit, transport = "tcp" PROVE RxInv
    <3>1. TcpInit BY <2>1 DEF RxInit
    <3> QED BY <2>1, <3>1, TypeInit, RoomInit, TxInit, StreamInit DEF RxInv
  <2>2. ASSUME RxInit, transport = "udp" PROVE RxInv
    <3>1. U!Init BY <2>2 DEF RxInit
    <3> QED BY <2>2, <3>1, DatagramInit DEF RxInv
  <2> QED BY <2>1, <2>2 DEF RxInit
<1>2. RxInv /\ [RxNext]_rxVars => RxInv'
  <2> SUFFICES ASSUME RxInv, [RxNext]_rxVars PROVE RxInv' OBVIOUS
  <2>1. CASE transport = "tcp"
    <3>1. [TcpNext]_tcpVars /\ transport' = transport BY <2>1 DEF RxNext, rxVars
    <3> QED BY <2>1, <3>1, TypeStep, RoomStep, TxStep, StreamStep DEF RxInv
  <2>2. CASE transport = "udp"
    <3>1. [U!Next]_U!vars /\ transport' = transport
      BY <2>2 DEF RxNext, rxVars, tcpVars, U!vars
    <3> QED BY <2>2, <3>1, DatagramStep DEF RxInv
  <2> QED BY <2>1, <2>2 DEF RxInv
<1>3. RxInv => AllForwarded BY StreamForwards, DatagramForwards DEF RxInv, AllForwarded
<1> QED BY <1>1, <1>2, <1>3, PTL DEF RxSpec
=============================================================================
