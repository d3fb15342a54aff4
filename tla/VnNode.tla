------------------------------- MODULE VnNode -------------------------------
(***************************************************************************)
(* The life of a network channel (src/kern/chan/vn_chan.c) between the     *)
(* control process's file (va_cp.c), the table of channels                 *)
(* (va_chan_base.c) and the registry of devices and drivers (va.c).        *)
(*                                                                         *)
(* A process opens "cp" files; the ioctls ADD_NODE and DEL_NODE make a     *)
(* channel of a socket and take it back.  When the last holder of a cp     *)
(* file closes it, the nodes of the process that had opened it are         *)
(* released.  A node is spread over the bit map of the manager, the        *)
(* channel table, the device list, the memory of the transport's driver,   *)
(* the callbacks of the socket and a reference to its file.                *)
(*                                                                         *)
(* Four mutexes are taken in these orders: stCmdLock, stLock, stMutex by   *)
(* an ioctl; stInstLock, stLock, stMutex by a close; stMutex, stLock and   *)
(* stMutex again by the unloading of the module, if there are nodes.  A    *)
(* section between two lock operations is an action.                       *)
(***************************************************************************)
EXTENDS Naturals, FiniteSets, FiniteSetsExt

CONSTANTS
  Thread,   (* threads that call ioctl                                     *)
  Proc,     (* processes (tgid)                                            *)
  ProcOf,   (* the process of each thread                                  *)
  File,     (* cp files                                                    *)
  Sock,     (* sockets                                                     *)
  Driven,   (* those given with a transport that has a driver              *)
  MaxFail,  (* bound: sockets an ADD_NODE fails for in copy_to_user        *)
  ChanNum,  (* u32ChanNum of each port of the type, from port 0 on         *)
  Exit,     (* the process that unloads the module                         *)
  Freed,    (* what a pointer to a freed channel points to                 *)
  NULL

ASSUME AgentAssumption ==
  /\ ProcOf \in [Thread -> Proc] /\ DOMAIN ChanNum = 0 .. Cardinality(DOMAIN ChanNum) - 1
  /\ Thread \cap File = {} /\ Exit \notin Thread \cup File /\ NULL \notin Proc \cup Thread \cup File \cup {Exit}

Agent  == Thread \cup File \cup {Exit}
ChanId == UNION {{<< p, c >> : c \in 0 .. ChanNum[p] - 1} : p \in DOMAIN ChanNum}

ASSUME ChanAssumption == {NULL, Freed} \cap ChanId = {}

Lock   == {"cmd", "inst", "vn", "core"}

VARIABLES
  loaded,   (* "in", "going" or "out": the module                          *)
  inst,     (* nTgidId of an open cp file, NULL when it is not open        *)
  holders,  (* processes that have the file, by opening it or by fork      *)
  lock,     (* the owner of each mutex                                     *)
  call,     (* what each thread, each close and the unloading is doing     *)
  bitMap,   (* pulChanBitMap: the indices in use                           *)
  chanTbl,  (* ppstChanTbl: the node of a channel id                       *)
  devs,     (* stDevHead: the channels whose stDev is registered           *)
  privCb,   (* the channels whose driver has its pPrivCb                   *)
  fileRef,  (* references to each socket's file held by the module         *)
  sk,       (* sk_data_ready and sk_user_data of each socket               *)
  tainted   (* history: sockets of an ADD_NODE that failed in copy_to_user *)

procVars == << loaded, inst, holders >>
nodeVars == << bitMap, chanTbl, devs, privCb, fileRef, sk, tainted >>
vars == << procVars, lock, call, nodeVars >>

Idle == [pc |-> "idle", op |-> NULL, file |-> NULL, idx |-> 0]
At(a, pc) == call[a].pc = pc
Goto(a, pc) == call' = [call EXCEPT ![a].pc = pc]

Free(l) == lock[l] = NULL
Take(l, a) == lock' = [lock EXCEPT ![l] = a]
(* What a return leaves locked.  Mutant: stCmdLock stays.                  *)
UnlockButCmd(a) == [l \in Lock |-> IF lock[l] = a /\ l # "cmd" THEN NULL ELSE lock[l]]
UnlockAll(a) == [l \in Lock |-> IF lock[l] = a THEN NULL ELSE lock[l]]

Before(p)    == MapThenSumSet(LAMBDA q : ChanNum[q], {q \in DOMAIN ChanNum : q < p})
TotChanNum   == Before(Cardinality(DOMAIN ChanNum))
IndxToId     == [i \in 0 .. TotChanNum - 1 |-> CHOOSE id \in ChanId : Before(id[1]) + id[2] = i]
IdAt(a)      == IndxToId[call[a].idx]
FreeBits     == (0 .. TotChanNum - 1) \ bitMap
Nodes        == {id \in ChanId : chanTbl[id] # NULL}

ASSUME IndexAssumption ==
  /\ TotChanNum \in Nat
  /\ \A i \in 0 .. TotChanNum - 1 : \E id \in ChanId : Before(id[1]) + id[2] = i

(* VN_CHAN_S                                                               *)
Node == [idx : 0 .. TotChanNum - 1, inst : Proc, sock : Sock, old : {"own", "vn"}]

ASSUME NodeAssumption == NULL \notin Node

Init ==
  /\ loaded = "in" /\ inst = [f \in File |-> NULL] /\ holders = [f \in File |-> {}]
  /\ lock = [l \in Lock |-> NULL] /\ call = [a \in Agent |-> Idle]
  /\ bitMap = {} /\ chanTbl = [id \in ChanId |-> NULL] /\ devs = {} /\ privCb = {}
  /\ fileRef = [s \in Sock |-> 0]
  /\ sk = [s \in Sock |-> [ready |-> "own", user |-> NULL]]
  /\ tainted = {}

-----------------------------------------------------------------------------
(* Processes and their files.                                              *)

Open(p, f) ==
  /\ loaded = "in" /\ inst[f] = NULL
  /\ inst' = [inst EXCEPT ![f] = p] /\ holders' = [holders EXCEPT ![f] = {p}]
  /\ UNCHANGED << loaded, lock, call, nodeVars >>

(* A new process q gets every file of p, which stays an instance of p.     *)
Fork(p, q) ==
  /\ \E f \in File : p \in holders[f]
  /\ \A f \in File : q \notin holders[f]
  /\ holders' = [f \in File |-> IF p \in holders[f] THEN holders[f] \cup {q} ELSE holders[f]]
  /\ UNCHANGED << loaded, inst, lock, call, nodeVars >>

Close(p, f) ==
  /\ p \in holders[f]
  /\ holders' = [holders EXCEPT ![f] = @ \ {p}]
  /\ UNCHANGED << loaded, inst, lock, call, nodeVars >>

(* VA_CP_ioctl refuses a process that got the file by fork.                *)
(* Mutant: it does not.                                                    *)
AnyHolderMayCall(t, f) == ProcOf[t] \in holders[f]
MayCall(t, f) == ProcOf[t] \in holders[f] /\ inst[f] = ProcOf[t]

Ioctl(t, f, op) ==
  /\ At(t, "idle") /\ MayCall(t, f)
  /\ call' = [call EXCEPT ![t] = [Idle EXCEPT !.pc = "cmd", !.op = op, !.file = f]]
  /\ UNCHANGED << procVars, lock, nodeVars >>

CmdLock(t) ==
  /\ t \in Thread /\ At(t, "cmd") /\ Free("cmd")
  /\ Take("cmd", t) /\ Goto(t, "vn")
  /\ UNCHANGED << procVars, nodeVars >>

(* The ioctl returns, from inside stLock and stCmdLock.                    *)
Return(t) == lock' = UnlockAll(t) /\ call' = [call EXCEPT ![t] = Idle]

-----------------------------------------------------------------------------
(* ADD_NODE.  A socket is given to one node at a time.                     *)

Given(s) == \E id \in Nodes : chanTbl[id].sock = s

(* No free bit, no memory, no listen port, not a socket: what was made     *)
(* has been taken back before the lock is left.                            *)
AddRefused(t) ==
  /\ t \in Thread /\ At(t, "vn") /\ call[t].op = "add" /\ Free("vn")
  /\ Return(t) /\ UNCHANGED << procVars, nodeVars >>

NewNode(i, t, s) == [idx |-> i, inst |-> ProcOf[t], sock |-> s, old |-> sk[s].ready]

(* VA_CHAN_Init finds the place of the channel empty.                      *)
ChanInit(id, n) == chanTbl[id] = NULL /\ chanTbl' = [chanTbl EXCEPT ![id] = n]

AddNode(t) ==
  /\ t \in Thread /\ At(t, "vn") /\ call[t].op = "add" /\ Free("vn") /\ FreeBits # {}
  /\ LET i == Min(FreeBits)
     IN \E s \in Sock :
          /\ ~Given(s) /\ ChanInit(IndxToId[i], NewNode(i, t, s))
          /\ fileRef' = [fileRef EXCEPT ![s] = @ + 1]
          /\ call' = [call EXCEPT ![t].pc = "reg", ![t].idx = i]
  /\ Take("vn", t)
  /\ UNCHANGED << procVars, bitMap, devs, privCb, sk, tainted >>

(* fput and VA_CHAN_Destroy.                                               *)
Put(s) == [fileRef EXCEPT ![s] = @ - 1]

TakenBack(id) ==
  /\ fileRef' = Put(chanTbl[id].sock)
  /\ chanTbl' = [chanTbl EXCEPT ![id] = NULL]

(* The transport's driver gets its memory and the socket's callbacks.      *)
DriverInit(id) == privCb' = privCb \cup {id}
Hook(s, id)    == sk' = [sk EXCEPT ![s] = [ready |-> "vn", user |-> id]]
DriverExit(id) == privCb' = privCb \ {id}

(* VA_RegDev: the driver of the transport, if there is one, is started.    *)
RegDev(t) ==
  /\ At(t, "reg") /\ Free("core")
  /\ LET id == IdAt(t)
         n == chanTbl[id]
     IN /\ devs' = devs \cup {id}
        /\ IF n.sock \in Driven
           THEN DriverInit(id) /\ Hook(n.sock, id)
           ELSE UNCHANGED << privCb, sk >>
  /\ Goto(t, "copy")
  /\ UNCHANGED << procVars, lock, bitMap, chanTbl, fileRef, tainted >>

RegDevFails(t) ==
  /\ At(t, "reg") /\ Free("core") /\ chanTbl[IdAt(t)].sock \in Driven
  /\ TakenBack(IdAt(t)) /\ Return(t)
  /\ UNCHANGED << procVars, bitMap, devs, privCb, sk, tainted >>

CopyOut(t) ==
  /\ At(t, "copy")
  /\ bitMap' = bitMap \cup {call[t].idx}
  /\ Return(t)
  /\ UNCHANGED << procVars, chanTbl, devs, privCb, fileRef, sk, tainted >>

(* copy_to_user fails: the callbacks of the socket are not put back.       *)
CopyFails(t) ==
  /\ At(t, "copy") /\ Cardinality(tainted) < MaxFail
  /\ tainted' = tainted \cup {chanTbl[IdAt(t)].sock}
  /\ Goto(t, "undo")
  /\ UNCHANGED << procVars, lock, bitMap, chanTbl, devs, privCb, fileRef, sk >>

(* VA_UnRegDev, with the driver's exit.                                    *)
UnRegDev(id) == devs' = devs \ {id} /\ DriverExit(id)

UndoNode(t) ==
  /\ At(t, "undo") /\ Free("core")
  /\ LET id == IdAt(t)
     IN /\ UnRegDev(id) /\ TakenBack(id)
        /\ sk' = [s \in Sock |-> IF sk[s].user = id THEN [sk[s] EXCEPT !.user = Freed] ELSE sk[s]]
  /\ Return(t)
  /\ UNCHANGED << procVars, bitMap, tainted >>

-----------------------------------------------------------------------------
(* VN_ReleaseChan, for DEL_NODE, a close and the unloading.                *)

Restored(n) == [ready |-> n.old, user |-> NULL]

Restore(id) == sk' = [sk EXCEPT ![chanTbl[id].sock] = Restored(chanTbl[id])]

(* Mutant: the bit stays set.                                              *)
BitKept(i) == bitMap
BitCleared(i) == bitMap \ {i}

ReleaseChan(a) ==
  /\ At(a, "unreg") /\ Free("core")
  /\ LET id == IdAt(a)
     IN UnRegDev(id) /\ TakenBack(id) /\ bitMap' = BitCleared(chanTbl[id].idx)
  /\ IF a \in Thread
     THEN Return(a)
     ELSE call' = [call EXCEPT ![a].pc = "scan", ![a].idx = @ + 1] /\ UNCHANGED lock
  /\ UNCHANGED << procVars, sk, tainted >>

DelNone(t) ==
  /\ t \in Thread /\ At(t, "vn") /\ call[t].op = "del" /\ Free("vn")
  /\ Nodes # ChanId
  /\ Return(t) /\ UNCHANGED << procVars, nodeVars >>

DelNode(t) ==
  /\ t \in Thread /\ At(t, "vn") /\ call[t].op = "del" /\ Free("vn")
  /\ \E i \in 0 .. TotChanNum - 1 :
       /\ IndxToId[i] \in Nodes /\ Restore(IndxToId[i])
       /\ call' = [call EXCEPT ![t].pc = "unreg", ![t].idx = i]
  /\ Take("vn", t)
  /\ UNCHANGED << procVars, bitMap, chanTbl, devs, privCb, fileRef, tainted >>

-----------------------------------------------------------------------------
(* The last close of a cp file: VA_CP_FileRelease, VN_CpInstNotify.        *)

FileRelease(f) ==
  /\ inst[f] # NULL /\ holders[f] = {} /\ At(f, "idle")
  /\ \A t \in Thread : call[t].file # f
  /\ Goto(f, "inst")
  /\ UNCHANGED << procVars, lock, nodeVars >>

InstLock(f) ==
  /\ f \in File /\ At(f, "inst") /\ Free("inst")
  /\ Take("inst", f) /\ Goto(f, "vn")
  /\ UNCHANGED << procVars, nodeVars >>

ScanLock(a) ==
  /\ a \notin Thread /\ At(a, "vn") /\ Free("vn")
  /\ Take("vn", a) /\ Goto(a, "scan")
  /\ UNCHANGED << procVars, nodeVars >>

(* A close releases the nodes of its process, the unloading any.           *)
Wanted(a, id) == id \in Nodes /\ (a = Exit \/ chanTbl[id].inst = inst[a])

Scan(a) ==
  /\ At(a, "scan") /\ call[a].idx < TotChanNum
  /\ IF Wanted(a, IdAt(a))
     THEN Restore(IdAt(a)) /\ Goto(a, "unreg")
     ELSE call' = [call EXCEPT ![a].idx = @ + 1] /\ UNCHANGED sk
  /\ UNCHANGED << procVars, lock, bitMap, chanTbl, devs, privCb, fileRef, tainted >>

Scanned(a) == At(a, "scan") /\ call[a].idx = TotChanNum

FileReleased(f) ==
  /\ f \in File /\ Scanned(f)
  /\ inst' = [inst EXCEPT ![f] = NULL]
  /\ Return(f)
  /\ UNCHANGED << loaded, holders, nodeVars >>

-----------------------------------------------------------------------------
(* The unloading: VN_CHAN_Exit.  Every open file holds the module.         *)

Unload ==
  /\ loaded = "in" /\ \A f \in File : inst[f] = NULL
  /\ loaded' = "going" /\ Goto(Exit, "inst")
  /\ UNCHANGED << inst, holders, lock, nodeVars >>

(* VA_CP_UnRegInstEventNotify and VA_CP_UnRegIoCmdProc.                    *)
UnRegNotify(a, l, next) ==
  /\ a = Exit /\ At(a, l) /\ Free(l) /\ Goto(a, next)
  /\ UNCHANGED << procVars, lock, nodeVars >>

UnRegDrv(a) ==
  /\ At(a, "drv") /\ Free("core")
  /\ Take("core", a) /\ Goto(a, "vn")
  /\ UNCHANGED << procVars, nodeVars >>

Unloaded(a) ==
  /\ a = Exit /\ Scanned(a)
  /\ loaded' = "out" /\ Return(a)
  /\ UNCHANGED << inst, holders, nodeVars >>

(* VN_CHAN_Init and VN_DRV_Init.                                           *)
Load ==
  /\ loaded = "out" /\ loaded' = "in" /\ bitMap' = {}
  /\ UNCHANGED << inst, holders, lock, call, chanTbl, devs, privCb, fileRef, sk, tainted >>

-----------------------------------------------------------------------------
(* What continues a call that has begun.                                   *)
Step(a) ==
  \/ CmdLock(a) \/ AddRefused(a) \/ AddNode(a) \/ RegDev(a) \/ RegDevFails(a)
  \/ CopyOut(a) \/ CopyFails(a) \/ UndoNode(a)
  \/ DelNone(a) \/ DelNode(a) \/ ReleaseChan(a)
  \/ InstLock(a) \/ ScanLock(a) \/ Scan(a) \/ FileReleased(a)
  \/ UnRegNotify(a, "inst", "cmd") \/ UnRegNotify(a, "cmd", "drv") \/ UnRegDrv(a) \/ Unloaded(a)

Next ==
  \/ \E p \in Proc, f \in File : Open(p, f) \/ Close(p, f)
  \/ \E p, q \in Proc : Fork(p, q)
  \/ \E t \in Thread, f \in File, op \in {"add", "del"} : Ioctl(t, f, op)
  \/ \E f \in File : FileRelease(f)
  \/ Unload \/ Load
  \/ \E a \in Agent : Step(a)

Spec == Init /\ [][Next]_vars

-----------------------------------------------------------------------------
(* The variables have their types.                                         *)
TypeOK ==
  /\ loaded \in {"in", "going", "out"} /\ inst \in [File -> Proc \cup {NULL}]
  /\ holders \in [File -> SUBSET Proc] /\ lock \in [Lock -> Agent \cup {NULL}]
  /\ bitMap \subseteq 0 .. TotChanNum - 1 /\ chanTbl \in [ChanId -> Node \cup {NULL}]
  /\ devs \subseteq ChanId /\ privCb \subseteq devs
  /\ fileRef \in [Sock -> Nat] /\ tainted \subseteq Sock
  /\ sk \in [Sock -> [ready : {"own", "vn"}, user : ChanId \cup {NULL, Freed}]]

(* A node is whole or not there, in two parts.  Its bit, its place in the  *)
(* table, its device and the memory of its driver come and go together,   *)
(* and the module has one reference to the file of each node's socket and  *)
(* no other.                                                               *)
NodeKept ==
  /\ Nodes = {IndxToId[i] : i \in bitMap} /\ devs = Nodes
  /\ \A id \in Nodes : IndxToId[chanTbl[id].idx] = id
  /\ privCb = {id \in Nodes : chanTbl[id].sock \in Driven}
  /\ \A s \in Sock : fileRef[s] = Cardinality({id \in Nodes : chanTbl[id].sock = s})

(* The data of a socket that a node was made of goes to that node, and     *)
(* only of such a socket: after the release the socket is as it was,       *)
(* unless an ADD_NODE failed at its last step (sk_data_ready,              *)
(* sk_user_data).                                                          *)
SocketsRight == \A s \in Sock \ tainted :
  LET mine == {id \in Nodes : chanTbl[id].sock = s /\ s \in Driven}
  IN IF mine = {} THEN sk[s] = [ready |-> "own", user |-> NULL]
     ELSE sk[s].ready = "vn" /\ sk[s].user \in mine

(* Both whenever stLock is free, after every error path of VN_AddNode, a   *)
(* VN_ReleaseChan from an ioctl, a close or the unloading.                 *)
NodesWhole == Free("vn") => NodeKept /\ SocketsRight

(* A node belongs to a process of which a cp file is open, in whoever's    *)
(* hands, and whose closing has yet to look for nodes: none outlives its   *)
(* process's files, and the module goes without one (VA_CP_ioctl's check   *)
(* of the process, VN_CpInstNotify).                                       *)
NodesOwned == Free("vn") => \A id \in Nodes : \E f \in File :
  inst[f] = chanTbl[id].inst /\ call[f].pc \in {"idle", "inst", "vn"}

(* The mutex an agent needs for its next step.                             *)
Needs(a) ==
  CASE call[a].pc = "cmd" -> "cmd"
    [] call[a].pc = "inst" -> "inst"
    [] call[a].pc = "vn" -> "vn"
    [] call[a].pc \in {"reg", "undo", "unreg", "drv"} -> "core"
    [] OTHER -> NULL

(* Every ioctl, close and unloading can go on: there is no circle of       *)
(* agents that wait for each other's mutexes, be it of one, and who has    *)
(* returned has none.  The unloading has stMutex while it takes stLock,    *)
(* against the order of the others, and would meet itself at stMutex if    *)
(* there was a node left (VA_UnRegDrv, VN_DRV_Exit, VA_UnRegDev; the error *)
(* paths of VN_Ioctl and VA_CP_DoIoctl).                                   *)
NoDeadlock ==
  /\ \A S \in (SUBSET Agent) \ {{}} : \E a \in S : Needs(a) = NULL \/ lock[Needs(a)] \notin S
  /\ \A l \in Lock : ~Free(l) => ~At(lock[l], "idle")
=============================================================================
