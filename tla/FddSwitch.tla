------------------------------ MODULE FddSwitch ------------------------------
(***************************************************************************)
(* Connecting channels (src/kern/fdd/fdd.c, src/kern/fdd/fdd_port.c).      *)
(*                                                                         *)
(* A channel that others may listen to has a listen port.  A receiver is   *)
(* attached to it with a port, which hangs in the forwarding list of a     *)
(* "vsw" port whose output has the type the receiver wants: the vsw of the *)
(* listen port itself, which passes data on, or a converter.  Converters   *)
(* are created when first needed and shared: one makes the base type (ES)  *)
(* of the listener's, others make the receivers' types of the base type.   *)
(* They are counted references and die with their last child, which may    *)
(* take their parent along.                                                *)
(*                                                                         *)
(* gstFddCb.stMutex is held by each operation as a whole.  Data that is    *)
(* forwarded (FDD_FwdBufData) takes only the stMutex of the listen port,   *)
(* so it sees every state between two sections of that mutex: each such    *)
(* section is an action here.  The release of a channel drops gstFddCb's   *)
(* mutex several times, and is an action for each part.                    *)
(*                                                                         *)
(* A channel names its listen port, and the vsw in it.  The port of        *)
(* receiver r at listener l is << l, r >>.                                 *)
(***************************************************************************)
EXTENDS Integers, Sequences, FiniteSets

CONSTANTS
  Chan,      (* channels                                                   *)
  Listens,   (* those that call FDD_InitListenChan                         *)
  Net,       (* those of the network, which are found before they are      *)
             (* set up; the others are set up first                        *)
  Type,      (* types of streams                                           *)
  BaseType,  (* VA_STREAM_TYPE_BASE                                        *)
  ChanType,  (* the type each channel is set up for                        *)
  Conv,      (* << in, out >> for each registered converter                *)
  VswId,     (* converter ports there is memory for                        *)
  NULL

ASSUME TypeAssumption ==
  /\ BaseType \in Type /\ ChanType \in [Chan -> Type]
  /\ Conv \subseteq Type \X Type /\ Listens \subseteq Chan /\ Net \subseteq Chan
ASSUME NameAssumption ==
  /\ Chan \cap VswId = {} /\ NULL \notin Chan \cup VswId \cup Type
  /\ (Chan \X Chan) \cap (Chan \cup VswId) = {}

Vsw  == Chan \cup VswId
Port == VswId \cup (Chan \X Chan)

VARIABLES
  found,       (* channels in astChanHashTbl                               *)
  dataType,    (* u16DataType, NULL for VA_STREAM_TYPE_NONE                *)
  listenPort,  (* pstListenPort: NULL, or a port in use or freed           *)
  portHead,    (* stPortHead of a listen port: the receivers of its ports  *)
  pairHead,    (* stPortHead of a channel: the listeners of its ports      *)
  vswHead,     (* stVswHead of a listen port, but for its own vsw          *)
  basePort,    (* pstBaseVswPort of a listen port                          *)
  vswPort,     (* pstVswPort of a port: the vsw it holds a reference to    *)
  fwdHead,     (* stFwdHead of a vsw: the ports that get its output        *)
  ref,         (* stRef of a vsw, 0 when it is freed                       *)
  conv,        (* u16InDataType and u16OutDataType of a converter          *)
  op,          (* the FDD_ConnectChanById in progress                      *)
  late,        (* history: the types of the channels that were set up      *)
               (* while they were being connected                          *)
  rel          (* how far FDD_ReleaseChan is with a channel                *)

treeVars == << vswHead, basePort, vswPort, fwdHead, ref, conv >>
listVars == << portHead, pairHead >>
chanVars == << found, dataType, late >>
vars == << chanVars, listenPort, listVars, treeVars, op, rel >>

NoOp   == [l |-> NULL, r |-> NULL, look |-> {}, make |-> << >>, made |-> << >>, todo |-> << >>]
NoConv == << NULL, NULL >>

(* Nobody holds gstFddCb.stMutex.                                          *)
MutexFree == op = NoOp /\ \A c \in Chan : rel[c] \notin {"freeing", "dropping"}

Made == {op.made[i] : i \in DOMAIN op.made}

InType(v)  == IF v \in Chan THEN ChanType[v] ELSE conv[v][1]
OutType(v) == IF v \in Chan THEN ChanType[v] ELSE conv[v][2]

(* Every operator whose comment says "mutant" is a plausible bug of the    *)
(* definition after it; nothing uses it but the tests of the properties.   *)

(* The converters a receiver of the type needs that nobody matches, from   *)
(* the listener down.  NULL stands for the type the receiver will have     *)
(* when the converter is made: the code reads it again then.               *)
ToMake(l, type) ==
  IF basePort[l] # NULL THEN << << BaseType, NULL >> >>
  ELSE IF type # BaseType
       THEN << << ChanType[l], BaseType >>, << BaseType, NULL >> >>
       ELSE << << ChanType[l], NULL >> >>

(* Mutant: always the vsw of the listen port.                              *)
AnchorSelf(l) == l

(* What the first of the new converters is attached to.                    *)
Anchor(l) == IF basePort[l] # NULL THEN basePort[l] ELSE l

(* How port and converters are attached, << child, parent >>: the receiver *)
(* first, the chain to the listener last, so that data never enters a      *)
(* chain that is not complete.                                             *)
Links(port, anchor, made) ==
  IF Len(made) = 2
  THEN << << port, made[2] >>, << made[2], made[1] >>, << made[1], anchor >> >>
  ELSE << << port, made[1] >>, << made[1], anchor >> >>

(* Mutant: a converter always takes its parent along.                      *)
DyingAlways(v) ==
  {u \in VswId : /\ v \in VswId /\ ref[v] = 1
                 /\ u = v \/ u = vswPort[v]}

(* The converters freed when a reference to v is put: v if it was the last *)
(* one, then its parent if v held the last one, and so on.  The chain is   *)
(* never longer than two.                                                  *)
Dying(v) ==
  {u \in VswId : /\ ref[u] = 1
                 /\ u = v \/ (v \in VswId /\ ref[v] = 1 /\ u = vswPort[v])}

(* Those that lose a reference then.                                       *)
Putted(v) == {v} \cup {vswPort[u] : u \in Dying(v)}

-----------------------------------------------------------------------------
Init ==
  /\ found = {} /\ dataType = [c \in Chan |-> NULL] /\ late = {}
  /\ listenPort = [c \in Chan |-> "NULL"]
  /\ portHead = [c \in Chan |-> {}] /\ pairHead = [c \in Chan |-> {}]
  /\ vswHead = [c \in Chan |-> {}] /\ basePort = [c \in Chan |-> NULL]
  /\ vswPort = [p \in Port |-> NULL] /\ fwdHead = [v \in Vsw |-> {}]
  /\ ref = [v \in Vsw |-> 0] /\ conv = [v \in VswId |-> NoConv]
  /\ op = NoOp /\ rel = [c \in Chan |-> "none"]

(* FDD_InitListenChan.  The vsw of a listen port takes the type of the     *)
(* channel and holds a reference to itself.                                *)
InitListenChan(c) ==
  IF c \in Listens
  THEN /\ listenPort' = [listenPort EXCEPT ![c] = "port"]
       /\ ref' = [ref EXCEPT ![c] = 2]
       /\ basePort' = [basePort EXCEPT ![c] = IF ChanType[c] = BaseType THEN c ELSE NULL]
  ELSE UNCHANGED << listenPort, ref, basePort >>

(* FDD_InitChan.                                                           *)
InitChan(c) ==
  /\ MutexFree /\ c \notin found /\ rel[c] = "none"
  /\ found' = found \cup {c}
  /\ IF c \in Net
     THEN UNCHANGED << dataType, listenPort, ref, basePort >>
     ELSE /\ dataType' = [dataType EXCEPT ![c] = ChanType[c]]
          /\ InitListenChan(c)
  /\ UNCHANGED << late, listVars, vswHead, vswPort, fwdHead, conv, op, rel >>

(* The part of VN_AddNode that sets up a channel which can be connected    *)
(* already.  It does not hold the mutex: a connection of the channel may   *)
(* be under way.                                                           *)
SetUp(c) ==
  /\ c \in Net \cap found /\ rel[c] = "none" /\ dataType[c] = NULL
  /\ dataType' = [dataType EXCEPT ![c] = ChanType[c]]
  /\ InitListenChan(c)
  /\ late' = IF op.r = c THEN late \cup {ChanType[c]} ELSE late
  /\ UNCHANGED << found, listVars, vswHead, vswPort, fwdHead, conv, op, rel >>

-----------------------------------------------------------------------------
(* FDD_ConnectChanById takes the mutex, looks the connection up and makes  *)
(* the port.  It will look at every vsw of the listener.                   *)
ConnectStart(l, r) ==
  /\ MutexFree
  /\ {l, r} \subseteq found /\ l # r
  /\ listenPort[l] # "NULL" /\ r \notin portHead[l]
  /\ op' = [NoOp EXCEPT !.l = l, !.r = r, !.look = {l} \cup vswHead[l]]
  /\ UNCHANGED << chanVars, listenPort, listVars, treeVars, rel >>

(* One round of the loop of FDD_AddToListenPort: the type of one vsw is    *)
(* compared with what the receiver's type is now.  A vsw that fits ends    *)
(* it.  The listener's own comes first, the order of the others is left    *)
(* open.                                                                   *)
Compare(v) ==
  /\ v \in op.look /\ (op.l \in op.look => v = op.l)
  /\ op' = IF OutType(v) = dataType[op.r]
           THEN [op EXCEPT !.look = {}, !.todo = << << << op.l, op.r >>, v >> >>]
           ELSE [op EXCEPT !.look = @ \ {v}]
  /\ UNCHANGED << chanVars, listenPort, listVars, treeVars, rel >>

(* No vsw fitted: the type, read once more, says what is to be made.       *)
Decide ==
  /\ op # NoOp /\ op.look = {} /\ op.make = << >> /\ op.todo = << >>
  /\ op' = [op EXCEPT !.make = ToMake(op.l, dataType[op.r])]
  /\ UNCHANGED << chanVars, listenPort, listVars, treeVars, rel >>

(* What the next converter is to be, the receiver's type read again.       *)
Wanted ==
  LET next == Head(op.make) IN
  << next[1], IF next[2] = NULL THEN dataType[op.r] ELSE next[2] >>

(* FDD_CreateConvertVsw.  The new port is in stVswHead at once; when the   *)
(* last one is made the base port is set, before anything is attached.     *)
CreateVsw(v) ==
  /\ op.make # << >> /\ Wanted \in Conv
  /\ v \in VswId /\ ref[v] = 0
  /\ ref' = [ref EXCEPT ![v] = 1]
  /\ conv' = [conv EXCEPT ![v] = Wanted]
  /\ vswHead' = [vswHead EXCEPT ![op.l] = @ \cup {v}]
  /\ LET made == Append(op.made, v) IN
     IF Len(op.make) = 1
     THEN /\ op' = [op EXCEPT !.make = << >>, !.made = made,
                              !.todo = Links(<< op.l, op.r >>, Anchor(op.l), made)]
          /\ basePort' = [basePort EXCEPT ![op.l] = IF @ = NULL THEN made[1] ELSE @]
     ELSE /\ op' = [op EXCEPT !.make = Tail(@), !.made = made]
          /\ UNCHANGED basePort
  /\ UNCHANGED << chanVars, listenPort, listVars, vswPort, fwdHead, rel >>

(* No converter of the kind is registered, or there is no memory: the      *)
(* converter that was made before goes, and the connection is refused.     *)
CreateFails ==
  /\ op.make # << >>
  /\ ref' = [v \in Vsw |-> IF v \in Made THEN 0 ELSE ref[v]]
  /\ conv' = [v \in VswId |-> IF v \in Made THEN NoConv ELSE conv[v]]
  /\ vswHead' = [vswHead EXCEPT ![op.l] = @ \ Made]
  /\ op' = NoOp
  /\ UNCHANGED << chanVars, listenPort, listVars, basePort, vswPort, fwdHead, rel >>

(* Mutant: the creators keep their references.                             *)
CreatorsKeep == {}

(* The references that the creators of converters put when all is attached.*)
CreatorsPut == Made

(* FDD_AddToVswPort and FDD_AddVswToVswPort: one section of the listener's *)
(* mutex.  After the last the port becomes known to the receiver.          *)
Attach ==
  /\ op.todo # << >>
  /\ LET child == Head(op.todo)[1]
         vsw   == Head(op.todo)[2]
         last  == Len(op.todo) = 1
         put   == IF last THEN CreatorsPut ELSE {} IN
     /\ vswPort' = [vswPort EXCEPT ![child] = vsw]
     /\ fwdHead' = [fwdHead EXCEPT ![vsw] = @ \cup {child}]
     /\ ref' = [v \in Vsw |-> ref[v] + (IF v = vsw THEN 1 ELSE 0) - (IF v \in put THEN 1 ELSE 0)]
     /\ portHead' = IF child = << op.l, op.r >>
                    THEN [portHead EXCEPT ![op.l] = @ \cup {op.r}] ELSE portHead
     /\ pairHead' = IF last THEN [pairHead EXCEPT ![op.r] = @ \cup {op.l}] ELSE pairHead
     /\ op' = IF last THEN NoOp ELSE [op EXCEPT !.todo = Tail(@)]
  /\ UNCHANGED << chanVars, listenPort, vswHead, basePort, conv, rel >>

-----------------------------------------------------------------------------
(* Mutant: the port stays in the list of the listener.                     *)
StillListed(l, r) == portHead

Unlisted(l, r) == [portHead EXCEPT ![l] = @ \ {r}]

Unpaired(r, l) == [pairHead EXCEPT ![r] = @ \ {l}]

BaseAfter(l, dead) == [basePort EXCEPT ![l] = IF @ \in dead THEN NULL ELSE @]

(* __FDD_DisconnectChan: the port is unlinked and its reference is put,    *)
(* which may free converters (FDD_ReleaseVswPort), all in one section of   *)
(* the listener's mutex.                                                   *)
DisconnectChan(l, r) ==
  LET v    == vswPort[<< l, r >>]
      dead == Dying(v) IN
  /\ listenPort[l] # "NULL" /\ r \in portHead[l]
  /\ portHead' = Unlisted(l, r)
  /\ pairHead' = Unpaired(r, l)
  /\ fwdHead' = [u \in Vsw |-> fwdHead[u] \ (dead \cup {<< l, r >>})]
  /\ vswPort' = [p \in Port |-> IF p \in dead \cup {<< l, r >>} THEN NULL ELSE vswPort[p]]
  /\ ref' = [u \in Vsw |-> IF u \in Putted(v) THEN ref[u] - 1 ELSE ref[u]]
  /\ conv' = [u \in VswId |-> IF u \in dead THEN NoConv ELSE conv[u]]
  /\ vswHead' = [vswHead EXCEPT ![l] = @ \ dead]
  /\ basePort' = BaseAfter(l, dead)

(* FDD_DisconnectChanById.                                                 *)
Disconnect(l, r) ==
  /\ MutexFree /\ {l, r} \subseteq found
  /\ DisconnectChan(l, r)
  /\ UNCHANGED << chanVars, listenPort, op, rel >>

-----------------------------------------------------------------------------
(* Mutant: the channel can be found until it is gone.                      *)
AlwaysFound(c) == found

StillFound(c) == found \ {c}

(* FDD_ReleaseChan.  It begins with FDD_DelChanFrmList.                    *)
ReleaseStart(c) ==
  /\ MutexFree /\ c \in found /\ rel[c] = "none"
  /\ found' = StillFound(c) /\ UNCHANGED << dataType, late >>
  /\ rel' = [rel EXCEPT ![c] = "unlisted"]
  /\ UNCHANGED << listenPort, listVars, treeVars, op >>

(* FDD_ReleaseListenPort takes the mutex.  Nobody knows the listen port by *)
(* the hash table it was removed from before.                              *)
TakeListen(c) ==
  /\ MutexFree /\ rel[c] = "unlisted" /\ listenPort[c] # "NULL"
  /\ rel' = [rel EXCEPT ![c] = "freeing"]
  /\ UNCHANGED << chanVars, listenPort, listVars, treeVars, op >>

(* One round of the loop of FDD_FreeListenPort.                            *)
FreeDisconnect(c) ==
  /\ rel[c] = "freeing"
  /\ \E r \in portHead[c] : DisconnectChan(c, r)
  /\ UNCHANGED << chanVars, listenPort, op, rel >>

(* Mutant: the listen port is freed under its receivers.                   *)
NoLoop(c) == TRUE

LoopDone(c) == portHead[c] = {}

(* The rest of it: FDD_ReleaseVswPort puts the reference that the listen   *)
(* port's vsw holds to itself, FDD_PutVswPort the first one.  The memory   *)
(* goes, the mutex is released, and the channel still points to the port.  *)
FreeListen(c) ==
  /\ rel[c] = "freeing" /\ LoopDone(c)
  /\ ref' = [ref EXCEPT ![c] = @ - 2]
  /\ basePort' = BaseAfter(c, {c})
  /\ listenPort' = [listenPort EXCEPT ![c] = "freed"]
  /\ rel' = [rel EXCEPT ![c] = "freed"]
  /\ UNCHANGED << chanVars, listVars, vswHead, vswPort, fwdHead, conv, op >>

NullListen(c) ==
  /\ rel[c] = "freed"
  /\ listenPort' = [listenPort EXCEPT ![c] = "NULL"]
  /\ rel' = [rel EXCEPT ![c] = "unported"]
  /\ UNCHANGED << chanVars, listVars, treeVars, op >>

(* FDD_ReleaseAllPorts takes the mutex.                                    *)
TakePorts(c) ==
  /\ MutexFree
  /\ \/ rel[c] = "unported"
     \/ rel[c] = "unlisted" /\ listenPort[c] = "NULL"
  /\ rel' = [rel EXCEPT ![c] = "dropping"]
  /\ UNCHANGED << chanVars, listenPort, listVars, treeVars, op >>

(* One round of its loop.  It ignores that __FDD_DisconnectChan may fail,  *)
(* and would then go round for ever with the mutex held.                   *)
DropPort(c) ==
  /\ rel[c] = "dropping"
  /\ \E l \in pairHead[c] : DisconnectChan(l, c)
  /\ UNCHANGED << chanVars, listenPort, op, rel >>

ClearChan(c) ==
  /\ rel[c] = "dropping" /\ pairHead[c] = {}
  /\ rel' = [rel EXCEPT ![c] = "none"]
  /\ dataType' = [dataType EXCEPT ![c] = NULL]
  /\ UNCHANGED << found, late, listenPort, listVars, treeVars, op >>

-----------------------------------------------------------------------------
ReleaseStep(c) == FreeDisconnect(c) \/ FreeListen(c) \/ NullListen(c) \/ DropPort(c) \/ ClearChan(c)

ConnectStep ==
  \/ \E v \in Vsw : Compare(v)
  \/ Decide \/ CreateFails \/ Attach
  \/ \E v \in VswId : CreateVsw(v)

Next ==
  \/ \E c \in Chan : InitChan(c) \/ SetUp(c) \/ ReleaseStart(c) \/ TakeListen(c) \/ TakePorts(c) \/ ReleaseStep(c)
  \/ \E l, r \in Chan : ConnectStart(l, r) \/ Disconnect(l, r)
  \/ ConnectStep

Spec == Init /\ [][Next]_vars

(* A thread goes on until it returns, and the one that waits for the mutex *)
(* gets it: the waiters of a mutex are served in order.  Nobody is obliged *)
(* to make a call.                                                         *)
Fairness ==
  /\ WF_vars(ConnectStep)
  /\ \A c \in Chan : WF_vars(ReleaseStep(c)) /\ SF_vars(TakeListen(c) \/ TakePorts(c))

FairSpec == Spec /\ Fairness

-----------------------------------------------------------------------------
(* Properties.                                                             *)
OpType ==
  [l : Chan \cup {NULL}, r : Chan \cup {NULL}, look : SUBSET Vsw, make : Seq(Type \X (Type \cup {NULL})),
   made : Seq(VswId), todo : Seq(Port \X Vsw)]

(* Every variable holds a value of its type; stRef never falls below 0.    *)
TypeOK ==
  /\ found \subseteq Chan /\ late \subseteq Type
  /\ dataType \in [Chan -> Type \cup {NULL}]
  /\ listenPort \in [Chan -> {"NULL", "port", "freed"}]
  /\ portHead \in [Chan -> SUBSET Chan] /\ pairHead \in [Chan -> SUBSET Chan]
  /\ vswHead \in [Chan -> SUBSET VswId] /\ basePort \in [Chan -> Vsw \cup {NULL}]
  /\ vswPort \in [Port -> Vsw \cup {NULL}] /\ fwdHead \in [Vsw -> SUBSET Port]
  /\ ref \in [Vsw -> Nat]
  /\ conv \in [VswId -> (Type \X Type) \cup {NoConv}]
  /\ op \in OpType
  /\ rel \in [Chan -> {"none", "unlisted", "freeing", "freed", "unported", "dropping"}]

(* The conversion trees of the listeners are sound whatever step of their  *)
(* making fails and however channels come and go.  RefsCounted: the        *)
(* forwarding lists and the references agree: a port holds a reference     *)
(* to the vsw in whose list it hangs, and to no other; beside them there   *)
(* are the references of creators and the two of a listen port's own vsw.  *)
(* So a converter is freed with its last child, no sooner and no later,    *)
(* and the vsw of a listen port just when the port is.                     *)
RefsCounted ==
  \A v \in Vsw :
    /\ fwdHead[v] = {p \in Port : vswPort[p] = v}
    /\ ref[v] = Cardinality(fwdHead[v]) + (IF v \in Made THEN 1 ELSE 0)
                + (IF v \in Chan /\ listenPort[v] = "port" THEN 2 ELSE 0)

(* Each list that is forwarded into gets data of the type it takes: a      *)
(* receiver its own type, a converter its input.                           *)
ConvertedRight ==
  \A v \in Vsw : \A p \in fwdHead[v] :
    OutType(v) = IF p \in VswId THEN InType(p) ELSE dataType[p[2]]

(* What data of l passes on its way down.                                  *)
Below(v) ==
  LET Kids(vs) == UNION {fwdHead[u] : u \in vs \cap Vsw} IN
  fwdHead[v] \cup Kids(fwdHead[v]) \cup Kids(Kids(fwdHead[v]))

(* NoIdleConverter: when no connection is being made, a listen port holds  *)
(* the converters its receivers need and no others: each one has a         *)
(* receiver below it, no two make the same type, none makes the            *)
(* listener's own.  The code keeps the last two only for the types no      *)
(* receiver was set up for between two looks at it: such a one may match   *)
(* nobody in the loop and get a converter that is there already.           *)
NoIdleConverter ==
  MutexFree =>
    \A l \in Chan :
      /\ \A v \in vswHead[l] : Below(v) \cap (Chan \X Chan) # {}
      /\ \A u, v \in {l} \cup vswHead[l] : OutType(u) = OutType(v) => u = v \/ OutType(u) \in late
      /\ vswHead[l] = {v \in VswId : ref[v] > 0 /\ v \in Below(l)}

(* BaseIsLive: pstBaseVswPort points to the vsw of the listener that makes *)
(* the base type as long as there is one, never to one that is freed.      *)
BaseIsLive ==
  \A l \in Chan :
    /\ basePort[l] # NULL =>
         /\ basePort[l] \in {l} \cup vswHead[l] /\ ref[basePort[l]] > 0
         /\ OutType(basePort[l]) = BaseType
    /\ MutexFree /\ listenPort[l] = "port" /\ basePort[l] = NULL =>
         \A v \in {l} \cup vswHead[l] : OutType(v) # BaseType

(* The conversion trees are sound: the three parts above together          *)
(* (FDD_AddToListenPort, FDD_PutPort and FDD_ReleaseVswPort).              *)
TreeSound == RefsCounted /\ NoIdleConverter /\ BaseIsLive

(* The two ends of a connection know of each other: a port is in the list  *)
(* of its receiver just when it is in the list of its listener, but for    *)
(* the one that is being connected.                                        *)
PairsAgree ==
  \A l, r \in Chan :
    l \in pairHead[r] <=> (r \in portHead[l] /\ ~(op.l = l /\ op.r = r))

(* No port leads to or from a channel that has gone, nor to a listen port  *)
(* whose memory was freed while the channel still points to it.            *)
NoStalePort ==
  \A l, r \in Chan :
    r \in portHead[l] \/ l \in pairHead[r] \/ (op.l = l /\ op.r = r) =>
      /\ listenPort[l] = "port"
      /\ {l, r} \subseteq {c \in Chan : c \in found \/ rel[c] # "none"}

(* What data of a channel reaches is what FddConnections says.             *)
Reached == {p \in Chan \X Chan : p \in Below(p[1])}

Connections == INSTANCE FddConnections
  WITH there <- {c \in Chan : c \in found \/ rel[c] # "none"}, open <- found, conn <- Reached
Connects == Connections!Spec

(* The release of a channel ends: its loops come to an end with the mutex  *)
(* held, and it gets the mutex.                                            *)
ReleaseEnds == \A c \in Chan : rel[c] # "none" ~> rel[c] = "none"

=============================================================================
