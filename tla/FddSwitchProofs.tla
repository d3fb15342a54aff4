--------------------------- MODULE FddSwitchProofs ---------------------------
(***************************************************************************)
(* What is proved about FddSwitch for any channels, types and converters:  *)
(* PairsAgree, NoStalePort, TreeSound, ConvertedRight, the types, and that *)
(* the switch implements FddConnections.                                   *)
(*                                                                         *)
(* PairsAgree and NoStalePort are not inductive.  That a port is in both   *)
(* lists depends on what a connection that is under way has done so far    *)
(* (OpInv), that a channel leaves no port behind on what its release has   *)
(* done (RelInv).  Nothing of it depends on the references, so the types   *)
(* that are needed leave them out (PortType).                              *)
(*                                                                         *)
(* The conversion trees need an invariant of their own (TreeInv): where    *)
(* each converter of a listener hangs (ListInv), what its input and output *)
(* are (StreamInv), what its references count (CountInv), and, for each    *)
(* shape a connection under way may have, what is made, attached and still *)
(* to do (ConnInv).  Each operation keeps it, one lemma for each; then     *)
(* TreeSound and ConvertedRight are read off, and so is what is reached    *)
(* from a channel, which is what the steps of FddConnections change.       *)
(***************************************************************************)
EXTENDS FddSwitch, FiniteSetTheorems, SequenceTheorems, TLAPS

PortType ==
  /\ found \subseteq Chan
  /\ listenPort \in [Chan -> {"NULL", "port", "freed"}]
  /\ portHead \in [Chan -> SUBSET Chan] /\ pairHead \in [Chan -> SUBSET Chan]
  /\ rel \in [Chan -> {"none", "unlisted", "freeing", "freed", "unported", "dropping"}]
  /\ op = [l |-> op.l, r |-> op.r, look |-> op.look, make |-> op.make, made |-> op.made, todo |-> op.todo]

IsSequence(s) == s \in Seq({s[i] : i \in DOMAIN s})

LEMMA ShortSequences ==
  ASSUME NEW x, NEW y, NEW z
  PROVE  IsSequence(<< >>) /\ IsSequence(<< x >>) /\ IsSequence(<< x, y >>) /\ IsSequence(<< x, y, z >>)
<1>1. /\ DOMAIN << >> = {} /\ DOMAIN << x >> = {1} /\ DOMAIN << x, y >> = {1, 2} /\ DOMAIN << x, y, z >> = {1, 2, 3}
      /\ << x >>[1] = x /\ << x, y >>[1] = x /\ << x, y >>[2] = y
      /\ << x, y, z >>[1] = x /\ << x, y, z >>[2] = y /\ << x, y, z >>[3] = z
  OBVIOUS
<1>2. IsSequence(<< >>)
  BY DEF IsSequence
<1>3. IsSequence(<< x >>)
  <2>1. {<< x >>[i] : i \in DOMAIN << x >>} = {x}
    BY <1>1
  <2> QED
    BY <2>1 DEF IsSequence
<1>4. IsSequence(<< x, y >>)
  <2>1. {<< x, y >>[i] : i \in DOMAIN << x, y >>} = {x, y}
    BY <1>1
  <2> QED
    BY <2>1 DEF IsSequence
<1>5. IsSequence(<< x, y, z >>)
  <2>1. {<< x, y, z >>[i] : i \in DOMAIN << x, y, z >>} = {x, y, z}
    BY <1>1
  <2> QED
    BY <2>1 DEF IsSequence
<1> QED
  BY <1>2, <1>3, <1>4, <1>5

LEMMA SeqIsSequence ==
  ASSUME NEW S, NEW s \in Seq(S)
  PROVE  IsSequence(s)
<1> DEFINE T == {s[i] : i \in DOMAIN s}
<1>1. Len(s) \in Nat /\ DOMAIN s = 1 .. Len(s) /\ s \in [1 .. Len(s) -> S]
  BY LenProperties
<1>2. \A i \in 1 .. Len(s) : s[i] \in T
  BY <1>1
<1> HIDE DEF T
<1>3. s \in [1 .. Len(s) -> T]
  BY <1>1, <1>2
<1>4. s \in Seq(T)
  BY <1>1, <1>3, SeqDef
<1> QED
  BY <1>4 DEF IsSequence, T

LEMMA TailIsSequence ==
  ASSUME NEW s, IsSequence(s), s # << >>
  PROVE  IsSequence(Tail(s)) /\ (Len(s) # 1 => Tail(s) # << >>)
<1> DEFINE S == {s[i] : i \in DOMAIN s}
<1>1. s \in Seq(S)
  BY DEF IsSequence
<1> HIDE DEF S
<1>2. Tail(s) \in Seq(S) /\ Len(s) \in Nat /\ Len(Tail(s)) = Len(s) - 1
  BY <1>1
<1>3. IsSequence(Tail(s))
  BY <1>2, SeqIsSequence
<1>4. Len(s) # 1 => Tail(s) # << >>
  <2>1. Len(<< >>) = 0
    OBVIOUS
  <2>2. ASSUME Tail(s) = << >> PROVE Len(Tail(s)) = 0
    BY ONLY <2>1, <2>2
  <2> QED
    BY <1>2, <2>2
<1> QED
  BY <1>3, <1>4

(* What a connection under way relies on.                                  *)
OpInv ==
  op # NoOp =>
    /\ IsSequence(op.todo)
    /\ op.l \in found /\ op.r \in found /\ op.l # op.r
    /\ listenPort[op.l] = "port"
    /\ \A c \in Chan : rel[c] \notin {"freeing", "dropping"}
    /\ op.make = << >> \/ op.todo = << >>
    /\ op.look # {} => op.make = << >> /\ op.todo = << >>
    /\ op.todo = << >> => op.r \notin portHead[op.l]
    /\ op.todo # << >> =>
         op.r \in portHead[op.l] \/ Head(op.todo)[1] = << op.l, op.r >>

(* How far a release is, and what the channel points to then.              *)
RelInv ==
  \A c \in Chan :
    /\ c \in found => rel[c] = "none"
    /\ c \notin found /\ rel[c] = "none" => listenPort[c] = "NULL"
    /\ rel[c] \in {"none", "unlisted"} => listenPort[c] \in {"NULL", "port"}
    /\ rel[c] = "freeing" => listenPort[c] = "port"
    /\ rel[c] = "freed" => listenPort[c] = "freed"
    /\ rel[c] \in {"unported", "dropping"} => listenPort[c] = "NULL"

IInv == PortType /\ OpInv /\ RelInv /\ PairsAgree /\ NoStalePort

LEMMA IInvInit == Init => IInv
BY NameAssumption
DEF Init, IInv, PortType, OpInv, RelInv, PairsAgree, NoStalePort, NoOp

(* The lists of a port are cut together, whoever holds the mutex.          *)
LEMMA DisconnectKeeps ==
  ASSUME IInv, op = NoOp, NEW l \in Chan, NEW r \in Chan, DisconnectChan(l, r),
         UNCHANGED << chanVars, listenPort, op, rel >>
  PROVE  IInv'
<1> USE NameAssumption DEF IInv, PortType, chanVars
<1>1. /\ portHead' = [portHead EXCEPT ![l] = @ \ {r}]
      /\ pairHead' = [pairHead EXCEPT ![r] = @ \ {l}]
  BY DEF DisconnectChan, Unlisted, Unpaired
<1>2. PortType'
  BY <1>1
<1>3. OpInv' /\ RelInv'
  BY DEF OpInv, RelInv
<1>4. PairsAgree'
  BY <1>1 DEF PairsAgree, NoOp
<1>5. NoStalePort'
  BY <1>1 DEF NoStalePort, NoOp
<1> QED
  BY <1>2, <1>3, <1>4, <1>5

(* What a step that leaves the lists and the connection alone has to keep. *)
LEMMA ReleaseKeeps ==
  ASSUME IInv, op = NoOp, UNCHANGED << listVars, op >>, PortType', RelInv',
         \A l, r \in Chan : r \in portHead[l] \/ l \in pairHead[r] =>
           /\ listenPort'[l] = "port"
           /\ {l, r} \subseteq {c \in Chan : c \in found' \/ rel'[c] # "none"}
  PROVE  IInv'
BY NameAssumption DEF IInv, PortType, OpInv, PairsAgree, NoStalePort, NoOp, listVars

LEMMA IInvStep == IInv /\ [Next]_vars => IInv'
<1> SUFFICES ASSUME IInv, [Next]_vars PROVE IInv'
  OBVIOUS
<1> USE NameAssumption DEF IInv
<1>1. ASSUME NEW c \in Chan, InitChan(c) PROVE IInv'
  <2>1. /\ found' = found \cup {c} /\ rel' = rel /\ op' = op /\ op = NoOp
        /\ portHead' = portHead /\ pairHead' = pairHead
        /\ c \notin found /\ rel[c] = "none" /\ listenPort[c] = "NULL"
        /\ \/ listenPort' = listenPort
           \/ listenPort' = [listenPort EXCEPT ![c] = "port"]
    BY <1>1 DEF InitChan, InitListenChan, MutexFree, listVars, RelInv
  <2>2. PortType'
    BY <2>1 DEF PortType
  <2>3. RelInv'
    BY <2>1 DEF RelInv, PortType
  <2> QED
    BY <2>1, <2>2, <2>3, ReleaseKeeps DEF PortType, NoStalePort, listVars
<1>2. ASSUME NEW c \in Chan, SetUp(c) PROVE IInv'
  <2>1. /\ found' = found /\ rel' = rel /\ op' = op
        /\ portHead' = portHead /\ pairHead' = pairHead
        /\ c \in found /\ rel[c] = "none"
        /\ \/ listenPort' = listenPort
           \/ listenPort' = [listenPort EXCEPT ![c] = "port"]
    BY <1>2 DEF SetUp, InitListenChan, listVars
  <2>2. PortType' /\ OpInv' /\ RelInv'
    BY <2>1 DEF PortType, OpInv, RelInv
  <2>3. PairsAgree' /\ NoStalePort'
    BY <2>1 DEF PortType, PairsAgree, NoStalePort
  <2> QED
    BY <2>2, <2>3
<1>3. ASSUME NEW l \in Chan, NEW r \in Chan, ConnectStart(l, r) PROVE IInv'
  <2>1. /\ MutexFree /\ l \in found /\ r \in found /\ l # r
        /\ listenPort[l] # "NULL" /\ r \notin portHead[l]
        /\ UNCHANGED << found, listenPort, portHead, pairHead, rel >>
    BY <1>3 DEF ConnectStart, chanVars, listVars
  <2>2. op' = [l |-> l, r |-> r, look |-> {l} \cup vswHead[l], make |-> << >>, made |-> << >>, todo |-> << >>]
    BY <1>3 DEF ConnectStart, NoOp
  <2>3. op'.l = l /\ op'.r = r /\ op'.todo = << >> /\ op'.make = << >>
    BY <2>2
  <2>4. PortType' /\ RelInv'
    BY <2>1, <2>2 DEF PortType, RelInv, NoOp
  <2>5. listenPort[l] = "port"
    BY <2>1 DEF RelInv, PortType
  <2>6. OpInv'
    BY <2>1, <2>3, <2>5, ShortSequences DEF OpInv, MutexFree
  <2>7. PairsAgree' /\ NoStalePort'
    BY <2>1, <2>3, <2>5 DEF PairsAgree, NoStalePort, PortType, MutexFree, NoOp
  <2> QED
    BY <2>4, <2>6, <2>7
<1>16. ASSUME Decide \/ \E v \in Vsw : Compare(v) PROVE IInv'
  <2>1. /\ op # NoOp /\ op.todo = << >> /\ op.make = << >>
        /\ UNCHANGED << found, listenPort, portHead, pairHead, rel >>
    <3>1. CASE Decide
      BY <3>1 DEF Decide, chanVars, listVars
    <3>2. ASSUME NEW v \in Vsw, Compare(v)
          PROVE  /\ op # NoOp /\ op.todo = << >> /\ op.make = << >>
                 /\ UNCHANGED << found, listenPort, portHead, pairHead, rel >>
      <4>1. op.look # {} /\ NoOp.look = {}
        BY <3>2 DEF Compare, NoOp
      <4> QED
        BY <3>2, <4>1 DEF Compare, chanVars, listVars, OpInv
    <3> QED
      BY <1>16, <3>1, <3>2
  <2>2. PICK look, make, todo :
          /\ op' = [op EXCEPT !.look = look, !.make = make, !.todo = todo]
          /\ todo # << >> => Head(todo)[1] = << op.l, op.r >>
          /\ make = << >> \/ todo = << >>
          /\ look # {} => make = << >> /\ todo = << >>
          /\ IsSequence(todo)
    <3>1. CASE Decide
      <4> DEFINE make == ToMake(op.l, dataType[op.r])
      <4>1. op.look = {} /\ op' = [op EXCEPT !.make = make]
        BY <3>1 DEF Decide
      <4> HIDE DEF make
      <4>2. op' = [op EXCEPT !.look = {}, !.make = make, !.todo = << >>]
        BY <2>1, <4>1 DEF PortType
      <4> QED
        BY <4>2, ShortSequences
    <3>2. ASSUME NEW v \in Vsw, Compare(v), OutType(v) = dataType[op.r]
          PROVE  /\ op' = [op EXCEPT !.look = {}, !.make = << >>, !.todo = << << << op.l, op.r >>, v >> >>]
                 /\ Head(<< << << op.l, op.r >>, v >> >>)[1] = << op.l, op.r >>
      <4>1. op' = [op EXCEPT !.look = {}, !.todo = << << << op.l, op.r >>, v >> >>]
        BY <3>2 DEF Compare
      <4>2. ASSUME NEW x, NEW y PROVE Head(<< << x, y >> >>)[1] = x
        OBVIOUS
      <4>3. op' = [op EXCEPT !.look = {}, !.make = << >>, !.todo = << << << op.l, op.r >>, v >> >>]
        BY <2>1, <4>1 DEF PortType
      <4>4. Head(<< << << op.l, op.r >>, v >> >>)[1] = << op.l, op.r >>
        BY <4>2
      <4> QED
        BY <4>3, <4>4
    <3>3. ASSUME NEW v \in Vsw, Compare(v), OutType(v) # dataType[op.r]
          PROVE  op' = [op EXCEPT !.look = @ \ {v}, !.make = << >>, !.todo = << >>]
      BY <2>1, <3>3 DEF Compare, PortType
    <3>4. IsSequence(<< >>) /\ \A x : IsSequence(<< x >>)
      BY ShortSequences
    <3> QED
      BY <1>16, <3>1, <3>2, <3>3, <3>4
  <2>3. op'.l = op.l /\ op'.r = op.r /\ op'.look = look /\ op'.make = make /\ op'.todo = todo
    BY <2>2 DEF PortType
  <2>4. PortType' /\ RelInv'
    BY <2>1, <2>2 DEF PortType, RelInv
  <2>5. OpInv'
    BY <2>1, <2>2, <2>3 DEF OpInv
  <2>6. PairsAgree' /\ NoStalePort'
    BY <2>1, <2>3 DEF PairsAgree, NoStalePort
  <2> QED
    BY <2>4, <2>5, <2>6
<1>4. ASSUME NEW v \in VswId, CreateVsw(v) PROVE IInv'
  <2>1. /\ op # NoOp /\ op.make # << >>
        /\ UNCHANGED << found, listenPort, portHead, pairHead, rel >>
    BY <1>4 DEF CreateVsw, chanVars, listVars, NoOp
  <2>2. op.todo = << >>
    BY <2>1 DEF OpInv
  <2>3. PICK make, made, todo :
          /\ op' = [op EXCEPT !.make = make, !.made = made, !.todo = todo]
          /\ todo # << >> => Head(todo)[1] = << op.l, op.r >>
          /\ make = << >> \/ todo = << >>
          /\ IsSequence(todo)
    <3>1. ASSUME NEW made, NEW port, NEW anchor
          PROVE  Head(Links(port, anchor, made))[1] = port /\ IsSequence(Links(port, anchor, made))
      <4>1. ASSUME NEW x, NEW y, NEW z
            PROVE  /\ Head(<< x, y, z >>) = x /\ Head(<< x, y >>) = x
                   /\ IsSequence(<< x, y, z >>) /\ IsSequence(<< x, y >>)
        <5>1. Head(<< x, y, z >>) = x /\ Head(<< x, y >>) = x
          OBVIOUS
        <5> QED
          BY <5>1, ShortSequences
      <4>2. PICK x, y, z : (Links(port, anchor, made) = << x, y, z >> \/ Links(port, anchor, made) = << x, y >>) /\ x[1] = port
        <5>1. ASSUME NEW a PROVE << port, a >>[1] = port
          OBVIOUS
        <5>2. CASE Len(made) = 2
          <6>1. Links(port, anchor, made) = << << port, made[2] >>, << made[2], made[1] >>, << made[1], anchor >> >>
            BY <5>2 DEF Links
          <6> QED
            BY <5>1, <6>1
        <5>3. CASE Len(made) # 2
          <6>1. Links(port, anchor, made) = << << port, made[1] >>, << made[1], anchor >> >>
            BY <5>3 DEF Links
          <6> QED
            BY <5>1, <6>1
        <5> QED
          BY <5>2, <5>3
      <4>3. ASSUME NEW q, q = << x, y, z >> \/ q = << x, y >> PROVE Head(q) = x /\ IsSequence(q)
        <5>1. CASE q = << x, y, z >>
          BY ONLY <4>1, <5>1
        <5>2. CASE q = << x, y >>
          BY ONLY <4>1, <5>2
        <5> QED
          BY <4>3, <5>1, <5>2
      <4> QED
        BY <4>2, <4>3
    <3>2. CASE Len(op.make) = 1
      <4>1. op' = [op EXCEPT !.make = << >>, !.made = Append(op.made, v),
                             !.todo = Links(<< op.l, op.r >>, Anchor(op.l), Append(op.made, v))]
        BY <1>4, <3>2 DEF CreateVsw
      <4> QED
        BY <3>1, <4>1
    <3>3. CASE Len(op.make) # 1
      <4>1. op' = [op EXCEPT !.make = Tail(op.make), !.made = Append(op.made, v)]
        BY <1>4, <3>3 DEF CreateVsw
      <4>2. op' = [op EXCEPT !.make = Tail(op.make), !.made = Append(op.made, v), !.todo = << >>]
        BY <2>2, <4>1 DEF PortType
      <4> QED
        BY <4>2, ShortSequences
    <3> QED
      BY <3>2, <3>3
  <2>4. op'.l = op.l /\ op'.r = op.r /\ op'.look = op.look /\ op'.make = make /\ op'.todo = todo
    BY <2>3 DEF PortType
  <2>5. PortType' /\ RelInv'
    BY <2>1, <2>3 DEF PortType, RelInv
  <2>6. OpInv'
    BY <2>1, <2>3, <2>4 DEF OpInv
  <2>7. PairsAgree' /\ NoStalePort'
    BY <2>1, <2>4 DEF PairsAgree, NoStalePort
  <2> QED
    BY <2>5, <2>6, <2>7
<1>5. CASE CreateFails
  <2>1. /\ op # NoOp /\ op' = NoOp
        /\ UNCHANGED << found, listenPort, portHead, pairHead, rel >>
    BY <1>5 DEF CreateFails, chanVars, listVars, NoOp
  <2>2. op.r \in Chan /\ op.l \in Chan /\ op.r \notin portHead[op.l]
    BY <1>5, <2>1 DEF CreateFails, OpInv, PortType
  <2>3. PortType' /\ RelInv' /\ OpInv'
    BY <2>1 DEF PortType, RelInv, OpInv, NoOp
  <2>4. PairsAgree' /\ NoStalePort'
    BY <2>1, <2>2 DEF PairsAgree, NoStalePort, NoOp
  <2> QED
    BY <2>3, <2>4
<1>6. CASE Attach
  <2> DEFINE child == Head(op.todo)[1]
             last  == Len(op.todo) = 1
  <2>1. /\ op # NoOp /\ op.todo # << >>
        /\ UNCHANGED << found, listenPort, rel >>
    BY <1>6 DEF Attach, chanVars, NoOp
  <2>2. /\ portHead' = IF child = << op.l, op.r >>
                       THEN [portHead EXCEPT ![op.l] = @ \cup {op.r}] ELSE portHead
        /\ pairHead' = IF last THEN [pairHead EXCEPT ![op.r] = @ \cup {op.l}] ELSE pairHead
        /\ op' = IF last THEN NoOp ELSE [op EXCEPT !.todo = Tail(@)]
    BY <1>6 DEF Attach
  <2>3. /\ op.l \in Chan /\ op.r \in Chan /\ op.l \in found /\ op.r \in found
        /\ listenPort[op.l] = "port"
        /\ op.r \in portHead[op.l] \/ child = << op.l, op.r >>
    BY <2>1 DEF OpInv, PortType
  <2>4. portHead' = [portHead EXCEPT ![op.l] = @ \cup {op.r}]
    <3>1. CASE child = << op.l, op.r >>
      BY <2>2, <3>1
    <3>2. CASE child # << op.l, op.r >>
      <4>1. portHead[op.l] \cup {op.r} = portHead[op.l] /\ portHead' = portHead
        BY <2>2, <2>3, <3>2
      <4> QED
        BY <4>1 DEF PortType
    <3> QED
      BY <3>1, <3>2
  <2> HIDE DEF child, last
  <2>5. CASE last
    <3>1. /\ op' = NoOp
          /\ pairHead' = [pairHead EXCEPT ![op.r] = @ \cup {op.l}]
      BY <2>2, <2>5
    <3>2. PortType' /\ RelInv' /\ OpInv'
      BY <2>1, <2>3, <2>4, <3>1 DEF PortType, RelInv, OpInv, NoOp
    <3>3. PairsAgree'
      BY <2>3, <2>4, <3>1 DEF PairsAgree, PortType, NoOp
    <3>4. NoStalePort'
      BY <2>1, <2>3, <2>4, <3>1 DEF NoStalePort, PortType, NoOp
    <3> QED
      BY <3>2, <3>3, <3>4
  <2>6. CASE ~last
    <3>1. /\ op' = [op EXCEPT !.todo = Tail(op.todo)]
          /\ pairHead' = pairHead
      BY <2>2, <2>6
    <3>2. op'.l = op.l /\ op'.r = op.r /\ op'.make = op.make /\ op'.look = op.look
      BY <3>1 DEF PortType
    <3>3. PortType' /\ RelInv'
      BY <2>1, <2>3, <2>4, <3>1 DEF PortType, RelInv
    <3>7. op.look = {} /\ op'.look = {}
      BY <2>1, <3>2 DEF OpInv
    <3>8. op'.make = << >> \/ op'.todo = << >>
      BY <2>1, <3>2 DEF OpInv
    <3>9. op.r \in portHead'[op.l]
      BY <2>3, <2>4 DEF PortType
    <3>10. op'.todo # << >> /\ IsSequence(op'.todo)
      <4>1. op'.todo = Tail(op.todo) /\ Len(op.todo) # 1
        BY <2>6, <3>1 DEF PortType, last
      <4> QED
        BY <2>1, <4>1, TailIsSequence DEF OpInv
    <3>4. OpInv'
      BY <2>1, <2>3, <3>2, <3>7, <3>8, <3>9, <3>10 DEF OpInv
    <3>5. PairsAgree'
      BY <2>3, <2>4, <3>1, <3>2 DEF PairsAgree, PortType
    <3>6. NoStalePort'
      BY <2>1, <2>3, <2>4, <3>1, <3>2 DEF NoStalePort, PortType
    <3> QED
      BY <3>3, <3>4, <3>5, <3>6
  <2> QED
    BY <2>5, <2>6
<1>7. ASSUME NEW l \in Chan, NEW r \in Chan, Disconnect(l, r) PROVE IInv'
  BY <1>7, DisconnectKeeps DEF Disconnect, MutexFree
<1>8. ASSUME NEW c \in Chan, ReleaseStart(c) PROVE IInv'
  <2>1. /\ op = NoOp /\ op' = NoOp /\ found' = found \ {c}
        /\ rel[c] = "none" /\ rel' = [rel EXCEPT ![c] = "unlisted"]
        /\ UNCHANGED << listenPort, portHead, pairHead >>
    BY <1>8 DEF ReleaseStart, StillFound, MutexFree, listVars
  <2>2. PortType' /\ RelInv'
    BY <2>1 DEF PortType, RelInv
  <2> QED
    BY <2>1, <2>2, ReleaseKeeps DEF PortType, NoStalePort, listVars
<1>9. ASSUME NEW c \in Chan, TakeListen(c) PROVE IInv'
  <2>1. /\ op = NoOp /\ rel[c] = "unlisted" /\ listenPort[c] # "NULL"
        /\ rel' = [rel EXCEPT ![c] = "freeing"]
        /\ UNCHANGED << found, listenPort, portHead, pairHead, op >>
    BY <1>9 DEF TakeListen, MutexFree, chanVars, listVars
  <2>2. PortType' /\ RelInv'
    BY <2>1 DEF PortType, RelInv
  <2> QED
    BY <2>1, <2>2, ReleaseKeeps DEF PortType, NoStalePort, listVars
<1>10. ASSUME NEW c \in Chan, FreeDisconnect(c) \/ DropPort(c) PROVE IInv'
  <2>1. op = NoOp
    BY <1>10 DEF FreeDisconnect, DropPort, OpInv
  <2>2. PICK l \in Chan, r \in Chan : DisconnectChan(l, r)
    BY <1>10 DEF FreeDisconnect, DropPort, PortType
  <2>3. UNCHANGED << chanVars, listenPort, op, rel >>
    BY <1>10 DEF FreeDisconnect, DropPort
  <2> QED
    BY <2>1, <2>2, <2>3, DisconnectKeeps
<1>11. ASSUME NEW c \in Chan, FreeListen(c) PROVE IInv'
  <2>1. /\ rel[c] = "freeing" /\ portHead[c] = {} /\ op' = op
        /\ listenPort' = [listenPort EXCEPT ![c] = "freed"]
        /\ rel' = [rel EXCEPT ![c] = "freed"]
        /\ UNCHANGED << found, portHead, pairHead >>
    BY <1>11 DEF FreeListen, LoopDone, chanVars, listVars
  <2>2. op = NoOp
    BY <2>1 DEF OpInv
  <2>3. PortType' /\ RelInv'
    BY <2>1 DEF PortType, RelInv
  <2>4. ASSUME NEW l \in Chan, NEW r \in Chan, r \in portHead[l] \/ l \in pairHead[r]
        PROVE  /\ listenPort'[l] = "port"
               /\ {l, r} \subseteq {d \in Chan : d \in found' \/ rel'[d] # "none"}
    <3>1. r \in portHead[l]
      BY <2>4 DEF PairsAgree
    <3> QED
      BY <2>1, <3>1 DEF PortType, NoStalePort
  <2> QED
    BY <2>1, <2>2, <2>3, <2>4, ReleaseKeeps DEF listVars
<1>12. ASSUME NEW c \in Chan, NullListen(c) PROVE IInv'
  <2>1. /\ rel[c] = "freed" /\ op' = op
        /\ listenPort' = [listenPort EXCEPT ![c] = "NULL"]
        /\ rel' = [rel EXCEPT ![c] = "unported"]
        /\ UNCHANGED << found, portHead, pairHead >>
    BY <1>12 DEF NullListen, chanVars, listVars
  <2>2. listenPort[c] = "freed"
    BY <2>1 DEF RelInv
  <2>3. PortType' /\ RelInv'
    BY <2>1 DEF PortType, RelInv
  <2>4. OpInv'
    BY <2>1, <2>2 DEF OpInv, PortType
  <2>5. PairsAgree'
    BY <2>1 DEF PairsAgree
  <2>6. NoStalePort'
    BY <2>1, <2>2 DEF NoStalePort, PortType
  <2> QED
    BY <2>3, <2>4, <2>5, <2>6
<1>13. ASSUME NEW c \in Chan, ClearChan(c) PROVE IInv'
  <2>1. /\ rel[c] = "dropping" /\ pairHead[c] = {} /\ op' = op
        /\ rel' = [rel EXCEPT ![c] = "none"]
        /\ UNCHANGED << found, listenPort, portHead, pairHead >>
    BY <1>13 DEF ClearChan, listVars
  <2>2. op = NoOp
    BY <2>1 DEF OpInv
  <2>3. PortType' /\ RelInv'
    BY <2>1 DEF PortType, RelInv
  <2>4. ASSUME NEW l \in Chan, NEW r \in Chan, r \in portHead[l] \/ l \in pairHead[r]
        PROVE  /\ listenPort'[l] = "port"
               /\ {l, r} \subseteq {d \in Chan : d \in found' \/ rel'[d] # "none"}
    <3>1. l \in pairHead[r] /\ listenPort[l] = "port"
      BY <2>2, <2>4 DEF PairsAgree, NoStalePort, NoOp
    <3>2. r # c /\ l # c
      BY <2>1, <3>1 DEF RelInv
    <3> QED
      BY <2>1, <3>1, <3>2 DEF PortType, NoStalePort
  <2> QED
    BY <2>1, <2>2, <2>3, <2>4, ReleaseKeeps DEF listVars
<1>14. ASSUME NEW c \in Chan, TakePorts(c) PROVE IInv'
  <2>1. /\ op = NoOp
        /\ rel[c] = "unported" \/ (rel[c] = "unlisted" /\ listenPort[c] = "NULL")
        /\ rel' = [rel EXCEPT ![c] = "dropping"]
        /\ UNCHANGED << found, listenPort, portHead, pairHead, op >>
    BY <1>14 DEF TakePorts, MutexFree, chanVars, listVars
  <2>2. PortType' /\ RelInv'
    BY <2>1 DEF PortType, RelInv
  <2> QED
    BY <2>1, <2>2, ReleaseKeeps DEF PortType, NoStalePort, listVars
<1>15. CASE UNCHANGED vars
  BY <1>15 DEF vars, chanVars, listVars, PortType, OpInv, RelInv, PairsAgree, NoStalePort
<1> QED
  BY <1>1, <1>2, <1>3, <1>4, <1>5, <1>6, <1>7, <1>8, <1>9, <1>10, <1>11, <1>12, <1>13, <1>14, <1>15, <1>16
  DEF Next, ConnectStep, ReleaseStep

LEMMA IInvAlways == Spec => []IInv
BY IInvInit, IInvStep, PTL DEF Spec

(* A port is in the list of its receiver just when it is in the list of    *)
(* its listener, for all channels, in every state of every connection,     *)
(* disconnection and release (__FDD_ConnectChan, __FDD_DisconnectChan,     *)
(* FDD_ReleaseChan).                                                       *)
THEOREM PairsAlwaysAgree == Spec => []PairsAgree
<1>1. IInv => PairsAgree
  BY DEF IInv
<1> QED
  BY <1>1, IInvAlways, PTL

(* No port leads to a channel that has gone or to a listen port that was   *)
(* freed, however the release of channels and the making of connections    *)
(* interleave (FDD_ReleaseChan, FDD_ConnectChanById).                      *)
THEOREM NeverStalePort == Spec => []NoStalePort
<1>1. IInv => NoStalePort
  BY DEF IInv
<1> QED
  BY <1>1, IInvAlways, PTL

-----------------------------------------------------------------------------
(* The conversion trees.                                                   *)

(* The types of the variables of the trees.                                *)
TreeType ==
  /\ late \subseteq Type
  /\ dataType \in [Chan -> Type \cup {NULL}] /\ vswHead \in [Chan -> SUBSET VswId]
  /\ basePort \in [Chan -> Vsw \cup {NULL}] /\ vswPort \in [Port -> Vsw \cup {NULL}]
  /\ fwdHead \in [Vsw -> SUBSET Port] /\ ref \in [Vsw -> Nat]
  /\ conv \in [VswId -> (Type \X Type) \cup {NoConv}]

(* The forwarding lists and the references agree (RefsCounted), and the    *)
(* lists are finite.                                                       *)
CountInv == \A v \in Vsw :
  /\ fwdHead[v] = {p \in Port : vswPort[p] = v} /\ IsFiniteSet(fwdHead[v])
  /\ ref[v] = Cardinality(fwdHead[v]) + (IF v \in Made THEN 1 ELSE 0)
              + (IF v \in Chan /\ listenPort[v] = "port" THEN 2 ELSE 0)

(* What a converter of l hangs in: the base port, and that one in the vsw  *)
(* of l.                                                                   *)
ParentOf(l, v) == IF v = basePort[l] THEN l ELSE basePort[l]

(* A listener has its converters to itself. Each has a reference and is    *)
(* attached to its parent, but for those in the making, and a port is      *)
(* attached to a vsw of its listener or to nothing.                        *)
ListInv ==
  /\ \A l \in Chan :
       /\ basePort[l] \in {NULL, l} \cup vswHead[l]
       /\ listenPort[l] # "port" => vswHead[l] = {} /\ basePort[l] = NULL
       /\ listenPort[l] = "port" => dataType[l] # NULL
       /\ \A v \in vswHead[l] :
            /\ ref[v] > 0 /\ \A m \in Chan : v \in vswHead[m] => m = l
            /\ IF vswPort[v] = NULL THEN v \in Made /\ l = op.l
               ELSE basePort[l] # NULL /\ vswPort[v] = ParentOf(l, v)
  /\ \A v \in VswId : (\A l \in Chan : v \notin vswHead[l]) => ref[v] = 0 /\ vswPort[v] = NULL
  /\ \A l, r \in Chan :
       IF r \in portHead[l] THEN vswPort[<< l, r >>] \in {l} \cup vswHead[l] ELSE vswPort[<< l, r >>] = NULL

(* Each converter takes the type its parent makes, no two vsw of a         *)
(* listener make the same type but one that was late, the base port makes  *)
(* the base type, and each receiver gets its own.                          *)
StreamInv ==
  /\ \A l \in Chan :
       /\ \A v \in vswHead[l] : conv[v] \in Type \X Type /\ (basePort[l] # NULL => conv[v][1] = OutType(ParentOf(l, v)))
       /\ \A u, v \in {l} \cup vswHead[l] : OutType(u) = OutType(v) => u = v \/ OutType(u) \in late
       /\ basePort[l] # NULL => OutType(basePort[l]) = BaseType
       /\ listenPort[l] = "port" /\ basePort[l] # l => ChanType[l] # BaseType
  /\ \A l, r \in Chan : r \in portHead[l] => OutType(vswPort[<< l, r >>]) = dataType[r]

(* The port of the connection under way.                                   *)
Own == << op.l, op.r >>
(* The converters of its listener.                                         *)
OwnHead == vswHead[op.l]

(* A vsw that puts out the receiver's type does so because the type came   *)
(* late.                                                                   *)
LateIn(vsws) == \A v \in vsws : OutType(v) = dataType[op.r] => dataType[op.r] \in late

(* It still looks for a vsw that fits, or will decide.                     *)
Looking ==
  /\ op.make = << >> /\ op.todo = << >> /\ op.made = << >> /\ vswPort[Own] = NULL
  /\ op.look \subseteq {op.l} \cup OwnHead /\ LateIn(({op.l} \cup OwnHead) \ op.look)

(* It still makes converters: nothing of it is attached, and nobody makes  *)
(* the receiver's type unless it came late.  What is made was decided for  *)
(* that type, or for NULL.                                                 *)
Making ==
  /\ op.make # << >> /\ op.todo = << >> /\ vswPort[Own] = NULL
  /\ LateIn({op.l} \cup OwnHead)
  /\ \/ \E type \in {dataType[op.r], NULL} :
          /\ op.made = << >> /\ op.make = ToMake(op.l, type)
          /\ type # dataType[op.r] => dataType[op.r] \in late
     \/ \E v \in VswId :
          /\ op.made = << v >> /\ op.make = << << BaseType, NULL >> >>
          /\ basePort[op.l] = NULL /\ OwnHead = {v} /\ vswPort[v] = NULL
          /\ conv[v] = << ChanType[op.l], BaseType >> /\ fwdHead[v] = {}

(* It found a vsw of the type and attaches the port to it.                 *)
JoinOld == \E x \in {op.l} \cup OwnHead :
  /\ op.made = << >> /\ op.todo = << << Own, x >> >>
  /\ vswPort[Own] = NULL /\ OutType(x) = dataType[op.r]

(* It made one converter: the port is attached to it, then it to its       *)
(* parent.                                                                 *)
JoinOne == \E v \in OwnHead :
  /\ op.made = << v >> /\ OutType(v) = dataType[op.r] /\ vswPort[v] = NULL
  /\ basePort[op.l] # NULL /\ (v = basePort[op.l] => OwnHead = {v})
  /\ \/ op.todo = << << Own, v >>, << v, ParentOf(op.l, v) >> >> /\ vswPort[Own] = NULL
     \/ op.todo = << << v, ParentOf(op.l, v) >> >> /\ vswPort[Own] = v

(* It made the base port and a converter: the port is attached to the      *)
(* converter, that to the base port, and that to the listener.             *)
JoinTwo == \E u, v \in OwnHead :
  /\ op.made = << u, v >> /\ u # v /\ OutType(v) = dataType[op.r] /\ vswPort[u] = NULL
  /\ basePort[op.l] = u /\ OwnHead = {u, v}
  /\ \/ op.todo = << << Own, v >>, << v, u >>, << u, op.l >> >> /\ vswPort[v] = NULL /\ vswPort[Own] = NULL
     \/ op.todo = << << v, u >>, << u, op.l >> >> /\ vswPort[v] = NULL /\ vswPort[Own] = v
     \/ op.todo = << << u, op.l >> >> /\ vswPort[v] = u /\ vswPort[Own] = v

(* The shapes of a connection under way; only its own port hangs in a      *)
(* converter that it made.                                                 *)
ConnInv ==
  /\ op # NoOp => Looking \/ Making \/ (op.make = << >> /\ (JoinOld \/ JoinOne \/ JoinTwo))
  /\ \A p \in Chan \X Chan : vswPort[p] \in Made => p = Own

(* All of it.                                                              *)
TreeInv == TreeType /\ CountInv /\ ListInv /\ StreamInv /\ ConnInv

(* What is inductive.                                                     *)
FullInv == IInv /\ TreeInv

(* Channels, converters and ports have names of their own.                 *)
LEMMA NamesApart ==
  /\ \A c \in Chan : c \in Vsw /\ c \notin VswId /\ c \notin Port /\ c # NULL
  /\ \A v \in VswId : v \in Vsw /\ v \in Port /\ v \notin Chan /\ v \notin Chan \X Chan /\ v # NULL
  /\ \A p \in Chan \X Chan : p \in Port /\ p \notin VswId /\ p \notin Vsw
  /\ \A t \in Type : t # NULL
  /\ Vsw = Chan \cup VswId /\ Port = VswId \cup (Chan \X Chan)
  BY NameAssumption DEF Vsw, Port

(* Sequences of one, two and three.                                        *)
LEMMA Tuples ==
  ASSUME NEW x, NEW y, NEW z
  PROVE  /\ Len(<< x >>) = 1 /\ Head(<< x >>) = x /\ Tail(<< x >>) = << >> /\ << x >> # << >>
         /\ Len(<< x, y >>) = 2 /\ Head(<< x, y >>) = x /\ Tail(<< x, y >>) = << y >> /\ << x, y >> # << >>
         /\ Len(<< x, y, z >>) = 3 /\ Head(<< x, y, z >>) = x /\ Tail(<< x, y, z >>) = << y, z >>
         /\ << x, y, z >> # << >>
         /\ Append(<< >>, x) = << x >> /\ Append(<< x >>, y) = << x, y >>
<1>1. Len(<< x >>) = 1 /\ Head(<< x >>) = x /\ Tail(<< x >>) = << >> /\ << x >> # << >>
  OBVIOUS
<1>2. Len(<< x, y >>) = 2 /\ Head(<< x, y >>) = x /\ Tail(<< x, y >>) = << y >> /\ << x, y >> # << >>
  OBVIOUS
<1>3. Len(<< x, y, z >>) = 3 /\ Head(<< x, y, z >>) = x /\ << x, y, z >> # << >>
  OBVIOUS
<1>4. Tail(<< x, y, z >>) = << y, z >>
  OBVIOUS
<1>5. Append(<< >>, x) = << x >>
  OBVIOUS
<1>6. Append(<< x >>, y) = << x, y >>
  <2>1. << x >> \in Seq({x, y}) /\ << x, y >> \in Seq({x, y})
    OBVIOUS
  <2>2. /\ Append(<< x >>, y) \in Seq({x, y}) /\ Len(Append(<< x >>, y)) = 2
        /\ Append(<< x >>, y)[1] = x /\ Append(<< x >>, y)[2] = y
    BY <2>1, AppendProperties
  <2>3. Len(<< x, y >>) = 2 /\ << x, y >>[1] = x /\ << x, y >>[2] = y
    OBVIOUS
  <2> DEFINE s == Append(<< x >>, y)
             t == << x, y >>
  <2>4. s \in Seq({x, y}) /\ t \in Seq({x, y}) /\ Len(s) = Len(t) /\ \A i \in 1 .. Len(s) : s[i] = t[i]
    BY <2>1, <2>2, <2>3
  <2> HIDE DEF s, t
  <2>5. s = t
    BY <2>4, SeqEqual
  <2> QED
    BY <2>5 DEF s, t
<1> QED
  BY <1>1, <1>2, <1>3, <1>4, <1>5, <1>6

(* The converters made, by the shape of op.made, in a state and after a    *)
(* step.                                                                   *)
LEMMA MadeOf ==
  /\ op.made = << >> => Made = {}
  /\ \A v : op.made = << v >> => Made = {v}
  /\ \A u, v : op.made = << u, v >> => Made = {u, v}
  BY DEF Made

LEMMA MadeOfNext ==
  /\ op'.made = << >> => Made' = {}
  /\ \A v : op'.made = << v >> => Made' = {v}
  /\ \A u, v : op'.made = << u, v >> => Made' = {u, v}
  BY DEF Made

(* The converters in making of a state with no connection under way.       *)
LEMMA NoneMade == op = NoOp => Made = {}
  BY MadeOf DEF NoOp

(* The vsw of a listener, and what they put out.                           *)
LEMMA InVswHead ==
  ASSUME TreeInv, NEW l \in Chan, NEW v \in {l} \cup vswHead[l]
  PROVE  /\ v \in Vsw /\ (v = l \/ (v \in VswId /\ v # l))
         /\ OutType(v) \in Type /\ OutType(v) # NULL
  BY NamesApart, TypeAssumption DEF TreeInv, TreeType, StreamInv, OutType

(* What hangs in the forwarding list of a vsw of a listener.               *)
LEMMA Kids ==
  ASSUME FullInv, NEW l \in Chan, NEW v \in {l} \cup vswHead[l], NEW p \in fwdHead[v]
  PROVE  /\ vswPort[p] = v /\ p \in Port
         /\ \/ \E r \in portHead[l] : p = << l, r >>
            \/ p \in vswHead[l] /\ p # v /\ basePort[l] # NULL /\ v = ParentOf(l, p)
<1>1. v \in Vsw /\ v # NULL
  BY InVswHead, NamesApart DEF FullInv
<1>2. p \in Port /\ vswPort[p] = v
  BY <1>1 DEF FullInv, TreeInv, CountInv
<1>3. CASE p \in Chan \X Chan
  <2>1. PICK m \in Chan, r \in Chan : p = << m, r >>
    BY <1>3
  <2>2. r \in portHead[m] /\ v \in {m} \cup vswHead[m]
    BY <1>1, <1>2, <2>1 DEF FullInv, TreeInv, ListInv
  <2>3. m = l
    BY <2>2, InVswHead, NamesApart DEF FullInv, TreeInv, ListInv, TreeType
  <2> QED
    BY <1>2, <2>1, <2>2, <2>3
<1>4. CASE p \in VswId
  <2>1. PICK m \in Chan : p \in vswHead[m]
    BY <1>1, <1>2, <1>4 DEF FullInv, TreeInv, ListInv
  <2>2. basePort[m] # NULL /\ v = ParentOf(m, p)
    BY <1>1, <1>2, <2>1 DEF FullInv, TreeInv, ListInv
  <2>3. v \in {m} \cup vswHead[m] /\ p # m
    BY <1>4, <2>1, <2>2, NamesApart DEF FullInv, TreeInv, ListInv, ParentOf
  <2>4. m = l
    BY <2>3, InVswHead, NamesApart DEF FullInv, TreeInv, ListInv, TreeType
  <2>5. p # v
    BY <2>2, <2>3 DEF ParentOf
  <2> QED
    BY <1>2, <2>1, <2>2, <2>4, <2>5
<1> QED
  BY <1>2, <1>3, <1>4, NamesApart

(* At first there is no tree.                                              *)
LEMMA TreeInit == Init => TreeInv
<1> SUFFICES ASSUME Init PROVE TreeInv
  OBVIOUS
<1> USE NamesApart DEF Init
<1>1. TreeType
  BY DEF TreeType
<1>2. Made = {} /\ op = NoOp
  BY NoneMade
<1>3. CountInv
  BY SMTT(30), <1>2, FS_EmptySet DEF CountInv
<1>4. ListInv
  BY DEF ListInv
<1>5. StreamInv
  BY DEF StreamInv
<1>6. ConnInv
  BY <1>2 DEF ConnInv
<1> QED
  BY <1>1, <1>3, <1>4, <1>5, <1>6 DEF TreeInv

(* What a step that leaves the trees alone has to keep.                    *)
LEMMA QuietTree ==
  ASSUME TreeInv, UNCHANGED << dataType, late, portHead, treeVars, op >>,
         \A l \in Chan : (listenPort'[l] = "port") = (listenPort[l] = "port")
  PROVE  TreeInv'
<1> USE DEF TreeInv, treeVars
<1>1. Made' = Made
  BY DEF Made
<1>2. TreeType' /\ CountInv'
  BY <1>1 DEF TreeType, CountInv
<1>3. ListInv'
  BY <1>1 DEF ListInv, ParentOf
<1>4. StreamInv'
  BY DEF StreamInv, ParentOf, OutType
<1>5. ConnInv'
  BY SMTT(30), <1>1 DEF ConnInv, Looking, Making, LateIn, JoinOld, JoinOne, JoinTwo, Own, OwnHead, ParentOf, OutType, ToMake
<1> QED
  BY <1>2, <1>3, <1>4, <1>5

(* Converters in the making are in the list of their listener.             *)
LEMMA MadeInTree ==
  ASSUME FullInv
  PROVE  Made \subseteq VswId /\ (op # NoOp => op.l \in Chan /\ op.r \in Chan /\ Made \subseteq vswHead[op.l])
<1>1. CASE op = NoOp
  BY <1>1, NoneMade
<1>2. CASE op # NoOp
  <2>1. op.l \in Chan /\ op.r \in Chan
    BY <1>2 DEF FullInv, IInv, OpInv, PortType
  <2>2. Made \subseteq vswHead[op.l]
    <3>1. CASE Looking \/ Making
      BY <3>1, MadeOf DEF Looking, Making, OwnHead
    <3>2. CASE JoinOld \/ JoinOne \/ JoinTwo
      BY <3>2, MadeOf DEF JoinOld, JoinOne, JoinTwo, OwnHead
    <3> QED
      BY <1>2, <3>1, <3>2 DEF FullInv, TreeInv, ConnInv
  <2> QED
    BY <2>1, <2>2 DEF FullInv, TreeInv, TreeType
<1> QED
  BY <1>1, <1>2

(* A channel that has no listen port has no tree.                          *)
LEMMA NoTree ==
  ASSUME FullInv, NEW c \in Chan, listenPort[c] # "port"
  PROVE  /\ vswHead[c] = {} /\ basePort[c] = NULL /\ portHead[c] = {}
         /\ fwdHead[c] = {} /\ ref[c] = 0
<1>1. vswHead[c] = {} /\ basePort[c] = NULL
  BY DEF FullInv, TreeInv, ListInv
<1>2. portHead[c] = {}
  BY DEF FullInv, IInv, NoStalePort, PortType
<1>3. fwdHead[c] = {}
  BY <1>1, <1>2, Kids
<1>4. c \notin Made /\ c \in Vsw
  BY MadeInTree, NamesApart
<1>5. ref[c] = 0
  BY <1>3, <1>4, FS_EmptySet DEF FullInv, TreeInv, CountInv
<1> QED
  BY <1>1, <1>2, <1>3, <1>5

(* A channel that no port leads to is set up.                              *)
LEMMA SetUpTree ==
  ASSUME FullInv, NEW c \in Chan, listenPort[c] # "port", \A l \in Chan : c \notin portHead[l],
         op = NoOp \/ dataType[c] = NULL,
         dataType' = [dataType EXCEPT ![c] = ChanType[c]], InitListenChan(c),
         late \subseteq late', late' \subseteq Type, op # NoOp /\ op.r = c => ChanType[c] \in late',
         UNCHANGED << portHead, vswHead, vswPort, fwdHead, conv, op >>
  PROVE  TreeInv'
<1>1. /\ vswHead[c] = {} /\ basePort[c] = NULL /\ portHead[c] = {}
      /\ fwdHead[c] = {} /\ ref[c] = 0
  BY NoTree
<1>2. /\ Made' = Made /\ c \notin Made /\ c \in Vsw /\ ChanType[c] \in Type
      /\ op # NoOp => op.l \in Chan /\ op.l # c
  BY MadeInTree, NamesApart, TypeAssumption DEF Made, FullInv, IInv, OpInv
<1> DEFINE on == c \in Listens
<1>3. /\ on => listenPort' = [listenPort EXCEPT ![c] = "port"] /\ ref' = [ref EXCEPT ![c] = 2]
                 /\ basePort' = [basePort EXCEPT ![c] = IF ChanType[c] = BaseType THEN c ELSE NULL]
      /\ ~on => UNCHANGED << listenPort, ref, basePort >>
  BY DEF InitListenChan
<1> HIDE DEF on
<1>4. /\ \A l \in Chan : l # c => basePort'[l] = basePort[l] /\ listenPort'[l] = listenPort[l] /\ dataType'[l] = dataType[l]
      /\ \A v \in Vsw : v # c => ref'[v] = ref[v]
      /\ basePort'[c] \in {NULL, c} /\ dataType'[c] = ChanType[c]
      /\ listenPort'[c] = "port" => on /\ (basePort'[c] = NULL => ChanType[c] # BaseType)
      /\ basePort'[c] # NULL => ChanType[c] = BaseType /\ basePort'[c] = c /\ listenPort'[c] = "port"
  <2>1. /\ dataType \in [Chan -> Type \cup {NULL}] /\ listenPort \in [Chan -> {"NULL", "port", "freed"}]
        /\ basePort \in [Chan -> Vsw \cup {NULL}] /\ ref \in [Vsw -> Nat]
    BY DEF FullInv, IInv, PortType, TreeInv, TreeType
  <2>2. dataType'[c] = ChanType[c] /\ \A l \in Chan : l # c => dataType'[l] = dataType[l]
    BY <2>1
  <2>3. CASE on
    <3>1. /\ \A l \in Chan : l # c => basePort'[l] = basePort[l] /\ listenPort'[l] = listenPort[l]
          /\ \A v \in Vsw : v # c => ref'[v] = ref[v]
      BY <1>3, <2>1, <2>3
    <3>2. listenPort'[c] = "port" /\ basePort'[c] = IF ChanType[c] = BaseType THEN c ELSE NULL
      BY <1>3, <2>1, <2>3
    <3> QED
      BY <2>2, <2>3, <3>1, <3>2, NamesApart
  <2>4. CASE ~on
    BY <1>1, <1>3, <2>2, <2>4
  <2> QED
    BY <2>3, <2>4
<1>5. TreeType'
  BY <1>2, <1>3 DEF FullInv, TreeInv, TreeType
<1>6. CountInv'
  <2>1. ASSUME NEW v \in Vsw, v # c
        PROVE  /\ ref'[v] = ref[v]
               /\ (v \in Chan /\ listenPort'[v] = "port") = (v \in Chan /\ listenPort[v] = "port")
    BY <1>4, <2>1
  <2>2. ref'[c] = IF listenPort'[c] = "port" THEN 2 ELSE 0
    BY <1>1, <1>2, <1>3, <1>4 DEF FullInv, TreeInv, TreeType, IInv, PortType
  <2> QED
    BY <1>1, <1>2, <2>1, <2>2, FS_EmptySet DEF FullInv, TreeInv, CountInv
<1>7. ListInv'
  <2>1. ASSUME NEW l \in Chan, NEW v \in vswHead[l]
        PROVE  /\ ref'[v] > 0 /\ l # c
               /\ (ParentOf(l, v))' = ParentOf(l, v) /\ basePort'[l] = basePort[l]
    BY <1>1, <1>2, <1>4, InVswHead DEF ParentOf, FullInv, TreeInv, ListInv
  <2>2. ASSUME NEW v \in VswId PROVE ref'[v] = ref[v]
    BY <1>4, NamesApart
  <2>3. \A l \in Chan : listenPort'[l] = "port" => dataType'[l] # NULL
    BY <1>2, <1>4, NamesApart DEF FullInv, TreeInv, ListInv
  <2>4. \A l \in Chan : /\ basePort'[l] \in {NULL, l} \cup vswHead'[l]
                        /\ listenPort'[l] # "port" => vswHead'[l] = {} /\ basePort'[l] = NULL
    BY <1>1, <1>4 DEF FullInv, TreeInv, ListInv
  <2>5. ASSUME NEW l \in Chan, NEW v \in vswHead'[l]
        PROVE  /\ ref'[v] > 0 /\ \A m \in Chan : v \in vswHead'[m] => m = l
               /\ IF vswPort'[v] = NULL THEN v \in Made' /\ l = op'.l
                  ELSE basePort'[l] # NULL /\ vswPort'[v] = (ParentOf(l, v))'
    BY <1>2, <2>1 DEF FullInv, TreeInv, ListInv
  <2>6. /\ \A v \in VswId : (\A l \in Chan : v \notin vswHead'[l]) => ref'[v] = 0 /\ vswPort'[v] = NULL
        /\ \A l, r \in Chan : IF r \in portHead'[l] THEN vswPort'[<< l, r >>] \in {l} \cup vswHead'[l]
                              ELSE vswPort'[<< l, r >>] = NULL
    BY <2>2 DEF FullInv, TreeInv, ListInv
  <2> QED
    BY <2>3, <2>4, <2>5, <2>6 DEF ListInv
<1>8. StreamInv'
  <2>1. \A v : (OutType(v))' = OutType(v)
    BY DEF OutType
  <2>2. ASSUME NEW l \in Chan, l # c
        PROVE  /\ \A v : (ParentOf(l, v))' = ParentOf(l, v)
               /\ basePort'[l] = basePort[l] /\ listenPort'[l] = listenPort[l]
    BY <1>4, <2>2 DEF ParentOf
  <2>3. \A l, r \in Chan : r \in portHead'[l] => (OutType(vswPort[<< l, r >>]))' = dataType'[r]
    BY <1>4, <2>1 DEF FullInv, TreeInv, StreamInv
  <2>4. ASSUME NEW l \in Chan
        PROVE  /\ \A v \in vswHead'[l] :
                    conv'[v] \in Type \X Type /\ (basePort'[l] # NULL => conv'[v][1] = (OutType(ParentOf(l, v)))')
               /\ \A u, v \in {l} \cup vswHead'[l] : (OutType(u))' = (OutType(v))' => u = v \/ (OutType(u))' \in late'
               /\ basePort'[l] # NULL => (OutType(basePort[l]))' = BaseType
               /\ listenPort'[l] = "port" /\ basePort'[l] # l => ChanType[l] # BaseType
    <3>1. CASE l = c
      BY <1>1, <1>2, <1>4, <3>1, NamesApart DEF OutType
    <3>2. CASE l # c
      BY <2>2, <3>2 DEF FullInv, TreeInv, StreamInv, OutType
    <3> QED
      BY <3>1, <3>2
  <2> QED
    BY <2>3, <2>4 DEF StreamInv
<1>9. ConnInv'
  <2>1. CASE op = NoOp
    BY <1>2, <2>1 DEF FullInv, TreeInv, ConnInv, Own
  <2>2. CASE op # NoOp /\ dataType[c] = NULL
    <3>1. op.l \in Chan /\ op.l # c /\ basePort'[op.l] = basePort[op.l]
      BY <1>2, <1>4, <2>2
    <3>2. op.r # c => dataType'[op.r] = dataType[op.r]
      BY DEF FullInv, TreeInv, TreeType
    <3>3. op.r = c => dataType'[op.r] \in late' /\ dataType[op.r] = NULL
      BY <1>4, <2>2
    <3>8. ASSUME NEW vsws, LateIn(vsws) PROVE LateIn(vsws)'
      BY <3>2, <3>3, <3>8 DEF LateIn, OutType
    <3>9. Looking => Looking'
      BY <3>8 DEF Looking, LateIn, Own, OwnHead, OutType
    <3>10. \A type : ToMake(op.l, type) = (ToMake(op.l, type))'
      BY <3>1 DEF ToMake
    <3>11. Making => Making'
      BY <3>1, <3>2, <3>3, <3>8, <3>10 DEF Making, LateIn, Own, OwnHead, OutType
    <3>4. ASSUME NEW x \in {op.l} \cup vswHead[op.l], OutType(x) = dataType[op.r] PROVE op.r # c
      BY <2>2, <3>1, <3>4, InVswHead DEF FullInv
    <3>5. JoinOld => JoinOld'
      BY <3>2, <3>4 DEF JoinOld, Own, OwnHead, OutType
    <3>6. JoinOne => JoinOne'
      BY <3>1, <3>2, <3>4 DEF JoinOne, Own, OwnHead, OutType, ParentOf
    <3>7. JoinTwo => JoinTwo'
      BY <3>1, <3>2, <3>4 DEF JoinTwo, Own, OwnHead, OutType
    <3> QED
      BY <1>2, <3>5, <3>6, <3>7, <3>9, <3>11 DEF FullInv, TreeInv, ConnInv, Own
  <2> QED
    BY <2>1, <2>2
<1> QED
  BY <1>5, <1>6, <1>7, <1>8, <1>9 DEF TreeInv

(* A channel is initialised, or set up by VN_AddNode.                      *)
LEMMA InitChanTree ==
  ASSUME FullInv, NEW c \in Chan, InitChan(c)
  PROVE  TreeInv'
<1>1. /\ op = NoOp /\ c \notin found /\ rel[c] = "none" /\ UNCHANGED << late, op, portHead, vswHead, vswPort, fwdHead, conv >>
  BY DEF InitChan, MutexFree, listVars
<1>2. listenPort[c] # "port" /\ \A l \in Chan : c \notin portHead[l]
  BY <1>1 DEF FullInv, IInv, RelInv, NoStalePort
<1>3. CASE c \in Net
  BY <1>1, <1>3, QuietTree DEF InitChan, FullInv, treeVars
<1>4. CASE c \notin Net
  <2>1. late \subseteq late' /\ late' \subseteq Type
    BY <1>1 DEF FullInv, TreeInv, TreeType
  <2> QED
    BY <1>1, <1>2, <1>4, <2>1, SetUpTree DEF InitChan
<1> QED
  BY <1>3, <1>4

LEMMA SetUpIsTree ==
  ASSUME FullInv, NEW c \in Chan, SetUp(c)
  PROVE  TreeInv'
<1>1. /\ dataType[c] = NULL /\ UNCHANGED << op, portHead, vswHead, vswPort, fwdHead, conv >>
      /\ late \subseteq late' /\ late' \subseteq Type /\ (op.r = c => ChanType[c] \in late')
  BY TypeAssumption DEF SetUp, listVars, FullInv, TreeInv, TreeType
<1>2. listenPort[c] # "port"
  BY <1>1 DEF FullInv, TreeInv, ListInv
<1>3. ASSUME NEW l \in Chan, c \in portHead[l] PROVE FALSE
  <2>1. vswPort[<< l, c >>] \in {l} \cup vswHead[l] /\ OutType(vswPort[<< l, c >>]) = NULL
    BY <1>1, <1>3 DEF FullInv, TreeInv, ListInv, StreamInv
  <2> QED
    BY <2>1, InVswHead DEF FullInv
<1> QED
  BY <1>1, <1>2, <1>3, SetUpTree DEF SetUp

(* The last step of a release: nobody is connected to the channel.         *)
LEMMA ClearChanTree ==
  ASSUME FullInv, NEW c \in Chan, ClearChan(c)
  PROVE  TreeInv'
<1>1. /\ rel[c] = "dropping" /\ pairHead[c] = {} /\ dataType' = [dataType EXCEPT ![c] = NULL]
      /\ UNCHANGED << late, listenPort, listVars, treeVars, op >>
  BY DEF ClearChan
<1>2. op = NoOp /\ listenPort[c] = "NULL"
  BY <1>1 DEF FullInv, IInv, OpInv, RelInv
<1>3. \A l \in Chan : c \notin portHead[l]
  BY <1>1, <1>2, NamesApart DEF FullInv, IInv, PairsAgree, NoOp
<1> USE DEF FullInv, TreeInv, treeVars, listVars
<1>4. Made' = Made
  BY <1>1 DEF Made
<1>5. TreeType' /\ CountInv'
  BY <1>1, <1>4 DEF TreeType, CountInv
<1>6. ListInv'
  BY <1>1, <1>2, <1>4 DEF ListInv, ParentOf, TreeType
<1>7. StreamInv'
  BY <1>1, <1>3 DEF StreamInv, ParentOf, OutType, TreeType
<1>8. ConnInv'
  BY <1>1, <1>2, <1>4 DEF ConnInv, Own
<1> QED
  BY <1>5, <1>6, <1>7, <1>8

(* What any state with a connection under way gives.                       *)
LEMMA OpFields ==
  ASSUME FullInv, op # NoOp
  PROVE  /\ op = [l |-> op.l, r |-> op.r, look |-> op.look, make |-> op.make, made |-> op.made, todo |-> op.todo]
         /\ op.l \in Chan /\ op.r \in Chan /\ op.l # op.r /\ listenPort[op.l] = "port"
         /\ Own \in Chan \X Chan /\ Own \in Port
         /\ (op.make # << >> => Making)
         /\ (op.todo # << >> => JoinOld \/ JoinOne \/ JoinTwo)
<1>1. /\ op = [l |-> op.l, r |-> op.r, look |-> op.look, make |-> op.make, made |-> op.made, todo |-> op.todo]
      /\ op.l \in Chan /\ op.r \in Chan /\ op.l # op.r /\ listenPort[op.l] = "port"
  BY DEF FullInv, IInv, PortType, OpInv
<1>2. Own \in Chan \X Chan /\ Own \in Port
  BY <1>1, NamesApart DEF Own
<1>3. op.make # << >> => Making
  BY DEF FullInv, TreeInv, ConnInv, Looking
<1>4. op.todo # << >> => JoinOld \/ JoinOne \/ JoinTwo
  BY DEF FullInv, TreeInv, ConnInv, Looking, Making
<1> QED
  BY <1>1, <1>2, <1>3, <1>4

(* A connection begins, looks for a vsw that fits, and decides what to     *)
(* make.  None of these steps changes a tree.                              *)
LEMMA NoTreeYet ==
  ASSUME FullInv, Made' = Made, ConnInv', op = NoOp \/ op'.l = op.l,
         UNCHANGED << dataType, late, listenPort, portHead, treeVars >>
  PROVE  TreeInv'
<1>1. TreeType' /\ CountInv'
  BY DEF FullInv, TreeInv, TreeType, CountInv, treeVars
<1>2. ASSUME NEW l \in Chan, NEW v \in vswHead[l], vswPort[v] = NULL PROVE v \in Made' /\ l = op'.l
  BY <1>2, NoneMade DEF FullInv, TreeInv, ListInv
<1>3. ListInv'
  BY <1>2 DEF FullInv, TreeInv, ListInv, ParentOf, treeVars
<1>4. StreamInv'
  BY DEF FullInv, TreeInv, StreamInv, ParentOf, OutType, treeVars
<1> QED
  BY <1>1, <1>3, <1>4 DEF TreeInv

LEMMA ConnectStartTree ==
  ASSUME FullInv, NEW l \in Chan, NEW r \in Chan, ConnectStart(l, r)
  PROVE  TreeInv'
<1>1. /\ op = NoOp /\ r \notin portHead[l]
      /\ UNCHANGED << dataType, late, listenPort, portHead, treeVars >>
  BY DEF ConnectStart, MutexFree, chanVars, listVars
<1>2. Made = {} /\ vswPort[<< l, r >>] = NULL
  BY <1>1, NoneMade DEF FullInv, TreeInv, ListInv
<1>3. /\ op'.l = l /\ op'.r = r /\ op'.look = {l} \cup vswHead[l]
      /\ op'.make = << >> /\ op'.made = << >> /\ op'.todo = << >>
  BY DEF ConnectStart, NoOp
<1>4. Made' = {}
  BY <1>3 DEF Made
<1>5. Looking'
  BY <1>1, <1>2, <1>3 DEF Looking, LateIn, Own, OwnHead, treeVars
<1> QED
  BY <1>1, <1>2, <1>4, <1>5, NoTreeYet DEF ConnInv

LEMMA CompareTree ==
  ASSUME FullInv, NEW v \in Vsw, Compare(v)
  PROVE  TreeInv'
<1>1. /\ op # NoOp /\ v \in op.look /\ op.make = << >> /\ op.todo = << >>
      /\ UNCHANGED << dataType, late, listenPort, portHead, treeVars >>
  BY DEF Compare, NoOp, chanVars, listVars, FullInv, IInv, OpInv
<1>2. Looking
  BY <1>1 DEF FullInv, TreeInv, ConnInv, Making, JoinOld, JoinOne, JoinTwo
<1>3. op = [l |-> op.l, r |-> op.r, look |-> op.look, make |-> op.make, made |-> op.made, todo |-> op.todo]
  BY <1>1, OpFields
<1>4. CASE OutType(v) = dataType[op.r]
  <2>1. /\ op'.l = op.l /\ op'.r = op.r /\ op'.make = << >> /\ op'.made = << >>
        /\ op'.todo = << << << op.l, op.r >>, v >> >>
    BY <1>1, <1>2, <1>3, <1>4 DEF Compare, Looking
  <2>2. JoinOld'
    BY <1>1, <1>2, <1>4, <2>1 DEF JoinOld, Looking, Own, OwnHead, OutType, treeVars
  <2>3. Made' = {} /\ Made = {}
    BY <1>2, <2>1 DEF Made, Looking
  <2> QED
    BY <1>1, <2>1, <2>2, <2>3, NoTreeYet DEF ConnInv
<1>5. CASE OutType(v) # dataType[op.r]
  <2>1. /\ op'.l = op.l /\ op'.r = op.r /\ op'.make = << >> /\ op'.made = << >> /\ op'.todo = << >>
        /\ op'.look = op.look \ {v}
    BY <1>1, <1>2, <1>3, <1>5 DEF Compare, Looking
  <2>2. Looking'
    BY <1>1, <1>2, <1>5, <2>1 DEF Looking, LateIn, Own, OwnHead, OutType, treeVars
  <2>3. Made' = {} /\ Made = {}
    BY <1>2, <2>1 DEF Made, Looking
  <2> QED
    BY <1>1, <2>1, <2>2, <2>3, NoTreeYet DEF ConnInv
<1> QED
  BY <1>4, <1>5

LEMMA DecideTree ==
  ASSUME FullInv, Decide
  PROVE  TreeInv'
<1>1. /\ op # NoOp /\ op.look = {} /\ op.make = << >> /\ op.todo = << >>
      /\ UNCHANGED << dataType, late, listenPort, portHead, treeVars >>
  BY DEF Decide, chanVars, listVars
<1>2. Looking
  BY <1>1 DEF FullInv, TreeInv, ConnInv, Making, JoinOld, JoinOne, JoinTwo
<1>3. /\ op'.l = op.l /\ op'.r = op.r /\ op'.make = ToMake(op.l, dataType[op.r])
      /\ op'.made = << >> /\ op'.todo = << >>
  BY <1>1, <1>2, OpFields DEF Decide, Looking
<1>4. op'.make # << >>
  BY <1>3, Tuples DEF ToMake
<1>5. Making'
  BY <1>1, <1>2, <1>3, <1>4 DEF Making, Looking, LateIn, Own, OwnHead, OutType, ToMake, treeVars
<1>6. Made' = {} /\ Made = {}
  BY <1>2, <1>3 DEF Made, Looking
<1> QED
  BY <1>1, <1>3, <1>5, <1>6, NoTreeYet DEF ConnInv

(* What a connection in the making has, by what is to be made.             *)
CreateBeside(v) ==
  /\ basePort[op.l] # NULL /\ Made = {} /\ UNCHANGED basePort
  /\ conv'[v] = << BaseType, dataType[op.r] >> /\ LateIn({op.l} \cup OwnHead)
  /\ op'.make = << >> /\ op'.made = << v >> /\ op'.todo = << << Own, v >>, << v, basePort[op.l] >> >>

CreateFirst(v) ==
  /\ basePort[op.l] = NULL /\ Made = {} /\ OwnHead = {} /\ UNCHANGED basePort
  /\ conv'[v] = << ChanType[op.l], BaseType >>
  /\ LateIn({op.l}) /\ (dataType[op.r] = BaseType => BaseType \in late)
  /\ op'.make = << << BaseType, NULL >> >> /\ op'.made = << v >> /\ op'.todo = << >>

CreateBase(v) ==
  /\ basePort[op.l] = NULL /\ Made = {} /\ OwnHead = {} /\ basePort' = [basePort EXCEPT ![op.l] = v]
  /\ conv'[v] = << ChanType[op.l], BaseType >> /\ dataType[op.r] = BaseType
  /\ op'.make = << >> /\ op'.made = << v >> /\ op'.todo = << << Own, v >>, << v, op.l >> >>

CreateSecond(v, u) ==
  /\ basePort[op.l] = NULL /\ Made = {u} /\ OwnHead = {u} /\ basePort' = [basePort EXCEPT ![op.l] = u]
  /\ u # v /\ vswPort[u] = NULL /\ fwdHead[u] = {} /\ conv[u] = << ChanType[op.l], BaseType >>
  /\ conv'[v] = << BaseType, dataType[op.r] >> /\ LateIn({op.l, u}) /\ dataType[op.r] \in Type
  /\ op'.make = << >> /\ op'.made = << u, v >>
  /\ op'.todo = << << Own, v >>, << v, u >>, << u, op.l >> >>

(* A converter that has no reference is nowhere.                           *)
LEMMA FreeVsw ==
  ASSUME FullInv, NEW v \in VswId, ref[v] = 0
  PROVE  /\ \A l \in Chan : v \notin vswHead[l]
         /\ vswPort[v] = NULL /\ fwdHead[v] = {} /\ v \notin Made
<1>1. \A l \in Chan : v \notin vswHead[l]
  BY DEF FullInv, TreeInv, ListInv
<1>2. vswPort[v] = NULL
  BY <1>1 DEF FullInv, TreeInv, ListInv
<1>3. v \in Vsw /\ IsFiniteSet(fwdHead[v]) /\ Cardinality(fwdHead[v]) \in Nat /\ v \notin Chan
  BY NamesApart, FS_CardinalityType DEF FullInv, TreeInv, CountInv
<1>4. Cardinality(fwdHead[v]) = 0 /\ v \notin Made
  BY <1>3 DEF FullInv, TreeInv, CountInv
<1> QED
  BY <1>1, <1>2, <1>3, <1>4, FS_EmptySet

(* What a converter is made for.                                           *)
LEMMA CreateCases ==
  ASSUME FullInv, NEW v \in VswId, CreateVsw(v)
  PROVE  /\ op'.l = op.l /\ op'.r = op.r /\ Made' = Made \cup {v}
         /\ \/ CreateBeside(v) \/ CreateBase(v)
            \/ CreateFirst(v)
            \/ \E u \in VswId : CreateSecond(v, u)
<1>1. /\ op # NoOp /\ op.make # << >> /\ Wanted \in Conv /\ ref[v] = 0
      /\ conv' = [conv EXCEPT ![v] = Wanted]
  BY DEF CreateVsw, NoOp
<1>2. /\ op = [l |-> op.l, r |-> op.r, look |-> op.look, make |-> op.make, made |-> op.made, todo |-> op.todo]
      /\ op.l \in Chan /\ op.r \in Chan /\ listenPort[op.l] = "port" /\ Making /\ op.todo = << >>
  BY <1>1, OpFields DEF Making
<1>3. conv'[v] = Wanted /\ Wanted \in Type \X Type
  BY <1>1, TypeAssumption DEF FullInv, TreeInv, TreeType
<1> DEFINE made == Append(op.made, v)
<1>5. ASSUME Len(op.make) = 1
      PROVE  /\ op' = [op EXCEPT !.make = << >>, !.made = made, !.todo = Links(<< op.l, op.r >>, Anchor(op.l), made)]
             /\ basePort' = [basePort EXCEPT ![op.l] = IF @ = NULL THEN made[1] ELSE @]
  BY <1>5 DEF CreateVsw
<1>6. ASSUME Len(op.make) # 1
      PROVE  op' = [op EXCEPT !.make = Tail(@), !.made = made] /\ UNCHANGED basePort
  BY <1>6 DEF CreateVsw
<1> HIDE DEF made
<1>7. ASSUME Len(op.make) = 1
      PROVE  /\ op'.l = op.l /\ op'.r = op.r /\ op'.make = << >> /\ op'.made = made
             /\ op'.todo = Links(<< op.l, op.r >>, Anchor(op.l), made)
  BY <1>2, <1>5, <1>7
<1>8. ASSUME Len(op.make) # 1
      PROVE  /\ op'.l = op.l /\ op'.r = op.r /\ op'.make = Tail(op.make) /\ op'.made = made
             /\ op'.todo = << >>
  BY <1>2, <1>6, <1>8
<1>9. LateIn({op.l} \cup OwnHead)
  BY <1>2 DEF Making
<1>10. ASSUME NEW x, Head(op.make) = << x, NULL >>
       PROVE  Wanted = << x, dataType[op.r] >> /\ dataType[op.r] \in Type
  <2>1. Wanted = << x, dataType[op.r] >>
    BY <1>10 DEF Wanted
  <2> QED
    BY <1>3, <2>1
<1>13. ASSUME NEW x, NEW y, y # NULL, Head(op.make) = << x, y >>
       PROVE  Wanted = << x, y >>
  BY <1>13 DEF Wanted
<1>11. ASSUME NEW type \in {dataType[op.r], NULL}, op.made = << >>, op.make = ToMake(op.l, type),
              type # dataType[op.r] => dataType[op.r] \in late
       PROVE  Made' = Made \cup {v} /\ (CreateBeside(v) \/ CreateBase(v) \/ CreateFirst(v))
  <2>1. made = << v >> /\ made[1] = v /\ Len(made) = 1 /\ Made = {}
    BY <1>11, Tuples, MadeOf DEF made
  <2>2. basePort[op.l] = NULL => OwnHead = {}
    BY <1>2, <2>1 DEF OwnHead, FullInv, TreeInv, ListInv
  <2>3. basePort \in [Chan -> Vsw \cup {NULL}]
    BY DEF FullInv, TreeInv, TreeType
  <2>4. CASE basePort[op.l] # NULL
    <3>1. op.make = << << BaseType, NULL >> >>
      BY <1>11, <2>4 DEF ToMake
    <3>2. Len(op.make) = 1 /\ Head(op.make) = << BaseType, NULL >>
      BY <3>1, Tuples
    <3>3. Wanted = << BaseType, dataType[op.r] >>
      BY <1>10, <3>2
    <3>5. basePort' = basePort
      BY <1>2, <1>5, <2>3, <2>4, <3>2
    <3>6. op'.todo = << << Own, v >>, << v, basePort[op.l] >> >>
      BY <1>7, <2>1, <2>4, <3>2 DEF Links, Anchor, Own
    <3>7. CreateBeside(v)
      BY <1>3, <1>7, <1>9, <2>1, <2>4, <3>2, <3>3, <3>5, <3>6 DEF CreateBeside
    <3> QED
      BY <1>7, <2>1, <3>2, <3>7, MadeOfNext
  <2>5. CASE basePort[op.l] = NULL /\ type # BaseType
    <3>1. op.make = << << ChanType[op.l], BaseType >>, << BaseType, NULL >> >>
      BY <1>11, <2>5 DEF ToMake
    <3>2. Len(op.make) # 1 /\ Head(op.make) = << ChanType[op.l], BaseType >> /\ Tail(op.make) = << << BaseType, NULL >> >>
      BY <3>1, Tuples
    <3>3. Wanted = << ChanType[op.l], BaseType >>
      BY <1>13, <3>2, NamesApart, TypeAssumption, NameAssumption
    <3>4. dataType[op.r] = BaseType => BaseType \in late
      BY <1>11, <2>5
    <3>5. CreateFirst(v)
      BY <1>3, <1>6, <1>8, <1>9, <2>1, <2>2, <2>5, <3>2, <3>3, <3>4 DEF CreateFirst
    <3> QED
      BY <1>8, <2>1, <3>2, <3>5, MadeOfNext
  <2>6. CASE basePort[op.l] = NULL /\ type = BaseType
    <3>1. op.make = << << ChanType[op.l], NULL >> >>
      BY <1>11, <2>6 DEF ToMake
    <3>2. Len(op.make) = 1 /\ Head(op.make) = << ChanType[op.l], NULL >>
      BY <3>1, Tuples
    <3>3. type = dataType[op.r]
      BY <1>11, <2>6, NamesApart, TypeAssumption, NameAssumption
    <3>4. basePort' = [basePort EXCEPT ![op.l] = v]
      BY <1>2, <1>5, <2>1, <2>3, <2>6, <3>2
    <3>5. op'.todo = << << Own, v >>, << v, op.l >> >>
      BY <1>7, <2>1, <2>6, <3>2 DEF Links, Anchor, Own
    <3>6. Wanted = << ChanType[op.l], BaseType >>
      BY <1>10, <2>6, <3>2, <3>3
    <3>7. CreateBase(v)
      BY <1>3, <1>7, <2>1, <2>2, <2>6, <3>2, <3>3, <3>4, <3>5, <3>6 DEF CreateBase
    <3> QED
      BY <1>7, <2>1, <3>2, <3>7, MadeOfNext
  <2> QED
    BY <2>4, <2>5, <2>6
<1>12. ASSUME NEW u \in VswId, op.made = << u >>, op.make = << << BaseType, NULL >> >>,
              basePort[op.l] = NULL, OwnHead = {u}, vswPort[u] = NULL,
              conv[u] = << ChanType[op.l], BaseType >>, fwdHead[u] = {}
       PROVE  Made' = Made \cup {v} /\ CreateSecond(v, u)
  <2>2. made = << u, v >> /\ made[1] = u /\ made[2] = v /\ Len(made) = 2 /\ Made = {u}
    <3>1. Made = {u}
      BY <1>12, MadeOf
    <3>2. made = Append(<< u >>, v)
      BY <1>12 DEF made
    <3>3. made = << u, v >>
      BY <3>2, Tuples
    <3> QED
      BY <3>1, <3>3, Tuples
  <2>3. Len(op.make) = 1 /\ Head(op.make) = << BaseType, NULL >>
    BY <1>12, Tuples
  <2>4. Wanted = << BaseType, dataType[op.r] >> /\ dataType[op.r] \in Type
    BY <1>10, <2>3
  <2>5. LateIn({op.l, u})
    BY <1>9, <1>12 DEF LateIn
  <2>6. basePort' = [basePort EXCEPT ![op.l] = u]
    BY <1>2, <1>5, <1>12, <2>2, <2>3 DEF FullInv, TreeInv, TreeType
  <2>7. op'.todo = << << Own, v >>, << v, u >>, << u, op.l >> >>
    BY <1>7, <1>12, <2>2, <2>3 DEF Links, Anchor, Own
  <2>8. u # v
    BY <1>1, <1>2, <1>12, FreeVsw DEF OwnHead
  <2>9. CreateSecond(v, u)
    BY <1>3, <1>7, <1>12, <2>2, <2>3, <2>4, <2>5, <2>6, <2>7, <2>8 DEF CreateSecond
  <2>10. Made' = Made \cup {v}
    BY <1>7, <2>2, <2>3, MadeOfNext
  <2> QED
    BY <2>9, <2>10
<1>14. \/ \E type \in {dataType[op.r], NULL} :
            /\ op.made = << >> /\ op.make = ToMake(op.l, type)
            /\ type # dataType[op.r] => dataType[op.r] \in late
       \/ \E u \in VswId :
            /\ op.made = << u >> /\ op.make = << << BaseType, NULL >> >>
            /\ basePort[op.l] = NULL /\ OwnHead = {u} /\ vswPort[u] = NULL
            /\ conv[u] = << ChanType[op.l], BaseType >> /\ fwdHead[u] = {}
  BY <1>2 DEF Making
<1>15. op'.l = op.l /\ op'.r = op.r
  BY <1>7, <1>8
<1> QED
  BY <1>11, <1>12, <1>14, <1>15

(* A converter is made.                                                    *)
LEMMA CreateVswTree ==
  ASSUME FullInv, NEW v \in VswId, CreateVsw(v)
  PROVE  TreeInv'
<1>1. /\ op # NoOp /\ op.make # << >> /\ ref[v] = 0 /\ ref' = [ref EXCEPT ![v] = 1]
      /\ conv' = [conv EXCEPT ![v] = Wanted] /\ Wanted \in Type \X Type
      /\ vswHead' = [vswHead EXCEPT ![op.l] = @ \cup {v}]
      /\ UNCHANGED << dataType, late, listenPort, portHead, vswPort, fwdHead >>
  BY TypeAssumption DEF CreateVsw, NoOp, chanVars, listVars
<1>2. /\ op.l \in Chan /\ op.r \in Chan /\ op.l # op.r /\ listenPort[op.l] = "port"
      /\ Own \in Port /\ Own \in Chan \X Chan /\ vswPort[Own] = NULL /\ Own' = Own
      /\ op'.l = op.l /\ op'.r = op.r /\ Made' = Made \cup {v}
  BY <1>1, OpFields, CreateCases DEF Making, Own
<1>3. /\ CreateBeside(v) \/ CreateBase(v)
         \/ CreateFirst(v)
         \/ (\E u \in VswId : CreateSecond(v, u))
  BY CreateCases
<1>4. /\ v \in Vsw /\ v \notin Chan /\ v # NULL /\ \A l \in Chan : v \notin vswHead[l]
      /\ vswPort[v] = NULL /\ fwdHead[v] = {} /\ v \notin Made
  BY <1>1, FreeVsw, NamesApart
<1>5. /\ late \subseteq Type /\ dataType \in [Chan -> Type \cup {NULL}] /\ vswHead \in [Chan -> SUBSET VswId]
      /\ basePort \in [Chan -> Vsw \cup {NULL}] /\ vswPort \in [Port -> Vsw \cup {NULL}]
      /\ fwdHead \in [Vsw -> SUBSET Port] /\ ref \in [Vsw -> Nat]
      /\ conv \in [VswId -> (Type \X Type) \cup {NoConv}]
  BY DEF FullInv, TreeInv, TreeType
<1>6. /\ vswHead'[op.l] = vswHead[op.l] \cup {v} /\ \A l \in Chan : l # op.l => vswHead'[l] = vswHead[l]
      /\ conv'[v] = Wanted /\ \A u \in VswId : u # v => conv'[u] = conv[u]
      /\ ref'[v] = 1 /\ \A u \in Vsw : u # v => ref'[u] = ref[u]
  BY <1>1, <1>2, <1>4, <1>5
<1>7. /\ \A l \in Chan : l # op.l => basePort'[l] = basePort[l]
      /\ \/ basePort'[op.l] = basePort[op.l]
         \/ basePort[op.l] = NULL /\ basePort'[op.l] \in vswHead'[op.l] /\ vswHead[op.l] \subseteq Made
      /\ basePort' \in [Chan -> Vsw \cup {NULL}]
  <2>1. CASE CreateBeside(v)
    BY <1>5, <2>1 DEF CreateBeside
  <2>2. CASE CreateBase(v)
    BY <1>2, <1>4, <1>5, <1>6, <2>2 DEF CreateBase, OwnHead
  <2>3. CASE CreateFirst(v)
    BY <1>5, <2>3 DEF CreateFirst
  <2>4. ASSUME NEW u \in VswId, CreateSecond(v, u)
        PROVE  /\ \A l \in Chan : l # op.l => basePort'[l] = basePort[l]
               /\ basePort[op.l] = NULL /\ basePort'[op.l] \in vswHead'[op.l] /\ vswHead[op.l] \subseteq Made
               /\ basePort' \in [Chan -> Vsw \cup {NULL}]
    BY <1>2, <1>5, <1>6, <2>4, NamesApart DEF CreateSecond, OwnHead
  <2> QED
    BY <1>3, <2>1, <2>2, <2>3, <2>4
<1>8. \A u \in Vsw : u # v => (OutType(u))' = OutType(u)
  BY <1>6 DEF OutType, Vsw
<1>9. TreeType'
  BY <1>1, <1>2, <1>4, <1>5, <1>7 DEF TreeType
<1>10. CountInv'
  <2>1. fwdHead'[v] = {} /\ ref'[v] = 1 /\ v \in Made' /\ Cardinality(fwdHead'[v]) = 0
    <3>1. fwdHead'[v] = {} /\ ref'[v] = 1 /\ v \in Made'
      BY <1>1, <1>2, <1>4, <1>6
    <3> QED
      BY <3>1, FS_EmptySet
  <2>2. ASSUME NEW w \in Vsw
        PROVE  /\ fwdHead'[w] = {p \in Port : vswPort'[p] = w} /\ IsFiniteSet(fwdHead'[w])
               /\ ref'[w] = Cardinality(fwdHead'[w]) + (IF w \in Made' THEN 1 ELSE 0)
                            + (IF w \in Chan /\ listenPort'[w] = "port" THEN 2 ELSE 0)
    <3>1. fwdHead'[w] = {p \in Port : vswPort'[p] = w} /\ IsFiniteSet(fwdHead'[w])
      BY <1>1 DEF FullInv, TreeInv, CountInv
    <3>2. CASE w = v
      <4>1. (IF v \in Made' THEN 1 ELSE 0) = 1 /\ (IF v \in Chan /\ listenPort'[v] = "port" THEN 2 ELSE 0) = 0
        BY <1>4, <2>1
      <4>2. ref'[v] = Cardinality(fwdHead'[v]) + (IF v \in Made' THEN 1 ELSE 0)
                      + (IF v \in Chan /\ listenPort'[v] = "port" THEN 2 ELSE 0)
        BY <2>1, <4>1
      <4> QED
        BY <3>1, <3>2, <4>2
    <3>3. CASE w # v
      BY ZenonT(40), <1>1, <1>2, <1>6, <3>1, <3>3 DEF FullInv, TreeInv, CountInv
    <3> QED
      BY <3>1, <3>2, <3>3
  <2> QED
    BY <2>2 DEF CountInv
<1>11. ListInv'
  <2>1. ASSUME NEW l \in Chan
        PROVE  /\ basePort'[l] \in {NULL, l} \cup vswHead'[l]
               /\ listenPort'[l] # "port" => vswHead'[l] = {} /\ basePort'[l] = NULL
               /\ listenPort'[l] = "port" => dataType'[l] # NULL
    BY <1>1, <1>2, <1>6, <1>7 DEF FullInv, TreeInv, ListInv
  <2>2. ASSUME NEW l \in Chan, NEW u \in vswHead'[l]
        PROVE  /\ ref'[u] > 0 /\ \A m \in Chan : u \in vswHead'[m] => m = l
               /\ IF vswPort'[u] = NULL THEN u \in Made' /\ l = op'.l
                  ELSE basePort'[l] # NULL /\ vswPort'[u] = (ParentOf(l, u))'
    <3>1. CASE u = v
      BY <1>1, <1>2, <1>4, <1>6, <2>2, <3>1
    <3>2. CASE u # v
      <4>1. /\ u \in vswHead[l] /\ u \in Vsw /\ ref'[u] = ref[u] /\ ref[u] > 0 /\ vswPort'[u] = vswPort[u]
            /\ \A m \in Chan : u \in vswHead'[m] => m = l
        BY <1>1, <1>2, <1>5, <1>6, <2>2, <3>2, NamesApart DEF FullInv, TreeInv, ListInv
      <4>2. CASE vswPort[u] = NULL
        BY <1>2, <4>1, <4>2 DEF FullInv, TreeInv, ListInv
      <4>3. CASE vswPort[u] # NULL
        <5>1. basePort[l] # NULL /\ vswPort[u] = ParentOf(l, u)
          BY <4>1, <4>3 DEF FullInv, TreeInv, ListInv
        <5>2. basePort'[l] = basePort[l]
          BY <1>7, <5>1
        <5> QED
          BY <4>1, <4>3, <5>1, <5>2 DEF ParentOf
      <4> QED
        BY <4>1, <4>2, <4>3
    <3> QED
      BY <3>1, <3>2
  <2>3. ASSUME NEW u \in VswId, \A l \in Chan : u \notin vswHead'[l]
        PROVE  ref'[u] = 0 /\ vswPort'[u] = NULL
    <3>1. u # v /\ \A l \in Chan : u \notin vswHead[l]
      BY <1>2, <1>6, <2>3
    <3> QED
      BY <1>1, <1>6, <3>1, NamesApart DEF FullInv, TreeInv, ListInv
  <2>4. \A l, r \in Chan : IF r \in portHead'[l] THEN vswPort'[<< l, r >>] \in {l} \cup vswHead'[l]
                           ELSE vswPort'[<< l, r >>] = NULL
    <3>1. \A l \in Chan : vswHead[l] \subseteq vswHead'[l]
      BY <1>6
    <3> QED
      BY <1>1, <3>1 DEF FullInv, TreeInv, ListInv
  <2> QED
    BY <2>1, <2>2, <2>3, <2>4 DEF ListInv
<1>12. /\ \A w \in {op.l} \cup vswHead[op.l] : w # v /\ (OutType(w) = conv'[v][2] => OutType(w) \in late)
       /\ (OutType(v))' = conv'[v][2]
       /\ basePort'[op.l] # NULL => (OutType(basePort[op.l]))' = BaseType
       /\ \A w \in vswHead'[op.l] : basePort'[op.l] # NULL => conv'[w][1] = (OutType(ParentOf(op.l, w)))'
  <2>1. \A w \in {op.l} \cup vswHead[op.l] : w # v /\ w \in Vsw
    BY <1>2, <1>4, <1>5, NamesApart
  <2>2. (OutType(v))' = conv'[v][2] /\ (OutType(op.l))' = ChanType[op.l] /\ OutType(op.l) = ChanType[op.l]
    BY <1>2, <1>4 DEF OutType
  <2>3. basePort[op.l] = NULL => ChanType[op.l] # BaseType
    BY <1>2, NamesApart DEF FullInv, TreeInv, StreamInv
  <2>4. BaseType # NULL /\ ChanType[op.l] # NULL
    BY <1>2, NamesApart, TypeAssumption
  <2>5. CASE CreateBeside(v)
    <3>1. basePort'[op.l] = basePort[op.l] /\ basePort[op.l] # NULL /\ conv'[v] = << BaseType, dataType[op.r] >>
      BY <2>5 DEF CreateBeside
    <3>2. basePort[op.l] \in {op.l} \cup vswHead[op.l] /\ OutType(basePort[op.l]) = BaseType
      BY <1>2, <3>1 DEF FullInv, TreeInv, ListInv, StreamInv
    <3>3. (OutType(basePort[op.l]))' = BaseType
      <4>1. PICK b \in Vsw : b = basePort[op.l] /\ b # v
        BY <2>1, <3>2
      <4>2. (OutType(b))' = OutType(b) /\ OutType(b) = BaseType
        BY <1>8, <3>2, <4>1
      <4> QED
        BY <1>2, <3>1, <4>1, <4>2 DEF OutType
    <3>4. ASSUME NEW w \in vswHead'[op.l] PROVE conv'[w][1] = (OutType(ParentOf(op.l, w)))'
      <4>1. CASE w = v
        <5>1. (OutType(ParentOf(op.l, w)))' = (OutType(basePort[op.l]))'
          BY <1>2, <2>1, <3>1, <3>2, <4>1 DEF ParentOf
        <5> QED
          BY <3>1, <3>3, <4>1, <5>1
      <4>2. CASE w # v
        <5>1. w \in vswHead[op.l] /\ conv'[w] = conv[w]
          BY <1>2, <1>5, <1>6, <3>4, <4>2
        <5>2. conv[w][1] = OutType(ParentOf(op.l, w)) /\ (ParentOf(op.l, w))' = ParentOf(op.l, w)
          BY <1>2, <3>1, <5>1 DEF FullInv, TreeInv, StreamInv, ParentOf
        <5>3. ParentOf(op.l, w) \in Vsw /\ ParentOf(op.l, w) # v
          BY <1>2, <2>1, <3>2 DEF ParentOf
        <5>4. (OutType(ParentOf(op.l, w)))' = OutType(ParentOf(op.l, w))
          BY <1>8, <5>2, <5>3 DEF OutType
        <5> QED
          BY <5>1, <5>2, <5>4
      <4> QED
        BY <4>1, <4>2
    <3> QED
      BY <2>1, <2>2, <2>5, <3>1, <3>3, <3>4 DEF CreateBeside, LateIn, OwnHead
  <2>6. CASE CreateBase(v)
    <3>1. /\ basePort'[op.l] = v /\ basePort[op.l] = NULL /\ vswHead[op.l] = {} /\ vswHead'[op.l] = {v}
          /\ conv'[v] = << ChanType[op.l], BaseType >>
      BY <1>2, <1>5, <1>6, <2>6 DEF CreateBase, OwnHead
    <3>2. (OutType(ParentOf(op.l, v)))' = ChanType[op.l] /\ (OutType(basePort[op.l]))' = BaseType
      BY <1>2, <2>2, <3>1 DEF ParentOf, OutType
    <3> QED
      BY <2>1, <2>2, <2>3, <3>1, <3>2
  <2>7. CASE CreateFirst(v)
    <3>1. /\ basePort'[op.l] = NULL /\ basePort[op.l] = NULL /\ vswHead[op.l] = {}
          /\ conv'[v] = << ChanType[op.l], BaseType >>
      BY <2>7 DEF CreateFirst, OwnHead
    <3> QED
      BY <2>1, <2>2, <2>3, <3>1
  <2>8. ASSUME NEW u \in VswId, CreateSecond(v, u)
        PROVE  /\ \A w \in {op.l} \cup vswHead[op.l] : OutType(w) = conv'[v][2] => OutType(w) \in late
               /\ (OutType(basePort[op.l]))' = BaseType
               /\ \A w \in vswHead'[op.l] : conv'[w][1] = (OutType(ParentOf(op.l, w)))'
    <3>1. /\ basePort'[op.l] = u /\ basePort[op.l] = NULL /\ vswHead[op.l] = {u} /\ vswHead'[op.l] = {u, v}
          /\ conv'[v] = << BaseType, dataType[op.r] >> /\ conv'[u] = << ChanType[op.l], BaseType >>
          /\ conv[u] = << ChanType[op.l], BaseType >> /\ u # v /\ u \notin Chan
          /\ LateIn({op.l, u})
      BY <1>2, <1>5, <1>6, <2>8, NamesApart DEF CreateSecond, OwnHead
    <3>2. OutType(u) = BaseType /\ (OutType(u))' = BaseType /\ (OutType(basePort[op.l]))' = BaseType
      <4>1. OutType(u) = conv[u][2] /\ (OutType(u))' = conv'[u][2] /\ (OutType(basePort[op.l]))' = conv'[u][2]
        BY <1>2, <3>1 DEF OutType
      <4>2. conv[u][2] = BaseType /\ conv'[u][2] = BaseType
        BY <3>1
      <4> QED
        BY <4>1, <4>2
    <3>3. (OutType(ParentOf(op.l, u)))' = ChanType[op.l] /\ (OutType(ParentOf(op.l, v)))' = BaseType
      BY <1>2, <2>2, <3>1, <3>2 DEF ParentOf, OutType
    <3> QED
      BY <2>2, <3>1, <3>2, <3>3 DEF LateIn
  <2> QED
    BY <1>3, <2>1, <2>2, <2>5, <2>6, <2>7, <2>8
<1>13. StreamInv'
  <2>1. ASSUME NEW l \in Chan, l # op.l
        PROVE  /\ \A w \in vswHead'[l] :
                    conv'[w] \in Type \X Type /\ (basePort'[l] # NULL => conv'[w][1] = (OutType(ParentOf(l, w)))')
               /\ \A u, w \in {l} \cup vswHead'[l] : (OutType(u))' = (OutType(w))' => u = w \/ (OutType(u))' \in late'
               /\ basePort'[l] # NULL => (OutType(basePort[l]))' = BaseType
               /\ listenPort'[l] = "port" /\ basePort'[l] # l => ChanType[l] # BaseType
    <3>1. vswHead'[l] = vswHead[l] /\ basePort'[l] = basePort[l] /\ listenPort'[l] = listenPort[l]
      BY <1>1, <1>6, <1>7, <2>1
    <3>2. \A w \in {l} \cup vswHead[l] : w \in Vsw /\ w # v /\ (OutType(w))' = OutType(w)
      BY <1>4, <1>5, <1>8, NamesApart
    <3>3. basePort[l] # NULL => basePort[l] \in {l} \cup vswHead[l] /\ (OutType(basePort[l]))' = OutType(basePort[l])
      BY <3>1, <3>2 DEF FullInv, TreeInv, ListInv, OutType
    <3>4. ASSUME NEW w \in vswHead'[l]
          PROVE  conv'[w] \in Type \X Type /\ (basePort'[l] # NULL => conv'[w][1] = (OutType(ParentOf(l, w)))')
      <4>1. w \in vswHead[l] /\ conv'[w] = conv[w]
        BY <1>4, <1>5, <1>6, <3>1, <3>4
      <4>2. ASSUME basePort[l] # NULL
            PROVE  (ParentOf(l, w))' = ParentOf(l, w) /\ (OutType(ParentOf(l, w)))' = OutType(ParentOf(l, w))
        BY <3>1, <3>2, <3>3, <4>2 DEF ParentOf, OutType
      <4> QED
        BY <3>1, <4>1, <4>2 DEF FullInv, TreeInv, StreamInv
    <3> QED
      BY <1>1, <3>1, <3>2, <3>3, <3>4 DEF FullInv, TreeInv, StreamInv
  <2>2. ASSUME NEW w \in vswHead'[op.l] PROVE conv'[w] \in Type \X Type
    BY <1>1, <1>2, <1>5, <1>6, <2>2 DEF FullInv, TreeInv, StreamInv
  <2>3. ASSUME NEW u \in {op.l} \cup vswHead'[op.l], NEW w \in {op.l} \cup vswHead'[op.l], (OutType(u))' = (OutType(w))'
        PROVE  u = w \/ (OutType(u))' \in late'
    <3>1. \A x \in {op.l} \cup vswHead[op.l] :
            (OutType(x))' = OutType(x) /\ (OutType(x) = conv'[v][2] => OutType(x) \in late)
      BY <1>2, <1>4, <1>5, <1>8, <1>12, NamesApart
    <3>2. \A x, y \in {op.l} \cup vswHead[op.l] : OutType(x) = OutType(y) => x = y \/ OutType(x) \in late
      BY <1>2 DEF FullInv, TreeInv, StreamInv
    <3>3. \A x \in {op.l} \cup vswHead'[op.l] : x = v \/ x \in {op.l} \cup vswHead[op.l]
      BY <1>6
    <3> QED
      BY <1>1, <1>12, <2>3, <3>1, <3>2, <3>3
  <2>4. listenPort'[op.l] = "port" /\ basePort'[op.l] # op.l => ChanType[op.l] # BaseType
    <3>1. op.l # NULL
      BY <1>2, NamesApart
    <3>2. basePort'[op.l] # op.l => basePort[op.l] # op.l
      BY <1>7, <3>1
    <3> QED
      BY <1>2, <3>2 DEF FullInv, TreeInv, StreamInv
  <2>5. ASSUME NEW l \in Chan, NEW r \in Chan, r \in portHead'[l]
        PROVE  (OutType(vswPort[<< l, r >>]))' = dataType'[r]
    <3>1. vswPort[<< l, r >>] \in {l} \cup vswHead[l] /\ vswPort'[<< l, r >>] = vswPort[<< l, r >>]
      BY <1>1, <2>5 DEF FullInv, TreeInv, ListInv
    <3>2. vswPort[<< l, r >>] \in Vsw /\ vswPort[<< l, r >>] # v
      BY <1>4, <1>5, <3>1, NamesApart
    <3>3. (OutType(vswPort[<< l, r >>]))' = OutType(vswPort[<< l, r >>])
      BY <1>8, <3>1, <3>2 DEF OutType
    <3> QED
      BY <1>1, <2>5, <3>3 DEF FullInv, TreeInv, StreamInv
  <2>6. ASSUME NEW l \in Chan
        PROVE  /\ \A w \in vswHead'[l] :
                    conv'[w] \in Type \X Type /\ (basePort'[l] # NULL => conv'[w][1] = (OutType(ParentOf(l, w)))')
               /\ \A u, w \in {l} \cup vswHead'[l] : (OutType(u))' = (OutType(w))' => u = w \/ (OutType(u))' \in late'
               /\ basePort'[l] # NULL => (OutType(basePort[l]))' = BaseType
               /\ listenPort'[l] = "port" /\ basePort'[l] # l => ChanType[l] # BaseType
    <3>1. CASE l = op.l
      <4>1. \A w \in vswHead'[op.l] :
              conv'[w] \in Type \X Type /\ (basePort'[op.l] # NULL => conv'[w][1] = (OutType(ParentOf(op.l, w)))')
        BY <1>12, <2>2
      <4>2. /\ \A u, w \in {op.l} \cup vswHead'[op.l] : (OutType(u))' = (OutType(w))' => u = w \/ (OutType(u))' \in late'
            /\ basePort'[op.l] # NULL => (OutType(basePort[op.l]))' = BaseType
        BY <1>12, <2>3
      <4> QED
        BY <1>2, <2>4, <3>1, <4>1, <4>2 DEF OutType, ParentOf
    <3> QED
      BY <2>1, <3>1
  <2> QED
    BY <2>5, <2>6 DEF StreamInv
<1>14. ConnInv'
  <2>1. ASSUME NEW p \in Chan \X Chan, vswPort'[p] \in Made' PROVE p = Own'
    <3>1. vswPort[p] # v
      BY <1>4, NamesApart DEF FullInv, TreeInv, CountInv
    <3> QED
      BY <1>1, <1>2, <2>1, <3>1 DEF FullInv, TreeInv, ConnInv
  <2>2. v \in vswHead'[op.l] /\ vswPort'[v] = NULL /\ vswPort'[Own'] = NULL /\ (OutType(v))' = conv'[v][2]
    BY <1>1, <1>2, <1>4, <1>6, <1>12
  <2>3. CASE CreateBeside(v)
    <3>1. /\ basePort'[op.l] = basePort[op.l] /\ basePort[op.l] # NULL /\ conv'[v] = << BaseType, dataType[op.r] >>
          /\ op'.make = << >> /\ op'.made = << v >> /\ op'.todo = << << Own, v >>, << v, basePort[op.l] >> >>
      BY <2>3 DEF CreateBeside
    <3>2. basePort[op.l] # v
      BY <1>2, <1>4, <3>1 DEF FullInv, TreeInv, ListInv
    <3>3. (ParentOf(op.l, v))' = basePort[op.l]
      BY <1>2, <3>1, <3>2 DEF ParentOf
    <3>4. JoinOne'
      BY <1>1, <1>2, <2>2, <3>1, <3>2, <3>3 DEF JoinOne, OwnHead, ParentOf, OutType
    <3> QED
      BY <2>1, <3>1, <3>4 DEF ConnInv
  <2>4. CASE CreateBase(v)
    <3>1. /\ basePort'[op.l] = v /\ vswHead'[op.l] = {v} /\ conv'[v] = << ChanType[op.l], BaseType >>
          /\ op'.make = << >> /\ op'.made = << v >> /\ op'.todo = << << Own, v >>, << v, op.l >> >>
          /\ dataType[op.r] = BaseType
      BY <1>2, <1>5, <1>6, <2>4 DEF CreateBase, OwnHead
    <3>2. (ParentOf(op.l, v))' = op.l
      BY <1>2, <3>1 DEF ParentOf
    <3>3. JoinOne'
      BY <1>1, <1>2, <1>4, <2>2, <3>1, <3>2 DEF JoinOne, OwnHead, ParentOf, OutType
    <3> QED
      BY <2>1, <3>1, <3>3 DEF ConnInv
  <2>5. CASE CreateFirst(v)
    <3>1. /\ basePort'[op.l] = NULL /\ vswHead'[op.l] = {v} /\ conv'[v] = << ChanType[op.l], BaseType >>
          /\ op'.make = << << BaseType, NULL >> >> /\ op'.made = << v >> /\ op'.todo = << >>
          /\ LateIn({op.l}) /\ (dataType[op.r] = BaseType => BaseType \in late)
      BY <1>2, <1>5, <1>6, <2>5 DEF CreateFirst, OwnHead
    <3>2. /\ op'.make # << >> /\ (OutType(op.l))' = ChanType[op.l] /\ OutType(op.l) = ChanType[op.l]
          /\ fwdHead'[v] = {}
      BY <1>1, <1>2, <1>4, <3>1, Tuples DEF OutType
    <3>3. \A x \in {op'.l} \cup OwnHead' : (OutType(x))' = dataType'[op'.r] => dataType'[op'.r] \in late'
      <4>1. (OutType(v))' = BaseType
        BY <2>2, <3>1
      <4>2. (OutType(op.l))' = dataType[op.r] => dataType[op.r] \in late
        BY <3>1, <3>2 DEF LateIn
      <4>3. \A x \in {op'.l} \cup OwnHead' : x = v \/ x = op.l
        BY <1>2, <3>1 DEF OwnHead
      <4> QED
        BY <1>1, <1>2, <3>1, <4>1, <4>2, <4>3
    <3>4. Making'
      BY <1>1, <1>2, <2>2, <3>1, <3>2, <3>3 DEF Making, LateIn, OwnHead, OutType
    <3> QED
      BY <2>1, <3>4 DEF ConnInv
  <2>6. ASSUME NEW u \in VswId, CreateSecond(v, u) PROVE ConnInv'
    <3>1. /\ basePort'[op.l] = u /\ vswHead'[op.l] = {u, v} /\ conv'[v] = << BaseType, dataType[op.r] >>
          /\ op'.make = << >> /\ op'.made = << u, v >> /\ u # v /\ vswPort'[u] = NULL
          /\ op'.todo = << << Own, v >>, << v, u >>, << u, op.l >> >>
      BY <1>1, <1>2, <1>5, <1>6, <2>6 DEF CreateSecond, OwnHead
    <3>2. JoinTwo'
      BY <1>1, <1>2, <2>2, <3>1 DEF JoinTwo, OwnHead, OutType
    <3> QED
      BY <2>1, <3>1, <3>2 DEF ConnInv
  <2> QED
    BY <1>3, <2>3, <2>4, <2>5, <2>6
<1> QED
  BY <1>9, <1>10, <1>11, <1>13, <1>14 DEF TreeInv

(* A connection fails: the converter that was made has nothing below it.   *)
LEMMA CreateFailsTree ==
  ASSUME FullInv, CreateFails
  PROVE  TreeInv'
<1>1. /\ op # NoOp /\ op.make # << >> /\ op' = NoOp
      /\ ref' = [v \in Vsw |-> IF v \in Made THEN 0 ELSE ref[v]]
      /\ conv' = [v \in VswId |-> IF v \in Made THEN NoConv ELSE conv[v]]
      /\ vswHead' = [vswHead EXCEPT ![op.l] = @ \ Made]
      /\ UNCHANGED << dataType, late, listenPort, portHead, basePort, vswPort, fwdHead >>
  BY DEF CreateFails, NoOp, chanVars, listVars
<1>2. op.l \in Chan /\ op.r \in Chan /\ Making /\ Made \subseteq VswId /\ Made \subseteq vswHead[op.l]
  BY <1>1, OpFields, MadeInTree
<1>3. /\ \A u \in Made : vswPort[u] = NULL /\ fwdHead[u] = {}
      /\ Made # {} => basePort[op.l] = NULL /\ vswHead[op.l] = Made
  BY <1>2, MadeOf DEF Making, OwnHead
<1>4. Made' = {}
  BY <1>1, MadeOfNext DEF NoOp
<1>5. /\ late \subseteq Type /\ dataType \in [Chan -> Type \cup {NULL}] /\ vswHead \in [Chan -> SUBSET VswId]
      /\ basePort \in [Chan -> Vsw \cup {NULL}] /\ vswPort \in [Port -> Vsw \cup {NULL}]
      /\ fwdHead \in [Vsw -> SUBSET Port] /\ ref \in [Vsw -> Nat]
      /\ conv \in [VswId -> (Type \X Type) \cup {NoConv}]
  BY DEF FullInv, TreeInv, TreeType
<1>6. /\ \A l \in Chan : vswHead'[l] = vswHead[l] \ Made
      /\ \A l \in Chan : \A v \in vswHead'[l] : v \in vswHead[l] /\ v \notin Made /\ v \in VswId
      /\ \A v \in Vsw : v \notin Made => ref'[v] = ref[v] /\ (OutType(v))' = OutType(v)
      /\ \A v \in VswId : v \notin Made => conv'[v] = conv[v]
  <2>1. \A l \in Chan : vswHead'[l] = vswHead[l] \ Made
    BY <1>1, <1>2, <1>5 DEF FullInv, TreeInv, ListInv
  <2>2. \A v \in VswId : v \notin Made => conv'[v] = conv[v]
    BY <1>1
  <2> QED
    BY <1>1, <1>5, <2>1, <2>2, NamesApart DEF OutType
<1>7. \A p \in Port : vswPort[p] \notin Made
  BY <1>2, <1>3, NamesApart DEF FullInv, TreeInv, CountInv
<1>8. \A l \in Chan : basePort[l] # NULL => basePort[l] \in {l} \cup vswHead[l] /\ basePort[l] \notin Made
  BY <1>2, <1>3, NamesApart DEF FullInv, TreeInv, ListInv
<1>9. TreeType'
  BY <1>1, <1>2, <1>5 DEF TreeType
<1>10. CountInv'
  <2>1. ASSUME NEW w \in Vsw
        PROVE  /\ fwdHead'[w] = {p \in Port : vswPort'[p] = w} /\ IsFiniteSet(fwdHead'[w])
               /\ ref'[w] = Cardinality(fwdHead'[w]) + (IF w \in Made' THEN 1 ELSE 0)
                            + (IF w \in Chan /\ listenPort'[w] = "port" THEN 2 ELSE 0)
    <3>1. fwdHead'[w] = {p \in Port : vswPort'[p] = w} /\ IsFiniteSet(fwdHead'[w])
      BY <1>1 DEF FullInv, TreeInv, CountInv
    <3>2. CASE w \in Made
      <4>1. w \notin Chan /\ ref'[w] = 0 /\ fwdHead'[w] = {}
        BY <1>1, <1>2, <1>3, <3>2, NamesApart
      <4>2. Cardinality(fwdHead'[w]) = 0
        BY <4>1, FS_EmptySet
      <4> QED
        BY <1>4, <3>1, <4>1, <4>2
    <3>3. CASE w \notin Made
      <4>1. ref'[w] = ref[w]
        BY <1>6, <3>3
      <4> QED
        BY <1>1, <1>4, <3>1, <3>3, <4>1 DEF FullInv, TreeInv, CountInv
    <3> QED
      BY <3>2, <3>3
  <2> QED
    BY <2>1 DEF CountInv
<1>11. ListInv'
  <2>1. ASSUME NEW l \in Chan
        PROVE  /\ basePort'[l] \in {NULL, l} \cup vswHead'[l]
               /\ listenPort'[l] # "port" => vswHead'[l] = {} /\ basePort'[l] = NULL
               /\ listenPort'[l] = "port" => dataType'[l] # NULL
    BY <1>1, <1>6, <1>8 DEF FullInv, TreeInv, ListInv
  <2>2. ASSUME NEW l \in Chan, NEW u \in vswHead'[l]
        PROVE  /\ ref'[u] > 0 /\ \A m \in Chan : u \in vswHead'[m] => m = l
               /\ IF vswPort'[u] = NULL THEN u \in Made' /\ l = op'.l
                  ELSE basePort'[l] # NULL /\ vswPort'[u] = (ParentOf(l, u))'
    <3>1. u \in vswHead[l] /\ u \notin Made /\ ref'[u] = ref[u]
      BY <1>6, <2>2, NamesApart
    <3> QED
      BY <1>1, <1>6, <3>1 DEF FullInv, TreeInv, ListInv, ParentOf
  <2>3. ASSUME NEW u \in VswId, \A l \in Chan : u \notin vswHead'[l]
        PROVE  ref'[u] = 0 /\ vswPort'[u] = NULL
    <3>1. CASE u \in Made
      BY <1>1, <1>3, <3>1, NamesApart
    <3>2. CASE u \notin Made
      BY <1>1, <1>6, <2>3, <3>2, NamesApart DEF FullInv, TreeInv, ListInv
    <3> QED
      BY <3>1, <3>2
  <2>4. ASSUME NEW l \in Chan, NEW r \in Chan
        PROVE  IF r \in portHead'[l] THEN vswPort'[<< l, r >>] \in {l} \cup vswHead'[l]
               ELSE vswPort'[<< l, r >>] = NULL
    <3>1. vswPort[<< l, r >>] \notin Made
      BY <1>7, NamesApart
    <3> QED
      BY <1>1, <1>6, <3>1 DEF FullInv, TreeInv, ListInv
  <2> QED
    BY <2>1, <2>2, <2>3, <2>4 DEF ListInv
<1>12. StreamInv'
  <2>1. ASSUME NEW l \in Chan, NEW w \in {l} \cup vswHead'[l]
        PROVE  w \in {l} \cup vswHead[l] /\ w \notin Made /\ w \in Vsw /\ (OutType(w))' = OutType(w)
    BY <1>2, <1>6, NamesApart
  <2>2. ASSUME NEW l \in Chan, NEW w \in vswHead'[l]
        PROVE  conv'[w] \in Type \X Type /\ (basePort'[l] # NULL => conv'[w][1] = (OutType(ParentOf(l, w)))')
    <3>1. w \in vswHead[l] /\ conv'[w] = conv[w]
      BY <1>6, <2>2
    <3>2. ASSUME basePort[l] # NULL
          PROVE  (ParentOf(l, w))' = ParentOf(l, w) /\ ParentOf(l, w) \in Vsw /\ ParentOf(l, w) \notin Made
      BY <1>1, <1>2, <1>5, <1>8, <3>2, NamesApart DEF ParentOf
    <3>3. ASSUME basePort[l] # NULL PROVE (OutType(ParentOf(l, w)))' = OutType(ParentOf(l, w))
      BY <1>6, <3>2, <3>3 DEF OutType
    <3> QED
      BY <1>1, <3>1, <3>3 DEF FullInv, TreeInv, StreamInv
  <2>3. ASSUME NEW l \in Chan
        PROVE  /\ \A u, w \in {l} \cup vswHead'[l] : (OutType(u))' = (OutType(w))' => u = w \/ (OutType(u))' \in late'
               /\ basePort'[l] # NULL => (OutType(basePort[l]))' = BaseType
               /\ listenPort'[l] = "port" /\ basePort'[l] # l => ChanType[l] # BaseType
    <3>1. \A u, w \in {l} \cup vswHead[l] : OutType(u) = OutType(w) => u = w \/ OutType(u) \in late
      BY DEF FullInv, TreeInv, StreamInv
    <3>2. \A u, w \in {l} \cup vswHead'[l] : (OutType(u))' = (OutType(w))' => u = w \/ (OutType(u))' \in late'
      BY <1>1, <2>1, <3>1
    <3>3. ASSUME basePort[l] # NULL PROVE (OutType(basePort[l]))' = BaseType
      <4>1. basePort[l] \in Vsw /\ basePort[l] \notin Made /\ OutType(basePort[l]) = BaseType
        BY <1>5, <1>8, <3>3 DEF FullInv, TreeInv, StreamInv
      <4> QED
        BY <1>1, <1>6, <4>1 DEF OutType
    <3> QED
      BY <1>1, <3>2, <3>3 DEF FullInv, TreeInv, StreamInv
  <2>4. ASSUME NEW l \in Chan, NEW r \in Chan, r \in portHead'[l]
        PROVE  (OutType(vswPort[<< l, r >>]))' = dataType'[r]
    <3>1. /\ << l, r >> \in Port /\ vswPort[<< l, r >>] \notin Made /\ OutType(vswPort[<< l, r >>]) = dataType[r]
          /\ vswPort[<< l, r >>] \in {l} \cup vswHead[l]
      BY <1>1, <1>7, <2>4, NamesApart DEF FullInv, TreeInv, ListInv, StreamInv
    <3>2. vswPort[<< l, r >>] \in Vsw
      BY <1>5, <3>1, NamesApart
    <3> QED
      BY <1>1, <1>6, <3>1, <3>2 DEF OutType
  <2> QED
    BY <2>2, <2>3, <2>4 DEF StreamInv
<1>13. ConnInv'
  BY <1>1, <1>4 DEF ConnInv
<1> QED
  BY <1>9, <1>10, <1>11, <1>12, <1>13 DEF TreeInv

(* The first of one, two or three attachments.                             *)
LEMMA FirstLink ==
  ASSUME NEW a, NEW b, NEW y, NEW z, NEW s
  PROVE  /\ s = << << a, b >> >> => Head(s)[1] = a /\ Head(s)[2] = b /\ Len(s) = 1
         /\ s = << << a, b >>, y >> => Head(s)[1] = a /\ Head(s)[2] = b /\ Len(s) # 1 /\ Tail(s) = << y >>
         /\ s = << << a, b >>, y, z >> => Head(s)[1] = a /\ Head(s)[2] = b /\ Len(s) # 1 /\ Tail(s) = << y, z >>
<1>1. << a, b >>[1] = a /\ << a, b >>[2] = b
  OBVIOUS
<1>2. ASSUME NEW x
      PROVE  /\ s = << x >> => Head(s) = x /\ Len(s) = 1
             /\ s = << x, y >> => Head(s) = x /\ Len(s) # 1 /\ Tail(s) = << y >>
             /\ s = << x, y, z >> => Head(s) = x /\ Len(s) # 1 /\ Tail(s) = << y, z >>
  <2>1. s = << x >> => Head(s) = x /\ Len(s) = 1
    BY Tuples
  <2>2. s = << x, y >> => Head(s) = x /\ Len(s) # 1 /\ Tail(s) = << y >>
    BY Tuples
  <2>3. s = << x, y, z >> => Head(s) = x /\ Len(s) # 1 /\ Tail(s) = << y, z >>
    BY Tuples
  <2> QED
    BY <2>1, <2>2, <2>3
<1> QED
  BY <1>1, <1>2

(* Each attachment of a connection under way: the receiver's port gets     *)
(* data of its type, a converter hangs where it belongs, and the last one  *)
(* leaves every new converter with a port below it.                        *)
LEMMA AttachCases ==
  ASSUME FullInv, op.todo # << >>,
         NEW child, child = Head(op.todo)[1], NEW vsw, vsw = Head(op.todo)[2]
  PROVE  /\ vswPort[child] = NULL /\ child \in Port /\ vsw \in {op.l} \cup vswHead[op.l]
         /\ \/ child = Own /\ OutType(vsw) = dataType[op.r]
            \/ child \in Made /\ basePort[op.l] # NULL /\ vsw = ParentOf(op.l, child)
         /\ Len(op.todo) = 1 => \A u \in Made : /\ u # child => vswPort[u] # NULL
                                             /\ \E p \in Port : p # child /\ vswPort[p] = u
         /\ \/ Len(op.todo) = 1
            \/ /\ op'.l = op.l /\ op'.r = op.r /\ op'.make = op.make /\ op'.made = op.made /\ op'.todo = Tail(op.todo)
               /\ vswPort'[child] = vsw /\ \A p \in Port : p # child => vswPort'[p] = vswPort[p]
               /\ UNCHANGED << dataType, late, vswHead, basePort, conv >>
               => JoinOne' \/ JoinTwo'
<1>1. /\ op # NoOp /\ op.l \in Chan /\ op.r \in Chan /\ op.l # op.r /\ listenPort[op.l] = "port"
      /\ Own \in Chan \X Chan /\ Own \in Port /\ Own \notin VswId /\ Own \notin Vsw
      /\ JoinOld \/ JoinOne \/ JoinTwo
  <2>1. op # NoOp
    BY DEF NoOp
  <2> QED
    BY <2>1, OpFields, NamesApart
<1>2. /\ vswHead[op.l] \subseteq VswId /\ basePort[op.l] \in {NULL, op.l} \cup vswHead[op.l]
      /\ \A u \in VswId : u \in Port /\ u \in Vsw /\ u # NULL /\ u # op.l /\ u # Own
      /\ op.l # NULL
  BY <1>1, NamesApart DEF FullInv, TreeInv, TreeType, ListInv
<1>3. CASE JoinOld
  <2>1. PICK x \in {op.l} \cup OwnHead :
          /\ op.made = << >> /\ op.todo = << << Own, x >> >>
          /\ vswPort[Own] = NULL /\ OutType(x) = dataType[op.r]
    BY <1>3 DEF JoinOld
  <2>2. child = Own /\ vsw = x /\ Len(op.todo) = 1 /\ Made = {}
    BY <2>1, FirstLink, MadeOf
  <2> QED
    BY <1>1, <2>1, <2>2 DEF OwnHead
<1>4. CASE JoinOne
  <2>1. PICK v \in OwnHead :
          /\ op.made = << v >> /\ OutType(v) = dataType[op.r] /\ vswPort[v] = NULL
          /\ basePort[op.l] # NULL /\ (v = basePort[op.l] => OwnHead = {v})
          /\ \/ op.todo = << << Own, v >>, << v, ParentOf(op.l, v) >> >> /\ vswPort[Own] = NULL
             \/ op.todo = << << v, ParentOf(op.l, v) >> >> /\ vswPort[Own] = v
    BY <1>4 DEF JoinOne
  <2>2. Made = {v} /\ v \in VswId /\ v \in vswHead[op.l]
    BY <1>2, <2>1, MadeOf DEF OwnHead
  <2>3. CASE op.todo = << << Own, v >>, << v, ParentOf(op.l, v) >> >> /\ vswPort[Own] = NULL
    <3>1. child = Own /\ vsw = v /\ Len(op.todo) # 1 /\ Tail(op.todo) = << << v, ParentOf(op.l, v) >> >>
      BY <2>3, FirstLink
    <3>2. ASSUME /\ op'.l = op.l /\ op'.r = op.r /\ op'.make = op.make /\ op'.made = op.made /\ op'.todo = Tail(op.todo)
                 /\ vswPort'[child] = vsw /\ \A p \in Port : p # child => vswPort'[p] = vswPort[p]
                 /\ UNCHANGED << dataType, late, vswHead, basePort, conv >>
          PROVE  JoinOne'
      BY <1>2, <2>1, <2>2, <2>3, <3>1, <3>2 DEF JoinOne, OwnHead, Own, ParentOf, OutType
    <3> QED
      BY <1>1, <2>1, <2>2, <2>3, <3>1, <3>2
  <2>4. CASE op.todo = << << v, ParentOf(op.l, v) >> >> /\ vswPort[Own] = v
    <3>1. child = v /\ vsw = ParentOf(op.l, v) /\ Len(op.todo) = 1
      BY <2>4, FirstLink
    <3>2. vsw \in {op.l} \cup vswHead[op.l]
      BY <1>2, <2>1, <3>1 DEF ParentOf
    <3> QED
      BY <1>1, <1>2, <2>1, <2>2, <2>4, <3>1, <3>2
  <2> QED
    BY <2>1, <2>3, <2>4
<1>5. CASE JoinTwo
  <2>1. PICK u \in OwnHead, v \in OwnHead :
          /\ op.made = << u, v >> /\ u # v /\ OutType(v) = dataType[op.r] /\ vswPort[u] = NULL
          /\ basePort[op.l] = u /\ OwnHead = {u, v}
          /\ \/ op.todo = << << Own, v >>, << v, u >>, << u, op.l >> >> /\ vswPort[v] = NULL /\ vswPort[Own] = NULL
             \/ op.todo = << << v, u >>, << u, op.l >> >> /\ vswPort[v] = NULL /\ vswPort[Own] = v
             \/ op.todo = << << u, op.l >> >> /\ vswPort[v] = u /\ vswPort[Own] = v
    BY <1>5 DEF JoinTwo
  <2>2. Made = {u, v} /\ u \in VswId /\ v \in VswId /\ vswHead[op.l] = {u, v}
    BY <1>2, <2>1, MadeOf DEF OwnHead
  <2>3. ParentOf(op.l, u) = op.l /\ ParentOf(op.l, v) = u /\ basePort[op.l] # NULL
    BY <1>2, <2>1, <2>2 DEF ParentOf
  <2>4. CASE op.todo = << << Own, v >>, << v, u >>, << u, op.l >> >> /\ vswPort[v] = NULL /\ vswPort[Own] = NULL
    <3>1. child = Own /\ vsw = v /\ Len(op.todo) # 1 /\ Tail(op.todo) = << << v, u >>, << u, op.l >> >>
      BY <2>4, FirstLink
    <3>2. ASSUME /\ op'.l = op.l /\ op'.r = op.r /\ op'.make = op.make /\ op'.made = op.made /\ op'.todo = Tail(op.todo)
                 /\ vswPort'[child] = vsw /\ \A p \in Port : p # child => vswPort'[p] = vswPort[p]
                 /\ UNCHANGED << dataType, late, vswHead, basePort, conv >>
          PROVE  JoinTwo'
      BY <1>2, <2>1, <2>2, <2>4, <3>1, <3>2 DEF JoinTwo, OwnHead, Own, OutType
    <3> QED
      BY <1>1, <2>1, <2>2, <2>4, <3>1, <3>2
  <2>5. CASE op.todo = << << v, u >>, << u, op.l >> >> /\ vswPort[v] = NULL /\ vswPort[Own] = v
    <3>1. child = v /\ vsw = u /\ Len(op.todo) # 1 /\ Tail(op.todo) = << << u, op.l >> >>
      BY <2>5, FirstLink
    <3>2. ASSUME /\ op'.l = op.l /\ op'.r = op.r /\ op'.make = op.make /\ op'.made = op.made /\ op'.todo = Tail(op.todo)
                 /\ vswPort'[child] = vsw /\ \A p \in Port : p # child => vswPort'[p] = vswPort[p]
                 /\ UNCHANGED << dataType, late, vswHead, basePort, conv >>
          PROVE  JoinTwo'
      BY <1>1, <1>2, <2>1, <2>2, <2>5, <3>1, <3>2 DEF JoinTwo, OwnHead, Own, OutType
    <3> QED
      BY <1>2, <2>1, <2>2, <2>3, <2>5, <3>1, <3>2
  <2>6. CASE op.todo = << << u, op.l >> >> /\ vswPort[v] = u /\ vswPort[Own] = v
    <3>1. child = u /\ vsw = op.l /\ Len(op.todo) = 1
      BY <2>6, FirstLink
    <3> QED
      BY <1>1, <1>2, <2>1, <2>2, <2>3, <2>6, <3>1
  <2> QED
    BY <2>1, <2>4, <2>5, <2>6
<1> QED
  BY <1>1, <1>3, <1>4, <1>5

(* Port or converter is attached; after the last one the creators put      *)
(* their references.                                                       *)
LEMMA AttachTree ==
  ASSUME FullInv, Attach
  PROVE  TreeInv'
<1> DEFINE child == Head(op.todo)[1]
           vsw   == Head(op.todo)[2]
           last  == Len(op.todo) = 1
<1>1. /\ op # NoOp /\ op.todo # << >>
      /\ UNCHANGED << dataType, late, listenPort, vswHead, basePort, conv >>
  BY DEF Attach, NoOp, chanVars
<1>2. /\ vswPort' = [vswPort EXCEPT ![child] = vsw]
      /\ fwdHead' = [fwdHead EXCEPT ![vsw] = @ \cup {child}]
      /\ ref' = [v \in Vsw |-> ref[v] + (IF v = vsw THEN 1 ELSE 0) - (IF v \in (IF last THEN Made ELSE {}) THEN 1 ELSE 0)]
      /\ portHead' = IF child = << op.l, op.r >>
                     THEN [portHead EXCEPT ![op.l] = @ \cup {op.r}] ELSE portHead
      /\ op' = IF last THEN NoOp ELSE [op EXCEPT !.todo = Tail(@)]
  BY DEF Attach, CreatorsPut
<1>3. /\ op = [l |-> op.l, r |-> op.r, look |-> op.look, make |-> op.make, made |-> op.made, todo |-> op.todo]
      /\ op.l \in Chan /\ op.r \in Chan /\ op.l # op.r /\ listenPort[op.l] = "port"
      /\ Own \in Chan \X Chan /\ Own \in Port /\ Made \subseteq VswId /\ Made \subseteq vswHead[op.l]
  BY <1>1, OpFields, MadeInTree
<1>4. op.make = << >> /\ (op.r \in portHead[op.l] \/ child = << op.l, op.r >>)
  BY <1>1 DEF FullInv, IInv, OpInv
<1>5. /\ vswPort[child] = NULL /\ child \in Port /\ vsw \in {op.l} \cup vswHead[op.l]
      /\ \/ child = Own /\ OutType(vsw) = dataType[op.r]
         \/ child \in Made /\ basePort[op.l] # NULL /\ vsw = ParentOf(op.l, child)
      /\ last => \A u \in Made : /\ u # child => vswPort[u] # NULL
                                 /\ \E p \in Port : p # child /\ vswPort[p] = u
  BY <1>1, AttachCases
<1>6. ASSUME ~last, /\ op'.l = op.l /\ op'.r = op.r /\ op'.make = op.make /\ op'.made = op.made /\ op'.todo = Tail(op.todo)
                    /\ vswPort'[child] = vsw /\ \A p \in Port : p # child => vswPort'[p] = vswPort[p]
      PROVE  JoinOne' \/ JoinTwo'
  BY <1>1, <1>6, AttachCases
<1>7. portHead' = [portHead EXCEPT ![op.l] = @ \cup {op.r}]
  <2>1. CASE child = << op.l, op.r >>
    BY <1>2, <2>1
  <2>2. CASE child # << op.l, op.r >>
    <3>1. portHead[op.l] \cup {op.r} = portHead[op.l] /\ portHead' = portHead
      BY <1>2, <1>4, <2>2
    <3> QED
      BY <3>1 DEF FullInv, IInv, PortType
  <2> QED
    BY <2>1, <2>2
<1> HIDE DEF child, vsw, last
<1>8. /\ portHead \in [Chan -> SUBSET Chan]
      /\ late \subseteq Type /\ dataType \in [Chan -> Type \cup {NULL}] /\ vswHead \in [Chan -> SUBSET VswId]
      /\ basePort \in [Chan -> Vsw \cup {NULL}] /\ vswPort \in [Port -> Vsw \cup {NULL}]
      /\ fwdHead \in [Vsw -> SUBSET Port] /\ ref \in [Vsw -> Nat]
      /\ conv \in [VswId -> (Type \X Type) \cup {NoConv}]
  BY DEF FullInv, IInv, PortType, TreeInv, TreeType
<1>9. /\ vsw \in Vsw /\ vsw # NULL /\ child \notin fwdHead[vsw] /\ (child \in Chan \X Chan => child = Own)
      /\ vswPort'[child] = vsw /\ \A p \in Port : p # child => vswPort'[p] = vswPort[p]
      /\ fwdHead'[vsw] = fwdHead[vsw] \cup {child} /\ \A v \in Vsw : v # vsw => fwdHead'[v] = fwdHead[v]
  <2>1. vsw \in Vsw /\ vsw # NULL /\ (child \in Chan \X Chan => child = Own)
    <3>1. vsw \in Chan \/ vsw \in VswId
      BY <1>3, <1>5, <1>8
    <3>2. child \in Made => child \notin Chan \X Chan
      BY <1>3, NamesApart
    <3> QED
      BY <1>5, <3>1, <3>2, NamesApart
  <2>2. child \notin fwdHead[vsw]
    BY <1>5, <2>1 DEF FullInv, TreeInv, CountInv
  <2> QED
    BY <1>2, <1>5, <1>8, <2>1, <2>2
<1>10. /\ last => Made' = {} /\ op' = NoOp
       /\ ~last => /\ Made' = Made
                   /\ op'.l = op.l /\ op'.r = op.r /\ op'.make = op.make /\ op'.made = op.made /\ op'.todo = Tail(op.todo)
  <2>1. CASE last
    BY <1>2, <2>1, MadeOfNext DEF NoOp
  <2>2. CASE ~last
    <3>1. op'.l = op.l /\ op'.r = op.r /\ op'.make = op.make /\ op'.made = op.made /\ op'.todo = Tail(op.todo)
      BY <1>2, <1>3, <2>2
    <3> QED
      BY <2>2, <3>1 DEF Made
  <2> QED
    BY <2>1, <2>2
<1>11. ASSUME NEW v \in Vsw
       PROVE  /\ fwdHead'[v] = {p \in Port : vswPort'[p] = v} /\ IsFiniteSet(fwdHead'[v])
              /\ ref'[v] = Cardinality(fwdHead'[v]) + (IF v \in Made' THEN 1 ELSE 0)
                           + (IF v \in Chan /\ listenPort'[v] = "port" THEN 2 ELSE 0)
              /\ Cardinality(fwdHead'[v]) \in Nat
  <2>1. /\ fwdHead[v] = {p \in Port : vswPort[p] = v} /\ IsFiniteSet(fwdHead[v]) /\ Cardinality(fwdHead[v]) \in Nat
        /\ ref[v] = Cardinality(fwdHead[v]) + (IF v \in Made THEN 1 ELSE 0)
                    + (IF v \in Chan /\ listenPort[v] = "port" THEN 2 ELSE 0)
    BY FS_CardinalityType DEF FullInv, TreeInv, CountInv
  <2>2. fwdHead'[v] = {p \in Port : vswPort'[p] = v}
    BY <1>5, <1>9, <2>1, NamesApart
  <2>3. /\ IsFiniteSet(fwdHead'[v])
        /\ Cardinality(fwdHead'[v]) = Cardinality(fwdHead[v]) + (IF v = vsw THEN 1 ELSE 0)
    <3>1. CASE v = vsw
      <4>1. fwdHead'[v] = fwdHead[v] \cup {child} /\ child \notin fwdHead[v]
        BY <1>9, <3>1
      <4>2. IsFiniteSet(fwdHead[v] \cup {child}) /\ Cardinality(fwdHead[v] \cup {child}) = Cardinality(fwdHead[v]) + 1
        BY <2>1, <4>1, FS_AddElement
      <4> QED
        BY <3>1, <4>1, <4>2
    <3>2. CASE v # vsw
      BY <1>9, <2>1, <3>2
    <3> QED
      BY <3>1, <3>2
  <2>4. ref'[v] = ref[v] + (IF v = vsw THEN 1 ELSE 0) - (IF last /\ v \in Made THEN 1 ELSE 0)
    BY <1>2
  <2>5. (IF v \in Made' THEN 1 ELSE 0) = (IF v \in Made THEN 1 ELSE 0) - (IF last /\ v \in Made THEN 1 ELSE 0)
    BY <1>10
  <2> DEFINE two == IF v \in Chan /\ listenPort[v] = "port" THEN 2 ELSE 0
             old == IF v \in Made THEN 1 ELSE 0
             new == IF v \in Made' THEN 1 ELSE 0
             put == IF last /\ v \in Made THEN 1 ELSE 0
             hit == IF v = vsw THEN 1 ELSE 0
  <2>6. two \in Nat /\ old \in Nat /\ new \in Nat /\ put \in Nat /\ hit \in Nat
    OBVIOUS
  <2>7. ref'[v] = Cardinality(fwdHead'[v]) + new + two
    <3> HIDE DEF two, old, new, put, hit
    <3>1. ref[v] = Cardinality(fwdHead[v]) + old + two
      BY <2>1 DEF old, two
    <3>2. ref'[v] = ref[v] + hit - put
      BY <2>4 DEF hit, put
    <3>3. new = old - put
      BY <2>5 DEF new, old, put
    <3>4. Cardinality(fwdHead'[v]) = Cardinality(fwdHead[v]) + hit
      BY <2>3 DEF hit
    <3> QED
      BY <2>1, <2>6, <3>1, <3>2, <3>3, <3>4
  <2>8. Cardinality(fwdHead'[v]) \in Nat
    BY <2>3, FS_CardinalityType
  <2> QED
    BY <1>1, <2>2, <2>3, <2>7, <2>8
<1>12. CountInv'
  BY <1>11 DEF CountInv
<1>13. TreeType'
  <2>1. \A v \in Vsw : ref'[v] \in Nat
    BY <1>11
  <2>2. ref' = [v \in Vsw |-> ref'[v]]
    BY <1>2
  <2>3. ref' \in [Vsw -> Nat]
    BY <2>1, <2>2
  <2>4. vswPort' \in [Port -> Vsw \cup {NULL}] /\ fwdHead' \in [Vsw -> SUBSET Port]
    BY <1>2, <1>5, <1>8, <1>9
  <2> QED
    BY <1>1, <1>8, <2>3, <2>4 DEF TreeType
<1>14. ListInv'
  <2>1. ASSUME NEW l \in Chan
        PROVE  /\ basePort'[l] \in {NULL, l} \cup vswHead'[l]
               /\ listenPort'[l] # "port" => vswHead'[l] = {} /\ basePort'[l] = NULL
               /\ listenPort'[l] = "port" => dataType'[l] # NULL
    BY <1>1 DEF FullInv, TreeInv, ListInv
  <2>2. ASSUME NEW l \in Chan, NEW u \in vswHead'[l]
        PROVE  /\ ref'[u] > 0 /\ \A m \in Chan : u \in vswHead'[m] => m = l
               /\ IF vswPort'[u] = NULL THEN u \in Made' /\ l = op'.l
                  ELSE basePort'[l] # NULL /\ vswPort'[u] = (ParentOf(l, u))'
    <3>1. /\ u \in vswHead[l] /\ u \in VswId /\ u \in Vsw /\ u \in Port /\ ref[u] > 0
          /\ \A m \in Chan : u \in vswHead'[m] => m = l
          /\ IF vswPort[u] = NULL THEN u \in Made /\ l = op.l
             ELSE basePort[l] # NULL /\ vswPort[u] = ParentOf(l, u)
      BY <1>1, <1>8, <2>2, NamesApart DEF FullInv, TreeInv, ListInv
    <3>2. ref'[u] > 0
      <4>1. CASE last /\ u \in Made
        <5>1. \E p \in Port : vswPort'[p] = u
          BY <1>5, <1>9, <4>1
        <5>2. fwdHead'[u] # {} /\ IsFiniteSet(fwdHead'[u]) /\ Cardinality(fwdHead'[u]) \in Nat
          BY <1>11, <3>1, <5>1
        <5>3. Cardinality(fwdHead'[u]) # 0
          BY <5>2, FS_EmptySet
        <5>4. ref'[u] = Cardinality(fwdHead'[u])
          <6>1. u \notin Made' /\ u \notin Chan
            BY <1>10, <3>1, <4>1, NamesApart
          <6>2. ref'[u] = Cardinality(fwdHead'[u]) + 0 + 0
            BY <1>11, <3>1, <6>1
          <6> QED
            BY <5>2, <6>2
        <5> QED
          BY <5>2, <5>3, <5>4
      <4>2. CASE ~(last /\ u \in Made)
        <5>1. ref'[u] = ref[u] + (IF u = vsw THEN 1 ELSE 0) - (IF last /\ u \in Made THEN 1 ELSE 0)
          BY <1>2, <3>1
        <5> QED
          BY <1>8, <3>1, <4>2, <5>1
      <4> QED
        BY <4>1, <4>2
    <3>3. CASE u = child
      <4>1. u \notin Chan \X Chan
        BY <3>1, NamesApart
      <4>2. u \in Made /\ basePort[op.l] # NULL /\ vsw = ParentOf(op.l, u)
        BY <1>3, <1>5, <3>3, <4>1
      <4>3. l = op.l
        BY <1>3, <3>1, <4>2 DEF FullInv, TreeInv, ListInv
      <4> QED
        BY <1>1, <1>9, <3>1, <3>2, <3>3, <4>2, <4>3 DEF ParentOf
    <3>4. CASE u # child
      <4>1. vswPort'[u] = vswPort[u]
        BY <1>9, <3>1, <3>4
      <4>2. vswPort[u] = NULL => ~last /\ u \in Made
        BY <1>5, <3>1, <3>4
      <4> QED
        BY <1>1, <1>10, <3>1, <3>2, <4>1, <4>2 DEF ParentOf
    <3> QED
      BY <3>3, <3>4
  <2>3. ASSUME NEW u \in VswId, \A l \in Chan : u \notin vswHead'[l]
        PROVE  ref'[u] = 0 /\ vswPort'[u] = NULL
    <3>1. /\ \A l \in Chan : u \notin vswHead[l]
          /\ u \in Vsw /\ u \in Port /\ u \notin Chan \X Chan /\ u \notin Chan
      BY <1>1, <2>3, NamesApart
    <3>2. ref[u] = 0 /\ vswPort[u] = NULL
      BY <3>1 DEF FullInv, TreeInv, ListInv
    <3>3. u # vsw /\ u \notin Made /\ u # child
      BY <1>3, <1>5, <3>1
    <3>4. ref'[u] = ref[u] + (IF u = vsw THEN 1 ELSE 0) - (IF last /\ u \in Made THEN 1 ELSE 0)
      BY <1>2, <3>1
    <3> QED
      BY <1>9, <3>1, <3>2, <3>3, <3>4
  <2>4. ASSUME NEW l \in Chan, NEW r \in Chan
        PROVE  IF r \in portHead'[l] THEN vswPort'[<< l, r >>] \in {l} \cup vswHead'[l]
               ELSE vswPort'[<< l, r >>] = NULL
    <3>1. << l, r >> \in Port /\ << l, r >> \in Chan \X Chan
      BY NamesApart
    <3>2. CASE << l, r >> = child
      <4>1. l = op.l /\ r = op.r
        BY <1>9, <3>1, <3>2 DEF Own
      <4> QED
        BY <1>1, <1>5, <1>7, <1>8, <1>9, <3>2, <4>1
    <3>3. CASE << l, r >> # child
      <4>1. vswPort'[<< l, r >>] = vswPort[<< l, r >>]
        BY <1>9, <3>1, <3>3
      <4>2. r \in portHead'[l] <=> r \in portHead[l]
        <5>1. l = op.l /\ r = op.r => r \in portHead[l]
          BY <1>4, <3>3
        <5> QED
          BY <1>3, <1>7, <1>8, <5>1
      <4> QED
        BY <1>1, <4>1, <4>2 DEF FullInv, TreeInv, ListInv
    <3> QED
      BY <3>2, <3>3
  <2> QED
    BY <2>1, <2>2, <2>3, <2>4 DEF ListInv
<1>15. StreamInv'
  <2>1. \A l \in Chan :
          /\ \A v \in vswHead'[l] : conv'[v] \in Type \X Type /\ (basePort'[l] # NULL => conv'[v][1] = (OutType(ParentOf(l, v)))')
          /\ \A u, v \in {l} \cup vswHead'[l] : (OutType(u))' = (OutType(v))' => u = v \/ (OutType(u))' \in late'
          /\ basePort'[l] # NULL => (OutType(basePort[l]))' = BaseType
          /\ listenPort'[l] = "port" /\ basePort'[l] # l => ChanType[l] # BaseType
    BY <1>1 DEF FullInv, TreeInv, StreamInv, OutType, ParentOf
  <2>2. ASSUME NEW l \in Chan, NEW r \in Chan, r \in portHead'[l]
        PROVE  (OutType(vswPort[<< l, r >>]))' = dataType'[r]
    <3>1. << l, r >> \in Port /\ << l, r >> \in Chan \X Chan
      BY NamesApart
    <3>2. CASE << l, r >> = child
      <4>1. l = op.l /\ r = op.r /\ child = Own /\ child \notin Made
        BY <1>3, <1>9, <3>1, <3>2, NamesApart DEF Own
      <4>2. OutType(vsw) = dataType[r] /\ vswPort'[<< l, r >>] = vsw
        BY <1>5, <1>9, <3>2, <4>1
      <4> QED
        BY <1>1, <4>2 DEF OutType
    <3>3. CASE << l, r >> # child
      <4>1. vswPort'[<< l, r >>] = vswPort[<< l, r >>]
        BY <1>9, <3>1, <3>3
      <4>2. r \in portHead[l]
        <5>1. l = op.l /\ r = op.r => r \in portHead[l]
          BY <1>4, <3>3
        <5> QED
          BY <1>3, <1>7, <1>8, <2>2, <5>1
      <4> QED
        BY <1>1, <4>1, <4>2 DEF FullInv, TreeInv, StreamInv, OutType
    <3> QED
      BY <3>2, <3>3
  <2> QED
    BY <2>1, <2>2 DEF StreamInv
<1>16. ConnInv'
  <2>1. CASE last
    <3>1. op' = NoOp /\ Made' = {}
      BY <1>10, <2>1
    <3> QED
      BY <3>1 DEF ConnInv
  <2>2. CASE ~last
    <3>1. op'.make = << >> /\ (JoinOne' \/ JoinTwo') /\ Own' = Own /\ Made' = Made
      BY <1>4, <1>6, <1>9, <1>10, <2>2 DEF Own
    <3>2. ASSUME NEW p \in Chan \X Chan, vswPort'[p] \in Made' PROVE p = Own'
      <4>1. CASE p = child
        BY <1>9, <3>1, <3>2, <4>1
      <4>2. CASE p # child
        BY <1>9, <3>1, <3>2, <4>2, NamesApart DEF FullInv, TreeInv, ConnInv
      <4> QED
        BY <4>1, <4>2
    <3> QED
      BY <3>1, <3>2 DEF ConnInv
  <2> QED
    BY <2>1, <2>2
<1> QED
  BY <1>12, <1>13, <1>14, <1>15, <1>16 DEF TreeInv

(* What goes when the port of r at l is cut: a chain from the vsw of the   *)
(* port upwards, each vsw of which has the one before it as its only child.*)
LEMMA DyingChain ==
  ASSUME FullInv, op = NoOp, NEW l \in Chan, NEW r \in portHead[l],
         NEW v, v = vswPort[<< l, r >>], NEW gone, gone = Dying(v) \cup {<< l, r >>}
  PROVE  /\ v \in {l} \cup vswHead[l] /\ << l, r >> \in Port /\ gone \subseteq Port
         /\ Dying(v) \subseteq vswHead[l] /\ Dying(v) \subseteq VswId /\ << l, r >> \notin VswId
         /\ Putted(v) \subseteq {l} \cup vswHead[l]
         /\ \A u : u \in Putted(v) <=> \E x \in gone : vswPort[x] = u
         /\ \A x, y \in gone : vswPort[x] = vswPort[y] => x = y
         /\ \A d \in Dying(v) : ref[d] = 1 /\ d \in Putted(v)
         /\ \A p \in Port : vswPort[p] \in Dying(v) => p \in gone
         /\ \A u \in VswId : u \in Putted(v) /\ u \notin Dying(v) => ref[u] # 1
         /\ basePort[l] \in Dying(v) => vswHead[l] \subseteq Dying(v)
<1>1. /\ r \in Chan /\ << l, r >> \in Port /\ << l, r >> \notin VswId /\ v \in {l} \cup vswHead[l]
      /\ vswHead[l] \subseteq VswId
  BY NamesApart DEF FullInv, IInv, PortType, TreeInv, ListInv, TreeType
<1>2. ASSUME NEW u \in vswHead[l]
      PROVE  /\ u \in VswId /\ u # l /\ u \in Port /\ vswPort[u] = ParentOf(l, u) /\ vswPort[u] # u
             /\ vswPort[u] \in {l} \cup vswHead[l] /\ (vswPort[u] # l => vswPort[u] = basePort[l])
             /\ (u # basePort[l] => vswPort[u] = basePort[l]) /\ (u = basePort[l] => vswPort[u] = l)
  <2>1. u \in VswId /\ u # l /\ u \in Port /\ Made = {}
    BY <1>1, NoneMade, NamesApart
  <2>2. basePort[l] # NULL /\ vswPort[u] = ParentOf(l, u)
    BY <2>1 DEF FullInv, TreeInv, ListInv
  <2>3. basePort[l] \in {l} \cup vswHead[l]
    BY <2>2 DEF FullInv, TreeInv, ListInv
  <2> QED
    BY <2>1, <2>2, <2>3 DEF ParentOf
<1>3. /\ \A d \in Dying(v) : d \in VswId /\ ref[d] = 1 /\ (d = v \/ (v \in Dying(v) /\ d = vswPort[v]))
      /\ \A d \in VswId : ref[d] = 1 /\ (d = v \/ (v \in Dying(v) /\ d = vswPort[v])) => d \in Dying(v)
  BY DEF Dying
<1>4. Dying(v) \subseteq vswHead[l] /\ Dying(v) \subseteq VswId
  <2>1. ASSUME NEW d \in Dying(v), d = v PROVE d \in vswHead[l]
    BY <1>1, <1>3, <2>1, NamesApart
  <2>2. ASSUME NEW d \in Dying(v), v \in Dying(v), d = vswPort[v] PROVE d \in vswHead[l]
    <3>1. v \in vswHead[l]
      BY <2>1, <2>2
    <3>2. d \in {l} \cup vswHead[l] /\ d \in VswId
      BY <1>2, <1>3, <2>2, <3>1
    <3> QED
      BY <3>2, NamesApart
  <2> QED
    BY <1>3, <2>1, <2>2
<1>5. \A u : u \in Putted(v) <=> \E x \in gone : vswPort[x] = u
  BY DEF Putted
<1>6. Putted(v) \subseteq {l} \cup vswHead[l]
  BY <1>1, <1>2, <1>4 DEF Putted
<1>7. \A d \in Dying(v) : ref[d] = 1 /\ d \in Putted(v)
  BY <1>3 DEF Putted
<1>8. \A x, y \in gone : vswPort[x] = vswPort[y] => x = y
  <2>1. ASSUME NEW d \in Dying(v) PROVE vswPort[d] # v
    <3>1. CASE d = v
      BY <1>2, <1>4, <3>1
    <3>2. CASE d # v
      <4>1. v \in Dying(v) /\ d = vswPort[v] /\ d \in vswHead[l] /\ v \in vswHead[l]
        BY <1>3, <1>4, <3>2
      <4>2. d = basePort[l]
        BY <1>2, <4>1
      <4> QED
        BY <1>2, <4>1, <4>2
    <3> QED
      BY <3>1, <3>2
  <2>2. ASSUME NEW c \in Dying(v), NEW d \in Dying(v), vswPort[c] = vswPort[d], c # d PROVE FALSE
    <3>1. v \in Dying(v) /\ ((c = v /\ d = vswPort[v]) \/ (d = v /\ c = vswPort[v]))
      BY <1>3, <2>2
    <3> QED
      BY <1>2, <1>4, <2>2, <3>1
  <2> QED
    BY <2>1, <2>2
<1>9. \A p \in Port : vswPort[p] \in Dying(v) => p \in gone
  <2> SUFFICES ASSUME NEW p \in Port, vswPort[p] \in Dying(v) PROVE p \in gone
    OBVIOUS
  <2> DEFINE d == vswPort[p]
  <2>1. PICK x \in gone : vswPort[x] = d
    BY <1>5, <1>7
  <2>2. d \in Vsw /\ d \notin Chan /\ d \notin Made /\ ref[d] = 1
    BY <1>3, NoneMade, NamesApart
  <2>3. /\ fwdHead[d] = {q \in Port : vswPort[q] = d} /\ IsFiniteSet(fwdHead[d])
        /\ Cardinality(fwdHead[d]) \in Nat /\ Cardinality(fwdHead[d]) = 1
    <3>1. fwdHead[d] = {q \in Port : vswPort[q] = d} /\ IsFiniteSet(fwdHead[d]) /\ Cardinality(fwdHead[d]) \in Nat
      BY <2>2, FS_CardinalityType DEF FullInv, TreeInv, CountInv
    <3> QED
      <4>1. ref[d] = Cardinality(fwdHead[d]) + (IF d \in Made THEN 1 ELSE 0)
                     + (IF d \in Chan /\ listenPort[d] = "port" THEN 2 ELSE 0)
        BY <2>2 DEF FullInv, TreeInv, CountInv
      <4>2. ref[d] = Cardinality(fwdHead[d]) + 0 + 0
        BY <2>2, <4>1
      <4> QED
        BY <2>2, <3>1, <4>2
  <2>4. x \in Port
    BY <1>1, <1>4, NamesApart
  <2>5. PICK y : fwdHead[d] = {y}
    BY <2>3, FS_Singleton
  <2>6. p \in fwdHead[d] /\ x \in fwdHead[d]
    BY <2>1, <2>3, <2>4
  <2> QED
    BY <2>5, <2>6
<1>10. \A u \in VswId : u \in Putted(v) /\ u \notin Dying(v) => ref[u] # 1
  <2>1. ASSUME NEW u \in VswId, u \in Putted(v), u \notin Dying(v), ref[u] = 1 PROVE FALSE
    <3>1. u # v
      BY <1>3, <2>1
    <3>2. PICK x \in Dying(v) : u = vswPort[x]
      BY <2>1, <3>1 DEF Putted
    <3>3. x = v
      <4>1. ASSUME x # v PROVE FALSE
        <5>1. v \in Dying(v) /\ x = vswPort[v] /\ x \in vswHead[l] /\ v \in vswHead[l]
          BY <1>3, <1>4, <3>2, <4>1
        <5>2. x = basePort[l]
          BY <1>2, <5>1
        <5> QED
          BY <1>2, <2>1, <3>2, <5>1, <5>2, NamesApart
      <4> QED
        BY <4>1
    <3> QED
      BY <1>3, <2>1, <3>2, <3>3
  <2> QED
    BY <2>1
<1>11. basePort[l] \in Dying(v) => vswHead[l] \subseteq Dying(v)
  <2>1. ASSUME basePort[l] \in Dying(v), NEW u \in vswHead[l], u # basePort[l] PROVE u \in Dying(v)
    BY <1>1, <1>2, <1>9, <2>1
  <2> QED
    BY <2>1
<1> QED
  BY <1>1, <1>4, <1>5, <1>6, <1>7, <1>8, <1>9, <1>10, <1>11, NamesApart

(* A port is cut, with the converters that are for it alone.               *)
LEMMA DisconnectTree ==
  ASSUME FullInv, op = NoOp, NEW l \in Chan, NEW r \in Chan, DisconnectChan(l, r),
         UNCHANGED << dataType, late, listenPort, op >>
  PROVE  TreeInv'
<1> DEFINE P    == << l, r >>
           v    == vswPort[P]
           dead == Dying(v)
           gone == dead \cup {P}
<1>1. /\ r \in portHead[l] /\ portHead' = [portHead EXCEPT ![l] = @ \ {r}]
      /\ fwdHead' = [u \in Vsw |-> fwdHead[u] \ gone]
      /\ vswPort' = [p \in Port |-> IF p \in gone THEN NULL ELSE vswPort[p]]
      /\ ref' = [u \in Vsw |-> IF u \in Putted(v) THEN ref[u] - 1 ELSE ref[u]]
      /\ conv' = [u \in VswId |-> IF u \in dead THEN NoConv ELSE conv[u]]
      /\ vswHead' = [vswHead EXCEPT ![l] = @ \ dead]
      /\ basePort' = [basePort EXCEPT ![l] = IF @ \in dead THEN NULL ELSE @]
  BY DEF DisconnectChan, Unlisted, BaseAfter
<1>2. /\ v \in {l} \cup vswHead[l] /\ P \in Port /\ gone \subseteq Port
      /\ dead \subseteq vswHead[l] /\ dead \subseteq VswId /\ P \notin VswId
      /\ Putted(v) \subseteq {l} \cup vswHead[l]
      /\ \A u : u \in Putted(v) <=> \E x \in gone : vswPort[x] = u
      /\ \A x, y \in gone : vswPort[x] = vswPort[y] => x = y
      /\ \A d \in dead : ref[d] = 1 /\ d \in Putted(v)
      /\ \A p \in Port : vswPort[p] \in dead => p \in gone
      /\ \A u \in VswId : u \in Putted(v) /\ u \notin dead => ref[u] # 1
      /\ basePort[l] \in dead => vswHead[l] \subseteq dead
  <2>1. r \in portHead[l]
    BY <1>1
  <2>2. v = vswPort[<< l, r >>] /\ gone = Dying(v) \cup {<< l, r >>} /\ dead = Dying(v) /\ P = << l, r >>
    OBVIOUS
  <2> HIDE DEF v, dead, gone, P
  <2> QED
    <3>1. /\ v \in {l} \cup vswHead[l] /\ P \in Port /\ gone \subseteq Port
          /\ dead \subseteq vswHead[l] /\ dead \subseteq VswId /\ P \notin VswId
      BY <2>1, <2>2, DyingChain
    <3>2. Putted(v) \subseteq {l} \cup vswHead[l]
      BY <2>1, <2>2, DyingChain
    <3>3. \A u : u \in Putted(v) <=> \E x \in gone : vswPort[x] = u
      BY <2>2 DEF Putted
    <3>4. \A x, y \in gone : vswPort[x] = vswPort[y] => x = y
      BY <2>1, <2>2, DyingChain
    <3>5. /\ \A d \in dead : ref[d] = 1 /\ d \in Putted(v)
          /\ \A p \in Port : vswPort[p] \in dead => p \in gone
      BY <2>1, <2>2, DyingChain
    <3>6. \A u \in VswId : u \in Putted(v) /\ u \notin dead => ref[u] # 1
      BY <2>1, <2>2, DyingChain
    <3>7. basePort[l] \in dead => vswHead[l] \subseteq dead
      BY <2>1, <2>2, DyingChain
    <3> QED
      BY <3>1, <3>2, <3>3, <3>4, <3>5, <3>6, <3>7
<1> HIDE DEF v, dead, gone
<1>3. gone = dead \cup {P} /\ Made = {} /\ Made' = {}
  BY NoneMade, MadeOfNext DEF gone, NoOp
<1>4. /\ portHead \in [Chan -> SUBSET Chan]
      /\ late \subseteq Type /\ dataType \in [Chan -> Type \cup {NULL}] /\ vswHead \in [Chan -> SUBSET VswId]
      /\ basePort \in [Chan -> Vsw \cup {NULL}] /\ vswPort \in [Port -> Vsw \cup {NULL}]
      /\ fwdHead \in [Vsw -> SUBSET Port] /\ ref \in [Vsw -> Nat]
      /\ conv \in [VswId -> (Type \X Type) \cup {NoConv}]
  BY DEF FullInv, IInv, PortType, TreeInv, TreeType
<1>5. ASSUME NEW u \in Vsw
      PROVE  /\ fwdHead'[u] = {p \in Port : vswPort'[p] = u} /\ IsFiniteSet(fwdHead'[u])
             /\ Cardinality(fwdHead'[u]) \in Nat
             /\ ref'[u] = Cardinality(fwdHead'[u]) + (IF u \in Chan /\ listenPort[u] = "port" THEN 2 ELSE 0)
  <2>1. /\ fwdHead[u] = {p \in Port : vswPort[p] = u} /\ IsFiniteSet(fwdHead[u]) /\ Cardinality(fwdHead[u]) \in Nat
        /\ u # NULL
    BY NamesApart, FS_CardinalityType DEF FullInv, TreeInv, CountInv
  <2> DEFINE two == IF u \in Chan /\ listenPort[u] = "port" THEN 2 ELSE 0
  <2>2. two \in Nat /\ ref[u] = Cardinality(fwdHead[u]) + two
    <3>1. ref[u] = Cardinality(fwdHead[u]) + (IF u \in Made THEN 1 ELSE 0) + two
      BY DEF FullInv, TreeInv, CountInv
    <3>2. ref[u] = Cardinality(fwdHead[u]) + 0 + two
      BY <1>3, <3>1
    <3> QED
      BY <2>1, <3>2
  <2> HIDE DEF two
  <2>3. fwdHead'[u] = fwdHead[u] \ gone
    BY <1>1
  <2>4. fwdHead'[u] = {p \in Port : vswPort'[p] = u}
    BY <1>1, <2>1, <2>3
  <2>5. CASE u \in Putted(v)
    <3>1. PICK x \in gone : vswPort[x] = u
      BY <1>2, <2>5
    <3>2. fwdHead'[u] = fwdHead[u] \ {x} /\ x \in fwdHead[u]
      BY <1>2, <2>1, <2>3, <3>1
    <3>3. IsFiniteSet(fwdHead[u] \ {x}) /\ Cardinality(fwdHead[u] \ {x}) = Cardinality(fwdHead[u]) - 1
      BY <2>1, <3>2, FS_RemoveElement
    <3>4. Cardinality(fwdHead'[u]) \in Nat
      BY <3>2, <3>3, FS_CardinalityType
    <3>5. ref'[u] = ref[u] - 1
      BY <1>1, <2>5
    <3>6. ref'[u] = Cardinality(fwdHead'[u]) + two
      BY <2>1, <2>2, <3>2, <3>3, <3>5
    <3> QED
      BY <2>4, <3>2, <3>3, <3>4, <3>6 DEF two
  <2>6. CASE u \notin Putted(v)
    <3>1. fwdHead'[u] = fwdHead[u]
      BY <1>2, <2>1, <2>3, <2>6
    <3>2. ref'[u] = ref[u]
      BY <1>1, <2>6
    <3> QED
      BY <2>1, <2>2, <2>4, <3>1, <3>2 DEF two
  <2> QED
    BY <2>5, <2>6
<1>6. CountInv'
  <2>1. ASSUME NEW u \in Vsw
        PROVE  ref'[u] = Cardinality(fwdHead'[u]) + (IF u \in Made' THEN 1 ELSE 0)
                         + (IF u \in Chan /\ listenPort'[u] = "port" THEN 2 ELSE 0)
    <3>1. (IF u \in Made' THEN 1 ELSE 0) = 0 /\ listenPort'[u] = listenPort[u]
      BY <1>3
    <3>2. ref'[u] = Cardinality(fwdHead'[u]) + 0 + (IF u \in Chan /\ listenPort[u] = "port" THEN 2 ELSE 0)
      BY <1>5
    <3> QED
      BY <3>1, <3>2
  <2> QED
    BY <1>5, <2>1 DEF CountInv
<1>7. TreeType'
  <2>1. ASSUME NEW u \in Vsw PROVE ref'[u] \in Nat
    <3>1. Cardinality(fwdHead'[u]) \in Nat /\ (IF u \in Chan /\ listenPort[u] = "port" THEN 2 ELSE 0) \in Nat
      BY <1>5
    <3> QED
      BY <1>5, <3>1
  <2>2. ref' = [u \in Vsw |-> ref'[u]]
    BY <1>1
  <2>3. ref' \in [Vsw -> Nat]
    BY <2>1, <2>2
  <2>4. /\ vswPort' \in [Port -> Vsw \cup {NULL}] /\ fwdHead' \in [Vsw -> SUBSET Port]
        /\ vswHead' \in [Chan -> SUBSET VswId] /\ basePort' \in [Chan -> Vsw \cup {NULL}]
        /\ conv' \in [VswId -> (Type \X Type) \cup {NoConv}]
    BY <1>1, <1>4
  <2> QED
    BY <1>4, <2>3, <2>4 DEF TreeType
(* What stays is as it was.                                                *)
<1>8. /\ vswHead'[l] = vswHead[l] \ dead /\ \A m \in Chan : m # l => vswHead'[m] = vswHead[m] /\ basePort'[m] = basePort[m]
      /\ basePort'[l] = IF basePort[l] \in dead THEN NULL ELSE basePort[l]
      /\ \A m \in Chan : \A u \in vswHead'[m] : u \in vswHead[m] /\ u \in VswId /\ u \notin dead
      /\ \A m \in Chan : \A u \in vswHead'[m] : basePort'[m] = basePort[m]
  <2>1. /\ vswHead'[l] = vswHead[l] \ dead /\ \A m \in Chan : m # l => vswHead'[m] = vswHead[m] /\ basePort'[m] = basePort[m]
        /\ basePort'[l] = IF basePort[l] \in dead THEN NULL ELSE basePort[l]
    BY <1>1, <1>4
  <2>2. \A m \in Chan : \A u \in vswHead'[m] : u \in vswHead[m] /\ u \in VswId
    BY <1>4, <2>1
  <2>3. \A m \in Chan : \A u \in vswHead'[m] : u \notin dead
    BY <1>2, <2>1, <2>2 DEF FullInv, TreeInv, ListInv
  <2>4. \A m \in Chan : \A u \in vswHead'[m] : basePort'[m] = basePort[m]
    BY <1>2, <2>1
  <2> QED
    BY <2>1, <2>2, <2>3, <2>4
<1>9. /\ \A u : u \notin dead => (OutType(u))' = OutType(u) \/ u \notin Vsw
      /\ \A p \in Port : p \notin gone => vswPort'[p] = vswPort[p]
  BY <1>1 DEF OutType, Vsw
<1>10. ListInv'
  <2>1. ASSUME NEW m \in Chan
        PROVE  /\ basePort'[m] \in {NULL, m} \cup vswHead'[m]
               /\ listenPort'[m] # "port" => vswHead'[m] = {} /\ basePort'[m] = NULL
               /\ listenPort'[m] = "port" => dataType'[m] # NULL
    BY <1>8 DEF FullInv, TreeInv, ListInv
  <2>2. ASSUME NEW m \in Chan, NEW u \in vswHead'[m]
        PROVE  /\ ref'[u] > 0 /\ \A n \in Chan : u \in vswHead'[n] => n = m
               /\ IF vswPort'[u] = NULL THEN u \in Made' /\ m = op'.l
                  ELSE basePort'[m] # NULL /\ vswPort'[u] = (ParentOf(m, u))'
    <3>1. /\ u \in vswHead[m] /\ u \in VswId /\ u \notin dead /\ u \in Port /\ u \in Vsw /\ u # P
          /\ basePort'[m] = basePort[m] /\ u \notin gone
      BY <1>2, <1>3, <1>8, <2>2, NamesApart
    <3>2. /\ ref[u] > 0 /\ ref[u] \in Nat /\ \A n \in Chan : u \in vswHead'[n] => n = m
          /\ vswPort[u] # NULL /\ basePort[m] # NULL /\ vswPort[u] = ParentOf(m, u)
      BY <1>3, <1>4, <1>8, <3>1 DEF FullInv, TreeInv, ListInv
    <3>3. ref'[u] > 0
      <4>1. u \in Putted(v) => ref[u] # 1
        BY <1>2, <3>1
      <4>2. ref'[u] = IF u \in Putted(v) THEN ref[u] - 1 ELSE ref[u]
        BY <1>1, <3>1
      <4> QED
        BY <3>2, <4>1, <4>2
    <3>4. vswPort'[u] = vswPort[u] /\ (ParentOf(m, u))' = ParentOf(m, u)
      BY <1>9, <3>1 DEF ParentOf
    <3> QED
      BY <3>1, <3>2, <3>3, <3>4
  <2>3. ASSUME NEW u \in VswId, \A m \in Chan : u \notin vswHead'[m]
        PROVE  ref'[u] = 0 /\ vswPort'[u] = NULL
    <3>1. u \in Vsw /\ u \in Port
      BY NamesApart
    <3>2. CASE u \in dead
      <4>1. u \in Putted(v) /\ ref[u] = 1 /\ u \in gone
        BY <1>2, <1>3, <3>2
      <4> QED
        BY <1>1, <3>1, <4>1
    <3>3. CASE u \notin dead
      <4>1. \A m \in Chan : u \notin vswHead[m]
        BY <1>8, <2>3, <3>3
      <4>2. ref[u] = 0 /\ vswPort[u] = NULL /\ u \notin Putted(v)
        BY <1>2, <4>1, NamesApart DEF FullInv, TreeInv, ListInv
      <4> QED
        BY <1>1, <3>1, <4>2
    <3> QED
      BY <3>2, <3>3
  <2>4. ASSUME NEW m \in Chan, NEW s \in Chan
        PROVE  IF s \in portHead'[m] THEN vswPort'[<< m, s >>] \in {m} \cup vswHead'[m]
               ELSE vswPort'[<< m, s >>] = NULL
    <3>1. << m, s >> \in Port /\ << m, s >> \notin dead
      BY <1>2, NamesApart
    <3>2. CASE << m, s >> = P
      <4>1. m = l /\ s = r /\ << m, s >> \in gone
        BY <1>3, <3>2
      <4> QED
        BY <1>1, <1>4, <3>1, <4>1
    <3>3. CASE << m, s >> # P
      <4>1. << m, s >> \notin gone /\ ~(m = l /\ s = r)
        BY <1>3, <3>1, <3>3
      <4>2. (s \in portHead'[m]) = (s \in portHead[m]) /\ vswPort'[<< m, s >>] = vswPort[<< m, s >>]
        BY <1>1, <1>4, <1>9, <3>1, <4>1
      <4>3. vswPort[<< m, s >>] \notin dead
        BY <1>2, <3>1, <4>1
      <4>4. IF s \in portHead[m] THEN vswPort[<< m, s >>] \in {m} \cup vswHead[m] ELSE vswPort[<< m, s >>] = NULL
        BY DEF FullInv, TreeInv, ListInv
      <4> QED
        BY <1>8, <4>2, <4>3, <4>4
    <3> QED
      BY <3>2, <3>3
  <2> QED
    BY <2>1, <2>2, <2>3, <2>4 DEF ListInv
<1>11. StreamInv'
  <2>1. ASSUME NEW m \in Chan, NEW u \in {m} \cup vswHead'[m]
        PROVE  u \in {m} \cup vswHead[m] /\ u \notin dead /\ u \in Vsw /\ (OutType(u))' = OutType(u)
    BY <1>2, <1>8, <1>9, NamesApart
  <2>2. ASSUME NEW m \in Chan, NEW u \in vswHead'[m]
        PROVE  conv'[u] \in Type \X Type /\ (basePort'[m] # NULL => conv'[u][1] = (OutType(ParentOf(m, u)))')
    <3>1. u \in vswHead[m] /\ u \notin dead /\ u \in VswId /\ conv'[u] = conv[u] /\ basePort'[m] = basePort[m]
      BY <1>1, <1>8, <2>2
    <3>2. ASSUME basePort[m] # NULL PROVE (OutType(ParentOf(m, u)))' = OutType(ParentOf(m, u))
      <4>1. basePort'[m] \in {m} \cup vswHead'[m]
        BY <1>10, <3>1, <3>2 DEF ListInv
      <4>2. (ParentOf(m, u))' = ParentOf(m, u) /\ ParentOf(m, u) \in {m} \cup vswHead'[m]
        BY <3>1, <4>1 DEF ParentOf
      <4>3. PICK q \in {m} \cup vswHead'[m] : q = ParentOf(m, u) /\ q = (ParentOf(m, u))'
        BY <4>2
      <4>4. (OutType(q))' = OutType(q)
        BY <2>1
      <4> QED
        BY <4>3, <4>4 DEF OutType
    <3> QED
      BY <3>1, <3>2 DEF FullInv, TreeInv, StreamInv
  <2>3. ASSUME NEW m \in Chan
        PROVE  /\ \A u, w \in {m} \cup vswHead'[m] : (OutType(u))' = (OutType(w))' => u = w \/ (OutType(u))' \in late'
               /\ basePort'[m] # NULL => (OutType(basePort[m]))' = BaseType
               /\ listenPort'[m] = "port" /\ basePort'[m] # m => ChanType[m] # BaseType
    <3>1. \A u, w \in {m} \cup vswHead[m] : OutType(u) = OutType(w) => u = w \/ OutType(u) \in late
      BY DEF FullInv, TreeInv, StreamInv
    <3>2. \A u, w \in {m} \cup vswHead'[m] : (OutType(u))' = (OutType(w))' => u = w \/ (OutType(u))' \in late'
      BY <2>1, <3>1
    <3>3. ASSUME basePort'[m] # NULL PROVE (OutType(basePort[m]))' = BaseType
      <4>1. basePort'[m] = basePort[m] /\ basePort'[m] \in {m} \cup vswHead'[m]
        BY <1>8, <1>10, <3>3 DEF ListInv
      <4>2. PICK q \in {m} \cup vswHead'[m] : q = basePort[m] /\ q = basePort'[m]
        BY <4>1
      <4>3. (OutType(q))' = OutType(q) /\ OutType(q) = BaseType
        BY <2>1, <3>3, <4>1, <4>2 DEF FullInv, TreeInv, StreamInv
      <4> QED
        BY <4>2, <4>3 DEF OutType
    <3>4. ASSUME listenPort'[m] = "port", basePort'[m] # m PROVE ChanType[m] # BaseType
      <4>1. m \notin dead
        BY <1>2, NamesApart
      <4>2. basePort[m] # m
        BY <1>8, <3>4, <4>1
      <4> QED
        BY <3>4, <4>2 DEF FullInv, TreeInv, StreamInv
    <3> QED
      BY <3>2, <3>3, <3>4
  <2>4. ASSUME NEW m \in Chan, NEW s \in Chan, s \in portHead'[m]
        PROVE  (OutType(vswPort[<< m, s >>]))' = dataType'[s]
    <3>1. vswPort'[<< m, s >>] \in {m} \cup vswHead'[m]
      BY <1>10, <2>4 DEF ListInv
    <3>2. s \in portHead[m] /\ << m, s >> \in Port /\ << m, s >> \notin gone
      BY <1>1, <1>2, <1>3, <1>4, <2>4, NamesApart
    <3>3. vswPort'[<< m, s >>] = vswPort[<< m, s >>]
      BY <1>9, <3>2
    <3>4. PICK q \in {m} \cup vswHead'[m] : q = vswPort[<< m, s >>] /\ q = vswPort'[<< m, s >>]
      BY <3>1, <3>3
    <3>5. (OutType(q))' = OutType(q) /\ OutType(q) = dataType[s]
      <4>1. OutType(vswPort[<< m, s >>]) = dataType[s]
        BY <3>2 DEF FullInv, TreeInv, StreamInv
      <4> QED
        BY <2>1, <3>4, <4>1
    <3> QED
      BY <3>4, <3>5 DEF OutType
  <2> QED
    BY <2>2, <2>3, <2>4 DEF StreamInv
<1>12. ConnInv'
  BY <1>3 DEF ConnInv
<1> QED
  BY <1>6, <1>7, <1>10, <1>11, <1>12 DEF TreeInv

(* When no connection is being made each converter is where it belongs and *)
(* has a port below it.                                                    *)
LEMMA InUse ==
  ASSUME FullInv, op = NoOp, NEW l \in Chan, NEW u \in vswHead[l]
  PROVE  /\ u \in Vsw /\ u \in VswId /\ u # l /\ ref[u] > 0
         /\ basePort[l] # NULL /\ basePort[l] \in {l} \cup vswHead[l]
         /\ u \in Port /\ vswPort[u] = ParentOf(l, u) /\ fwdHead[u] # {}
<1>1. u \in Vsw /\ u \in VswId /\ u \in Port /\ u # l /\ u \notin Chan /\ Made = {} /\ ref[u] > 0
  BY NoneMade, NamesApart DEF FullInv, TreeInv, TreeType, ListInv
<1>2. basePort[l] # NULL /\ basePort[l] \in {l} \cup vswHead[l] /\ vswPort[u] = ParentOf(l, u)
  BY <1>1 DEF FullInv, TreeInv, ListInv
<1>3. ref[u] = Cardinality(fwdHead[u]) + (IF u \in Made THEN 1 ELSE 0)
               + (IF u \in Chan /\ listenPort[u] = "port" THEN 2 ELSE 0)
  BY <1>1 DEF FullInv, TreeInv, CountInv
<1>4. ASSUME fwdHead[u] = {} PROVE FALSE
  <2>1. Cardinality(fwdHead[u]) = 0
    BY <1>4, FS_EmptySet
  <2>2. ref[u] = 0 + 0 + 0
    BY <1>1, <1>3, <2>1
  <2> QED
    BY <1>1, <2>2
<1> QED
  BY <1>1, <1>2, <1>4

(* The memory of a listen port goes when nobody listens any more: then it  *)
(* has no converter either.                                                *)
LEMMA NobodyListens ==
  ASSUME FullInv, op = NoOp, NEW l \in Chan, portHead[l] = {}
  PROVE  vswHead[l] = {} /\ fwdHead[l] = {}
<1>1. ASSUME NEW u \in vswHead[l]
      PROVE  u # l /\ \E p \in vswHead[l] : p # u /\ u = ParentOf(l, p)
  <2>1. u # l
    BY InUse
  <2>2. PICK p : p \in fwdHead[u]
    BY InUse
  <2>3. p \in vswHead[l] /\ p # u /\ u = ParentOf(l, p)
    BY <2>2, Kids
  <2> QED
    BY <2>1, <2>3
<1>2. vswHead[l] = {}
  <2>1. ASSUME NEW u \in vswHead[l] PROVE FALSE
    <3>1. PICK p \in vswHead[l] : p # u /\ u = ParentOf(l, p)
      BY <1>1
    <3>2. u # l
      BY <1>1
    <3>3. u = basePort[l]
      BY <3>1, <3>2 DEF ParentOf
    <3>4. PICK q \in vswHead[l] : q # p /\ p = ParentOf(l, q)
      BY <1>1
    <3>5. p # l
      BY <1>1
    <3> QED
      BY <3>1, <3>3, <3>4, <3>5 DEF ParentOf
  <2> QED
    BY <2>1
<1> QED
  BY <1>2, Kids

(* The listen port is freed.                                               *)
LEMMA FreeListenTree ==
  ASSUME FullInv, NEW c \in Chan, FreeListen(c)
  PROVE  TreeInv'
<1>1. /\ rel[c] = "freeing" /\ portHead[c] = {}
      /\ ref' = [ref EXCEPT ![c] = @ - 2]
      /\ basePort' = [basePort EXCEPT ![c] = IF @ \in {c} THEN NULL ELSE @]
      /\ listenPort' = [listenPort EXCEPT ![c] = "freed"]
      /\ UNCHANGED << dataType, late, portHead, vswHead, vswPort, fwdHead, conv, op >>
  BY DEF FreeListen, LoopDone, BaseAfter, chanVars, listVars
<1>2. op = NoOp /\ listenPort[c] = "port" /\ Made = {} /\ Made' = {}
  <2>1. op = NoOp /\ listenPort[c] = "port"
    BY <1>1 DEF FullInv, IInv, OpInv, RelInv
  <2> QED
    BY <1>1, <2>1, NoneMade, MadeOfNext DEF NoOp
<1>3. vswHead[c] = {} /\ fwdHead[c] = {}
  BY <1>1, <1>2, NobodyListens
<1>4. /\ listenPort \in [Chan -> {"NULL", "port", "freed"}]
      /\ late \subseteq Type /\ dataType \in [Chan -> Type \cup {NULL}] /\ vswHead \in [Chan -> SUBSET VswId]
      /\ basePort \in [Chan -> Vsw \cup {NULL}] /\ vswPort \in [Port -> Vsw \cup {NULL}]
      /\ fwdHead \in [Vsw -> SUBSET Port] /\ ref \in [Vsw -> Nat]
      /\ conv \in [VswId -> (Type \X Type) \cup {NoConv}]
  BY DEF FullInv, IInv, PortType, TreeInv, TreeType
<1>5. ref[c] = 2 /\ c \in Vsw /\ Cardinality(fwdHead[c]) = 0
  <2>1. c \in Vsw /\ Cardinality(fwdHead[c]) = 0
    BY <1>3, NamesApart, FS_EmptySet
  <2>2. ref[c] = Cardinality(fwdHead[c]) + (IF c \in Made THEN 1 ELSE 0)
                 + (IF c \in Chan /\ listenPort[c] = "port" THEN 2 ELSE 0)
    BY <2>1 DEF FullInv, TreeInv, CountInv
  <2> QED
    BY <1>2, <2>1, <2>2
<1>6. /\ ref'[c] = 0 /\ \A u \in Vsw : u # c => ref'[u] = ref[u]
      /\ basePort'[c] = NULL /\ \A m \in Chan : m # c => basePort'[m] = basePort[m] /\ listenPort'[m] = listenPort[m]
      /\ listenPort'[c] = "freed"
  <2>1. basePort[c] \in {NULL, c}
    BY <1>3 DEF FullInv, TreeInv, ListInv
  <2> QED
    BY <1>1, <1>4, <1>5, <2>1
<1>7. TreeType'
  <2>1. ref' \in [Vsw -> Nat] /\ basePort' \in [Chan -> Vsw \cup {NULL}]
    BY <1>1, <1>4, <1>5
  <2> QED
    BY <1>1, <1>4, <2>1 DEF TreeType
<1>8. CountInv'
  <2>1. ASSUME NEW u \in Vsw
        PROVE  ref'[u] = Cardinality(fwdHead'[u]) + (IF u \in Made' THEN 1 ELSE 0)
                         + (IF u \in Chan /\ listenPort'[u] = "port" THEN 2 ELSE 0)
    <3>1. CASE u = c
      <4>1. Cardinality(fwdHead'[u]) = 0 /\ u \notin Made' /\ listenPort'[u] # "port"
        BY <1>1, <1>2, <1>5, <1>6, <3>1
      <4> QED
        BY <1>6, <3>1, <4>1
    <3>2. CASE u # c
      <4>1. ref'[u] = ref[u] /\ (IF u \in Made' THEN 1 ELSE 0) = (IF u \in Made THEN 1 ELSE 0)
            /\ (IF u \in Chan /\ listenPort'[u] = "port" THEN 2 ELSE 0) = (IF u \in Chan /\ listenPort[u] = "port" THEN 2 ELSE 0)
        BY <1>2, <1>6, <3>2
      <4> QED
        BY <1>1, <4>1 DEF FullInv, TreeInv, CountInv
    <3> QED
      BY <3>1, <3>2
  <2> QED
    BY <1>1, <2>1 DEF FullInv, TreeInv, CountInv
<1>9. ListInv'
  <2>1. ASSUME NEW m \in Chan
        PROVE  /\ basePort'[m] \in {NULL, m} \cup vswHead'[m]
               /\ listenPort'[m] # "port" => vswHead'[m] = {} /\ basePort'[m] = NULL
               /\ listenPort'[m] = "port" => dataType'[m] # NULL
    BY <1>1, <1>3, <1>6 DEF FullInv, TreeInv, ListInv
  <2>2. ASSUME NEW m \in Chan, NEW u \in vswHead'[m]
        PROVE  /\ ref'[u] > 0 /\ \A n \in Chan : u \in vswHead'[n] => n = m
               /\ IF vswPort'[u] = NULL THEN u \in Made' /\ m = op'.l
                  ELSE basePort'[m] # NULL /\ vswPort'[u] = (ParentOf(m, u))'
    <3>1. m # c /\ u \in VswId /\ u \in Vsw /\ u # c
      BY <1>1, <1>3, <1>4, <2>2, NamesApart
    <3> QED
      BY <1>1, <1>2, <1>6, <2>2, <3>1 DEF FullInv, TreeInv, ListInv, ParentOf
  <2>3. ASSUME NEW u \in VswId, \A m \in Chan : u \notin vswHead'[m]
        PROVE  ref'[u] = 0 /\ vswPort'[u] = NULL
    BY <1>1, <1>6, <2>3, NamesApart DEF FullInv, TreeInv, ListInv
  <2>4. ASSUME NEW m \in Chan, NEW s \in Chan
        PROVE  IF s \in portHead'[m] THEN vswPort'[<< m, s >>] \in {m} \cup vswHead'[m]
               ELSE vswPort'[<< m, s >>] = NULL
    <3>1. IF s \in portHead[m] THEN vswPort[<< m, s >>] \in {m} \cup vswHead[m] ELSE vswPort[<< m, s >>] = NULL
      BY DEF FullInv, TreeInv, ListInv
    <3> QED
      BY <1>1, <3>1
  <2> QED
    BY <2>1, <2>2, <2>3, <2>4 DEF ListInv
<1>10. StreamInv'
  <2>1. \A m, s \in Chan : s \in portHead'[m] => (OutType(vswPort[<< m, s >>]))' = dataType'[s]
    BY <1>1 DEF FullInv, TreeInv, StreamInv, OutType
  <2>2. ASSUME NEW m \in Chan
        PROVE  /\ \A u \in vswHead'[m] :
                    conv'[u] \in Type \X Type /\ (basePort'[m] # NULL => conv'[u][1] = (OutType(ParentOf(m, u)))')
               /\ \A u, w \in {m} \cup vswHead'[m] : (OutType(u))' = (OutType(w))' => u = w \/ (OutType(u))' \in late'
               /\ basePort'[m] # NULL => (OutType(basePort[m]))' = BaseType
               /\ listenPort'[m] = "port" /\ basePort'[m] # m => ChanType[m] # BaseType
    <3>1. CASE m = c
      BY <1>1, <1>3, <1>6, <3>1
    <3>2. CASE m # c
      BY <1>1, <1>6, <3>2 DEF FullInv, TreeInv, StreamInv, OutType, ParentOf
    <3> QED
      BY <3>1, <3>2
  <2> QED
    BY <2>1, <2>2 DEF StreamInv
<1>11. ConnInv'
  BY <1>1, <1>2 DEF ConnInv
<1> QED
  BY <1>7, <1>8, <1>9, <1>10, <1>11 DEF TreeInv

(* Every step keeps the trees.                                             *)
LEMMA TreeStep == FullInv /\ [Next]_vars => TreeInv'
<1> SUFFICES ASSUME FullInv, [Next]_vars PROVE TreeInv'
  OBVIOUS
<1>1. ASSUME NEW c \in Chan, InitChan(c) \/ SetUp(c) \/ ClearChan(c) \/ FreeListen(c) PROVE TreeInv'
  BY <1>1, InitChanTree, SetUpIsTree, ClearChanTree, FreeListenTree
<1>2. ASSUME NEW c \in Chan, ReleaseStart(c) \/ TakeListen(c) \/ TakePorts(c) PROVE TreeInv'
  <2>1. UNCHANGED << dataType, late, listenPort, portHead, treeVars, op >>
    BY <1>2 DEF ReleaseStart, TakeListen, TakePorts, chanVars, listVars
  <2> QED
    BY <2>1, QuietTree DEF FullInv
<1>3. ASSUME NEW c \in Chan, NullListen(c) PROVE TreeInv'
  <2>1. /\ rel[c] = "freed" /\ listenPort' = [listenPort EXCEPT ![c] = "NULL"]
        /\ UNCHANGED << dataType, late, portHead, treeVars, op >>
    BY <1>3 DEF NullListen, chanVars, listVars
  <2>2. \A l \in Chan : (listenPort'[l] = "port") = (listenPort[l] = "port")
    BY <2>1 DEF FullInv, IInv, RelInv, PortType
  <2> QED
    BY <2>1, <2>2, QuietTree DEF FullInv
<1>4. ASSUME NEW c \in Chan, FreeDisconnect(c) \/ DropPort(c) PROVE TreeInv'
  <2>1. op = NoOp /\ UNCHANGED << dataType, late, listenPort, op >>
    BY <1>4 DEF FreeDisconnect, DropPort, chanVars, FullInv, IInv, OpInv
  <2>2. PICK l \in Chan, r \in Chan : DisconnectChan(l, r)
    BY <1>4 DEF FreeDisconnect, DropPort, FullInv, IInv, PortType
  <2> QED
    BY <2>1, <2>2, DisconnectTree
<1>5. ASSUME NEW l \in Chan, NEW r \in Chan, Disconnect(l, r) PROVE TreeInv'
  BY <1>5, DisconnectTree DEF Disconnect, MutexFree, chanVars
<1>6. ASSUME NEW l \in Chan, NEW r \in Chan, ConnectStart(l, r) PROVE TreeInv'
  BY <1>6, ConnectStartTree
<1>7. ASSUME NEW v \in VswId, CreateVsw(v) PROVE TreeInv'
  BY <1>7, CreateVswTree
<1>11. ASSUME NEW v \in Vsw, Compare(v) PROVE TreeInv'
  BY <1>11, CompareTree
<1>12. CASE Decide
  BY <1>12, DecideTree
<1>8. CASE CreateFails
  BY <1>8, CreateFailsTree
<1>9. CASE Attach
  BY <1>9, AttachTree
<1>10. CASE UNCHANGED vars
  <2>1. UNCHANGED << dataType, late, listenPort, portHead, treeVars, op >>
    BY <1>10 DEF vars, chanVars, listVars
  <2> QED
    BY <2>1, QuietTree DEF FullInv
<1> QED
  BY <1>1, <1>2, <1>3, <1>4, <1>5, <1>6, <1>7, <1>8, <1>9, <1>10, <1>11, <1>12
  DEF Next, ConnectStep, ReleaseStep

(* The invariant holds in every reachable state.                           *)
LEMMA FullInvHolds == Spec => []FullInv
<1>1. Init => FullInv
  BY IInvInit, TreeInit DEF FullInv
<1>2. FullInv /\ [Next]_vars => FullInv'
  BY IInvStep, TreeStep DEF FullInv
<1> QED
  BY <1>1, <1>2, PTL DEF Spec

-----------------------------------------------------------------------------
(* Sequences of one, two and three of a set.                               *)
LEMMA TupleSeqs ==
  ASSUME NEW S, NEW a \in S, NEW b \in S, NEW c \in S
  PROVE  /\ << >> \in Seq(S) /\ << a >> \in Seq(S)
         /\ << a, b >> \in Seq(S) /\ << a, b, c >> \in Seq(S)
<1>1. << >> \in Seq(S) /\ << a >> \in Seq(S)
  OBVIOUS
<1>2. << a, b >> \in Seq(S)
  OBVIOUS
<1>3. << a, b, c >> \in Seq(S)
  OBVIOUS
<1> QED
  BY <1>1, <1>2, <1>3

(* The values of a connection under way.                                   *)
LEMMA TypesHold == FullInv => TypeOK
<1> SUFFICES ASSUME FullInv PROVE TypeOK
  OBVIOUS
<1>1. op \in OpType
  <2>1. CASE op = NoOp
    <3>1. << >> \in Seq(Type \X (Type \cup {NULL})) /\ << >> \in Seq(VswId) /\ << >> \in Seq(Port \X Vsw)
      OBVIOUS
    <3> QED
      BY <2>1, <3>1 DEF NoOp, OpType
  <2>2. CASE op # NoOp
    <3>1. /\ op = [l |-> op.l, r |-> op.r, look |-> op.look, make |-> op.make, made |-> op.made, todo |-> op.todo]
          /\ op.l \in Chan /\ op.r \in Chan /\ Own \in Port
      BY <2>2, OpFields
    <3>2. /\ vswHead[op.l] \subseteq VswId /\ VswId \subseteq Port /\ VswId \subseteq Vsw
          /\ basePort[op.l] \in Vsw \cup {NULL} /\ dataType[op.r] \in Type \cup {NULL}
          /\ BaseType \in Type /\ ChanType[op.l] \in Type /\ op.l \in Vsw
      BY <3>1, NamesApart, TypeAssumption DEF FullInv, TreeInv, TreeType
    <3>3. CASE Making
      <4>1. op.make \in Seq(Type \X (Type \cup {NULL})) /\ op.made \in Seq(VswId) /\ op.todo \in Seq(Port \X Vsw)
        <5>1. \A type : /\ ToMake(op.l, type) \in Seq(Type \X (Type \cup {NULL}))
                        /\ << << BaseType, NULL >> >> \in Seq(Type \X (Type \cup {NULL}))
          <6>1. /\ << BaseType, NULL >> \in Type \X (Type \cup {NULL})
                /\ << ChanType[op.l], BaseType >> \in Type \X (Type \cup {NULL})
                /\ << ChanType[op.l], NULL >> \in Type \X (Type \cup {NULL})
            BY <3>2
          <6> QED
            BY <6>1, TupleSeqs DEF ToMake
        <5>2. op.todo \in Seq(Port \X Vsw)
          BY <3>3 DEF Making
        <5>3. PICK type \in {dataType[op.r], NULL} :
                \/ op.made = << >> /\ op.make = ToMake(op.l, type)
                \/ \E v \in VswId : op.made = << v >> /\ op.make = << << BaseType, NULL >> >>
          BY <3>3 DEF Making
        <5>4. op.made \in Seq(VswId)
          <6>1. << >> \in Seq(VswId) /\ \A v \in VswId : << v >> \in Seq(VswId)
            BY TupleSeqs
          <6> QED
            BY <5>3, <6>1
        <5> QED
          BY <3>2, <5>1, <5>2, <5>3, <5>4
      <4>2. op.look = {}
        BY <2>2, <3>3 DEF Making, FullInv, IInv, OpInv
      <4> QED
        BY <3>1, <4>1, <4>2 DEF OpType
    <3>5. CASE Looking
      <4>1. << >> \in Seq(Type \X (Type \cup {NULL})) /\ << >> \in Seq(VswId) /\ << >> \in Seq(Port \X Vsw)
        OBVIOUS
      <4>2. op.look \subseteq Vsw
        BY <3>2, <3>5 DEF Looking, OwnHead
      <4> QED
        BY <3>1, <3>5, <4>1, <4>2 DEF Looking, OpType
    <3>4. CASE op.make = << >> /\ (JoinOld \/ JoinOne \/ JoinTwo)
      <4>1. ASSUME JoinOld PROVE op.made \in Seq(VswId) /\ op.todo \in Seq(Port \X Vsw)
        BY <3>1, <3>2, <4>1 DEF JoinOld, OwnHead
      <4>2. ASSUME JoinOne PROVE op.made \in Seq(VswId) /\ op.todo \in Seq(Port \X Vsw)
        <5>1. PICK v \in OwnHead :
                /\ op.made = << v >> /\ basePort[op.l] # NULL
                /\ \/ op.todo = << << Own, v >>, << v, ParentOf(op.l, v) >> >>
                   \/ op.todo = << << v, ParentOf(op.l, v) >> >>
          BY <4>2 DEF JoinOne
        <5>2. v \in VswId /\ v \in Port /\ v \in Vsw /\ ParentOf(op.l, v) \in Vsw
          BY <3>2, <5>1 DEF OwnHead, ParentOf
        <5> QED
          <6>1. << Own, v >> \in Port \X Vsw /\ << v, ParentOf(op.l, v) >> \in Port \X Vsw
            BY <3>1, <5>2
          <6> QED
            BY <5>1, <5>2, <6>1, TupleSeqs
      <4>3. ASSUME JoinTwo PROVE op.made \in Seq(VswId) /\ op.todo \in Seq(Port \X Vsw)
        <5>1. PICK u \in OwnHead, v \in OwnHead :
                /\ op.made = << u, v >>
                /\ \/ op.todo = << << Own, v >>, << v, u >>, << u, op.l >> >>
                   \/ op.todo = << << v, u >>, << u, op.l >> >>
                   \/ op.todo = << << u, op.l >> >>
          BY <4>3 DEF JoinTwo
        <5>2. u \in VswId /\ v \in VswId
          BY <3>2 DEF OwnHead
        <5>3. << Own, v >> \in Port \X Vsw /\ << v, u >> \in Port \X Vsw /\ << u, op.l >> \in Port \X Vsw
          BY <3>1, <3>2, <5>2
        <5> QED
          <6>1. op.made \in Seq(VswId)
            BY <5>1, <5>2, TupleSeqs
          <6>2. /\ << << Own, v >>, << v, u >>, << u, op.l >> >> \in Seq(Port \X Vsw)
                /\ << << v, u >>, << u, op.l >> >> \in Seq(Port \X Vsw)
                /\ << << u, op.l >> >> \in Seq(Port \X Vsw)
            BY <5>3, TupleSeqs
          <6> QED
            BY <5>1, <6>1, <6>2
      <4>4. op.make \in Seq(Type \X (Type \cup {NULL}))
        BY <3>4
      <4>5. op.look = {}
        <5>1. ASSUME NEW x, NEW y, NEW z
              PROVE  << x >> # << >> /\ << x, y >> # << >> /\ << x, y, z >> # << >>
          OBVIOUS
        <5>2. op.todo # << >>
          <6>1. JoinOld => op.todo # << >>
            BY <5>1 DEF JoinOld
          <6>2. JoinOne => op.todo # << >>
            BY <5>1 DEF JoinOne
          <6>3. JoinTwo => op.todo # << >>
            BY <5>1 DEF JoinTwo
          <6> QED
            BY <3>4, <6>1, <6>2, <6>3
        <5> QED
          BY <2>2, <5>2 DEF FullInv, IInv, OpInv
      <4> QED
        BY <3>1, <3>4, <4>1, <4>2, <4>3, <4>4, <4>5 DEF OpType
    <3> QED
      BY <2>2, <3>3, <3>4, <3>5 DEF FullInv, TreeInv, ConnInv
  <2> QED
    BY <2>1, <2>2
<1> QED
  BY <1>1 DEF TypeOK, FullInv, IInv, PortType, TreeInv, TreeType

(* What is below a vsw of a listener.                                      *)
LEMMA BelowIn ==
  ASSUME FullInv, NEW l \in Chan, NEW v \in {l} \cup vswHead[l], NEW p \in Below(v)
  PROVE  \E u \in {l} \cup vswHead[l] : p \in fwdHead[u]
<1> DEFINE Next1(vs) == UNION {fwdHead[u] : u \in vs \cap Vsw}
<1>1. ASSUME NEW u \in {l} \cup vswHead[l], NEW q \in fwdHead[u], q \in Vsw
      PROVE  q \in {l} \cup vswHead[l]
  BY <1>1, Kids, NamesApart DEF FullInv, IInv, PortType
<1>2. p \in fwdHead[v] \cup Next1(fwdHead[v]) \cup Next1(Next1(fwdHead[v]))
  BY DEF Below
<1>3. CASE p \in fwdHead[v]
  BY <1>3
<1>4. ASSUME NEW q, q \in Next1(fwdHead[v]) PROVE \E u \in {l} \cup vswHead[l] : q \in fwdHead[u]
  <2>1. PICK u \in fwdHead[v] \cap Vsw : q \in fwdHead[u]
    BY <1>4
  <2>2. u \in {l} \cup vswHead[l]
    BY <1>1, <2>1
  <2> QED
    BY <2>1, <2>2
<1>5. CASE p \in Next1(Next1(fwdHead[v]))
  <2>1. PICK q \in Next1(fwdHead[v]) \cap Vsw : p \in fwdHead[q]
    BY <1>5
  <2>2. PICK u \in {l} \cup vswHead[l] : q \in fwdHead[u]
    BY <1>4, <2>1
  <2>3. q \in {l} \cup vswHead[l]
    BY <1>1, <2>1, <2>2
  <2> QED
    BY <2>1, <2>3
<1> QED
  BY <1>2, <1>3, <1>4, <1>5

(* How to get below a vsw.                                                 *)
LEMMA BelowHas ==
  ASSUME NEW v, NEW p
  PROVE  /\ p \in fwdHead[v] => p \in Below(v)
         /\ \A u \in Vsw : u \in fwdHead[v] /\ p \in fwdHead[u] => p \in Below(v)
         /\ \A u, w \in Vsw : u \in fwdHead[v] /\ w \in fwdHead[u] /\ p \in fwdHead[w] => p \in Below(v)
<1> DEFINE Next1(vs) == UNION {fwdHead[u] : u \in vs \cap Vsw}
<1>1. \A q : q \in fwdHead[v] \cup Next1(fwdHead[v]) \cup Next1(Next1(fwdHead[v])) => q \in Below(v)
  BY DEF Below
<1>2. ASSUME NEW vs, NEW u \in Vsw, u \in vs, NEW q \in fwdHead[u] PROVE q \in Next1(vs)
  BY <1>2
<1> HIDE DEF Next1
<1> QED
  BY <1>1, <1>2

(* Where a port that hangs in a list may hang.                             *)
LEMMA Hangs ==
  ASSUME FullInv, NEW p \in Port, vswPort[p] # NULL
  PROVE  /\ vswPort[p] \in Vsw /\ p \in fwdHead[vswPort[p]]
         /\ \A v \in Vsw : p \in fwdHead[v] => v = vswPort[p]
  BY DEF FullInv, TreeInv, TreeType, CountInv

(* Data of l gets to the port of r at l just when l is among the channels  *)
(* r receives from: while a connection is being made its chain is not      *)
(* complete, and afterwards it is, up to the listener.                     *)
LEMMA BelowIsPairs == FullInv => \A l, r \in Chan : << l, r >> \in Below(l) <=> l \in pairHead[r]
<1> SUFFICES ASSUME FullInv, NEW l \in Chan, NEW r \in Chan
             PROVE  (<< l, r >> \in Below(l)) <=> (l \in pairHead[r])
  OBVIOUS
<1> DEFINE P == << l, r >>
<1>1. /\ P \in Port /\ P \notin VswId /\ P \in Chan \X Chan /\ l \in Vsw /\ l \notin VswId /\ l # NULL
      /\ vswHead[l] \subseteq VswId /\ VswId \subseteq Vsw /\ VswId \subseteq Port
      /\ (l \in pairHead[r]) = (r \in portHead[l] /\ ~(op.l = l /\ op.r = r))
  BY NamesApart DEF FullInv, TreeInv, TreeType, IInv, PairsAgree
<1>2. ASSUME P \in Below(l) PROVE r \in portHead[l] /\ ~(op.l = l /\ op.r = r)
  <2>1. PICK x \in {l} \cup vswHead[l] : P \in fwdHead[x]
    BY <1>2, BelowIn
  <2>2. r \in portHead[l] /\ vswPort[P] = x
    BY <1>1, <2>1, Kids
  <2>3. ASSUME op.l = l, op.r = r PROVE FALSE
    <3>1. op # NoOp /\ Own = P
      BY <1>1, <2>3 DEF NoOp, Own
    <3>2. x # NULL /\ x \in Vsw /\ vswPort[Own] # NULL
      BY <1>1, <2>1, <2>2, <3>1, NamesApart
    <3>3. \/ \E v \in VswId : vswPort[P] = v /\ vswPort[v] = NULL
          \/ \E u, v \in VswId : vswPort[P] = v /\ vswPort[v] = u /\ vswPort[u] = NULL
      <4>1. JoinOne \/ JoinTwo
        BY <3>1, <3>2 DEF FullInv, TreeInv, ConnInv, Looking, Making, JoinOld
      <4>2. OwnHead \subseteq VswId
        BY <1>1, <2>3 DEF OwnHead
      <4>3. ASSUME JoinOne PROVE \E v \in VswId : vswPort[P] = v /\ vswPort[v] = NULL
        BY <3>1, <3>2, <4>2, <4>3 DEF JoinOne
      <4>4. ASSUME JoinTwo
            PROVE  \/ \E v \in VswId : vswPort[P] = v /\ vswPort[v] = NULL
                   \/ \E u, v \in VswId : vswPort[P] = v /\ vswPort[v] = u /\ vswPort[u] = NULL
        BY <3>1, <3>2, <4>2, <4>4 DEF JoinTwo
      <4> QED
        BY <4>1, <4>3, <4>4
    <3>4. \A q : \A v \in Vsw : q \in fwdHead[v] => vswPort[q] = v /\ v # NULL
      BY NamesApart DEF FullInv, TreeInv, CountInv
    <3>5. \/ P \in fwdHead[l]
          \/ \E y \in Vsw : y \in fwdHead[l] /\ P \in fwdHead[y]
          \/ \E y, z \in Vsw : y \in fwdHead[l] /\ z \in fwdHead[y] /\ P \in fwdHead[z]
      BY <1>2 DEF Below
    <3> QED
      BY <1>1, <3>3, <3>4, <3>5
  <2> QED
    BY <2>2, <2>3
<1>3. ASSUME r \in portHead[l], ~(op.l = l /\ op.r = r) PROVE P \in Below(l)
  <2>1. PICK x \in {l} \cup vswHead[l] : vswPort[P] = x
    BY <1>3 DEF FullInv, TreeInv, ListInv
  <2>2. x \in Vsw /\ x # NULL /\ P \in fwdHead[x]
    <3>1. x \in Vsw /\ x # NULL
      BY <1>1, NamesApart
    <3> QED
      BY <1>1, <2>1, <3>1, Hangs
  <2>3. CASE x = l
    BY <2>2, <2>3, BelowHas
  <2>4. CASE x # l
    <3>1. x \in vswHead[l] /\ x \in VswId /\ x \in Port
      BY <1>1, <2>1, <2>4
    <3>2. x \notin Made
      <4>1. P # Own
        BY <1>3 DEF Own
      <4> QED
        BY <1>1, <2>1, <4>1 DEF FullInv, TreeInv, ConnInv
    <3>3. vswPort[x] # NULL /\ basePort[l] # NULL /\ vswPort[x] = ParentOf(l, x)
      BY <3>1, <3>2 DEF FullInv, TreeInv, ListInv
    <3>4. CASE vswPort[x] = l
      <4>1. x \in fwdHead[l]
        BY <3>1, <3>3, <3>4, Hangs
      <4> QED
        BY <2>2, <4>1, BelowHas
    <3>5. CASE vswPort[x] # l
      <4>1. basePort[l] # x /\ vswPort[x] = basePort[l] /\ basePort[l] \in vswHead[l]
        BY <3>3, <3>5 DEF ParentOf, FullInv, TreeInv, ListInv
      <4>2. vswPort[basePort[l]] # NULL
        <5>1. ASSUME vswPort[basePort[l]] = NULL PROVE FALSE
          <6>1. basePort[l] \in Made /\ l = op.l
            BY <4>1, <5>1 DEF FullInv, TreeInv, ListInv
          <6>2. op # NoOp
            BY <1>1, <6>1 DEF NoOp
          <6>3. CASE Looking \/ Making \/ JoinOld
            BY <3>3, <6>1, <6>3, MadeOf DEF Looking, Making, JoinOld
          <6>4. CASE JoinOne
            <7>1. PICK v \in OwnHead : op.made = << v >> /\ (v = basePort[op.l] => OwnHead = {v})
              BY <6>4 DEF JoinOne
            <7> QED
              BY <3>1, <3>2, <6>1, <7>1, MadeOf DEF OwnHead
          <6>5. CASE JoinTwo
            <7>1. PICK u \in OwnHead, v \in OwnHead : op.made = << u, v >> /\ OwnHead = {u, v}
              BY <6>5 DEF JoinTwo
            <7> QED
              BY <3>1, <3>2, <6>1, <7>1, MadeOf DEF OwnHead
          <6> QED
            BY <6>2, <6>3, <6>4, <6>5 DEF FullInv, TreeInv, ConnInv
        <5> QED
          BY <5>1
      <4>3. basePort[l] \in VswId /\ basePort[l] \in Port /\ vswPort[basePort[l]] = l
        <5>1. vswPort[basePort[l]] = ParentOf(l, basePort[l])
          BY <4>1, <4>2 DEF FullInv, TreeInv, ListInv
        <5> QED
          BY <1>1, <4>1, <5>1 DEF ParentOf
      <4>4. basePort[l] \in fwdHead[l] /\ x \in fwdHead[basePort[l]]
        BY <3>1, <3>3, <4>1, <4>2, <4>3, Hangs
      <4> QED
        BY <1>1, <2>2, <3>1, <4>3, <4>4, BelowHas
    <3> QED
      BY <3>4, <3>5
  <2> QED
    BY <2>3, <2>4
<1> QED
  BY <1>1, <1>2, <1>3

(* The invariant says what TreeSound and ConvertedRight say.               *)
LEMMA SoundNow == FullInv => TreeSound /\ ConvertedRight
<1> SUFFICES ASSUME FullInv PROVE TreeSound /\ ConvertedRight
  OBVIOUS
<1>1. RefsCounted
  BY DEF RefsCounted, FullInv, TreeInv, CountInv
<1>2. ASSUME op = NoOp, NEW l \in Chan, NEW v \in vswHead[l] PROVE Below(v) \cap (Chan \X Chan) # {}
  <2>1. v \in Vsw /\ v # l /\ fwdHead[v] # {}
    BY <1>2, InUse
  <2>2. PICK p : p \in fwdHead[v]
    BY <2>1
  <2>3. CASE \E r \in portHead[l] : p = << l, r >>
    <3>1. p \in Chan \X Chan
      BY <2>3 DEF FullInv, IInv, PortType
    <3> QED
      BY <2>2, <3>1, BelowHas
  <2>4. CASE ~\E r \in portHead[l] : p = << l, r >>
    <3>1. p \in vswHead[l] /\ p # v /\ v = ParentOf(l, p)
      BY <2>2, <2>4, Kids
    <3>2. v = basePort[l]
      BY <2>1, <3>1 DEF ParentOf
    <3>3. p \in Vsw /\ p # l /\ fwdHead[p] # {}
      BY <1>2, <3>1, InUse
    <3>4. PICK q : q \in fwdHead[p]
      BY <3>3
    <3>5. p # ParentOf(l, q)
      BY <3>1, <3>2, <3>3 DEF ParentOf
    <3>6. \E r \in portHead[l] : q = << l, r >>
      BY <3>1, <3>4, <3>5, Kids
    <3>7. q \in Chan \X Chan
      BY <3>6 DEF FullInv, IInv, PortType
    <3> QED
      BY <2>2, <3>3, <3>4, <3>7, BelowHas
  <2> QED
    BY <2>3, <2>4
<1>3. ASSUME op = NoOp, NEW l \in Chan PROVE vswHead[l] = {v \in VswId : ref[v] > 0 /\ v \in Below(l)}
  <2>1. ASSUME NEW v \in vswHead[l] PROVE v \in VswId /\ ref[v] > 0 /\ v \in Below(l)
    <3>1. /\ v \in VswId /\ ref[v] > 0 /\ v \in Port /\ vswPort[v] = ParentOf(l, v)
          /\ basePort[l] # NULL /\ basePort[l] \in {l} \cup vswHead[l]
      BY <1>3, InUse
    <3>2. ParentOf(l, v) \in {l} \cup vswHead[l] /\ ParentOf(l, v) # NULL
      BY <3>1, NamesApart DEF ParentOf
    <3>3. v \in fwdHead[ParentOf(l, v)] /\ ParentOf(l, v) \in Vsw
      BY <3>1, <3>2, Hangs
    <3>4. CASE ParentOf(l, v) = l
      BY <3>1, <3>3, <3>4, BelowHas
    <3>5. CASE ParentOf(l, v) # l
      <4>1. ParentOf(l, v) = basePort[l] /\ basePort[l] \in vswHead[l]
        BY <3>2, <3>5 DEF ParentOf
      <4>2. /\ basePort[l] \in Port /\ vswPort[basePort[l]] = ParentOf(l, basePort[l])
            /\ l # NULL /\ basePort[l] \in Vsw
        BY <1>3, <4>1, InUse, NamesApart
      <4>3. vswPort[basePort[l]] = l
        BY <4>2 DEF ParentOf
      <4>4. basePort[l] \in fwdHead[l]
        BY <4>2, <4>3, Hangs
      <4> QED
        BY <3>1, <3>3, <4>1, <4>2, <4>4, BelowHas
    <3> QED
      BY <3>4, <3>5
  <2>2. ASSUME NEW v \in VswId, v \in Below(l) PROVE v \in vswHead[l]
    <3>1. PICK u \in {l} \cup vswHead[l] : v \in fwdHead[u]
      BY <2>2, BelowIn
    <3>2. ~\E r \in portHead[l] : v = << l, r >>
      BY NamesApart DEF FullInv, IInv, PortType
    <3> QED
      BY <3>1, <3>2, Kids
  <2> QED
    BY <2>1, <2>2
<1>4. NoIdleConverter
  <2>1. MutexFree => op = NoOp
    BY DEF MutexFree
  <2>2. \A l \in Chan : \A u, v \in {l} \cup vswHead[l] : OutType(u) = OutType(v) => u = v \/ OutType(u) \in late
    BY DEF FullInv, TreeInv, StreamInv
  <2> QED
    BY <1>2, <1>3, <2>1, <2>2 DEF NoIdleConverter
<1>5. BaseIsLive
  <2>1. ASSUME NEW l \in Chan, basePort[l] # NULL
        PROVE  basePort[l] \in {l} \cup vswHead[l] /\ ref[basePort[l]] > 0 /\ OutType(basePort[l]) = BaseType
    <3>1. basePort[l] \in {l} \cup vswHead[l] /\ OutType(basePort[l]) = BaseType /\ listenPort[l] = "port"
      BY <2>1 DEF FullInv, TreeInv, ListInv, StreamInv
    <3>2. CASE basePort[l] = l
      <4>1. l \in Vsw /\ l \notin VswId /\ Cardinality(fwdHead[l]) \in Nat /\ l \notin Made
        BY NamesApart, MadeInTree, FS_CardinalityType DEF FullInv, TreeInv, CountInv
      <4>2. ref[l] = Cardinality(fwdHead[l]) + (IF l \in Made THEN 1 ELSE 0)
                     + (IF l \in Chan /\ listenPort[l] = "port" THEN 2 ELSE 0)
        BY <4>1 DEF FullInv, TreeInv, CountInv
      <4>3. ref[l] = Cardinality(fwdHead[l]) + 0 + 2
        BY <3>1, <4>1, <4>2
      <4> QED
        BY <3>1, <3>2, <4>1, <4>3
    <3>3. CASE basePort[l] # l
      BY <3>1, <3>3 DEF FullInv, TreeInv, ListInv
    <3> QED
      BY <3>2, <3>3
  <2>2. ASSUME NEW l \in Chan, MutexFree, listenPort[l] = "port", basePort[l] = NULL
        PROVE  \A v \in {l} \cup vswHead[l] : OutType(v) # BaseType
    <3>1. vswHead[l] = {}
      BY <2>2, InUse DEF MutexFree
    <3>2. OutType(l) # BaseType
      BY <2>2, NamesApart DEF FullInv, TreeInv, StreamInv, OutType
    <3> QED
      BY <3>1, <3>2
  <2> QED
    BY <2>1, <2>2 DEF BaseIsLive
<1>6. ConvertedRight
  <2> SUFFICES ASSUME NEW v \in Vsw, NEW p \in fwdHead[v]
               PROVE  OutType(v) = IF p \in VswId THEN InType(p) ELSE dataType[p[2]]
    BY DEF ConvertedRight
  <2>1. v # NULL /\ p \in Port /\ vswPort[p] = v
    BY NamesApart DEF FullInv, TreeInv, CountInv
  <2>2. CASE p \in VswId
    <3>1. PICK l \in Chan : p \in vswHead[l]
      BY <2>1, <2>2 DEF FullInv, TreeInv, ListInv
    <3>2. basePort[l] # NULL /\ v = ParentOf(l, p) /\ p \notin Chan
      BY <2>1, <2>2, <3>1, NamesApart DEF FullInv, TreeInv, ListInv
    <3>3. InType(p) = conv[p][1] /\ conv[p][1] = OutType(ParentOf(l, p))
      BY <3>1, <3>2 DEF FullInv, TreeInv, StreamInv, InType
    <3> QED
      BY <2>2, <3>2, <3>3
  <2>3. CASE p \notin VswId
    <3>1. PICK l \in Chan, r \in Chan : p = << l, r >>
      BY <2>1, <2>3, NamesApart
    <3>2. r \in portHead[l]
      BY <2>1, <3>1 DEF FullInv, TreeInv, ListInv
    <3>3. OutType(vswPort[<< l, r >>]) = dataType[r]
      BY <3>2 DEF FullInv, TreeInv, StreamInv
    <3>4. p[2] = r
      BY <3>1
    <3> QED
      BY <2>1, <2>3, <3>1, <3>3, <3>4
  <2> QED
    BY <2>2, <2>3
<1> QED
  BY <1>1, <1>4, <1>5, <1>6 DEF TreeSound

(* The conversion trees of all listeners are sound in every reachable      *)
(* state: references and forwarding lists agree, so that a converter is    *)
(* freed with its last child and never before; there is no converter       *)
(* without a receiver but in the making; the base port is live             *)
(* (FDD_AddToListenPort, FDD_PutPort, FDD_ReleaseVswPort).                 *)
THEOREM TreeIsSound == Spec => []TreeSound
  BY FullInvHolds, SoundNow, PTL

(* Whatever hangs in a forwarding list gets data of the type it takes,     *)
(* also in the middle of a connection that is made or has failed           *)
(* (FDD_AddToVswPort, FDD_AddVswToVswPort, FDD_FwdBufData).                *)
THEOREM DataIsConverted == Spec => []ConvertedRight
  BY FullInvHolds, SoundNow, PTL

(* Every variable has a value of its type, and no reference count falls    *)
(* below 0 (stRef of vsw ports in fdd_port.c).                             *)
THEOREM SwitchTypes == Spec => []TypeOK
  BY FullInvHolds, TypesHold, PTL

-----------------------------------------------------------------------------
(* What is reached from channels is what their receivers' lists say.       *)
LEMMA ReachedIs == FullInv => Reached = {p \in Chan \X Chan : p[1] \in pairHead[p[2]]}
<1> SUFFICES ASSUME FullInv, NEW p \in Chan \X Chan
             PROVE  (p \in Below(p[1])) = (p[1] \in pairHead[p[2]])
  BY DEF Reached
<1>1. p[1] \in Chan /\ p[2] \in Chan /\ p = << p[1], p[2] >>
  OBVIOUS
<1> QED
  BY <1>1, BelowIsPairs

(* The channels whose memory is in use, and the connections.               *)
There == {c \in Chan : c \in found \/ rel[c] # "none"}

Pairs == {p \in Chan \X Chan : p[1] \in pairHead[p[2]]}

LEMMA ReachedIsPairs == FullInv => Reached = Pairs
  BY ReachedIs DEF Pairs

LEMMA ReachedIsPairsNext == FullInv' => (Reached = Pairs)'
  BY ReachedIsPairs, PTL

(* At first there is no channel.                                           *)
LEMMA ConnectionsInit == Init => There = {} /\ found = {} /\ Reached = {}
<1> SUFFICES ASSUME Init PROVE There = {} /\ found = {} /\ Reached = {}
  OBVIOUS
<1>1. FullInv
  BY IInvInit, TreeInit DEF FullInv
<1> QED
  BY <1>1, ReachedIs DEF Init, There

(* Each step of the switch opens, connects, disconnects, closes or leaves, *)
(* or is of no consequence to what reaches whom.                           *)
LEMMA ConnectionsStep ==
  ASSUME FullInv, FullInv', [Next]_vars
  PROVE  \/ \E c \in Chan : /\ c \notin There /\ There' = There \cup {c} /\ found' = found \cup {c}
                            /\ Reached' = Reached
         \/ \E c \in Chan : /\ c \in found /\ found' = found \ {c} /\ There' = There /\ Reached' = Reached
         \/ \E c \in Chan : /\ c \in There \ found
                            /\ \A d \in Chan : << c, d >> \notin Reached /\ << d, c >> \notin Reached
                            /\ There' = There \ {c} /\ found' = found /\ Reached' = Reached
         \/ \E l, r \in Chan : /\ {l, r} \subseteq found /\ l # r
                               /\ Reached' = Reached \cup {<< l, r >>}
                               /\ There' = There /\ found' = found
         \/ \E l, r \in Chan : /\ << l, r >> \in Reached /\ Reached' = Reached \ {<< l, r >>}
                               /\ There' = There /\ found' = found
         \/ There' = There /\ found' = found /\ Reached' = Reached
<1>1. Reached = Pairs /\ Reached' = Pairs'
  BY ReachedIsPairs, ReachedIsPairsNext
<1>2. /\ pairHead \in [Chan -> SUBSET Chan] /\ found \subseteq Chan
      /\ rel \in [Chan -> {"none", "unlisted", "freeing", "freed", "unported", "dropping"}]
      /\ \A c \in Chan : c \in found => rel[c] = "none"
  BY DEF FullInv, IInv, PortType, RelInv
<1> DEFINE Quiet == There' = There /\ found' = found /\ Reached' = Reached
<1>3. ASSUME NEW c \in Chan, InitChan(c)
      PROVE  c \notin There /\ There' = There \cup {c} /\ found' = found \cup {c} /\ Reached' = Reached
  BY <1>1, <1>2, <1>3 DEF InitChan, listVars, There, Pairs
<1>4. ASSUME NEW c \in Chan, ReleaseStart(c)
      PROVE  c \in found /\ found' = found \ {c} /\ There' = There /\ Reached' = Reached
  BY <1>1, <1>2, <1>4 DEF ReleaseStart, StillFound, listVars, There, Pairs
<1>5. ASSUME NEW c \in Chan, ClearChan(c)
      PROVE  /\ c \in There \ found
             /\ \A d \in Chan : << c, d >> \notin Reached /\ << d, c >> \notin Reached
             /\ There' = There \ {c} /\ found' = found /\ Reached' = Reached
  <2>1. /\ rel[c] = "dropping" /\ pairHead[c] = {} /\ rel' = [rel EXCEPT ![c] = "none"]
        /\ found' = found /\ pairHead' = pairHead
    BY <1>5 DEF ClearChan, listVars
  <2>2. c \notin found /\ c \in There /\ There' = There \ {c} /\ Reached' = Reached
    BY <1>1, <1>2, <2>1 DEF There, Pairs
  <2>3. ASSUME NEW d \in Chan PROVE c \notin pairHead[d]
    <3>1. listenPort[c] # "port"
      BY <2>1 DEF FullInv, IInv, RelInv
    <3> QED
      BY <3>1 DEF FullInv, IInv, NoStalePort
  <2>4. \A d \in Chan : << c, d >> \notin Reached /\ << d, c >> \notin Reached
    BY <1>1, <2>1, <2>3 DEF Pairs
  <2> QED
    BY <2>1, <2>2, <2>4
<1>6. ASSUME Attach
      PROVE  \/ Quiet
             \/ \E l, r \in Chan : /\ {l, r} \subseteq found /\ l # r
                                   /\ Reached' = Reached \cup {<< l, r >>}
                                   /\ There' = There /\ found' = found
  <2>1. /\ op # NoOp /\ found' = found /\ rel' = rel
        /\ pairHead' = IF Len(op.todo) = 1 THEN [pairHead EXCEPT ![op.r] = @ \cup {op.l}] ELSE pairHead
    BY <1>6 DEF Attach, chanVars, NoOp
  <2>2. op.l \in found /\ op.r \in found /\ op.l # op.r /\ op.l \in Chan /\ op.r \in Chan
    BY <2>1 DEF FullInv, IInv, OpInv, PortType
  <2>3. There' = There
    BY <2>1 DEF There
  <2>4. CASE Len(op.todo) = 1
    <3>1. pairHead' = [pairHead EXCEPT ![op.r] = @ \cup {op.l}]
      BY <2>1, <2>4
    <3>2. Pairs' = Pairs \cup {<< op.l, op.r >>}
      BY <1>2, <2>2, <3>1 DEF Pairs
    <3> QED
      BY <1>1, <2>1, <2>2, <2>3, <3>2
  <2>5. CASE Len(op.todo) # 1
    BY <1>1, <2>1, <2>3, <2>5 DEF Pairs
  <2> QED
    BY <2>4, <2>5
<1>7. ASSUME NEW l \in Chan, NEW r \in Chan, DisconnectChan(l, r), op = NoOp, found' = found, rel' = rel
      PROVE  << l, r >> \in Reached /\ Reached' = Reached \ {<< l, r >>} /\ There' = There /\ found' = found
  <2>1. r \in portHead[l] /\ pairHead' = [pairHead EXCEPT ![r] = @ \ {l}]
    BY <1>7 DEF DisconnectChan, Unpaired
  <2>2. l \in pairHead[r]
    BY <1>7, <2>1, NamesApart DEF FullInv, IInv, PairsAgree, NoOp
  <2>3. << l, r >> \in Pairs /\ Pairs' = Pairs \ {<< l, r >>}
    BY <1>2, <2>1, <2>2 DEF Pairs
  <2> QED
    BY <1>1, <1>7, <2>3 DEF There
<1>8. ASSUME NEW c \in Chan, FreeDisconnect(c) \/ DropPort(c)
      PROVE  \E l, r \in Chan : /\ << l, r >> \in Reached /\ Reached' = Reached \ {<< l, r >>}
                                /\ There' = There /\ found' = found
  <2>1. op = NoOp /\ found' = found /\ rel' = rel
    BY <1>8 DEF FreeDisconnect, DropPort, chanVars, FullInv, IInv, OpInv
  <2>2. PICK l \in Chan, r \in Chan : DisconnectChan(l, r)
    BY <1>8 DEF FreeDisconnect, DropPort, FullInv, IInv, PortType
  <2> QED
    BY <1>7, <2>1, <2>2
<1>9. ASSUME NEW l \in Chan, NEW r \in Chan, Disconnect(l, r)
      PROVE  << l, r >> \in Reached /\ Reached' = Reached \ {<< l, r >>} /\ There' = There /\ found' = found
  BY <1>7, <1>9 DEF Disconnect, MutexFree, chanVars
<1>10. ASSUME NEW c \in Chan, SetUp(c) \/ TakeListen(c) \/ TakePorts(c) \/ FreeListen(c) \/ NullListen(c) PROVE Quiet
  <2>1. /\ found' = found /\ pairHead' = pairHead
        /\ \A d \in Chan : (rel'[d] # "none") = (rel[d] # "none")
    BY <1>2, <1>10 DEF SetUp, TakeListen, TakePorts, FreeListen, NullListen, chanVars, listVars
  <2> QED
    BY <1>1, <2>1 DEF There, Pairs
<1>11. ASSUME \/ \E l, r \in Chan : ConnectStart(l, r)
              \/ \E v \in VswId : CreateVsw(v)
              \/ \E v \in Vsw : Compare(v)
              \/ Decide \/ CreateFails \/ UNCHANGED vars
       PROVE  Quiet
  <2>1. found' = found /\ pairHead' = pairHead /\ rel' = rel
    BY <1>11 DEF ConnectStart, Compare, Decide, CreateVsw, CreateFails, vars, chanVars, listVars
  <2> QED
    BY <1>1, <2>1 DEF There, Pairs
<1> HIDE DEF Quiet
<1>12. ASSUME NEW c \in Chan,
              InitChan(c) \/ SetUp(c) \/ ReleaseStart(c) \/ TakeListen(c) \/ TakePorts(c) \/ ReleaseStep(c)
       PROVE  \/ InitChan(c) \/ ReleaseStart(c) \/ ClearChan(c)
              \/ FreeDisconnect(c) \/ DropPort(c) \/ Quiet
  BY <1>10, <1>12 DEF ReleaseStep
<1>13. CASE \E c \in Chan : InitChan(c) \/ SetUp(c) \/ ReleaseStart(c) \/ TakeListen(c) \/ TakePorts(c) \/ ReleaseStep(c)
  BY <1>3, <1>4, <1>5, <1>8, <1>12, <1>13 DEF Quiet
<1>14. CASE \E l, r \in Chan : ConnectStart(l, r) \/ Disconnect(l, r)
  BY <1>9, <1>11, <1>14 DEF Quiet
<1>15. CASE ConnectStep
  BY <1>6, <1>11, <1>15 DEF ConnectStep, Quiet
<1>16. CASE UNCHANGED vars
  BY <1>11, <1>16 DEF Quiet
<1> QED
  BY <1>13, <1>14, <1>15, <1>16 DEF Next

(* The switch implements FddConnections: whatever converters are made and  *)
(* freed on the way, data of a channel reaches exactly the channels it is  *)
(* connected to, and a step for two channels is of no consequence to any   *)
(* other (FDD_ConnectChanById, FDD_DisconnectChanById, FDD_ReleaseChan).   *)
THEOREM SwitchConnects == Spec => Connects
<1>1. Init => Connections!Init
  BY ConnectionsInit DEF There, Connections!Init
<1>2. ASSUME FullInv, FullInv', [Next]_vars
      PROVE  [Connections!Next]_<< There, found, Reached >>
  <2>1. CASE \E c \in Chan : /\ c \notin There /\ There' = There \cup {c} /\ found' = found \cup {c}
                             /\ Reached' = Reached
    BY <2>1 DEF There, Connections!Next, Connections!Open
  <2>2. CASE \E c \in Chan : /\ c \in found /\ found' = found \ {c} /\ There' = There /\ Reached' = Reached
    BY <2>2 DEF There, Connections!Next, Connections!Close
  <2>3. CASE \E c \in Chan : /\ c \in There \ found
                             /\ \A d \in Chan : << c, d >> \notin Reached /\ << d, c >> \notin Reached
                             /\ There' = There \ {c} /\ found' = found /\ Reached' = Reached
    BY <2>3 DEF There, Connections!Next, Connections!Leave
  <2>4. CASE \E l, r \in Chan : /\ {l, r} \subseteq found /\ l # r
                                /\ Reached' = Reached \cup {<< l, r >>}
                                /\ There' = There /\ found' = found
    BY <2>4 DEF There, Connections!Next, Connections!Connect
  <2>5. CASE \E l, r \in Chan : /\ << l, r >> \in Reached /\ Reached' = Reached \ {<< l, r >>}
                                /\ There' = There /\ found' = found
    BY <2>5 DEF There, Connections!Next, Connections!Disconnect
  <2>6. CASE There' = There /\ found' = found /\ Reached' = Reached
    BY <2>6
  <2> QED
    BY <1>2, <2>1, <2>2, <2>3, <2>4, <2>5, <2>6, ConnectionsStep
<1>3. FullInv /\ FullInv' /\ [Next]_vars
        => [Connections!Next]_<< {c \in Chan : c \in found \/ rel[c] # "none"}, found, Reached >>
  BY <1>2 DEF There
<1> QED
  BY <1>1, <1>3, FullInvHolds, PTL DEF Spec, Connects, Connections!Spec
=============================================================================
