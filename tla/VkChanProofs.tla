---------------------------- MODULE VkChanProofs ----------------------------
(***************************************************************************)
(* Proofs about VkChan, for any channels, rooms, lengths, settings and     *)
(* faults: what GET_DATA hands out is a run of packets; with one sender    *)
(* whose receivers stay connected it is one frame, a reader gets the       *)
(* frames in the order they were put (FrameStream), and without faults and *)
(* limits it gets them all.                                                *)
(***************************************************************************)
EXTENDS VkChan, TLAPS, SequenceTheorems, WellFoundedInduction

-----------------------------------------------------------------------------
(* Types.                                                                  *)

Pkts == [snd : Snd, frame : Nat, seq : Nat, len : Nat, end : BOOLEAN]

SndType == [pc : {"idle", "pkt", "fwd", "signal"}, n : Nat, left : Nat, seq : Nat,
            cpy : Nat, todo : SUBSET Rx, held : BOOLEAN, rx : Rx \cup {NoRx}]

ShapeInv ==
  /\ setting \in Settings
  /\ snd \in [Snd -> SndType]
  /\ pstSg \in [Rx -> Seq(Pkts)]
  /\ stHead \in [Rx -> Seq(Seq(Pkts))]
  /\ got \in [Rx -> Seq(Pkts)]

(* A call is made on a channel in use, a packet comes from one, and the    *)
(* frames are numbered from 1.                                             *)
From(sg, C) == \A i \in 1 .. Len(sg) : sg[i].snd \in C /\ sg[i].frame # 0

BusyInv ==
  /\ \A s \in Snd : snd[s].pc # "idle" => s \in chans /\ snd[s].n # 0
  /\ \A r \in Rx : /\ From(pstSg[r], chans) /\ From(got[r], chans)
                   /\ \A i \in 1 .. Len(stHead[r]) : From(stHead[r][i], chans)

GotInv == \A r \in Rx : InSequence(got[r])

-----------------------------------------------------------------------------
(* Numbers and lists.                                                      *)

LessThan == {ss \in Nat \X Nat : ss[1] < ss[2]}

LEMMA LeastOf ==
  ASSUME NEW S \in SUBSET Nat, S # {}
  PROVE  \E x \in S : \A y \in S : x <= y
<1>1. IsWellFoundedOn(LessThan, Nat)
  BY NatLessThanWellFounded DEF OpToRel, LessThan
<1>2. PICK x \in S : \A y \in S : << y, x >> \notin LessThan
  BY <1>1, WFMin
<1>3. ASSUME NEW y \in S PROVE x <= y
  <2>1. ~(y < x)
    BY <1>2, << y, x >> \in Nat \X Nat, << y, x >>[1] = y, << y, x >>[2] = x DEF LessThan
  <2> QED
    BY <2>1
<1> QED
  BY <1>3

LEMMA LenTypes ==
  ASSUME NEW S, NEW q \in Seq(S)
  PROVE  Len(q) \in Nat /\ \A i \in 1 .. Len(q) : q[i] \in S
  OBVIOUS

(* Without its first k elements, a queue has the others in order.          *)
LEMMA CutFront ==
  ASSUME NEW S, NEW q \in Seq(S), NEW k \in 0 .. Len(q)
  PROVE  /\ SubSeq(q, k + 1, Len(q)) \in Seq(S)
         /\ Len(SubSeq(q, k + 1, Len(q))) = Len(q) - k
         /\ \A i \in 1 .. Len(q) - k : SubSeq(q, k + 1, Len(q))[i] = q[i + k]
<1>1. \A i \in k + 1 .. Len(q) : q[i] \in S
  OBVIOUS
<1>2. k + 1 \in Int /\ Len(q) \in Int
  OBVIOUS
<1> QED
  BY <1>1, <1>2, SubSeqProperties

LEMMA PartOf ==
  ASSUME NEW S, NEW q \in Seq(S), NEW i \in 1 .. Len(q), NEW j \in 1 .. i
  PROVE  /\ SubSeq(q, j, i) \in Seq(S) /\ Len(SubSeq(q, j, i)) = i - j + 1
         /\ \A k \in 1 .. i - j + 1 : SubSeq(q, j, i)[k] = q[j + k - 1]
<1>1. \A k \in j .. i : q[k] \in S
  OBVIOUS
<1>2. i \in Int /\ j \in Int /\ j <= i
  OBVIOUS
<1> QED
  BY <1>1, <1>2, SubSeqProperties

-----------------------------------------------------------------------------
(* GET_DATA.                                                               *)

(* What stops the loop of VK_GetData is a run of packets numbered from 0   *)
(* that ends with the only one marked as the last, and fits.               *)
LEMMA ResultIsRun ==
  ASSUME NEW sg \in Seq(Pkts), Result(sg).res = "frame"
  PROVE  \E i \in 1 .. Len(sg) : \E j \in 1 .. i :
           /\ Copied(sg, j, i) /\ sg[i].end /\ (\A k \in j .. i - 1 : ~sg[k].end) /\ Fits(sg, j, i)
           /\ Result(sg).out = SubSeq(sg, j, i)
<1>1. StopAt(sg) # {}
  BY DEF Result
<1>2. StopAt(sg) \in SUBSET Nat /\ StopAt(sg) \subseteq 1 .. Len(sg)
  BY DEF StopAt
<1>3. \E x \in StopAt(sg) : \A y \in StopAt(sg) : x <= y
  BY <1>1, <1>2, LeastOf
<1>4. PICK i \in StopAt(sg) : i = (CHOOSE n \in StopAt(sg) : \A m \in StopAt(sg) : n <= m)
  BY <1>3
<1>5. \A y \in StopAt(sg) : i <= y
  BY <1>3, <1>4
<1>6. PICK j0 \in 1 .. i : Copied(sg, j0, i)
  BY DEF StopAt
<1>7. PICK j \in 1 .. i : j = (CHOOSE n \in 1 .. i : Copied(sg, n, i)) /\ Copied(sg, j, i)
  BY <1>6
<1>8. Result(sg) = IF Fits(sg, j, i) THEN [res |-> "frame", out |-> SubSeq(sg, j, i)]
                   ELSE [res |-> "ENOMEM", out |-> << >>]
  BY <1>1, <1>4, <1>7 DEF Result
<1>9. Fits(sg, j, i) /\ Result(sg).out = SubSeq(sg, j, i)
  <2>1. CASE Fits(sg, j, i)
    <3> DEFINE out == SubSeq(sg, j, i)
    <3>1. Result(sg) = [res |-> "frame", out |-> out]
      BY <1>8, <2>1
    <3> HIDE DEF out
    <3>2. Result(sg).out = out
      BY <3>1
    <3> QED
      BY <2>1, <3>2 DEF out
  <2>2. CASE ~Fits(sg, j, i)
    BY <1>8, <2>2
  <2> QED
    BY <2>1, <2>2
<1>10. i \in 1 .. Len(sg) /\ Len(sg) \in Nat
  BY <1>2
<1>11. sg[i].end
  <2>1. PICK j1 \in 1 .. i : Copied(sg, j1, i) /\ (sg[i].end \/ ~Fits(sg, j1, i))
    BY DEF StopAt
  <2>2. sg[i].seq = i - j1 /\ sg[i].seq = i - j
    <3>1. i \in j1 .. i /\ i \in j .. i
      BY <1>10
    <3>2. sg[i].seq = i - j1
      BY ONLY <2>1, <3>1 DEF Copied
    <3>3. sg[i].seq = i - j
      BY ONLY <1>7, <3>1 DEF Copied
    <3> QED
      BY <3>2, <3>3
  <2>3. j1 = j
    BY <1>10, <2>2
  <2> QED
    BY <1>9, <2>1, <2>3
<1>12. ASSUME NEW k \in j .. i - 1 PROVE ~sg[k].end
  <2>0. k \in 1 .. Len(sg) /\ j \in 1 .. k /\ \A m \in j .. k : m \in j .. i
    BY <1>10
  <2>1. Copied(sg, j, k) /\ k \in 1 .. Len(sg) /\ j \in 1 .. k
    BY <1>7, <2>0 DEF Copied
  <2>2. k \notin StopAt(sg)
    BY <1>5, <1>10
  <2> QED
    BY <2>1, <2>2 DEF StopAt
<1> QED
  BY <1>7, <1>9, <1>10, <1>11, <1>12

LEMMA ResultInSequence ==
  ASSUME NEW sg \in Seq(Pkts), Result(sg).res = "frame"
  PROVE  Result(sg).out \in Seq(Pkts) /\ InSequence(Result(sg).out)
<1>0. PICK i \in 1 .. Len(sg) : \E j \in 1 .. i :
        /\ Copied(sg, j, i) /\ sg[i].end /\ (\A k \in j .. i - 1 : ~sg[k].end) /\ Fits(sg, j, i)
        /\ Result(sg).out = SubSeq(sg, j, i)
  BY ResultIsRun
<1>1. PICK j \in 1 .. i :
        /\ Copied(sg, j, i) /\ sg[i].end /\ (\A k \in j .. i - 1 : ~sg[k].end) /\ Fits(sg, j, i)
        /\ Result(sg).out = SubSeq(sg, j, i)
  BY <1>0
<1>2. PICK out \in Seq(Pkts) : /\ out = SubSeq(sg, j, i) /\ Len(out) = i - j + 1
                               /\ \A k \in 1 .. i - j + 1 : out[k] = sg[j + k - 1]
  <2>1. /\ SubSeq(sg, j, i) \in Seq(Pkts) /\ Len(SubSeq(sg, j, i)) = i - j + 1
        /\ \A k \in 1 .. i - j + 1 : SubSeq(sg, j, i)[k] = sg[j + k - 1]
    BY PartOf
  <2> QED
    BY <2>1
<1>3. TotBytes(out) <= usrLen
  BY <1>1, <1>2 DEF Fits
<1>4. ASSUME NEW k \in 1 .. Len(out)
      PROVE  out[k].seq = k - 1 /\ (out[k].end <=> k = Len(out))
  <2>1. out[k] = sg[j + k - 1] /\ j + k - 1 \in j .. i /\ (j + k - 1 = i <=> k = Len(out))
    BY <1>2
  <2>2. out[k].seq = k - 1
    BY <1>1, <2>1 DEF Copied
  <2>3. CASE j + k - 1 = i
    BY <1>1, <2>1, <2>2, <2>3
  <2>4. CASE j + k - 1 # i
    <3>1. j + k - 1 \in j .. i - 1
      BY <2>1, <2>4
    <3> QED
      BY <1>1, <2>1, <2>2, <2>4, <3>1
  <2> QED
    BY <2>3, <2>4
<1> QED
  BY <1>1, <1>2, <1>3, <1>4 DEF InSequence

-----------------------------------------------------------------------------
(* What the steps do.                                                      *)

LEMMA SettingTypes ==
  ASSUME ShapeInv
  PROVE  /\ chans \subseteq Snd \cup Rx /\ limit \in Nat /\ setting.lens \subseteq Nat
  BY SettingAssumption DEF ShapeInv, chans, limit

LEMMA TrimRange ==
  ASSUME ShapeInv, NEW r \in Rx
  PROVE  /\ Trim(r) \in 0 .. Len(stHead[r])
         /\ limit # 0 => Trim(r) = Len(stHead[r]) \/ ~Over(r, Trim(r))
<1> DEFINE L == Len(stHead[r])
           S == {k \in 0 .. L : k = L \/ ~Over(r, k)}
           Stop(k) == (\A i \in 0 .. k - 1 : Over(r, i)) /\ (k = L \/ ~Over(r, k))
<1>1. L \in Nat
  BY LenTypes DEF ShapeInv
<1>2. PICK k \in S : \A y \in S : k <= y
  <2>1. S \in SUBSET Nat /\ L \in S
    BY <1>1
  <2> HIDE DEF S
  <2> QED
    BY <2>1, LeastOf
<1>3. k \in 0 .. L /\ Stop(k)
  <2>1. \A i \in 0 .. k - 1 : i \in 0 .. L /\ ~(k <= i)
    BY <1>1, <1>2
  <2> QED
    BY <1>2, <2>1
<1>4. CASE limit = 0
  BY <1>1, <1>4 DEF Trim
<1>5. CASE limit # 0
  <2>1. Trim(r) = CHOOSE i \in 0 .. L : Stop(i)
    BY <1>5 DEF Trim
  <2> HIDE DEF Stop, L
  <2>2. Trim(r) \in 0 .. L /\ Stop(Trim(r))
    BY <1>3, <2>1
  <2> QED
    BY <2>2 DEF L, Stop
<1> QED
  BY <1>4, <1>5

LEMMA IdleType == Idle \in SndType
  BY DEF Idle, SndType

LEMMA AfterPktType ==
  ASSUME NEW c \in SndType
  PROVE  /\ AfterPkt(c) \in SndType /\ AfterPkt(c).n = c.n
         /\ c.left > c.cpy =>
              AfterPkt(c).pc = "pkt" /\ AfterPkt(c).seq = c.seq + 1 /\ AfterPkt(c).left = c.left - c.cpy
         /\ ~(c.left > c.cpy) => AfterPkt(c).pc = "idle"
<1>1. c.left \in Nat /\ c.cpy \in Nat /\ c.seq \in Nat /\ c.n \in Nat
  BY DEF SndType
<1>2. CASE c.left > c.cpy
  <2>1. c.left - c.cpy \in Nat
    BY <1>1, <1>2
  <2>2. AfterPkt(c) = [c EXCEPT !.pc = "pkt", !.left = c.left - c.cpy, !.seq = c.seq + 1, !.todo = {}, !.rx = NoRx]
    BY <1>2 DEF AfterPkt
  <2>3. c.seq + 1 \in Nat /\ {} \in SUBSET Rx /\ NoRx \in Rx \cup {NoRx}
    BY <1>1
  <2> DEFINE d == AfterPkt(c)
  <2>4. /\ d = [pc |-> "pkt", n |-> c.n, left |-> c.left - c.cpy, seq |-> c.seq + 1, cpy |-> c.cpy,
                todo |-> {}, held |-> c.held, rx |-> NoRx]
    BY <2>2 DEF SndType
  <2> HIDE DEF d
  <2>5. d \in SndType
    BY <1>1, <2>1, <2>3, <2>4 DEF SndType
  <2>6. d.n = c.n /\ d.pc = "pkt" /\ d.seq = c.seq + 1 /\ d.left = c.left - c.cpy
    BY <2>4
  <2> QED
    BY <1>2, <2>5, <2>6 DEF d
<1>3. CASE ~(c.left > c.cpy)
  BY <1>1, <1>3 DEF AfterPkt, Idle, SndType
<1> QED
  BY <1>2, <1>3

(* The loop over the ports goes on, or, after the last one, that over the  *)
(* packets.                                                                *)
Onward(s, c) ==
  snd' = [snd EXCEPT ![s] = IF c.todo = {} THEN AfterPkt(c) ELSE c]

LEMMA PutPktForwards ==
  ASSUME ShapeInv, NEW s \in Snd, NEW room \in Rooms, PutPkt(s, room)
  PROVE  \E c \in SndType :
           /\ c.pc = "fwd" /\ c.n = snd[s].n /\ c.seq = snd[s].seq /\ c.todo = Receivers(s)
           /\ c.left = snd[s].left /\ c.cpy <= c.left /\ Onward(s, c)
<1> DEFINE cpy == Least(Least(snd[s].left, room), MaxPktLen)
<1>1. cpy \in Nat /\ cpy <= snd[s].left
  BY LenAssumption DEF ShapeInv, SndType, Least
<1>2. Receivers(s) \subseteq Rx
  BY DEF Receivers
<1>3. snd[s] \in SndType
  BY DEF ShapeInv
<1> HIDE DEF cpy
<1>4. PICK c : c = [snd[s] EXCEPT !.pc = "fwd", !.cpy = cpy, !.held = FALSE, !.todo = Receivers(s)]
  OBVIOUS
<1>5. /\ c \in SndType /\ c.pc = "fwd" /\ c.n = snd[s].n /\ c.seq = snd[s].seq /\ c.todo = Receivers(s)
      /\ c.left = snd[s].left /\ c.cpy <= c.left
  BY <1>1, <1>2, <1>3, <1>4 DEF SndType
<1>6. Onward(s, c)
  BY <1>4 DEF PutPkt, Onward, cpy
<1> QED
  BY <1>5, <1>6

LEMMA SignalForwards ==
  ASSUME ShapeInv, NEW s \in Snd, Signal(s)
  PROVE  \E c \in SndType :
           /\ c.pc = "fwd" /\ c.n = snd[s].n /\ c.seq = snd[s].seq /\ c.todo = snd[s].todo \ {snd[s].rx}
           /\ c.left = snd[s].left /\ c.cpy = snd[s].cpy /\ Onward(s, c)
<1>1. snd[s] \in SndType
  BY DEF ShapeInv
<1>2. PICK c : c = [snd[s] EXCEPT !.pc = "fwd", !.todo = snd[s].todo \ {snd[s].rx}]
  OBVIOUS
<1>3. /\ c \in SndType /\ c.pc = "fwd" /\ c.n = snd[s].n /\ c.seq = snd[s].seq /\ c.todo = snd[s].todo \ {snd[s].rx}
      /\ c.left = snd[s].left /\ c.cpy = snd[s].cpy
  BY <1>1, <1>2 DEF SndType
<1>4. Onward(s, c)
  BY <1>2 DEF Signal, Onward
<1> QED
  BY <1>3, <1>4

LEMMA OnwardType ==
  ASSUME ShapeInv, NEW s \in Snd, NEW c \in SndType, Onward(s, c)
  PROVE  snd' \in [Snd -> SndType] /\ \A u \in Snd \ {s} : snd'[u] = snd[u]
<1>1. AfterPkt(c) \in SndType
  BY AfterPktType
<1> QED
  BY <1>1 DEF Onward, ShapeInv

(* What FDD_QueueBufSg makes of the queue of a receiver.                   *)
Old(r) == {<< >>, pstSg[r]}
Queued(s, r, k, old, kept, sg) ==
  /\ sg = Append(old, Pkt(s)) /\ old \in Seq(Pkts)
  /\ Len(kept) = Len(stHead[r]) - k /\ \A i \in 1 .. Len(kept) : kept[i] = stHead[r][i + k]
  /\ \/ /\ Pkt(s).end /\ pstSg' = [pstSg EXCEPT ![r] = << >>]
        /\ stHead' = [stHead EXCEPT ![r] = Append(kept, sg)]
     \/ /\ ~Pkt(s).end /\ pstSg' = [pstSg EXCEPT ![r] = sg]
        /\ stHead' = [stHead EXCEPT ![r] = kept]

LEMMA QueueShape ==
  ASSUME ShapeInv, NEW s \in Snd, NEW r \in Rx, QueueBufSg(s, r)
  PROVE  /\ Pkt(s) \in Pkts
         /\ \E k \in 0 .. Len(stHead[r]), old \in Old(r), kept \in Seq(Seq(Pkts)), sg \in Seq(Pkts) :
              Queued(s, r, k, old, kept, sg)
<1>1. Pkt(s) \in Pkts
  <2>1. BitEnd(snd[s]) \in BOOLEAN
    BY DEF BitEnd
  <2> QED
    BY <2>1 DEF Pkt, Pkts, ShapeInv, SndType
<1>2. PICK k \in 0 .. Len(stHead[r]) : k = Trim(r)
  BY TrimRange
<1>3. stHead[r] \in Seq(Seq(Pkts)) /\ pstSg[r] \in Seq(Pkts)
  BY DEF ShapeInv
<1>4. PICK kept \in Seq(Seq(Pkts)) : /\ kept = SubSeq(stHead[r], k + 1, Len(stHead[r]))
                                     /\ Len(kept) = Len(stHead[r]) - k /\ \A i \in 1 .. Len(kept) : kept[i] = stHead[r][i + k]
  <2> DEFINE q == stHead[r]
             c == SubSeq(q, k + 1, Len(q))
  <2>1. c \in Seq(Seq(Pkts)) /\ Len(c) = Len(q) - k /\ \A i \in 1 .. Len(q) - k : c[i] = q[i + k]
    BY <1>3, CutFront
  <2> HIDE DEF q, c
  <2>2. \A i \in 1 .. Len(c) : c[i] = q[i + k]
    BY <2>1
  <2> QED
    BY <2>1, <2>2 DEF q, c
<1>5. PICK old \in Old(r) : old = Gathered(r)
  BY DEF Old, Gathered
<1>6. old \in Seq(Pkts)
  BY <1>3, EmptySeq DEF Old
<1>7. PICK sg \in Seq(Pkts) : sg = Append(old, Pkt(s))
  BY <1>1, <1>6, AppendProperties
<1>8. \/ /\ Pkt(s).end /\ pstSg' = [pstSg EXCEPT ![r] = << >>]
         /\ stHead' = [stHead EXCEPT ![r] = Append(kept, sg)]
      \/ /\ ~Pkt(s).end /\ pstSg' = [pstSg EXCEPT ![r] = sg]
         /\ stHead' = [stHead EXCEPT ![r] = kept]
  <2>1. CASE Pkt(s).end
    BY <1>2, <1>4, <1>5, <1>7, <2>1 DEF QueueBufSg, AddTail
  <2>2. CASE ~Pkt(s).end
    BY <1>2, <1>4, <1>5, <1>7, <2>2 DEF QueueBufSg
  <2> QED
    BY <2>1, <2>2
<1>9. Queued(s, r, k, old, kept, sg)
  BY <1>4, <1>6, <1>7, <1>8 DEF Queued
<1> QED
  BY <1>1, <1>9

(* GET_DATA of a list: what is left, and what the reader got.              *)
LEMMA GetShape ==
  ASSUME ShapeInv, NEW r \in Rx, GetData(r), stHead[r] # << >>
  PROVE  \E sg \in Seq(Pkts), q \in Seq(Seq(Pkts)) :
           /\ 1 \in 1 .. Len(stHead[r]) /\ sg = stHead[r][1] /\ stHead' = [stHead EXCEPT ![r] = q]
           /\ Len(q) = Len(stHead[r]) - 1 /\ \A i \in 1 .. Len(q) : q[i] = stHead[r][i + 1]
           /\ \/ Result(sg).res = "frame" /\ got' = [got EXCEPT ![r] = Result(sg).out]
              \/ got' = got
           /\ pstSg' = pstSg /\ snd' = snd
<1>1. stHead[r] \in Seq(Seq(Pkts))
  BY DEF ShapeInv
<1>2. /\ Tail(stHead[r]) \in Seq(Seq(Pkts)) /\ Len(Tail(stHead[r])) = Len(stHead[r]) - 1
      /\ \A i \in 1 .. Len(Tail(stHead[r])) : Tail(stHead[r])[i] = stHead[r][i + 1]
  BY <1>1, HeadTailProperties
<1>3. 1 \in 1 .. Len(stHead[r]) /\ Head(stHead[r]) = stHead[r][1] /\ Head(stHead[r]) \in Seq(Pkts)
  BY <1>1, HeadTailProperties
<1>4. PICK sg \in Seq(Pkts) : sg = Head(stHead[r])
  BY <1>3
<1>5. PICK q \in Seq(Seq(Pkts)) : q = Tail(stHead[r])
  BY <1>2
<1>6. stHead' = [stHead EXCEPT ![r] = q] /\ pstSg' = pstSg /\ snd' = snd
  BY <1>5 DEF GetData
<1>7. \/ Result(sg).res = "frame" /\ got' = [got EXCEPT ![r] = Result(sg).out]
      \/ got' = got
  BY <1>4 DEF GetData
<1> QED
  BY <1>2, <1>3, <1>4, <1>5, <1>6, <1>7

(* The steps that touch neither frames nor queues.                         *)
Quiet ==
  /\ UNCHANGED << snd, pstSg, stHead, got >>
  /\ res' = res \/ \E r \in Rx : res' = [res EXCEPT ![r] = "ENODATA"]
  /\ "reconnect" \notin faults => conn' = conn

(* The steps of a call that leave the queues alone.                        *)
Putting(s) ==
  \/ \E len \in setting.lens : PutData(s, len)
  \/ PutFails(s)
  \/ \E room \in Rooms : PutPkt(s, room)
  \/ \E r \in Rx : DropPkt(s, r)
  \/ Signal(s)

LEMMA NextCases ==
  ASSUME [Next]_vars
  PROVE  /\ setting' = setting
         /\ \/ \E s \in Snd : Putting(s)
            \/ \E s \in Snd, r \in Rx : QueueBufSg(s, r)
            \/ \E r \in Rx : GetData(r) /\ stHead[r] # << >>
            \/ Quiet
<1>1. CASE \E s \in Snd, len \in setting.lens : PutData(s, len)
  BY <1>1 DEF PutData, Putting
<1>2. CASE \E s \in Snd : Send(s)
  <2>1. PICK s \in Snd : Send(s)
    BY <1>2
  <2>2. setting' = setting
    BY <2>1 DEF Send, PutFails, PutPkt, QueueBufSg, DropPkt, Signal
  <2> QED
    BY <2>1, <2>2 DEF Send, Putting
<1>3. CASE \E r \in Rx : Poll(r) \/ Read(r)
  BY <1>3 DEF Poll, Read, PollCheck, PollWake, Quiet, queueVars
<1>4. CASE \E r \in Rx : GetData(r)
  <2>1. PICK r \in Rx : GetData(r)
    BY <1>4
  <2>2. CASE stHead[r] = << >>
    BY <2>1, <2>2 DEF GetData, Quiet, queueVars
  <2>3. CASE stHead[r] # << >>
    BY <2>1, <2>3 DEF GetData
  <2> QED
    BY <2>2, <2>3
<1>5. CASE \E s \in Snd, r \in Rx : Connect(s, r) \/ Disconnect(s, r)
  BY <1>5 DEF Connect, Disconnect, Quiet, queueVars, rdrVars
<1>6. CASE UNCHANGED vars
  BY <1>6 DEF vars, queueVars, rdrVars, Quiet
<1> QED
  BY <1>1, <1>2, <1>3, <1>4, <1>5, <1>6 DEF Next

(* A step of a call is one of these; all leave queues and connections.     *)
LEMMA PuttingCases ==
  ASSUME ShapeInv, NEW s \in Snd, Putting(s)
  PROVE  /\ UNCHANGED << setting, conn, pstSg, stHead, got >>
         /\ snd' \in [Snd -> SndType] /\ \A u \in Snd \ {s} : snd'[u] = snd[u]
         /\ \/ /\ s \in chans /\ snd[s].pc = "idle" /\ snd'[s].pc = "pkt" /\ snd'[s].n = snd[s].n + 1 /\ snd'[s].seq = 0
               /\ snd'[s].todo = {} /\ snd'[s].left \in setting.lens
            \/ /\ snd[s].pc = "pkt" /\ snd'[s].pc = "idle" /\ snd'[s].n = snd[s].n /\ snd'[s].todo = {}
               /\ "put" \in faults
            \/ \E c \in SndType :
                 /\ \/ /\ snd[s].pc = "pkt" /\ c.todo = Receivers(s)
                       /\ c.left = snd[s].left /\ c.cpy <= c.left
                    \/ /\ snd[s].pc = "signal" /\ c.todo = snd[s].todo \ {snd[s].rx}
                       /\ c.left = snd[s].left /\ c.cpy = snd[s].cpy
                 /\ c.pc = "fwd" /\ c.n = snd[s].n /\ c.seq = snd[s].seq /\ Onward(s, c)
            \/ \E r \in Rx :
                 /\ r \in snd[s].todo /\ snd[s].pc = "fwd"
                 /\ HoldFails(s) \/ ("sg" \in faults /\ pstSg[r] = << >>)
                 /\ snd' = [snd EXCEPT ![s].pc = "signal", ![s].rx = r]
<1>1. UNCHANGED << setting, conn, pstSg, stHead, got >>
  BY DEF Putting, PutData, PutFails, PutPkt, DropPkt, Signal, queueVars, rdrVars
<1>2. CASE \E len \in setting.lens : PutData(s, len)
  <2>1. PICK len \in setting.lens : PutData(s, len)
    BY <1>2
  <2>2. len \in Nat /\ snd[s].n + 1 \in Nat /\ snd[s].n \in Nat
    BY SettingTypes DEF ShapeInv, SndType
  <2>3. PICK c : c = [Idle EXCEPT !.pc = "pkt", !.n = snd[s].n + 1, !.left = len]
    OBVIOUS
  <2>4. c \in SndType /\ c.pc = "pkt" /\ c.n = snd[s].n + 1 /\ c.seq = 0 /\ c.todo = {} /\ c.left = len
    BY <2>2, <2>3 DEF Idle, SndType
  <2>5. snd' = [snd EXCEPT ![s] = c] /\ snd[s].pc = "idle" /\ s \in chans
    BY <2>1, <2>3 DEF PutData
  <2> QED
    BY <1>1, <2>4, <2>5 DEF ShapeInv
<1>3. CASE PutFails(s)
  <2>1. PICK c : c = [Idle EXCEPT !.n = snd[s].n]
    OBVIOUS
  <2>2. c \in SndType /\ c.pc = "idle" /\ c.n = snd[s].n /\ c.todo = {}
    BY <2>1 DEF Idle, SndType, ShapeInv
  <2>3. snd' = [snd EXCEPT ![s] = c] /\ snd[s].pc = "pkt" /\ "put" \in faults
    BY <1>3, <2>1 DEF PutFails
  <2> QED
    BY <1>1, <2>2, <2>3 DEF ShapeInv
<1>4. CASE \E room \in Rooms : PutPkt(s, room)
  <2>1. PICK room \in Rooms : PutPkt(s, room)
    BY <1>4
  <2>2. snd[s].pc = "pkt"
    BY <2>1 DEF PutPkt
  <2>3. PICK c \in SndType : /\ c.pc = "fwd" /\ c.n = snd[s].n /\ c.seq = snd[s].seq /\ c.todo = Receivers(s)
                             /\ c.left = snd[s].left /\ c.cpy <= c.left /\ Onward(s, c)
    BY <2>1, PutPktForwards
  <2> QED
    BY <1>1, <2>2, <2>3, OnwardType
<1>5. CASE \E r \in Rx : DropPkt(s, r)
  <2>1. PICK r \in Rx : DropPkt(s, r)
    BY <1>5
  <2>2. /\ snd' = [snd EXCEPT ![s].pc = "signal", ![s].rx = r] /\ r \in snd[s].todo /\ snd[s].pc = "fwd"
        /\ HoldFails(s) \/ ("sg" \in faults /\ pstSg[r] = << >>)
    BY <2>1 DEF DropPkt
  <2>3. snd' \in [Snd -> SndType] /\ \A u \in Snd \ {s} : snd'[u] = snd[u]
    <3>1. PICK c : c = [snd[s] EXCEPT !.pc = "signal", !.rx = r]
      OBVIOUS
    <3>2. c \in SndType
      BY <3>1 DEF ShapeInv, SndType
    <3>3. snd' = [snd EXCEPT ![s] = c]
      BY <2>2, <3>1 DEF ShapeInv
    <3> QED
      BY <3>2, <3>3 DEF ShapeInv
  <2> QED
    BY <1>1, <2>2, <2>3
<1>6. CASE Signal(s)
  <2>1. snd[s].pc = "signal"
    BY <1>6 DEF Signal
  <2>2. PICK c \in SndType : /\ c.pc = "fwd" /\ c.n = snd[s].n /\ c.seq = snd[s].seq
                             /\ c.todo = snd[s].todo \ {snd[s].rx}
                             /\ c.left = snd[s].left /\ c.cpy = snd[s].cpy /\ Onward(s, c)
    BY <1>6, SignalForwards
  <2> QED
    BY <1>1, <2>1, <2>2, OnwardType
<1> QED
  BY <1>2, <1>3, <1>4, <1>5, <1>6 DEF Putting

BaseInv == ShapeInv /\ BusyInv /\ GotInv

LEMMA NoBytes == TotBytes(<< >>) = 0
<1> DEFINE S == 0 .. Len(<< >>)
           Sum(g) == [i \in S |-> IF i = 0 THEN 0 ELSE g[i - 1] + << >>[i].len]
           zero == [i \in S |-> 0]
<1>1. Len(<< >>) = 0 /\ S = {0}
  BY EmptySeq
<1>2. zero = Sum(zero)
  BY <1>1
<1>3. PICK f : f = (CHOOSE g : g = Sum(g))
  OBVIOUS
<1> HIDE DEF zero
<1>4. f = Sum(f)
  BY <1>2, <1>3
<1>5. f[0] = 0
  BY <1>1, <1>4
<1>6. TotBytes(<< >>) = f[Len(<< >>)]
  BY <1>3 DEF TotBytes
<1> QED
  BY <1>1, <1>5, <1>6

LEMMA BaseInit == Init => BaseInv
<1> SUFFICES ASSUME Init PROVE BaseInv
  OBVIOUS
<1>1. << >> \in Seq(Pkts) /\ << >> \in Seq(Seq(Pkts)) /\ Len(<< >>) = 0
  BY EmptySeq
<1>2. ShapeInv
  BY <1>1, IdleType DEF Init, ShapeInv
<1>3. BusyInv
  BY <1>1 DEF Init, BusyInv, Idle, From
<1>4. usrLen \in Nat
  BY SettingAssumption DEF Init, usrLen
<1>5. TotBytes(<< >>) = 0
  BY NoBytes
<1>6. GotInv
  BY <1>1, <1>4, <1>5 DEF Init, GotInv, InSequence
<1> QED
  BY <1>2, <1>3, <1>6 DEF BaseInv

LEMMA FromAppend ==
  ASSUME NEW old \in Seq(Pkts), NEW p \in Pkts, NEW C, From(old, C), p.snd \in C, p.frame # 0
  PROVE  From(Append(old, p), C)
  BY AppendProperties DEF From

LEMMA QueueSender ==
  ASSUME NEW s \in Snd, NEW r \in Rx, QueueBufSg(s, r), ShapeInv
  PROVE  /\ snd' \in [Snd -> SndType] /\ \A u \in Snd \ {s} : snd'[u] = snd[u]
         /\ snd[s].pc = "fwd" /\ r \in snd[s].todo
         /\ snd'[s].pc = "signal" /\ snd'[s].rx = r
         /\ snd'[s].n = snd[s].n /\ snd'[s].seq = snd[s].seq /\ snd'[s].todo = snd[s].todo
         /\ snd'[s].left = snd[s].left /\ snd'[s].cpy = snd[s].cpy
         /\ UNCHANGED << setting, conn, got >>
<1>1. PICK c : c = [snd[s] EXCEPT !.pc = "signal", !.rx = r, !.held = TRUE]
  OBVIOUS
<1>2. snd' = [snd EXCEPT ![s] = c] /\ snd[s].pc = "fwd" /\ r \in snd[s].todo
  BY <1>1 DEF QueueBufSg, ShapeInv
<1>3. /\ c \in SndType /\ c.pc = "signal" /\ c.rx = r /\ c.n = snd[s].n /\ c.seq = snd[s].seq
      /\ c.todo = snd[s].todo /\ c.left = snd[s].left /\ c.cpy = snd[s].cpy
  BY <1>1 DEF ShapeInv, SndType
<1>4. UNCHANGED << setting, conn, got >>
  BY DEF QueueBufSg, rdrVars
<1> QED
  BY <1>2, <1>3, <1>4 DEF ShapeInv

LEMMA QueueBase ==
  ASSUME BaseInv, NEW s \in Snd, NEW r \in Rx, QueueBufSg(s, r)
  PROVE  BaseInv'
<1> USE DEF BaseInv
<1>1. PICK k \in 0 .. Len(stHead[r]), old \in Old(r), kept \in Seq(Seq(Pkts)), sg \in Seq(Pkts) :
        Queued(s, r, k, old, kept, sg)
  BY QueueShape
<1>2. Pkt(s) \in Pkts /\ Pkt(s).snd = s /\ Pkt(s).frame # 0
  BY QueueShape, QueueSender DEF Pkt, BusyInv
<1>3. Append(kept, sg) \in Seq(Seq(Pkts)) /\ << >> \in Seq(Pkts) /\ Len(<< >>) = 0
  BY AppendProperties, EmptySeq
<1>4. ShapeInv'
  <2>1. /\ snd' \in [Snd -> SndType] /\ setting' = setting /\ got' = got
        /\ pstSg \in [Rx -> Seq(Pkts)] /\ stHead \in [Rx -> Seq(Seq(Pkts))]
    BY QueueSender DEF ShapeInv
  <2>2. pstSg' \in [Rx -> Seq(Pkts)] /\ stHead' \in [Rx -> Seq(Seq(Pkts))]
    <3>1. CASE Pkt(s).end
      <4>1. PICK q \in Seq(Seq(Pkts)) : q = Append(kept, sg)
        BY <1>3
      <4>2. pstSg' = [pstSg EXCEPT ![r] = << >>] /\ stHead' = [stHead EXCEPT ![r] = q]
        BY <1>1, <3>1, <4>1 DEF Queued
      <4> QED
        BY <1>3, <2>1, <4>2
    <3>2. CASE ~Pkt(s).end
      <4>1. pstSg' = [pstSg EXCEPT ![r] = sg] /\ stHead' = [stHead EXCEPT ![r] = kept]
        BY <1>1, <3>2 DEF Queued
      <4> QED
        BY <2>1, <4>1
    <3> QED
      BY <3>1, <3>2
  <2> QED
    BY <2>1, <2>2 DEF ShapeInv
<1>5. s \in chans /\ chans' = chans
  BY QueueSender DEF BusyInv, chans
<1>6. From(sg, chans)
  <2>1. From(old, chans)
    BY <1>3 DEF Old, BusyInv, From
  <2> QED
    BY <1>1, <1>2, <1>5, <2>1, FromAppend DEF Queued
<1>7. \A i \in 1 .. Len(kept) : From(kept[i], chans)
  <2> SUFFICES ASSUME NEW i \in 1 .. Len(kept) PROVE From(kept[i], chans)
    OBVIOUS
  <2>1. Len(stHead[r]) \in Nat
    BY LenTypes DEF ShapeInv
  <2>2. kept[i] = stHead[r][i + k] /\ i + k \in 1 .. Len(stHead[r])
    BY <1>1, <2>1 DEF Queued
  <2> QED
    BY <2>2 DEF BusyInv
<1>8. From(<< >>, chans)
  BY <1>3 DEF From
<1>9. ASSUME NEW x \in Rx
      PROVE  From(pstSg'[x], chans) /\ \A i \in 1 .. Len(stHead'[x]) : From(stHead'[x][i], chans)
  <2>1. CASE x # r
    BY <1>1, <2>1 DEF Queued, BusyInv, ShapeInv
  <2>2. CASE x = r /\ ~Pkt(s).end
    BY <1>1, <1>6, <1>7, <2>2 DEF Queued, ShapeInv
  <2>3. CASE x = r /\ Pkt(s).end
    <3>1. stHead'[x] = Append(kept, sg) /\ pstSg'[x] = << >>
      BY <1>1, <2>3 DEF Queued, ShapeInv
    <3>2. /\ Len(Append(kept, sg)) = Len(kept) + 1 /\ Append(kept, sg)[Len(kept) + 1] = sg
          /\ \A i \in 1 .. Len(kept) : Append(kept, sg)[i] = kept[i]
      BY AppendProperties
    <3>3. \A i \in 1 .. Len(kept) + 1 : i \in 1 .. Len(kept) \/ i = Len(kept) + 1
      BY LenTypes
    <3> QED
      BY <1>6, <1>7, <1>8, <3>1, <3>2, <3>3
  <2> QED
    BY <2>1, <2>2, <2>3
<1>10. BusyInv'
  BY SMTT(30), <1>5, <1>9, QueueSender DEF BusyInv
<1>11. GotInv'
  BY QueueSender DEF GotInv, InSequence, usrLen
<1> QED
  BY <1>4, <1>10, <1>11

LEMMA GetBase ==
  ASSUME BaseInv, NEW r \in Rx, GetData(r), stHead[r] # << >>
  PROVE  BaseInv'
<1> USE DEF BaseInv
<1>1. PICK sg \in Seq(Pkts), q \in Seq(Seq(Pkts)) :
        /\ 1 \in 1 .. Len(stHead[r]) /\ sg = stHead[r][1] /\ stHead' = [stHead EXCEPT ![r] = q]
        /\ Len(q) = Len(stHead[r]) - 1 /\ \A i \in 1 .. Len(q) : q[i] = stHead[r][i + 1]
        /\ \/ Result(sg).res = "frame" /\ got' = [got EXCEPT ![r] = Result(sg).out]
           \/ got' = got
        /\ pstSg' = pstSg /\ snd' = snd
  BY GetShape
<1>2. setting' = setting
  BY DEF GetData
<1>3. Result(sg).res = "frame" => Result(sg).out \in Seq(Pkts) /\ InSequence(Result(sg).out)
  BY ResultInSequence
<1>4. ShapeInv'
  BY <1>1, <1>2, <1>3 DEF ShapeInv
<1>5. GotInv'
  <2>1. usrLen' = usrLen
    BY <1>2 DEF usrLen
  <2>2. \A x \in Rx : InSequence(got'[x])
    <3>1. CASE got' = got
      BY <3>1 DEF GotInv
    <3>2. CASE Result(sg).res = "frame" /\ got' = [got EXCEPT ![r] = Result(sg).out]
      BY <1>3, <3>2 DEF GotInv, ShapeInv
    <3> QED
      BY <1>1, <3>1, <3>2
  <2> QED
    BY <2>1, <2>2 DEF GotInv, InSequence
<1>6. Result(sg).res = "frame" => From(Result(sg).out, chans)
  <2> SUFFICES ASSUME Result(sg).res = "frame" PROVE From(Result(sg).out, chans)
    OBVIOUS
  <2>1. PICK i \in 1 .. Len(sg) : \E j \in 1 .. i : Result(sg).out = SubSeq(sg, j, i)
    BY ResultIsRun
  <2>2. PICK j \in 1 .. i : Result(sg).out = SubSeq(sg, j, i)
    BY <2>1
  <2>3. /\ Len(SubSeq(sg, j, i)) = i - j + 1
        /\ \A k \in 1 .. i - j + 1 : SubSeq(sg, j, i)[k] = sg[j + k - 1]
    BY PartOf
  <2>4. Len(sg) \in Nat /\ From(sg, chans)
    BY <1>1, LenTypes DEF BusyInv
  <2>5. \A k \in 1 .. i - j + 1 : j + k - 1 \in 1 .. Len(sg)
    BY <2>4
  <2> QED
    BY <2>2, <2>3, <2>4, <2>5 DEF From
<1>7. \A i \in 1 .. Len(q) : i + 1 \in 1 .. Len(stHead[r])
  <2>1. Len(stHead[r]) \in Nat
    BY LenTypes DEF ShapeInv
  <2> QED
    BY <1>1, <2>1
<1>8. BusyInv'
  BY ZenonT(40), <1>1, <1>2, <1>6, <1>7 DEF ShapeInv, BusyInv, chans
<1> QED
  BY <1>4, <1>5, <1>8

LEMMA PutNumbers ==
  ASSUME ShapeInv, NEW s \in Snd, Putting(s)
  PROVE  \/ snd[s].pc = "idle" /\ snd'[s].n = snd[s].n + 1
         \/ snd[s].pc # "idle" /\ snd'[s].n = snd[s].n
<1>1. ASSUME NEW c \in SndType, Onward(s, c) PROVE snd'[s].n = c.n
  <2>1. snd'[s] = IF c.todo = {} THEN AfterPkt(c) ELSE c
    BY <1>1 DEF Onward, ShapeInv
  <2> QED
    BY <2>1, AfterPktType
<1>2. ASSUME NEW r \in Rx, snd' = [snd EXCEPT ![s].pc = "signal", ![s].rx = r]
      PROVE  snd'[s].n = snd[s].n
  BY <1>2 DEF ShapeInv, SndType
<1> HIDE DEF Onward
<1> QED
  BY <1>1, <1>2, PuttingCases

LEMMA PuttingBase ==
  ASSUME BaseInv, NEW s \in Snd, Putting(s)
  PROVE  BaseInv'
<1> USE DEF BaseInv
<1>1. /\ UNCHANGED << setting, conn, pstSg, stHead, got >>
      /\ snd' \in [Snd -> SndType] /\ \A u \in Snd \ {s} : snd'[u] = snd[u]
  BY PuttingCases
<1>2. s \in chans
  BY PuttingCases DEF BusyInv
<1>3. BusyInv'
  <2>1. snd[s].n \in Nat
    BY DEF ShapeInv, SndType
  <2>2. snd'[s].n # 0
    BY <2>1, PutNumbers DEF BusyInv
  <2> QED
    BY <1>1, <1>2, <2>2 DEF BusyInv, chans
<1>4. GotInv' /\ ShapeInv'
  BY <1>1 DEF GotInv, InSequence, usrLen, ShapeInv
<1> QED
  BY <1>3, <1>4

LEMMA BaseStep == BaseInv /\ [Next]_vars => BaseInv'
<1> SUFFICES ASSUME BaseInv, [Next]_vars PROVE BaseInv'
  OBVIOUS
<1>1. CASE Quiet
  BY <1>1, NextCases DEF Quiet, BaseInv, ShapeInv, BusyInv, GotInv, InSequence, usrLen, chans
<1> QED
  BY <1>1, NextCases, PuttingBase, QueueBase, GetBase

-----------------------------------------------------------------------------
(* How far a packet has gone.                                              *)

(* Receiver r has had the packet that s forwards; and a packet of the frame *)
(* that s puts may still come to r.                                        *)
Handled(s, r) ==
  /\ snd[s].pc \in {"fwd", "signal"}
  /\ r \notin snd[s].todo \/ (snd[s].pc = "signal" /\ r = snd[s].rx)
Open(s, r) == snd[s].pc # "idle" /\ ~(Handled(s, r) /\ BitEnd(snd[s]))

(* Without changes of connections, packets go where they went from the     *)
(* start.                                                                  *)
ConnInv ==
  "reconnect" \notin faults =>
    /\ conn = (Snd \cap chans) \X (Rx \cap chans)
    /\ \A s \in Snd : snd[s].todo \subseteq chans
    /\ \A r \in Rx : r \notin chans => pstSg[r] = << >> /\ stHead[r] = << >> /\ got[r] = << >>

LEMMA SenderIs ==
  ASSUME Steady
  PROVE  Sender \in Snd /\ Sender \in chans /\ \A s \in Snd : s \in chans => s = Sender
<1>1. \E s \in Snd : chans \cap Snd = {s}
  BY DEF Steady
<1>2. Sender \in Snd /\ chans \cap Snd = {Sender}
  BY <1>1 DEF Sender
<1> QED
  BY <1>2

LEMMA ReceiversAre ==
  ASSUME ConnInv, "reconnect" \notin faults, NEW s \in Snd, s \in chans
  PROVE  Receivers(s) = Rx \cap chans
<1>1. ASSUME NEW r \in Rx PROVE r \in Receivers(s) <=> r \in chans
  BY DEF Receivers, ConnInv
<1>2. Receivers(s) \subseteq Rx
  BY DEF Receivers
<1> QED
  BY <1>1, <1>2

LEMMA OnwardFields ==
  ASSUME ShapeInv, NEW s \in Snd, NEW c \in SndType, Onward(s, c)
  PROVE  /\ c.todo # {} => snd'[s] = c
         /\ c.todo = {} /\ c.left > c.cpy =>
              snd'[s].pc = "pkt" /\ snd'[s].n = c.n /\ snd'[s].seq = c.seq + 1 /\ snd'[s].left = c.left - c.cpy
         /\ c.todo = {} /\ ~(c.left > c.cpy) => snd'[s].pc = "idle" /\ snd'[s].n = c.n
<1>1. snd'[s] = IF c.todo = {} THEN AfterPkt(c) ELSE c
  BY DEF Onward, ShapeInv
<1> QED
  BY <1>1, AfterPktType

(* A step of a call, as receiver r sees it.                                *)
Begins(s, r) ==
  /\ snd[s].pc = "idle" /\ snd'[s].pc = "pkt" /\ snd'[s].n = snd[s].n + 1 /\ snd'[s].seq = 0
  /\ snd'[s].left \in setting.lens
Ends(s, r) ==
  /\ snd[s].pc # "idle" /\ snd'[s].pc = "idle" /\ snd'[s].n = snd[s].n
  /\ Open(s, r) => "put" \in faults
NextPkt(s, r) ==
  /\ snd'[s].pc = "pkt" /\ snd'[s].n = snd[s].n /\ snd'[s].seq = snd[s].seq + 1
  /\ snd'[s].left = snd[s].left - snd[s].cpy
  /\ Handled(s, r) /\ ~BitEnd(snd[s])
Stays(s, r) ==
  /\ snd[s].pc # "idle" /\ snd'[s].pc \in {"fwd", "signal"}
  /\ snd'[s].n = snd[s].n /\ snd'[s].seq = snd[s].seq /\ snd'[s].left = snd[s].left
  /\ Handled(s, r) => Handled(s, r)' /\ snd'[s].cpy = snd[s].cpy
  /\ Handled(s, r)' => Handled(s, r) \/ HoldFails(s) \/ ("sg" \in faults /\ pstSg[r] = << >>)

LEMMA Phases ==
  ASSUME BaseInv, ConnInv, "reconnect" \notin faults, NEW s \in Snd, Putting(s), NEW r \in Rx, r \in chans
  PROVE  Begins(s, r) \/ Ends(s, r) \/ NextPkt(s, r) \/ Stays(s, r)
<1>0. ShapeInv /\ s \in chans /\ snd[s] \in SndType
  BY PuttingCases DEF BaseInv, BusyInv, ShapeInv
<1>1. CASE /\ snd[s].pc = "idle" /\ snd'[s].pc = "pkt" /\ snd'[s].n = snd[s].n + 1 /\ snd'[s].seq = 0
           /\ snd'[s].left \in setting.lens
  BY <1>1 DEF Begins
<1>2. CASE snd[s].pc = "pkt" /\ snd'[s].pc = "idle" /\ snd'[s].n = snd[s].n /\ "put" \in faults
  BY <1>2 DEF Ends
<1>3. ASSUME NEW c \in SndType, snd[s].pc = "pkt", c.todo = Receivers(s), c.left = snd[s].left,
             c.pc = "fwd" /\ c.n = snd[s].n /\ c.seq = snd[s].seq, Onward(s, c)
      PROVE  Stays(s, r)
  <2>1. r \in c.todo
    BY <1>0, <1>3, ReceiversAre
  <2>2. snd'[s] = c
    BY <1>0, <1>3, <2>1, OnwardFields
  <2> QED
    BY <1>3, <2>1, <2>2 DEF Stays, Handled
<1>4. ASSUME NEW c \in SndType, snd[s].pc = "signal", c.todo = snd[s].todo \ {snd[s].rx},
             c.left = snd[s].left, c.cpy = snd[s].cpy,
             c.pc = "fwd" /\ c.n = snd[s].n /\ c.seq = snd[s].seq, Onward(s, c)
      PROVE  Ends(s, r) \/ NextPkt(s, r) \/ Stays(s, r)
  <2>1. CASE c.todo # {}
    <3>1. snd'[s] = c
      BY <1>0, <1>4, <2>1, OnwardFields
    <3> QED
      BY <1>4, <3>1 DEF Stays, Handled, BitEnd
  <2>2. CASE c.todo = {} /\ c.left > c.cpy
    <3>1. snd'[s].pc = "pkt" /\ snd'[s].n = c.n /\ snd'[s].seq = c.seq + 1 /\ snd'[s].left = c.left - c.cpy
      BY <1>0, <1>4, <2>2, OnwardFields
    <3>2. ~(c.left <= c.cpy)
      BY <2>2 DEF SndType
    <3> QED
      BY <1>4, <2>2, <3>1, <3>2 DEF NextPkt, Handled, BitEnd
  <2>3. CASE c.todo = {} /\ ~(c.left > c.cpy)
    <3>1. snd'[s].pc = "idle" /\ snd'[s].n = c.n
      BY <1>0, <1>4, <2>3, OnwardFields
    <3>2. c.left <= c.cpy
      BY <2>3 DEF SndType
    <3>3. ~Open(s, r)
      BY <1>4, <2>3, <3>2 DEF Open, Handled, BitEnd
    <3> QED
      BY <1>4, <3>1, <3>3 DEF Ends
  <2> QED
    BY <2>1, <2>2, <2>3
<1>5. ASSUME NEW x \in Rx, x \in snd[s].todo /\ snd[s].pc = "fwd",
             HoldFails(s) \/ ("sg" \in faults /\ pstSg[x] = << >>),
             snd' = [snd EXCEPT ![s].pc = "signal", ![s].rx = x]
      PROVE  Stays(s, r)
  <2>1. /\ snd'[s].pc = "signal" /\ snd'[s].rx = x /\ snd'[s].n = snd[s].n /\ snd'[s].seq = snd[s].seq
        /\ snd'[s].todo = snd[s].todo /\ snd'[s].left = snd[s].left /\ snd'[s].cpy = snd[s].cpy
    BY <1>0, <1>5 DEF ShapeInv, SndType
  <2> QED
    BY <1>5, <2>1 DEF Stays, Handled, BitEnd
<1> QED
  BY <1>0, <1>1, <1>2, <1>3, <1>4, <1>5, PuttingCases

LEMMA QueuePhases ==
  ASSUME BaseInv, NEW s \in Snd, NEW r \in Rx, QueueBufSg(s, r)
  PROVE  /\ ~Handled(s, r) /\ Handled(s, r)' /\ Open(s, r) /\ BitEnd(snd'[s]) = BitEnd(snd[s])
         /\ \A x \in Rx \ {r} : Handled(s, x)' = Handled(s, x) /\ (Open(s, x)' => Open(s, x))
<1>1. ShapeInv
  BY DEF BaseInv
<1> QED
  BY <1>1, QueueSender DEF Handled, Open, BitEnd

LEMMA ConnInit == Init => ConnInv
  BY DEF Init, ConnInv, Idle

LEMMA ConnStep == BaseInv /\ ConnInv /\ [Next]_vars => ConnInv'
<1> SUFFICES ASSUME BaseInv, ConnInv, [Next]_vars PROVE ConnInv'
  OBVIOUS
<1>1. setting' = setting
  BY NextCases
<1>2. ShapeInv
  BY DEF BaseInv
<1>3. ASSUME NEW s \in Snd, Putting(s) PROVE ConnInv'
  <2> SUFFICES ASSUME "reconnect" \notin faults PROVE snd'[s].todo \subseteq chans
    BY <1>1, <1>2, <1>3, PuttingCases DEF ConnInv, chans, faults
  <2>1. s \in chans
    BY <1>2, <1>3, PuttingCases DEF BaseInv, BusyInv
  <2>2. snd[s].todo \subseteq chans /\ Receivers(s) \subseteq chans
    BY <2>1, ReceiversAre DEF ConnInv
  <2>3. ASSUME NEW c \in SndType, Onward(s, c), c.todo \subseteq chans PROVE snd'[s].todo \subseteq chans
    <3>1. snd'[s] = IF c.todo = {} THEN AfterPkt(c) ELSE c
      BY <1>2, <2>3 DEF Onward, ShapeInv
    <3>2. AfterPkt(c).todo = {}
      BY DEF AfterPkt, Idle, SndType
    <3> QED
      BY <2>3, <3>1, <3>2
  <2>4. ASSUME NEW r \in Rx, snd' = [snd EXCEPT ![s].pc = "signal", ![s].rx = r]
        PROVE  snd'[s].todo \subseteq chans
    BY <1>2, <2>2, <2>4 DEF ShapeInv, SndType
  <2>5. ASSUME NEW c \in SndType, Onward(s, c), c.todo = Receivers(s) \/ c.todo = snd[s].todo \ {snd[s].rx}
        PROVE  snd'[s].todo \subseteq chans
    BY <2>2, <2>3, <2>5
  <2>6. \/ snd'[s].todo = {}
        \/ \E c \in SndType : Onward(s, c) /\ (c.todo = Receivers(s) \/ c.todo = snd[s].todo \ {snd[s].rx})
        \/ \E r \in Rx : snd' = [snd EXCEPT ![s].pc = "signal", ![s].rx = r]
    <3> HIDE DEF Onward
    <3> QED
      BY <1>2, <1>3, PuttingCases
  <2> QED
    BY <2>4, <2>5, <2>6
<1>4. ASSUME NEW s \in Snd, NEW r \in Rx, QueueBufSg(s, r) PROVE ConnInv'
  <2> SUFFICES ASSUME "reconnect" \notin faults PROVE ConnInv'
    BY <1>1 DEF ConnInv, faults
  <2>1. r \in chans
    BY <1>2, <1>4, QueueSender DEF ConnInv
  <2>2. \A x \in Rx \ {r} : pstSg'[x] = pstSg[x] /\ stHead'[x] = stHead[x]
    BY <1>2, <1>4 DEF QueueBufSg, ShapeInv
  <2>3. chans' = chans /\ faults' = faults /\ conn' = conn /\ got' = got
    BY <1>1, <1>2, <1>4, QueueSender DEF chans, faults
  <2>4. \A u \in Snd : snd'[u].todo \subseteq chans
    BY <1>2, <1>4, QueueSender DEF ConnInv
  <2>5. \A x \in Rx : x \notin chans => pstSg'[x] = << >> /\ stHead'[x] = << >> /\ got'[x] = << >>
    BY <2>1, <2>2, <2>3 DEF ConnInv
  <2> QED
    BY <2>3, <2>4, <2>5 DEF ConnInv
<1>5. ASSUME NEW r \in Rx, GetData(r), stHead[r] # << >> PROVE ConnInv'
  <2>1. r \in chans /\ conn' = conn /\ snd' = snd
    BY <1>5 DEF GetData
  <2>2. \A x \in Rx \ {r} : pstSg'[x] = pstSg[x] /\ stHead'[x] = stHead[x] /\ got'[x] = got[x]
    BY <1>2, <1>5 DEF GetData, ShapeInv
  <2> QED
    BY <1>1, <2>1, <2>2 DEF ConnInv, chans, faults
<1>6. CASE Quiet
  BY <1>1, <1>6 DEF Quiet, ConnInv, chans, faults
<1> QED
  BY <1>3, <1>4, <1>5, <1>6, NextCases

-----------------------------------------------------------------------------
(* A list that is gathered or queued is one piece of a frame after         *)
(* another: a packet is a first one, or it follows the packet before it.   *)
Chained(sg) ==
  \A k \in 1 .. Len(sg) : k + 1 \in 1 .. Len(sg) =>
    \/ sg[k + 1].seq = 0
    \/ sg[k + 1].frame = sg[k].frame /\ sg[k + 1].seq = sg[k].seq + 1

Last(sg) == sg[Len(sg)]

(* What r gathers ends with the packet before the one that is to come.     *)
LastFits(r) ==
  LET c == snd[Sender]
  IN pstSg[r] # << >> =>
       /\ Handled(Sender, r) => Last(pstSg[r]).frame = c.n /\ Last(pstSg[r]).seq = c.seq
       /\ ~Handled(Sender, r) /\ c.pc # "idle" /\ c.seq # 0 =>
            Last(pstSg[r]).frame = c.n /\ Last(pstSg[r]).seq + 1 = c.seq

Whole == Steady /\ "hold" \notin faults

ChainInv ==
  Whole => \A r \in Rx : /\ Chained(pstSg[r]) /\ LastFits(r)
                         /\ \A i \in 1 .. Len(stHead[r]) : Chained(stHead[r][i])
                         /\ WholeFrame(got[r])

(* What is copied of such a list is one frame.                             *)
LEMMA RunIsOneFrame ==
  ASSUME NEW sg \in Seq(Pkts), Chained(sg), NEW i \in 1 .. Len(sg), NEW j \in 1 .. i, Copied(sg, j, i)
  PROVE  \A k \in j .. i : sg[k].frame = sg[j].frame
<1> DEFINE S == {k \in j .. i : sg[k].frame # sg[j].frame}
<1> SUFFICES ASSUME S # {} PROVE FALSE
  OBVIOUS
<1>1. S \in SUBSET Nat
  OBVIOUS
<1>2. PICK x \in S : \A y \in S : x <= y
  <2> HIDE DEF S
  <2> QED
    BY <1>1, LeastOf
<1>3. x \in j .. i /\ x # j /\ sg[x].frame # sg[j].frame /\ Len(sg) \in Nat
  BY <1>2
<1>4. x - 1 \in j .. i /\ x - 1 \in 1 .. Len(sg) /\ (x - 1) + 1 = x /\ x \in 1 .. Len(sg) /\ ~(x <= x - 1)
  BY <1>3
<1>5. sg[x - 1].frame = sg[j].frame
  BY <1>2, <1>4
<1>6. sg[x].seq = x - j /\ x - j # 0
  BY <1>3 DEF Copied
<1>7. sg[x].frame = sg[x - 1].frame
  BY <1>4, <1>6 DEF Chained
<1> QED
  BY <1>3, <1>5, <1>7

LEMMA ResultIsWhole ==
  ASSUME NEW sg \in Seq(Pkts), Chained(sg), From(sg, {Sender}), Result(sg).res = "frame"
  PROVE  WholeFrame(Result(sg).out)
<1>1. PICK i \in 1 .. Len(sg) : \E j \in 1 .. i : Copied(sg, j, i) /\ Result(sg).out = SubSeq(sg, j, i)
  BY ResultIsRun
<1>2. PICK j \in 1 .. i : Copied(sg, j, i) /\ Result(sg).out = SubSeq(sg, j, i)
  BY <1>1
<1>3. PICK out : out = SubSeq(sg, j, i)
  OBVIOUS
<1>4. Len(out) = i - j + 1 /\ \A k \in 1 .. i - j + 1 : out[k] = sg[j + k - 1]
  BY <1>3, PartOf
<1>5. \A k \in j .. i : sg[k].frame = sg[j].frame
  BY <1>2, RunIsOneFrame
<1>6. ASSUME NEW k \in 1 .. Len(out) PROVE out[k].frame = sg[j].frame /\ out[k].snd = Sender
  <2>1. out[k] = sg[j + k - 1] /\ j + k - 1 \in j .. i /\ j + k - 1 \in 1 .. Len(sg)
    BY <1>4
  <2> QED
    BY <1>5, <2>1 DEF From
<1> QED
  BY <1>2, <1>3, <1>6 DEF WholeFrame

(* The next packet of a frame lengthens the chain, and a first one does.   *)
LEMMA ChainAppend ==
  ASSUME NEW old \in Seq(Pkts), NEW p \in Pkts, Chained(old),
         old # << >> => p.seq = 0 \/ (Last(old).frame = p.frame /\ p.seq = Last(old).seq + 1)
  PROVE  Chained(Append(old, p)) /\ Append(old, p) # << >> /\ Last(Append(old, p)) = p
<1> DEFINE L == Len(old)
<1>1. PICK sg : sg = Append(old, p)
  OBVIOUS
<1>2. L \in Nat /\ Len(sg) = L + 1 /\ sg[L + 1] = p /\ \A k \in 1 .. L : sg[k] = old[k]
  BY <1>1, AppendProperties
<1>3. Len(<< >>) = 0
  BY EmptySeq
<1>4. sg # << >> /\ Last(sg) = p
  BY <1>2, <1>3 DEF Last
<1>5. ASSUME NEW k \in 1 .. Len(sg), k + 1 \in 1 .. Len(sg)
      PROVE  sg[k + 1].seq = 0 \/ (sg[k + 1].frame = sg[k].frame /\ sg[k + 1].seq = sg[k].seq + 1)
  <2>1. CASE k + 1 \in 1 .. L
    BY <1>2, <2>1 DEF Chained
  <2>2. CASE k = L
    <3>1. old # << >> /\ sg[k] = old[k] /\ sg[k + 1] = p
      BY <1>2, <1>3, <1>5, <2>2
    <3> QED
      BY <2>2, <3>1 DEF Last
  <2> QED
    BY <1>2, <1>5, <2>1, <2>2
<1> QED
  BY <1>1, <1>4, <1>5 DEF Chained

LEMMA NoList == Chained(<< >>) /\ WholeFrame(<< >>)
  BY EmptySeq DEF Chained, WholeFrame

LEMMA ChainInit == Init => ChainInv
<1> SUFFICES ASSUME Init PROVE ChainInv
  OBVIOUS
<1>1. \A r \in Rx : pstSg[r] = << >> /\ stHead[r] = << >> /\ got[r] = << >>
  BY DEF Init
<1>2. Len(<< >>) = 0
  BY EmptySeq
<1> QED
  BY <1>1, <1>2, NoList DEF ChainInv, LastFits

LEMMA SenderStays ==
  ASSUME setting' = setting
  PROVE  Sender' = Sender /\ Steady' = Steady /\ Whole' = Whole
  BY DEF Sender, Steady, Whole, chans, faults

LEMMA ChainPutting ==
  ASSUME BaseInv, ConnInv, ChainInv, Whole, NEW s \in Snd, Putting(s), NEW r \in Rx
  PROVE  LastFits(r)'
<1>0. ShapeInv /\ Steady /\ "reconnect" \notin faults /\ "hold" \notin faults
  BY DEF BaseInv, Whole, Steady
<1>1. s = Sender
  <2>1. s \in chans
    BY <1>0, PuttingCases DEF BaseInv, BusyInv
  <2> QED
    BY <1>0, <2>1, SenderIs
<1>2. UNCHANGED << setting, pstSg >>
  BY <1>0, PuttingCases
<1>3. Sender' = Sender
  BY <1>2, SenderStays
<1> SUFFICES ASSUME pstSg[r] # << >> PROVE LastFits(r)'
  BY <1>2 DEF LastFits
<1>4. r \in chans
  BY <1>0 DEF ConnInv
<1>5. LastFits(r)
  BY DEF ChainInv
<1>6. Handled(s, r)' => snd'[s].pc \in {"fwd", "signal"}
  BY DEF Handled
<1>7. CASE Begins(s, r) \/ Ends(s, r)
  BY <1>1, <1>2, <1>3, <1>6, <1>7 DEF Begins, Ends, LastFits
<1>8. CASE NextPkt(s, r)
  BY <1>1, <1>2, <1>3, <1>5, <1>6, <1>8 DEF NextPkt, LastFits
<1>9. CASE Stays(s, r)
  <2>1. ~HoldFails(s)
    BY <1>0 DEF HoldFails
  <2> QED
    BY <1>1, <1>2, <1>3, <1>5, <1>9, <2>1 DEF Stays, LastFits
<1> QED
  BY <1>0, <1>4, <1>7, <1>8, <1>9, Phases

LEMMA ChainQueue ==
  ASSUME BaseInv, ConnInv, ChainInv, Whole, NEW s \in Snd, NEW r \in Rx, QueueBufSg(s, r)
  PROVE  ChainInv'
<1>0. ShapeInv /\ Steady /\ "reconnect" \notin faults /\ "hold" \notin faults
  BY DEF BaseInv, Whole, Steady
<1>1. s = Sender
  <2>1. s \in chans
    BY <1>0, QueueSender DEF BaseInv, BusyInv
  <2> QED
    BY <1>0, <2>1, SenderIs
<1>2. UNCHANGED << setting, got >>
  BY <1>0, QueueSender
<1>3. Sender' = Sender
  BY <1>2, SenderStays
<1>4. PICK k \in 0 .. Len(stHead[r]), old \in Old(r), kept \in Seq(Seq(Pkts)), sg \in Seq(Pkts) :
        Queued(s, r, k, old, kept, sg)
  BY <1>0, QueueShape
<1>5. Pkt(s) \in Pkts /\ Pkt(s).frame = snd[s].n /\ Pkt(s).seq = snd[s].seq
  BY <1>0, QueueShape DEF Pkt
<1>6. \A x \in Rx : LastFits(x) /\ Chained(pstSg[x]) /\ \A i \in 1 .. Len(stHead[x]) : Chained(stHead[x][i])
  BY DEF ChainInv
<1>7. snd[s].pc = "fwd" /\ snd'[s].pc = "signal" /\ snd'[s].n = snd[s].n /\ snd'[s].seq = snd[s].seq
  BY <1>0, QueueSender
<1>8. ~Handled(s, r) /\ Handled(s, r)' /\ \A x \in Rx \ {r} : Handled(s, x)' = Handled(s, x)
  BY QueuePhases
<1>9. Chained(sg) /\ sg # << >> /\ Last(sg) = Pkt(s)
  <2>1. Chained(old) /\ old \in Seq(Pkts)
    BY <1>4, <1>6, NoList DEF Old, Queued
  <2>2. ASSUME old # << >> PROVE Pkt(s).seq = 0 \/ (Last(old).frame = Pkt(s).frame /\ Pkt(s).seq = Last(old).seq + 1)
    <3>1. old = pstSg[r] /\ pstSg[r] # << >>
      BY <2>2 DEF Old
    <3> QED
      BY <1>1, <1>5, <1>6, <1>7, <1>8, <3>1 DEF LastFits
  <2>3. sg = Append(old, Pkt(s))
    BY <1>4 DEF Queued
  <2> QED
    BY <1>5, <2>1, <2>2, <2>3, ChainAppend
<1>10. \A i \in 1 .. Len(kept) : Chained(kept[i])
  <2> SUFFICES ASSUME NEW i \in 1 .. Len(kept) PROVE Chained(kept[i])
    OBVIOUS
  <2>1. Len(stHead[r]) \in Nat
    BY <1>0, LenTypes DEF ShapeInv
  <2>2. kept[i] = stHead[r][i + k] /\ i + k \in 1 .. Len(stHead[r])
    BY <1>4, <2>1 DEF Queued
  <2> QED
    BY <1>6, <2>2
<1>11. ASSUME NEW x \in Rx, x # r
       PROVE  Chained(pstSg'[x]) /\ LastFits(x)' /\ \A i \in 1 .. Len(stHead'[x]) : Chained(stHead'[x][i])
  <2>1. pstSg'[x] = pstSg[x] /\ stHead'[x] = stHead[x]
    BY <1>0, <1>4, <1>11 DEF Queued, ShapeInv
  <2> QED
    BY <1>1, <1>3, <1>6, <1>7, <1>8, <1>11, <2>1 DEF LastFits
<1>12. CASE ~Pkt(s).end
  <2>1. pstSg'[r] = sg /\ stHead'[r] = kept
    BY <1>0, <1>4, <1>12 DEF Queued, ShapeInv
  <2>2. Chained(pstSg'[r]) /\ LastFits(r)' /\ \A i \in 1 .. Len(stHead'[r]) : Chained(stHead'[r][i])
    BY <1>1, <1>3, <1>5, <1>7, <1>8, <1>9, <1>10, <2>1 DEF LastFits
  <2> QED
    BY <1>2, <1>11, <2>2 DEF ChainInv
<1>13. CASE Pkt(s).end
  <2>1. stHead'[r] = Append(kept, sg) /\ pstSg'[r] = << >>
    BY <1>0, <1>4, <1>13 DEF Queued, ShapeInv
  <2>2. /\ Len(Append(kept, sg)) = Len(kept) + 1 /\ Append(kept, sg)[Len(kept) + 1] = sg
        /\ \A i \in 1 .. Len(kept) : Append(kept, sg)[i] = kept[i]
    BY AppendProperties
  <2>3. \A i \in 1 .. Len(kept) + 1 : i \in 1 .. Len(kept) \/ i = Len(kept) + 1
    BY LenTypes
  <2>4. Chained(pstSg'[r]) /\ LastFits(r)' /\ \A i \in 1 .. Len(stHead'[r]) : Chained(stHead'[r][i])
    BY <1>9, <1>10, <2>1, <2>2, <2>3, NoList DEF LastFits
  <2> QED
    BY <1>2, <1>11, <2>4 DEF ChainInv
<1> QED
  BY <1>12, <1>13

LEMMA OneSender ==
  ASSUME BaseInv, Steady, NEW sg, From(sg, chans), sg \in Seq(Pkts)
  PROVE  From(sg, {Sender})
<1> SUFFICES ASSUME NEW i \in 1 .. Len(sg) PROVE sg[i].snd = Sender
  BY DEF From
<1>1. sg[i] \in Pkts /\ sg[i].snd \in chans
  BY DEF From
<1>2. sg[i].snd \in Snd
  BY <1>1 DEF Pkts
<1> QED
  BY <1>1, <1>2, SenderIs

LEMMA ChainGet ==
  ASSUME BaseInv, ChainInv, Whole, NEW r \in Rx, GetData(r), stHead[r] # << >>
  PROVE  ChainInv'
<1>0. ShapeInv /\ Steady
  BY DEF BaseInv, Whole
<1>1. PICK sg \in Seq(Pkts), q \in Seq(Seq(Pkts)) :
        /\ 1 \in 1 .. Len(stHead[r]) /\ sg = stHead[r][1] /\ stHead' = [stHead EXCEPT ![r] = q]
        /\ Len(q) = Len(stHead[r]) - 1 /\ \A i \in 1 .. Len(q) : q[i] = stHead[r][i + 1]
        /\ \/ Result(sg).res = "frame" /\ got' = [got EXCEPT ![r] = Result(sg).out]
           \/ got' = got
        /\ pstSg' = pstSg /\ snd' = snd
  BY <1>0, GetShape
<1>2. setting' = setting
  BY DEF GetData
<1>3. Sender' = Sender
  BY <1>2, SenderStays
<1>4. Chained(sg) /\ From(sg, {Sender})
  BY <1>0, <1>1, OneSender DEF ChainInv, BaseInv, BusyInv
<1>5. \A i \in 1 .. Len(q) : i + 1 \in 1 .. Len(stHead[r])
  <2>1. Len(stHead[r]) \in Nat
    BY <1>0, LenTypes DEF ShapeInv
  <2> QED
    BY <1>1, <2>1
<1>6. \A x \in Rx : \A i \in 1 .. Len(stHead'[x]) : Chained(stHead'[x][i])
  BY <1>0, <1>1, <1>5 DEF ShapeInv, ChainInv
<1>7. \A x \in Rx : WholeFrame(got'[x])
  <2>1. CASE got' = got
    BY <2>1 DEF ChainInv
  <2>2. CASE Result(sg).res = "frame" /\ got' = [got EXCEPT ![r] = Result(sg).out]
    BY <1>0, <1>4, <2>2, ResultIsWhole DEF ChainInv, ShapeInv
  <2> QED
    BY <1>1, <2>1, <2>2
<1>8. \A x \in Rx : Chained(pstSg'[x]) /\ LastFits(x)'
  BY <1>1, <1>3 DEF ChainInv, LastFits, Handled
<1> QED
  BY <1>6, <1>7, <1>8 DEF ChainInv

LEMMA ChainStep == BaseInv /\ ConnInv /\ ChainInv /\ [Next]_vars => ChainInv'
<1> SUFFICES ASSUME BaseInv, ConnInv, ChainInv, [Next]_vars PROVE ChainInv'
  OBVIOUS
<1>1. setting' = setting
  BY NextCases
<1>2. Whole' = Whole /\ Sender' = Sender
  BY <1>1, SenderStays
<1> SUFFICES ASSUME Whole PROVE ChainInv'
  BY <1>2 DEF ChainInv
<1>3. ASSUME NEW s \in Snd, Putting(s) PROVE ChainInv'
  <2>1. UNCHANGED << pstSg, stHead, got >>
    BY <1>3, PuttingCases DEF BaseInv
  <2>2. \A r \in Rx : LastFits(r)'
    BY <1>3, ChainPutting
  <2> QED
    BY <2>1, <2>2 DEF ChainInv
<1>4. ASSUME NEW s \in Snd, NEW r \in Rx, QueueBufSg(s, r) PROVE ChainInv'
  BY <1>4, ChainQueue
<1>5. ASSUME NEW r \in Rx, GetData(r), stHead[r] # << >> PROVE ChainInv'
  BY <1>5, ChainGet
<1>6. CASE Quiet
  BY <1>2, <1>6 DEF Quiet, ChainInv, LastFits, Handled
<1> QED
  BY <1>3, <1>4, <1>5, <1>6, NextCases

LEMMA InvHolds == Spec => [](BaseInv /\ ConnInv /\ ChainInv)
<1>1. Init => BaseInv /\ ConnInv /\ ChainInv
  BY BaseInit, ConnInit, ChainInit
<1>2. BaseInv /\ ConnInv /\ ChainInv /\ [Next]_vars => (BaseInv /\ ConnInv /\ ChainInv)'
  BY BaseStep, ConnStep, ChainStep
<1> QED
  BY <1>1, <1>2, PTL DEF Spec

(* What GET_DATA hands out is a run of packets from a first one to the     *)
(* only last one; with one sender whose receivers stay connected, and when *)
(* no header is lost, it is one frame, however puts fail half-way, lists   *)
(* cannot be had and queues overflow (vk_chan.c:199-262, fdd.c:241-300).   *)
THEOREM FramesAreWhole == Spec => []GotWholeFrames
<1>1. BaseInv /\ ConnInv /\ ChainInv => GotWholeFrames
  BY DEF BaseInv, GotInv, ChainInv, Whole, GotWholeFrames
<1> QED
  BY <1>1, InvHolds, PTL

-----------------------------------------------------------------------------
(* The order of frames.  The frames of a list are up to n; all of one list *)
(* come before all of another.                                             *)
Upto(sg, n) == \A i \in 1 .. Len(sg) : sg[i].frame <= n
Before(a, b) == \A i \in 1 .. Len(a) : \A j \in 1 .. Len(b) : a[i].frame < b[j].frame

(* What was got, the queue q and the list p being gathered are in order,   *)
(* with frames up to n, and up to d where their last packet is known.      *)
Ordered(q, g, p, n, d) ==
  /\ Upto(p, n) /\ Upto(g, d) /\ Before(g, p)
  /\ \A i \in 1 .. Len(q) : Upto(q[i], d) /\ Before(g, q[i]) /\ Before(q[i], p)
  /\ \A i \in 1 .. Len(q) : \A k \in 1 .. Len(q) : i < k => Before(q[i], q[k])

(* The last frame that r may have had whole.                               *)
Done(r) == IF Open(Sender, r) THEN snd[Sender].n - 1 ELSE snd[Sender].n

OrderInv ==
  Steady => \A r \in Rx : Ordered(stHead[r], got[r], pstSg[r], snd[Sender].n, Done(r))

LEMMA FrameTypes ==
  ASSUME NEW sg \in Seq(Pkts)
  PROVE  \A i \in 1 .. Len(sg) : sg[i].frame \in Nat
<1>1. \A i \in 1 .. Len(sg) : sg[i] \in Pkts
  BY LenTypes
<1>2. \A p \in Pkts : p.frame \in Nat
  BY DEF Pkts
<1> QED
  BY <1>1, <1>2

LEMMA OrderedLater ==
  ASSUME NEW q \in Seq(Seq(Pkts)), NEW g \in Seq(Pkts), NEW p \in Seq(Pkts),
         NEW n \in Int, NEW d \in Int, NEW n1 \in Int, NEW d1 \in Int,
         n <= n1, d <= d1, Ordered(q, g, p, n, d)
  PROVE  Ordered(q, g, p, n1, d1)
<1>1. ASSUME NEW sg \in Seq(Pkts), NEW m \in Int, NEW m1 \in Int, m <= m1, Upto(sg, m) PROVE Upto(sg, m1)
  <2>1. \A i \in 1 .. Len(sg) : sg[i].frame \in Nat
    BY FrameTypes
  <2> QED
    BY <1>1, <2>1 DEF Upto
<1>2. \A i \in 1 .. Len(q) : q[i] \in Seq(Pkts)
  BY LenTypes
<1> QED
  BY <1>1, <1>2 DEF Ordered

LEMMA OrderedCut ==
  ASSUME NEW q \in Seq(Seq(Pkts)), NEW g, NEW p, NEW n, NEW d, Ordered(q, g, p, n, d),
         NEW c \in Seq(Seq(Pkts)), NEW k \in 0 .. Len(q),
         Len(c) = Len(q) - k, \A i \in 1 .. Len(c) : c[i] = q[i + k]
  PROVE  Ordered(c, g, p, n, d)
<1>1. Len(q) \in Nat /\ Len(c) \in Nat
  BY LenTypes
<1>2. \A i \in 1 .. Len(c) : i + k \in 1 .. Len(q)
  BY <1>1
<1>3. \A i, j \in 1 .. Len(c) : i < j => i + k < j + k
  BY <1>1
<1> QED
  BY <1>2, <1>3 DEF Ordered

(* The reader gets a part of the first list.                               *)
LEMMA OrderedGet ==
  ASSUME NEW q \in Seq(Seq(Pkts)), NEW g, NEW p, NEW n, NEW d, Ordered(q, g, p, n, d),
         1 \in 1 .. Len(q), NEW c \in Seq(Seq(Pkts)),
         Len(c) = Len(q) - 1, \A i \in 1 .. Len(c) : c[i] = q[i + 1],
         NEW out, \A i \in 1 .. Len(out) : \E j \in 1 .. Len(q[1]) : out[i] = q[1][j]
  PROVE  Ordered(c, out, p, n, d)
<1>1. Len(q) \in Nat /\ Len(c) \in Nat
  BY LenTypes
<1>2. Ordered(c, g, p, n, d)
  <2>1. 1 \in 0 .. Len(q)
    BY <1>1
  <2> QED
    BY <2>1, OrderedCut
<1>3. Upto(out, d) /\ Before(out, p)
  BY DEF Ordered, Upto, Before
<1>4. ASSUME NEW i \in 1 .. Len(c) PROVE Before(out, c[i])
  <2>1. i + 1 \in 1 .. Len(q) /\ 1 < i + 1 /\ c[i] = q[i + 1]
    BY <1>1
  <2>2. Before(q[1], q[i + 1])
    BY <2>1 DEF Ordered
  <2> QED
    BY <2>1, <2>2 DEF Before
<1> QED
  BY <1>2, <1>3, <1>4 DEF Ordered

(* A packet of frame n is gathered.                                        *)
LEMMA OrderedGather ==
  ASSUME NEW q \in Seq(Seq(Pkts)), NEW g \in Seq(Pkts), NEW p \in Seq(Pkts), NEW n \in Int,
         Ordered(q, g, p, n, n - 1), NEW old \in Seq(Pkts), old = << >> \/ old = p,
         NEW x \in Pkts, x.frame = n
  PROVE  Ordered(q, g, Append(old, x), n, n - 1)
<1>1. PICK sg : sg = Append(old, x)
  OBVIOUS
<1>2. ASSUME NEW i \in 1 .. Len(sg) PROVE sg[i] = x \/ \E j \in 1 .. Len(p) : sg[i] = p[j]
  <2>1. Len(sg) = Len(old) + 1 /\ sg[Len(old) + 1] = x /\ \A k \in 1 .. Len(old) : sg[k] = old[k]
    BY <1>1, AppendProperties
  <2>2. i = Len(old) + 1 \/ i \in 1 .. Len(old)
    BY <2>1, LenTypes
  <2>3. CASE i \in 1 .. Len(old)
    <3>1. old = p
      BY <2>3, EmptySeq
    <3> QED
      BY <2>1, <2>3, <3>1
  <2> QED
    BY <2>1, <2>2, <2>3
<1>3. Upto(sg, n)
  <2>1. Upto(p, n)
    BY DEF Ordered
  <2> QED
    <3>1. x.frame <= n
      OBVIOUS
    <3>2. \A i \in 1 .. Len(sg) : sg[i].frame <= n
      <4> SUFFICES ASSUME NEW i \in 1 .. Len(sg) PROVE sg[i].frame <= n
        OBVIOUS
      <4>1. CASE sg[i] = x
        BY <3>1, <4>1
      <4>2. CASE \E j \in 1 .. Len(p) : sg[i] = p[j]
        BY <2>1, <4>2 DEF Upto
      <4> QED
        BY <1>2, <4>1, <4>2
    <3> QED
      BY <3>2 DEF Upto
<1>4. ASSUME NEW a \in Seq(Pkts), Upto(a, n - 1), Before(a, p) PROVE Before(a, sg)
  <2>1. \A i \in 1 .. Len(a) : a[i].frame \in Nat
    BY FrameTypes
  <2>2. \A i \in 1 .. Len(a) : a[i].frame < x.frame
    BY <1>4, <2>1 DEF Upto
  <2> QED
    BY <1>2, <1>4, <2>2 DEF Before
<1>5. \A i \in 1 .. Len(q) : q[i] \in Seq(Pkts)
  BY LenTypes
<1>6. Before(g, sg) /\ \A i \in 1 .. Len(q) : Before(q[i], sg)
  BY <1>4, <1>5 DEF Ordered
<1> QED
  BY <1>1, <1>3, <1>6 DEF Ordered

(* The list is complete and queued.                                        *)
LEMMA OrderedClose ==
  ASSUME NEW q \in Seq(Seq(Pkts)), NEW g \in Seq(Pkts), NEW p \in Seq(Pkts), NEW n \in Int,
         Ordered(q, g, p, n, n - 1)
  PROVE  Ordered(Append(q, p), g, << >>, n, n)
<1>1. PICK c \in Seq(Seq(Pkts)) : c = Append(q, p)
  BY AppendProperties
<1>2. Len(c) = Len(q) + 1 /\ c[Len(q) + 1] = p /\ (\A k \in 1 .. Len(q) : c[k] = q[k]) /\ Len(q) \in Nat
  BY <1>1, AppendProperties, LenTypes
<1>3. Ordered(q, g, p, n, n)
  BY OrderedLater
<1>4. \A sg : Upto(<< >>, n) /\ Before(sg, << >>)
  BY EmptySeq DEF Upto, Before
<1>5. \A i \in 1 .. Len(c) : i \in 1 .. Len(q) \/ i = Len(q) + 1
  BY <1>2
<1>6. \A i \in 1 .. Len(c) : Upto(c[i], n) /\ Before(g, c[i])
  BY <1>2, <1>3, <1>5 DEF Ordered
<1>7. ASSUME NEW i \in 1 .. Len(c), NEW k \in 1 .. Len(c), i < k PROVE Before(c[i], c[k])
  <2>1. i \in 1 .. Len(q)
    BY <1>2, <1>7
  <2>2. CASE k \in 1 .. Len(q)
    BY <1>2, <1>3, <1>7, <2>1, <2>2 DEF Ordered
  <2>3. CASE k = Len(q) + 1
    BY <1>2, <1>3, <2>1, <2>3 DEF Ordered
  <2> QED
    BY <1>5, <2>2, <2>3
<1>8. Upto(g, n)
  BY <1>3 DEF Ordered
<1> QED
  BY <1>1, <1>4, <1>6, <1>7, <1>8 DEF Ordered

LEMMA OrderInit == Init => OrderInv
<1> SUFFICES ASSUME Init, Steady, NEW r \in Rx
             PROVE  Ordered(stHead[r], got[r], pstSg[r], snd[Sender].n, Done(r))
  BY DEF OrderInv
<1>1. pstSg[r] = << >> /\ stHead[r] = << >> /\ got[r] = << >>
  BY DEF Init
<1>2. Len(<< >>) = 0
  BY EmptySeq
<1> QED
  BY <1>1, <1>2 DEF Ordered, Upto, Before

LEMMA NumberTypes ==
  ASSUME BaseInv, Steady, NEW r \in Rx
  PROVE  /\ snd[Sender].n \in Nat /\ Done(r) \in Int
         /\ pstSg[r] \in Seq(Pkts) /\ got[r] \in Seq(Pkts) /\ stHead[r] \in Seq(Seq(Pkts))
<1>1. snd[Sender].n \in Nat
  BY SenderIs DEF BaseInv, ShapeInv, SndType
<1> QED
  BY <1>1 DEF BaseInv, ShapeInv, Done

(* What was complete stays complete.                                       *)
LEMMA DoneGrows ==
  ASSUME BaseInv, ConnInv, Steady, NEW s \in Snd, Putting(s), NEW r \in Rx, r \in chans,
         Sender' = Sender
  PROVE  s = Sender /\ snd[s].n <= snd'[s].n /\ Done(r) <= Done(r)' /\ Done(r)' \in Int /\ snd'[s].n \in Int
<1>0. ShapeInv /\ "reconnect" \notin faults /\ snd' \in [Snd -> SndType]
  BY PuttingCases DEF BaseInv, Steady
<1>1. s = Sender
  <2>1. s \in chans
    BY <1>0, PuttingCases DEF BaseInv, BusyInv
  <2> QED
    BY <2>1, SenderIs
<1>2. snd[s].n \in Nat /\ snd'[s].n \in Nat
  BY <1>0 DEF ShapeInv, SndType
<1>3. Done(r) = (IF Open(s, r) THEN snd[s].n - 1 ELSE snd[s].n)
  BY <1>1 DEF Done
<1>4. Done(r)' = (IF Open(s, r)' THEN snd'[s].n - 1 ELSE snd'[s].n)
  BY <1>1 DEF Done
<1>5. CASE Begins(s, r)
  <2>1. ~Open(s, r)
    BY <1>5 DEF Open, Begins
  <2> QED
    BY <1>1, <1>2, <1>3, <1>4, <1>5, <2>1 DEF Begins
<1>6. CASE Ends(s, r)
  <2>1. ~Open(s, r)'
    BY <1>6 DEF Open, Ends
  <2> QED
    BY <1>1, <1>2, <1>3, <1>4, <1>6, <2>1 DEF Ends
<1>7. CASE NextPkt(s, r)
  <2>1. Open(s, r)
    BY <1>7 DEF Open, NextPkt, Handled
  <2> QED
    BY <1>1, <1>2, <1>3, <1>4, <1>7, <2>1 DEF NextPkt
<1>8. CASE Stays(s, r)
  <2>1. Open(s, r)' => Open(s, r)
    BY <1>8 DEF Open, Stays, BitEnd
  <2> QED
    BY <1>1, <1>2, <1>3, <1>4, <1>8, <2>1 DEF Stays
<1> QED
  BY <1>0, <1>5, <1>6, <1>7, <1>8, Phases

LEMMA NoneOrdered ==
  ASSUME NEW n, NEW d
  PROVE  Ordered(<< >>, << >>, << >>, n, d)
  BY EmptySeq DEF Ordered, Upto, Before

LEMMA OrderPutting ==
  ASSUME BaseInv, ConnInv, OrderInv, Steady, NEW s \in Snd, Putting(s), NEW r \in Rx
  PROVE  Ordered(stHead[r], got[r], pstSg[r], snd[Sender].n, Done(r))'
<1>1. UNCHANGED << setting, pstSg, stHead, got >> /\ "reconnect" \notin faults
  BY PuttingCases DEF BaseInv, Steady
<1>2. Sender' = Sender
  BY <1>1, SenderStays
<1>3. CASE r \notin chans
  BY <1>1, <1>3, NoneOrdered DEF ConnInv
<1>4. CASE r \in chans
  <2>1. s = Sender /\ snd[s].n <= snd'[s].n /\ Done(r) <= Done(r)' /\ Done(r)' \in Int /\ snd'[s].n \in Int
    BY <1>2, <1>4, DoneGrows
  <2>2. Ordered(stHead[r], got[r], pstSg[r], snd[s].n, Done(r))
    BY <2>1 DEF OrderInv
  <2>3. /\ snd[s].n \in Int /\ Done(r) \in Int
        /\ pstSg[r] \in Seq(Pkts) /\ got[r] \in Seq(Pkts) /\ stHead[r] \in Seq(Seq(Pkts))
    BY <2>1, NumberTypes
  <2>4. PICK n1 \in Int, d1 \in Int : n1 = snd'[s].n /\ d1 = Done(r)'
    BY <2>1
  <2>5. Ordered(stHead[r], got[r], pstSg[r], n1, d1)
    BY <2>1, <2>2, <2>3, <2>4, OrderedLater
  <2> QED
    BY <1>1, <1>2, <2>1, <2>4, <2>5
<1> QED
  BY <1>3, <1>4

LEMMA OrderQueue ==
  ASSUME BaseInv, ConnInv, OrderInv, Steady, NEW s \in Snd, NEW r \in Rx, QueueBufSg(s, r), NEW x \in Rx
  PROVE  Ordered(stHead[x], got[x], pstSg[x], snd[Sender].n, Done(x))'
<1>0. ShapeInv
  BY DEF BaseInv
<1>1. s = Sender
  <2>1. s \in chans
    BY <1>0, QueueSender DEF BaseInv, BusyInv
  <2> QED
    BY <2>1, SenderIs
<1>2. /\ UNCHANGED << setting, got >> /\ snd'[s].n = snd[s].n
      /\ snd[s].pc = "fwd" /\ snd'[s].pc = "signal"
  BY <1>0, QueueSender
<1>3. Sender' = Sender
  BY <1>2, SenderStays
<1>4. PICK n \in Int : n = snd[s].n
  BY <1>1, NumberTypes
<1>5. /\ pstSg[x] \in Seq(Pkts) /\ got[x] \in Seq(Pkts) /\ stHead[x] \in Seq(Seq(Pkts))
      /\ Done(x) \in Int
  BY NumberTypes
<1>6. Ordered(stHead[x], got[x], pstSg[x], n, Done(x))
  BY <1>1, <1>4 DEF OrderInv
<1>7. PICK k \in 0 .. Len(stHead[r]), old \in Old(r), kept \in Seq(Seq(Pkts)), sg \in Seq(Pkts) :
        Queued(s, r, k, old, kept, sg)
  BY <1>0, QueueShape
<1>8. Pkt(s) \in Pkts /\ Pkt(s).frame = n /\ Pkt(s).end = BitEnd(snd[s])
  BY <1>0, <1>4, QueueShape DEF Pkt
<1>9. /\ ~Handled(s, r) /\ Handled(s, r)' /\ Open(s, r) /\ BitEnd(snd'[s]) = BitEnd(snd[s])
      /\ \A y \in Rx \ {r} : Open(s, y)' => Open(s, y)
  BY QueuePhases
<1>10. CASE x # r
  <2>1. pstSg'[x] = pstSg[x] /\ stHead'[x] = stHead[x]
    BY <1>0, <1>7, <1>10 DEF Queued, ShapeInv
  <2>2. PICK d1 \in Int : d1 = Done(x)' /\ Done(x) <= d1
    <3>1. Done(x) = (IF Open(s, x) THEN n - 1 ELSE n)
      BY <1>1, <1>4 DEF Done
    <3>2. Done(x)' = (IF Open(s, x)' THEN n - 1 ELSE n)
      BY <1>1, <1>2, <1>3, <1>4 DEF Done
    <3>3. Done(x) <= Done(x)' /\ Done(x)' \in Int
      BY <1>9, <1>10, <3>1, <3>2
    <3> QED
      BY <3>3
  <2>3. Ordered(stHead[x], got[x], pstSg[x], n, d1)
    BY <1>5, <1>6, <2>2, OrderedLater
  <2> QED
    BY <1>1, <1>2, <1>3, <1>4, <2>1, <2>2, <2>3
<1>11. CASE x = r
  <2>1. Done(x) = n - 1
    BY <1>1, <1>4, <1>9, <1>11 DEF Done
  <2>2. Done(x)' = (IF Open(s, r)' THEN n - 1 ELSE n)
    BY <1>1, <1>2, <1>3, <1>4, <1>11 DEF Done
  <2>3. Ordered(kept, got[r], pstSg[r], n, n - 1)
    <3>1. Ordered(stHead[r], got[r], pstSg[r], n, n - 1) /\ stHead[r] \in Seq(Seq(Pkts))
      BY <1>5, <1>6, <1>11, <2>1
    <3>2. Len(kept) = Len(stHead[r]) - k /\ \A i \in 1 .. Len(kept) : kept[i] = stHead[r][i + k]
      BY <1>7 DEF Queued
    <3> QED
      BY ONLY <3>1, <3>2, kept \in Seq(Seq(Pkts)), k \in 0 .. Len(stHead[r]), OrderedCut
  <2>4. Ordered(kept, got[r], sg, n, n - 1)
    <3>1. sg = Append(old, Pkt(s)) /\ old \in Seq(Pkts) /\ (old = << >> \/ old = pstSg[r])
      BY <1>7 DEF Queued, Old
    <3> QED
      BY <1>5, <1>8, <1>11, <2>3, <3>1, OrderedGather
  <2>5. CASE ~Pkt(s).end
    <3>1. pstSg'[r] = sg /\ stHead'[r] = kept
      BY <1>0, <1>7, <2>5 DEF Queued, ShapeInv
    <3>2. Open(s, r)'
      BY <1>2, <1>8, <1>9, <2>5 DEF Open
    <3>3. Done(x)' = n - 1
      BY <2>2, <3>2
    <3> QED
      BY <1>1, <1>2, <1>3, <1>4, <1>11, <2>4, <3>1, <3>3
  <2>6. CASE Pkt(s).end
    <3>1. pstSg'[r] = << >> /\ stHead'[r] = Append(kept, sg)
      BY <1>0, <1>7, <2>6 DEF Queued, ShapeInv
    <3>2. ~Open(s, r)'
      BY <1>8, <1>9, <2>6 DEF Open
    <3>3. Done(x)' = n
      BY <2>2, <3>2
    <3>4. Ordered(Append(kept, sg), got[r], << >>, n, n)
      BY <1>5, <1>11, <2>4, OrderedClose
    <3> QED
      BY <1>1, <1>2, <1>3, <1>4, <1>11, <3>1, <3>3, <3>4
  <2> QED
    BY <2>5, <2>6
<1> QED
  BY <1>10, <1>11

(* The frame that a reader gets comes from the first list.                 *)
GotFrom(sg, out) ==
  /\ out # << >> /\ 1 \in 1 .. Len(out)
  /\ \A i \in 1 .. Len(out) : \E j \in 1 .. Len(sg) : out[i] = sg[j]

LEMMA ResultFromList ==
  ASSUME NEW sg \in Seq(Pkts), Result(sg).res = "frame"
  PROVE  GotFrom(sg, Result(sg).out)
<1>1. PICK i \in 1 .. Len(sg) : \E j \in 1 .. i : Result(sg).out = SubSeq(sg, j, i)
  BY ResultIsRun
<1>2. PICK j \in 1 .. i : Result(sg).out = SubSeq(sg, j, i)
  BY <1>1
<1>3. PICK out : out = SubSeq(sg, j, i)
  OBVIOUS
<1>4. Len(out) = i - j + 1 /\ \A k \in 1 .. i - j + 1 : out[k] = sg[j + k - 1]
  BY <1>3, PartOf
<1>5. \A k \in 1 .. Len(out) : j + k - 1 \in 1 .. Len(sg) /\ out[k] = sg[j + k - 1]
  BY <1>4
<1>6. 1 \in 1 .. Len(out) /\ out # << >>
  BY <1>4, EmptySeq
<1> QED
  BY <1>2, <1>3, <1>5, <1>6 DEF GotFrom

LEMMA OrderGet ==
  ASSUME BaseInv, OrderInv, Steady, NEW r \in Rx, GetData(r), stHead[r] # << >>, NEW x \in Rx
  PROVE  Ordered(stHead[x], got[x], pstSg[x], snd[Sender].n, Done(x))'
<1>0. ShapeInv
  BY DEF BaseInv
<1>1. PICK sg \in Seq(Pkts), q \in Seq(Seq(Pkts)) :
        /\ 1 \in 1 .. Len(stHead[r]) /\ sg = stHead[r][1] /\ stHead' = [stHead EXCEPT ![r] = q]
        /\ Len(q) = Len(stHead[r]) - 1 /\ \A i \in 1 .. Len(q) : q[i] = stHead[r][i + 1]
        /\ \/ Result(sg).res = "frame" /\ got' = [got EXCEPT ![r] = Result(sg).out]
           \/ got' = got
        /\ pstSg' = pstSg /\ snd' = snd
  BY <1>0, GetShape
<1>2. Sender' = Sender
  BY SenderStays DEF GetData
<1>3. Done(x)' = Done(x)
  BY <1>1, <1>2 DEF Done, Open, Handled, BitEnd
<1>4. PICK n \in Int, d \in Int : n = snd[Sender].n /\ d = Done(x)
  <2>1. snd[Sender].n \in Int /\ Done(x) \in Int
    BY NumberTypes
  <2> QED
    BY <2>1
<1>5. Ordered(stHead[x], got[x], pstSg[x], n, d) /\ stHead[x] \in Seq(Seq(Pkts))
  BY <1>4, NumberTypes DEF OrderInv
<1>6. CASE x # r
  BY <1>0, <1>1, <1>2, <1>3, <1>4, <1>5, <1>6 DEF ShapeInv
<1>7. CASE x = r
  <2>1. stHead'[r] = q /\ pstSg'[r] = pstSg[r]
    BY <1>0, <1>1 DEF ShapeInv
  <2>2. CASE got' = got
    <3>1. Len(stHead[r]) \in Nat /\ 1 \in 0 .. Len(stHead[r])
      BY <1>1, <1>5, <1>7, LenTypes
    <3>2. Ordered(q, got[r], pstSg[r], n, d)
      BY <1>1, <1>5, <1>7, <3>1, OrderedCut
    <3> QED
      BY <1>1, <1>2, <1>3, <1>4, <1>7, <2>1, <2>2, <3>2
  <2>3. CASE Result(sg).res = "frame" /\ got' = [got EXCEPT ![r] = Result(sg).out]
    <3>1. PICK out : out = Result(sg).out
      OBVIOUS
    <3>2. GotFrom(sg, out)
      BY <2>3, <3>1, ResultFromList
    <3>3. Ordered(q, out, pstSg[r], n, d)
      <4>1. /\ 1 \in 1 .. Len(stHead[r]) /\ Len(q) = Len(stHead[r]) - 1 /\ q \in Seq(Seq(Pkts))
            /\ \A i \in 1 .. Len(q) : q[i] = stHead[r][i + 1]
        BY <1>1
      <4>2. Ordered(stHead[r], got[r], pstSg[r], n, d) /\ stHead[r] \in Seq(Seq(Pkts))
        BY <1>5, <1>7
      <4>3. \A i \in 1 .. Len(out) : \E j \in 1 .. Len(stHead[r][1]) : out[i] = stHead[r][1][j]
        BY <1>1, <3>2 DEF GotFrom
      <4> QED
        BY ONLY <4>1, <4>2, <4>3, OrderedGet
    <3>4. got'[r] = out
      BY <1>0, <2>3, <3>1 DEF ShapeInv
    <3> QED
      BY <1>1, <1>2, <1>3, <1>4, <1>7, <2>1, <3>3, <3>4
  <2> QED
    BY <1>1, <2>2, <2>3
<1> QED
  BY <1>6, <1>7

LEMMA OrderStep == BaseInv /\ ConnInv /\ OrderInv /\ [Next]_vars => OrderInv'
<1> SUFFICES ASSUME BaseInv, ConnInv, OrderInv, [Next]_vars PROVE OrderInv'
  OBVIOUS
<1>1. setting' = setting
  BY NextCases
<1>2. Steady' = Steady /\ Sender' = Sender
  BY <1>1, SenderStays
<1> SUFFICES ASSUME Steady, NEW x \in Rx
             PROVE  Ordered(stHead[x], got[x], pstSg[x], snd[Sender].n, Done(x))'
  BY <1>2 DEF OrderInv
<1>3. CASE Quiet
  <2>1. Done(x)' = Done(x)
    BY <1>2, <1>3 DEF Quiet, Done, Open, Handled, BitEnd
  <2>2. snd' = snd /\ pstSg' = pstSg /\ stHead' = stHead /\ got' = got
    BY <1>3 DEF Quiet
  <2>3. Ordered(stHead[x], got[x], pstSg[x], snd[Sender].n, Done(x))
    BY DEF OrderInv
  <2> QED
    BY <1>2, <2>1, <2>2, <2>3
<1> QED
  BY <1>3, NextCases, OrderPutting, OrderQueue, OrderGet

-----------------------------------------------------------------------------
(* FrameStream: the frames a reader gets, in the order they were put.      *)
PutNo  == IF Steady THEN snd[Sender].n ELSE 0
LastNo == [r \in Rx |-> IF Steady /\ got[r] # << >> THEN got[r][1].frame ELSE 0]

LEMMA StreamPut ==
  ASSUME BaseInv, NEW s \in Snd, Putting(s)
  PROVE  LastNo' = LastNo /\ (PutNo' = PutNo + 1 \/ PutNo' = PutNo)
<1>0. ShapeInv
  BY DEF BaseInv
<1>1. UNCHANGED << setting, got >> /\ s \in chans
  BY <1>0, PuttingCases DEF BaseInv, BusyInv
<1>2. Sender' = Sender /\ Steady' = Steady
  BY <1>1, SenderStays
<1>3. Steady => s = Sender
  BY <1>1, SenderIs
<1>4. snd'[s].n = snd[s].n + 1 \/ snd'[s].n = snd[s].n
  BY <1>0, PutNumbers
<1> QED
  BY <1>1, <1>2, <1>3, <1>4 DEF PutNo, LastNo

LEMMA StreamGet ==
  ASSUME BaseInv, OrderInv, NEW r \in Rx, GetData(r), stHead[r] # << >>
  PROVE  /\ PutNo' = PutNo
         /\ \/ LastNo' = LastNo
            \/ \E n \in LastNo[r] + 1 .. PutNo : LastNo' = [LastNo EXCEPT ![r] = n]
<1>0. ShapeInv
  BY DEF BaseInv
<1>1. PICK sg \in Seq(Pkts), q \in Seq(Seq(Pkts)) :
        /\ 1 \in 1 .. Len(stHead[r]) /\ sg = stHead[r][1]
        /\ \/ Result(sg).res = "frame" /\ got' = [got EXCEPT ![r] = Result(sg).out]
           \/ got' = got
        /\ snd' = snd
  BY <1>0, GetShape
<1>2. Sender' = Sender /\ Steady' = Steady
  BY SenderStays DEF GetData
<1>3. PutNo' = PutNo
  BY <1>1, <1>2 DEF PutNo
<1>4. CASE got' = got \/ ~Steady
  BY <1>2, <1>3, <1>4 DEF LastNo
<1>5. CASE Steady /\ Result(sg).res = "frame" /\ got' = [got EXCEPT ![r] = Result(sg).out]
  <2>1. PICK out : out = Result(sg).out
    OBVIOUS
  <2>2. GotFrom(sg, out)
    BY <1>5, <2>1, ResultFromList
  <2>3. PICK j \in 1 .. Len(sg) : out[1] = sg[j]
    BY <2>2 DEF GotFrom
  <2>4. From(sg, chans)
    BY <1>1 DEF BaseInv, BusyInv
  <2>5. sg[j].frame \in Nat /\ sg[j].frame # 0
    BY <2>4, FrameTypes DEF From
  <2>6. Upto(sg, Done(r)) /\ Before(got[r], sg)
    BY <1>1, <1>5 DEF OrderInv, Ordered
  <2>7. sg[j].frame <= PutNo
    <3>1. snd[Sender].n \in Nat /\ Done(r) <= snd[Sender].n /\ Done(r) \in Int
      <4>1. snd[Sender].n \in Nat
        BY <1>5, NumberTypes
      <4> QED
        BY <4>1 DEF Done
    <3>2. sg[j].frame <= Done(r)
      BY <2>6 DEF Upto
    <3> QED
      BY <1>5, <2>5, <3>1, <3>2 DEF PutNo
  <2>8. LastNo[r] \in Nat /\ LastNo[r] < sg[j].frame
    <3>1. CASE got[r] = << >>
      BY <2>5, <3>1 DEF LastNo
    <3>2. CASE got[r] # << >>
      <4>1. got[r] \in Seq(Pkts)
        BY <1>0 DEF ShapeInv
      <4>2. 1 \in 1 .. Len(got[r])
        BY <3>2, <4>1, HeadTailProperties
      <4>3. got[r][1].frame < sg[j].frame /\ got[r][1].frame \in Nat
        BY <2>6, <4>1, <4>2, FrameTypes DEF Before
      <4> QED
        BY <1>5, <3>2, <4>3 DEF LastNo
    <3> QED
      BY <3>1, <3>2
  <2>9. PICK n \in Nat : n = sg[j].frame
    BY <2>5
  <2>10. n \in LastNo[r] + 1 .. PutNo
    <3>1. PutNo \in Int
      BY <1>5, NumberTypes DEF PutNo
    <3> QED
      BY <2>7, <2>8, <2>9, <3>1
  <2>11. LastNo' = [LastNo EXCEPT ![r] = n]
    <3>1. \A x \in Rx : got'[x] = IF x = r THEN out ELSE got[x]
      BY <1>0, <1>5, <2>1 DEF ShapeInv
    <3>2. LastNo' = [x \in Rx |-> IF got'[x] # << >> THEN got'[x][1].frame ELSE 0]
      BY <1>2, <1>5 DEF LastNo
    <3>3. LastNo = [x \in Rx |-> IF got[x] # << >> THEN got[x][1].frame ELSE 0]
      BY <1>5 DEF LastNo
    <3>4. out # << >> /\ out[1].frame = n
      BY <2>2, <2>3, <2>9 DEF GotFrom
    <3> QED
      BY <3>1, <3>2, <3>3, <3>4
  <2> QED
    BY <1>3, <2>10, <2>11
<1> QED
  BY <1>1, <1>4, <1>5

LEMMA StreamStep ==
  BaseInv /\ OrderInv /\ [Next]_vars => [Stream!Next]_<< PutNo, LastNo >>
<1> SUFFICES ASSUME BaseInv, OrderInv, [Next]_vars
             PROVE  Stream!Next \/ (PutNo' = PutNo /\ LastNo' = LastNo)
  OBVIOUS
<1>1. ASSUME NEW s \in Snd, Putting(s) PROVE Stream!Next \/ (PutNo' = PutNo /\ LastNo' = LastNo)
  <2>1. LastNo' = LastNo /\ (PutNo' = PutNo + 1 \/ PutNo' = PutNo)
    BY <1>1, StreamPut
  <2> QED
    BY <2>1 DEF Stream!Next, Stream!Put, PutNo, LastNo
<1>2. ASSUME NEW s \in Snd, NEW r \in Rx, QueueBufSg(s, r) PROVE PutNo' = PutNo /\ LastNo' = LastNo
  <2>1. UNCHANGED << setting, got >> /\ snd'[s].n = snd[s].n /\ \A u \in Snd \ {s} : snd'[u] = snd[u]
    BY <1>2, QueueSender DEF BaseInv
  <2>2. Sender' = Sender /\ Steady' = Steady /\ (Steady => Sender \in Snd)
    BY <2>1, SenderStays, SenderIs
  <2> QED
    BY <2>1, <2>2 DEF PutNo, LastNo
<1>3. ASSUME NEW r \in Rx, GetData(r), stHead[r] # << >>
      PROVE  Stream!Next \/ (PutNo' = PutNo /\ LastNo' = LastNo)
  <2>1. /\ PutNo' = PutNo
        /\ \/ LastNo' = LastNo
           \/ \E n \in LastNo[r] + 1 .. PutNo : LastNo' = [LastNo EXCEPT ![r] = n]
    BY <1>3, StreamGet
  <2> QED
    BY <2>1 DEF Stream!Next, Stream!Get, PutNo, LastNo
<1>4. CASE Quiet
  <2>1. setting' = setting /\ snd' = snd /\ got' = got
    BY <1>4, NextCases DEF Quiet
  <2> QED
    BY <2>1, SenderStays DEF PutNo, LastNo
<1> QED
  BY <1>1, <1>2, <1>3, <1>4, NextCases

LEMMA StreamInit == Init => Stream!Init
<1> SUFFICES ASSUME Init PROVE Stream!Init
  OBVIOUS
<1>1. PutNo = 0
  BY SenderIs DEF Init, PutNo, Idle
<1>2. LastNo = [r \in Rx |-> 0]
  BY DEF Init, LastNo
<1> QED
  BY <1>1, <1>2 DEF Stream!Init, PutNo, LastNo

(* With one sender that stays connected, the kernel channels implement     *)
(* FrameStream: a reader gets frames in the order they were put, and none  *)
(* twice, however puts fail and queues overflow, whatever is lost.         *)
THEOREM FramesInOrder == Spec => Streams
<1>1. Spec => [](BaseInv /\ OrderInv)
  <2>1. Init => BaseInv /\ ConnInv /\ OrderInv
    BY BaseInit, ConnInit, OrderInit
  <2>2. BaseInv /\ ConnInv /\ OrderInv /\ [Next]_vars => (BaseInv /\ ConnInv /\ OrderInv)'
    BY BaseStep, ConnStep, OrderStep
  <2> QED
    BY <2>1, <2>2, PTL DEF Spec
<1>2. BaseInv /\ OrderInv /\ [Next]_vars =>
        [Stream!Next]_<< IF Steady THEN snd[Sender].n ELSE 0,
                         [r \in Rx |-> IF Steady /\ got[r] # << >> THEN got[r][1].frame ELSE 0] >>
  BY StreamStep DEF PutNo, LastNo
<1> QED
  BY <1>1, <1>2, StreamInit, PTL DEF Spec, Streams, Stream!Spec

-----------------------------------------------------------------------------
(* The bytes of a list.                                                    *)

(* Each element of sg has a length.                                        *)
Weighed(sg) == Len(sg) \in Nat /\ \A i \in 1 .. Len(sg) : sg[i].len \in Nat

LEMMA PktsWeighed ==
  ASSUME NEW sg \in Seq(Pkts)
  PROVE  Weighed(sg)
<1>1. \A i \in 1 .. Len(sg) : sg[i] \in Pkts
  BY LenTypes
<1>2. \A p \in Pkts : p.len \in Nat
  BY DEF Pkts
<1> QED
  BY <1>1, <1>2, LenTypes DEF Weighed

(* f counts the bytes of the first i elements of sg, up to n.              *)
Sums(f, sg, n) ==
  /\ f \in [0 .. n -> Nat] /\ f[0] = 0
  /\ \A i \in 1 .. n : f[i] = f[i - 1] + sg[i].len

LEMMA SumsGrow ==
  ASSUME NEW sg, Weighed(sg), NEW n \in Nat, n + 1 \in 1 .. Len(sg), NEW f, Sums(f, sg, n)
  PROVE  \E g : Sums(g, sg, n + 1)
<1> DEFINE g == [i \in 0 .. n + 1 |-> IF i = n + 1 THEN f[n] + sg[n + 1].len ELSE f[i]]
<1>1. sg[n + 1].len \in Nat /\ f[n] \in Nat
  <2>1. n \in 0 .. n
    OBVIOUS
  <2> QED
    BY <2>1 DEF Weighed, Sums
<1>2. f[n] + sg[n + 1].len \in Nat
  BY <1>1
<1>3. g \in [0 .. n + 1 -> Nat]
  BY <1>2 DEF Sums
<1>4. g[0] = 0
  BY DEF Sums
<1>5. ASSUME NEW i \in 1 .. n + 1 PROVE g[i] = g[i - 1] + sg[i].len
  <2>1. i \in 0 .. n + 1 /\ i - 1 \in 0 .. n /\ i - 1 \in 0 .. n + 1 /\ i - 1 # n + 1
    OBVIOUS
  <2>2. g[i - 1] = f[i - 1]
    BY <2>1
  <2>3. CASE i = n + 1
    BY <2>2, <2>3
  <2>4. CASE i # n + 1
    <3>1. i \in 1 .. n /\ g[i] = f[i]
      BY <2>1, <2>4
    <3> QED
      BY <2>2, <3>1 DEF Sums
  <2> QED
    BY <2>3, <2>4
<1> HIDE DEF g
<1>6. Sums(g, sg, n + 1)
  BY <1>3, <1>4, <1>5 DEF Sums
<1> QED
  BY <1>6

LEMMA SumsExist ==
  ASSUME NEW sg, Weighed(sg)
  PROVE  \E f : Sums(f, sg, Len(sg))
<1> DEFINE Bad == {n \in 0 .. Len(sg) : ~ \E f : Sums(f, sg, n)}
<1>1. Len(sg) \in Nat /\ Bad \in SUBSET Nat
  BY DEF Weighed
<1>2. ASSUME Bad # {} PROVE FALSE
  <2>1. PICK n \in Bad : \A m \in Bad : n <= m
    <3> HIDE DEF Bad
    <3> QED
      BY <1>1, <1>2, LeastOf
  <2>2. n # 0
    <3> DEFINE zero == [i \in 0 .. 0 |-> 0]
    <3>1. zero \in [0 .. 0 -> Nat] /\ zero[0] = 0
      OBVIOUS
    <3> HIDE DEF zero
    <3>2. Sums(zero, sg, 0)
      BY <3>1 DEF Sums
    <3> QED
      BY <3>2
  <2>3. n - 1 \in 0 .. Len(sg) /\ ~(n <= n - 1) /\ n - 1 \in Nat /\ (n - 1) + 1 = n /\ n \in 1 .. Len(sg)
    BY <1>1, <2>2
  <2>4. PICK f : Sums(f, sg, n - 1)
    BY <2>1, <2>3
  <2>5. \E g : Sums(g, sg, n)
    <3>1. PICK m \in Nat : m = n - 1
      BY <2>3
    <3>2. Sums(f, sg, m) /\ m + 1 \in 1 .. Len(sg) /\ m + 1 = n
      BY <2>3, <2>4, <3>1
    <3> QED
      BY <3>2, SumsGrow
  <2> QED
    BY <2>5
<1> QED
  BY <1>1, <1>2

(* Two counts of lists that begin alike agree.                             *)
LEMMA SumsAgree ==
  ASSUME NEW sg, NEW hd, NEW f, NEW g, NEW n \in Nat, NEW m \in Nat, n <= m,
         Sums(f, sg, n), Sums(g, hd, m), \A i \in 1 .. n : hd[i] = sg[i]
  PROVE  \A i \in 0 .. n : f[i] = g[i]
<1> DEFINE Bad == {i \in 0 .. n : f[i] # g[i]}
<1> SUFFICES ASSUME Bad # {} PROVE FALSE
  OBVIOUS
<1>1. Bad \in SUBSET Nat
  OBVIOUS
<1>2. PICK i \in Bad : \A j \in Bad : i <= j
  <2> HIDE DEF Bad
  <2> QED
    BY <1>1, LeastOf
<1>3. i # 0
  BY DEF Sums
<1>4. i \in 1 .. n /\ i \in 1 .. m /\ i - 1 \in 0 .. n /\ ~(i <= i - 1)
  BY <1>3
<1>5. f[i - 1] = g[i - 1]
  BY <1>2, <1>4
<1>6. f[i] = f[i - 1] + sg[i].len /\ g[i] = g[i - 1] + hd[i].len /\ hd[i] = sg[i]
  BY <1>4 DEF Sums
<1> QED
  BY <1>2, <1>5, <1>6

LEMMA TotIsSum ==
  ASSUME NEW sg \in Seq(Pkts)
  PROVE  \E f : Sums(f, sg, Len(sg)) /\ TotBytes(sg) = f[Len(sg)]
<1> DEFINE S == 0 .. Len(sg)
           Sum(g) == [i \in S |-> IF i = 0 THEN 0 ELSE g[i - 1] + sg[i].len]
<1>1. PICK f0 : Sums(f0, sg, Len(sg))
  BY PktsWeighed, SumsExist
<1>2. Len(sg) \in Nat
  OBVIOUS
<1>3. f0 = Sum(f0)
  <2>1. \A i \in S : f0[i] = IF i = 0 THEN 0 ELSE f0[i - 1] + sg[i].len
    BY <1>1, <1>2 DEF Sums
  <2>2. f0 = [i \in S |-> f0[i]]
    BY <1>1 DEF Sums
  <2> QED
    BY <2>1, <2>2
<1>4. PICK f : f = (CHOOSE g : g = Sum(g))
  OBVIOUS
<1>5. f = Sum(f)
  BY <1>3, <1>4
<1>6. TotBytes(sg) = f[Len(sg)]
  BY <1>4 DEF TotBytes
<1>7. f[0] = 0 /\ \A i \in 1 .. Len(sg) : f[i] = f[i - 1] + sg[i].len
  <2>1. \A i \in S : f[i] = IF i = 0 THEN 0 ELSE f[i - 1] + sg[i].len
    BY <1>5
  <2>2. \A i \in 1 .. Len(sg) : i \in S /\ i # 0
    BY <1>2
  <2>3. 0 \in S
    BY <1>2
  <2> QED
    BY <2>1, <2>2, <2>3
<1>8. f = f0
  <2> DEFINE Bad == {i \in S : f[i] # f0[i]}
  <2>1. Bad \in SUBSET Nat
    BY <1>2
  <2>2. ASSUME Bad # {} PROVE FALSE
    <3>1. PICK i \in Bad : \A j \in Bad : i <= j
      <4> HIDE DEF Bad
      <4> QED
        BY <2>1, <2>2, LeastOf
    <3>2. i # 0
      BY <1>1, <1>7 DEF Sums
    <3>3. i \in 1 .. Len(sg) /\ i - 1 \in S /\ ~(i <= i - 1)
      BY <1>2, <3>2
    <3>4. f[i - 1] = f0[i - 1]
      BY <3>1, <3>3
    <3> QED
      BY <1>1, <1>7, <3>1, <3>3, <3>4 DEF Sums
  <2>3. f = [i \in S |-> f[i]] /\ f0 = [i \in S |-> f0[i]]
    BY <1>1, <1>5 DEF Sums
  <2> QED
    BY <2>2, <2>3
<1> QED
  BY <1>1, <1>6, <1>8

LEMMA TotAppend ==
  ASSUME NEW sg \in Seq(Pkts), NEW p \in Pkts
  PROVE  TotBytes(sg) \in Nat /\ TotBytes(Append(sg, p)) = TotBytes(sg) + p.len
<1>1. PICK hd \in Seq(Pkts) : hd = Append(sg, p)
  BY AppendProperties
<1>2. PICK n \in Nat : n = Len(sg)
  OBVIOUS
<1>3. Len(hd) = n + 1 /\ hd[n + 1] = p /\ \A i \in 1 .. n : hd[i] = sg[i]
  BY <1>1, <1>2, AppendProperties
<1>4. PICK f : Sums(f, sg, n) /\ TotBytes(sg) = f[n]
  BY <1>2, TotIsSum
<1>5. PICK g : Sums(g, hd, n + 1) /\ TotBytes(hd) = g[n + 1]
  BY <1>3, TotIsSum
<1>6. f[n] = g[n]
  <2>1. \A i \in 0 .. n : f[i] = g[i]
    <3>1. n + 1 \in Nat /\ n <= n + 1
      OBVIOUS
    <3> QED
      BY <1>3, <1>4, <1>5, <3>1, SumsAgree
  <2> QED
    BY <2>1
<1>7. g[n + 1] = g[n] + p.len /\ f[n] \in Nat
  <2>1. n + 1 \in 1 .. n + 1 /\ (n + 1) - 1 = n /\ n \in 0 .. n
    OBVIOUS
  <2> QED
    BY <1>3, <1>4, <1>5, <2>1 DEF Sums
<1> QED
  BY <1>1, <1>4, <1>5, <1>6, <1>7

(* The first packets have no more bytes than all.                          *)
LEMMA TotOfPart ==
  ASSUME NEW sg \in Seq(Pkts), NEW i \in 1 .. Len(sg)
  PROVE  TotBytes(SubSeq(sg, 1, i)) <= TotBytes(sg)
<1>1. PICK n \in Nat : n = Len(sg)
  OBVIOUS
<1>2. 1 \in 1 .. i /\ i \in 1 .. n /\ i \in Nat
  BY <1>1
<1>3. PICK hd \in Seq(Pkts) : hd = SubSeq(sg, 1, i) /\ Len(hd) = i /\ \A k \in 1 .. i : hd[k] = sg[k]
  <2>1. /\ SubSeq(sg, 1, i) \in Seq(Pkts) /\ Len(SubSeq(sg, 1, i)) = i - 1 + 1
        /\ \A k \in 1 .. i - 1 + 1 : SubSeq(sg, 1, i)[k] = sg[1 + k - 1]
    BY <1>2, PartOf
  <2>2. i - 1 + 1 = i /\ \A k \in 1 .. i : 1 + k - 1 = k
    BY <1>2
  <2> QED
    BY <2>1, <2>2
<1>4. PICK g : Sums(g, sg, n) /\ TotBytes(sg) = g[n]
  BY <1>1, TotIsSum
<1>5. PICK f : Sums(f, hd, i) /\ TotBytes(hd) = f[i]
  BY <1>3, TotIsSum
<1>6. f[i] = g[i]
  <2>1. i <= n /\ \A k \in 1 .. i : sg[k] = hd[k]
    BY <1>2, <1>3
  <2>2. \A k \in 0 .. i : f[k] = g[k]
    BY SMTT(30), <1>2, <1>4, <1>5, <2>1, SumsAgree
  <2> QED
    BY <1>2, <2>2
<1> DEFINE Bad == {k \in i .. n : g[k] < g[i]}
<1>7. ASSUME Bad # {} PROVE FALSE
  <2>1. Bad \in SUBSET Nat
    BY <1>2
  <2>2. PICK k \in Bad : \A m \in Bad : k <= m
    <3> HIDE DEF Bad
    <3> QED
      BY <1>7, <2>1, LeastOf
  <2>3. g[i] \in Nat /\ g[k] \in Nat /\ k # i /\ k \in i .. n
    BY <1>2, <1>4, <2>2 DEF Sums
  <2>4. k \in 1 .. n /\ k - 1 \in i .. n /\ k - 1 \in 0 .. n /\ ~(k <= k - 1)
    BY <1>2, <2>3
  <2>5. g[k] = g[k - 1] + sg[k].len /\ g[k - 1] \in Nat
    BY <1>4, <2>4 DEF Sums
  <2>6. sg[k].len \in Nat
    <3>1. sg[k] \in Pkts
      BY <1>1, <2>4, LenTypes
    <3> QED
      BY <3>1 DEF Pkts
  <2>7. ~(g[k - 1] < g[i])
    BY <2>2, <2>4
  <2> QED
    BY <2>2, <2>3, <2>5, <2>6, <2>7
<1>8. ~(g[n] < g[i]) /\ g[n] \in Nat /\ g[i] \in Nat
  <2>1. n \in i .. n /\ n \in 0 .. n /\ i \in 0 .. n
    BY <1>2
  <2> QED
    BY <1>4, <1>7, <2>1 DEF Sums
<1> QED
  BY <1>3, <1>4, <1>5, <1>6, <1>8

-----------------------------------------------------------------------------
(* A list that is one whole frame.                                         *)
Complete(sg, n) ==
  /\ 1 \in 1 .. Len(sg) /\ TotBytes(sg) <= usrLen
  /\ \A k \in 1 .. Len(sg) :
       sg[k].seq = k - 1 /\ sg[k].frame = n /\ (sg[k].end <=> k = Len(sg))

LEMMA CompleteResult ==
  ASSUME NEW sg \in Seq(Pkts), NEW n, Complete(sg, n), usrLen \in Nat
  PROVE  Result(sg).res = "frame" /\ Result(sg).out = sg
<1>1. PICK m \in Nat : m = Len(sg) /\ m \in 1 .. Len(sg) /\ 1 \in 1 .. m
  BY DEF Complete
<1>2. ASSUME NEW i \in 1 .. m, NEW j \in 1 .. i
      PROVE  Copied(sg, j, i) <=> j = 1
  <2>1. ASSUME Copied(sg, j, i) PROVE j = 1
    <3>1. j \in j .. i /\ j \in 1 .. Len(sg)
      BY <1>1
    <3>2. sg[j].seq = j - j
      BY <2>1, <3>1 DEF Copied
    <3>3. sg[j].seq = j - 1
      BY <3>1 DEF Complete
    <3> QED
      BY <3>1, <3>2, <3>3
  <2>2. ASSUME j = 1 PROVE Copied(sg, j, i)
    <3>1. \A k \in 1 .. i : k \in 1 .. Len(sg)
      BY <1>1
    <3> QED
      BY <2>2, <3>1 DEF Copied, Complete
  <2> QED
    BY <2>1, <2>2
<1>3. ASSUME NEW i \in 1 .. m PROVE Fits(sg, 1, i)
  <2>1. TotBytes(SubSeq(sg, 1, i)) <= TotBytes(sg)
    BY <1>1, TotOfPart
  <2>2. TotBytes(sg) <= usrLen /\ TotBytes(sg) \in Nat /\ TotBytes(SubSeq(sg, 1, i)) \in Nat
    <3>1. \A hd \in Seq(Pkts) : TotBytes(hd) \in Nat
      <4> SUFFICES ASSUME NEW hd \in Seq(Pkts) PROVE TotBytes(hd) \in Nat
        OBVIOUS
      <4>1. PICK f : Sums(f, hd, Len(hd)) /\ TotBytes(hd) = f[Len(hd)]
        BY TotIsSum
      <4>2. Len(hd) \in 0 .. Len(hd)
        OBVIOUS
      <4> QED
        BY <4>1, <4>2 DEF Sums
    <3>2. SubSeq(sg, 1, i) \in Seq(Pkts)
      <4>1. i \in 1 .. Len(sg) /\ 1 \in 1 .. i
        BY <1>1
      <4> QED
        BY <4>1, PartOf
    <3> QED
      BY <3>1, <3>2 DEF Complete
  <2> QED
    BY <2>1, <2>2 DEF Fits
<1>4. StopAt(sg) = {m}
  <2>1. ASSUME NEW i \in StopAt(sg) PROVE i = m
    <3>1. i \in 1 .. m
      BY <1>1 DEF StopAt
    <3>2. PICK j \in 1 .. i : Copied(sg, j, i) /\ (sg[i].end \/ ~Fits(sg, j, i))
      BY DEF StopAt
    <3>3. sg[i].end
      BY <1>2, <1>3, <3>1, <3>2
    <3> QED
      BY <1>1, <3>1, <3>3 DEF Complete
  <2>2. m \in StopAt(sg)
    <3>1. sg[m].end /\ Copied(sg, 1, m) /\ m \in 1 .. m /\ 1 \in 1 .. m
      BY <1>1, <1>2 DEF Complete
    <3> QED
      BY <1>1, <3>1 DEF StopAt
  <2> QED
    BY <2>1, <2>2
<1>5. (CHOOSE i \in StopAt(sg) : \A k \in StopAt(sg) : i <= k) = m
  BY <1>4
<1>6. (CHOOSE j \in 1 .. m : Copied(sg, j, m)) = 1
  BY <1>1, <1>2
<1>7. SubSeq(sg, 1, m) = sg
  BY <1>1
<1>8. Result(sg) = [res |-> "frame", out |-> sg]
  BY <1>1, <1>3, <1>4, <1>5, <1>6, <1>7 DEF Result
<1> QED
  BY <1>8

-----------------------------------------------------------------------------
(* Nothing is lost.                                                        *)
FrameNo(g) == IF g = << >> THEN 0 ELSE g[1].frame

(* The part of frame n before its packet m.                                *)
Part(sg, n, m) ==
  /\ Len(sg) = m
  /\ \A k \in 1 .. Len(sg) : sg[k].seq = k - 1 /\ sg[k].frame = n /\ ~sg[k].end

(* r has all packets of the frame being put that it can have, and there is *)
(* room for the rest.                                                      *)
Gathers(r) ==
  LET c == snd[Sender]
      b == TotBytes(pstSg[r])
  IN /\ Open(Sender, r) /\ ~Handled(Sender, r) => Part(pstSg[r], c.n, c.seq) /\ b + c.left <= usrLen
     /\ Open(Sender, r) /\ Handled(Sender, r) =>
          Part(pstSg[r], c.n, c.seq + 1) /\ b + c.left - c.cpy <= usrLen
     /\ ~Open(Sender, r) => pstSg[r] = << >>

(* The frames that are complete were got or are queued, each once.         *)
AllThere(r) ==
  /\ \A i \in 1 .. Len(stHead[r]) : Complete(stHead[r][i], FrameNo(got[r]) + i)
  /\ Done(r) = FrameNo(got[r]) + Len(stHead[r])

LosslessInv ==
  Lossless =>
    /\ snd[Sender].pc \in {"fwd", "signal"} => snd[Sender].cpy <= snd[Sender].left
    /\ res \in [Rx -> {"none", "ENODATA", "frame"}]
    /\ \A r \in Rx : r \in chans => Gathers(r) /\ AllThere(r)

LEMMA LosslessInit == Init => LosslessInv
<1> SUFFICES ASSUME Init, Lossless PROVE LosslessInv
  BY DEF LosslessInv
<1>1. Sender \in Snd /\ snd[Sender] = Idle
  BY SenderIs DEF Init, Lossless
<1>2. Len(<< >>) = 0
  BY EmptySeq
<1>3. snd[Sender].pc = "idle" /\ snd[Sender].n = 0
  BY <1>1 DEF Idle
<1>4. ASSUME NEW r \in Rx PROVE Gathers(r) /\ AllThere(r)
  <2>1. pstSg[r] = << >> /\ stHead[r] = << >> /\ got[r] = << >>
    BY DEF Init
  <2>2. ~Open(Sender, r)
    BY <1>3 DEF Open
  <2> QED
    BY <1>2, <1>3, <2>1, <2>2 DEF Gathers, AllThere, FrameNo, Done
<1>5. res \in [Rx -> {"none", "ENODATA", "frame"}]
  BY DEF Init
<1> QED
  BY <1>3, <1>4, <1>5 DEF LosslessInv

LEMMA LosslessStays ==
  ASSUME setting' = setting
  PROVE  Lossless' = Lossless /\ usrLen' = usrLen /\ chans' = chans /\ Sender' = Sender
  BY SenderStays DEF Lossless, faults, limit, usrLen, chans

LEMMA NoPart == ASSUME NEW n PROVE Part(<< >>, n, 0)
  BY EmptySeq DEF Part

LEMMA TotType ==
  ASSUME NEW sg \in Seq(Pkts)
  PROVE  TotBytes(sg) \in Nat
<1>1. PICK f : Sums(f, sg, Len(sg)) /\ TotBytes(sg) = f[Len(sg)]
  BY TotIsSum
<1>2. Len(sg) \in 0 .. Len(sg)
  OBVIOUS
<1> QED
  BY <1>1, <1>2 DEF Sums

(* A step of a call that leaves the queues alone.                          *)
LEMMA GathersPutting ==
  ASSUME BaseInv, ConnInv, LosslessInv, Lossless, NEW s \in Snd, Putting(s), NEW r \in Rx, r \in chans
  PROVE  Gathers(r)' /\ AllThere(r)'
<1>0. ShapeInv /\ Steady /\ faults = {} /\ "reconnect" \notin faults
  BY DEF BaseInv, Lossless
<1>1. UNCHANGED << setting, pstSg, stHead, got >> /\ snd' \in [Snd -> SndType]
  BY <1>0, PuttingCases
<1>2. Sender' = Sender /\ usrLen' = usrLen
  BY <1>1, LosslessStays
<1>3. s = Sender
  BY <1>0, <1>2, DoneGrows
<1>4. Gathers(r) /\ AllThere(r)
  BY DEF LosslessInv
<1>5. /\ snd[s].n \in Nat /\ snd[s].left \in Nat /\ snd[s].cpy \in Nat /\ snd[s].seq \in Nat
      /\ snd'[s].left \in Nat /\ TotBytes(pstSg[r]) \in Nat
  <2>1. snd[s] \in SndType /\ snd'[s] \in SndType /\ pstSg[r] \in Seq(Pkts)
    BY <1>0, <1>1 DEF ShapeInv
  <2> QED
    BY <2>1, TotType DEF SndType
<1>6. AllThere(r)' = /\ \A i \in 1 .. Len(stHead[r]) : Complete(stHead[r][i], FrameNo(got[r]) + i)
                     /\ Done(r)' = FrameNo(got[r]) + Len(stHead[r])
  BY <1>1, <1>2 DEF AllThere, Complete
<1>7. ASSUME Done(r)' = Done(r) PROVE AllThere(r)'
  BY <1>4, <1>6, <1>7 DEF AllThere
<1>8. Done(r) = (IF Open(s, r) THEN snd[s].n - 1 ELSE snd[s].n)
  BY <1>3 DEF Done
<1>9. Done(r)' = (IF Open(s, r)' THEN snd'[s].n - 1 ELSE snd'[s].n)
  BY <1>2, <1>3 DEF Done
<1>10. CASE Begins(s, r)
  <2>1. ~Open(s, r) /\ ~Handled(s, r)' /\ Open(s, r)'
    BY <1>10 DEF Open, Begins, Handled
  <2>2. pstSg'[r] = << >>
    BY <1>1, <1>3, <1>4, <2>1 DEF Gathers
  <2>3. TotBytes(<< >>) = 0 /\ snd'[s].left <= usrLen
    BY <1>10, NoBytes DEF Begins, Lossless
  <2>4. Gathers(r)'
    BY <1>2, <1>3, <1>5, <1>10, <2>1, <2>2, <2>3, NoPart DEF Gathers, Begins
  <2> QED
    BY <1>5, <1>7, <1>8, <1>9, <1>10, <2>1, <2>4 DEF Begins
<1>11. CASE Ends(s, r)
  <2>1. ~Open(s, r) /\ ~Open(s, r)'
    BY <1>0, <1>11 DEF Open, Ends
  <2>2. Gathers(r)'
    BY <1>1, <1>2, <1>3, <1>4, <2>1 DEF Gathers
  <2> QED
    BY <1>7, <1>8, <1>9, <1>11, <2>1, <2>2 DEF Ends
<1>12. CASE NextPkt(s, r)
  <2>1. Open(s, r) /\ Handled(s, r) /\ Open(s, r)' /\ ~Handled(s, r)'
    BY <1>12 DEF Open, NextPkt, Handled
  <2>2. Part(pstSg[r], snd[s].n, snd[s].seq + 1) /\ TotBytes(pstSg[r]) + snd[s].left - snd[s].cpy <= usrLen
    BY <1>3, <1>4, <2>1 DEF Gathers
  <2>3. Part(pstSg'[r], snd'[s].n, snd'[s].seq) /\ TotBytes(pstSg'[r]) + snd'[s].left <= usrLen
    BY <1>1, <1>5, <1>12, <2>2 DEF NextPkt
  <2>4. Gathers(r)'
    BY <1>2, <1>3, <2>1, <2>3 DEF Gathers
  <2> QED
    BY <1>7, <1>8, <1>9, <1>12, <2>1, <2>4 DEF NextPkt
<1>13. CASE Stays(s, r)
  <2>1. Handled(s, r)' = Handled(s, r)
    BY <1>0, <1>13 DEF Stays, HoldFails, Handled
  <2>2. Open(s, r)' = Open(s, r)
    BY <1>13, <2>1 DEF Stays, Open, BitEnd
  <2>3. /\ snd'[s].n = snd[s].n /\ snd'[s].seq = snd[s].seq /\ snd'[s].left = snd[s].left
        /\ Handled(s, r) => snd'[s].cpy = snd[s].cpy
    BY <1>13 DEF Stays
  <2>4. Gathers(r)'
    BY <1>1, <1>2, <1>3, <1>4, <2>1, <2>2, <2>3 DEF Gathers
  <2> QED
    BY <1>7, <1>8, <1>9, <2>2, <2>3, <2>4
<1> QED
  BY <1>0, <1>10, <1>11, <1>12, <1>13, Phases

LEMMA CutStays ==
  ASSUME ShapeInv, NEW s \in Snd, Putting(s),
         snd[s].pc \in {"fwd", "signal"} => snd[s].cpy <= snd[s].left
  PROVE  snd'[s].pc \in {"fwd", "signal"} => snd'[s].cpy <= snd'[s].left
<1>1. ASSUME NEW c \in SndType, Onward(s, c), c.cpy <= c.left
      PROVE  snd'[s].pc \in {"fwd", "signal"} => snd'[s].cpy <= snd'[s].left
  <2>1. snd'[s] = IF c.todo = {} THEN AfterPkt(c) ELSE c
    BY <1>1 DEF Onward, ShapeInv
  <2>2. AfterPkt(c).pc \in {"pkt", "idle"}
    BY AfterPktType
  <2> QED
    BY <1>1, <2>1, <2>2
<1>2. ASSUME NEW r \in Rx, snd[s].pc = "fwd", snd' = [snd EXCEPT ![s].pc = "signal", ![s].rx = r]
      PROVE  snd'[s].cpy <= snd'[s].left
  <2>1. snd'[s].cpy = snd[s].cpy /\ snd'[s].left = snd[s].left
    BY <1>2 DEF ShapeInv, SndType
  <2> QED
    BY <1>2, <2>1
<1>3. \/ snd'[s].pc \in {"pkt", "idle"}
      \/ \E c \in SndType : Onward(s, c) /\ c.cpy <= c.left
      \/ \E r \in Rx : snd[s].pc = "fwd" /\ snd' = [snd EXCEPT ![s].pc = "signal", ![s].rx = r]
  <2> HIDE DEF Onward
  <2> QED
    BY PuttingCases
<1> QED
  BY <1>1, <1>2, <1>3

(* Without a limit nothing is cleared.                                     *)
LEMMA QueueAll ==
  ASSUME ShapeInv, limit = 0, NEW s \in Snd, NEW r \in Rx, QueueBufSg(s, r)
  PROVE  Queued(s, r, 0, pstSg[r], stHead[r], Append(pstSg[r], Pkt(s)))
<1>1. stHead[r] \in Seq(Seq(Pkts)) /\ pstSg[r] \in Seq(Pkts)
  BY DEF ShapeInv
<1>2. Trim(r) = 0 /\ Gathered(r) = pstSg[r]
  BY DEF Trim, Gathered
<1>3. PICK q \in Seq(Seq(Pkts)) : q = stHead[r]
  BY <1>1
<1>4. SubSeq(q, 0 + 1, Len(q)) = q
  BY <1>3
<1>5. PICK sg : sg = Append(pstSg[r], Pkt(s))
  OBVIOUS
<1>6. \/ /\ Pkt(s).end /\ pstSg' = [pstSg EXCEPT ![r] = << >>]
         /\ stHead' = [stHead EXCEPT ![r] = Append(q, sg)]
      \/ /\ ~Pkt(s).end /\ pstSg' = [pstSg EXCEPT ![r] = sg]
         /\ stHead' = [stHead EXCEPT ![r] = q]
  <2>1. CASE Pkt(s).end
    BY <1>2, <1>3, <1>4, <1>5, <2>1 DEF QueueBufSg, AddTail
  <2>2. CASE ~Pkt(s).end
    BY <1>2, <1>3, <1>4, <1>5, <2>2 DEF QueueBufSg
  <2> QED
    BY <2>1, <2>2
<1>7. Len(q) = Len(q) - 0 /\ \A i \in 1 .. Len(q) : q[i] = q[i + 0]
  BY <1>3
<1> QED
  BY <1>1, <1>3, <1>5, <1>6, <1>7 DEF Queued

LEMMA PartAppend ==
  ASSUME NEW sg \in Seq(Pkts), NEW n, NEW m \in Nat, Part(sg, n, m), NEW p \in Pkts,
         p.seq = m, p.frame = n
  PROVE  /\ ~p.end => Part(Append(sg, p), n, m + 1)
         /\ p.end /\ TotBytes(Append(sg, p)) <= usrLen => Complete(Append(sg, p), n)
<1>1. PICK hd \in Seq(Pkts) : hd = Append(sg, p)
  BY AppendProperties
<1>2. Len(hd) = m + 1 /\ hd[m + 1] = p /\ \A k \in 1 .. m : hd[k] = sg[k]
  BY <1>1, AppendProperties DEF Part
<1>3. \A k \in 1 .. m + 1 : k \in 1 .. m \/ k = m + 1
  OBVIOUS
<1>4. \A k \in 1 .. m : sg[k].seq = k - 1 /\ sg[k].frame = n /\ ~sg[k].end /\ k # m + 1
  BY DEF Part
<1>5. \A k \in 1 .. m + 1 : hd[k].seq = k - 1 /\ hd[k].frame = n
  BY <1>2, <1>3, <1>4
<1>6. \A k \in 1 .. m : ~hd[k].end
  BY <1>2, <1>4
<1>7. ASSUME ~p.end PROVE Part(hd, n, m + 1)
  BY <1>2, <1>3, <1>5, <1>6, <1>7 DEF Part
<1>8. ASSUME p.end, TotBytes(hd) <= usrLen PROVE Complete(hd, n)
  <2>1. \A k \in 1 .. m + 1 : hd[k].end <=> k = m + 1
    BY <1>2, <1>3, <1>4, <1>6, <1>8
  <2>2. 1 \in 1 .. m + 1
    OBVIOUS
  <2> QED
    BY <1>2, <1>5, <1>8, <2>1, <2>2 DEF Complete
<1> QED
  BY <1>1, <1>7, <1>8

LEMMA LosslessQueue ==
  ASSUME BaseInv, ConnInv, LosslessInv, Lossless, NEW s \in Snd, NEW r \in Rx, QueueBufSg(s, r)
  PROVE  LosslessInv'
<1>0. ShapeInv /\ Steady /\ limit = 0
  BY DEF BaseInv, Lossless
<1>1. s = Sender
  <2>1. s \in chans
    BY <1>0, QueueSender DEF BaseInv, BusyInv
  <2> QED
    BY <1>0, <2>1, SenderIs
<1>2. /\ snd[s].pc = "fwd" /\ snd'[s].pc = "signal"
      /\ snd'[s].n = snd[s].n /\ snd'[s].seq = snd[s].seq
      /\ snd'[s].left = snd[s].left /\ snd'[s].cpy = snd[s].cpy
      /\ UNCHANGED << setting, got >>
  BY <1>0, QueueSender
<1>3. Sender' = Sender /\ usrLen' = usrLen /\ chans' = chans
  BY <1>2, LosslessStays
<1>4. PICK c \in SndType : c = snd[s]
  BY <1>0 DEF ShapeInv
<1>5. c.n \in Nat /\ c.seq \in Nat /\ c.left \in Nat /\ c.cpy \in Nat /\ c.cpy <= c.left
  BY <1>1, <1>2, <1>4 DEF SndType, LosslessInv
<1>6. /\ ~Handled(s, r) /\ Handled(s, r)' /\ Open(s, r) /\ BitEnd(snd'[s]) = BitEnd(snd[s])
      /\ \A x \in Rx \ {r} : Handled(s, x)' = Handled(s, x)
  BY QueuePhases
<1>7. PICK sg \in Seq(Pkts) : /\ sg = Append(pstSg[r], Pkt(s)) /\ Pkt(s) \in Pkts
                              /\ Queued(s, r, 0, pstSg[r], stHead[r], sg)
  <2>1. Pkt(s) \in Pkts /\ pstSg[r] \in Seq(Pkts)
    BY <1>0, QueueShape DEF ShapeInv
  <2>2. Append(pstSg[r], Pkt(s)) \in Seq(Pkts)
    BY <2>1, AppendProperties
  <2> QED
    BY <1>0, <2>1, <2>2, QueueAll
<1>8. /\ Pkt(s).frame = c.n /\ Pkt(s).seq = c.seq /\ Pkt(s).len = c.cpy
      /\ Pkt(s).end = BitEnd(c)
  BY <1>4 DEF Pkt
<1>9. res' = res
  BY DEF QueueBufSg, rdrVars
<1>10. ASSUME NEW x \in Rx, x # r, x \in chans PROVE Gathers(x)' /\ AllThere(x)'
  <2>1. pstSg'[x] = pstSg[x] /\ stHead'[x] = stHead[x] /\ got' = got
    BY <1>0, <1>2, <1>7, <1>10 DEF Queued, ShapeInv
  <2>2. Handled(s, x)' = Handled(s, x) /\ Open(s, x)' = Open(s, x)
    BY <1>2, <1>6, <1>10 DEF Open
  <2>3. Gathers(x) /\ AllThere(x)
    BY <1>10 DEF LosslessInv
  <2>4. Gathers(x)'
    BY <1>1, <1>2, <1>3, <2>1, <2>2, <2>3 DEF Gathers
  <2>5. Done(x)' = Done(x)
    BY <1>1, <1>2, <1>3, <2>2 DEF Done
  <2> QED
    BY <1>3, <2>1, <2>3, <2>4, <2>5 DEF AllThere, Complete
<1>11. ASSUME r \in chans PROVE Gathers(r)' /\ AllThere(r)'
  <2>0. Gathers(r) /\ AllThere(r) /\ pstSg[r] \in Seq(Pkts) /\ stHead[r] \in Seq(Seq(Pkts))
    BY <1>0, <1>11 DEF LosslessInv, ShapeInv
  <2>1. Part(pstSg[r], c.n, c.seq) /\ TotBytes(pstSg[r]) + c.left <= usrLen
    BY <1>1, <1>4, <1>6, <2>0 DEF Gathers
  <2>2. TotBytes(pstSg[r]) \in Nat /\ TotBytes(sg) = TotBytes(pstSg[r]) + c.cpy
    BY <1>7, <1>8, <2>0, TotAppend
  <2>3. usrLen \in Nat
    BY <1>0, SettingAssumption DEF ShapeInv, usrLen
  <2>4. TotBytes(sg) <= usrLen /\ TotBytes(sg) + c.left - c.cpy <= usrLen
    BY <1>5, <2>1, <2>2, <2>3
  <2>5. /\ ~Pkt(s).end => Part(sg, c.n, c.seq + 1)
        /\ Pkt(s).end => Complete(sg, c.n)
    BY <1>5, <1>7, <1>8, <2>0, <2>1, <2>4, PartAppend
  <2>6. Done(r) = c.n - 1
    BY <1>1, <1>4, <1>6 DEF Done
  <2>7. Done(r)' = (IF Open(s, r)' THEN c.n - 1 ELSE c.n)
    BY <1>1, <1>2, <1>3, <1>4 DEF Done
  <2>8. Open(s, r)' = ~BitEnd(c)
    BY <1>2, <1>4, <1>6 DEF Open
  <2>9. CASE ~Pkt(s).end
    <3>1. pstSg'[r] = sg /\ stHead'[r] = stHead[r]
      BY <1>0, <1>7, <2>9 DEF Queued, ShapeInv
    <3>2. Open(s, r)'
      BY <1>8, <2>8, <2>9
    <3>3. Gathers(r)'
      BY <1>1, <1>2, <1>3, <1>4, <1>6, <2>4, <2>5, <2>9, <3>1, <3>2 DEF Gathers
    <3>4. Done(r)' = Done(r)
      BY <2>6, <2>7, <3>2
    <3> QED
      BY <1>2, <1>3, <2>0, <3>1, <3>3, <3>4 DEF AllThere, Complete
  <2>10. CASE Pkt(s).end
    <3>1. PICK q \in Seq(Seq(Pkts)) : q = Append(stHead[r], sg)
      BY <2>0, AppendProperties
    <3>2. pstSg'[r] = << >> /\ stHead'[r] = q
      BY <1>0, <1>7, <2>10, <3>1 DEF Queued, ShapeInv
    <3>3. ~Open(s, r)'
      BY <1>8, <2>8, <2>10
    <3>4. Gathers(r)'
      BY <1>1, <1>3, <3>2, <3>3 DEF Gathers
    <3>5. /\ Len(q) = Len(stHead[r]) + 1 /\ q[Len(stHead[r]) + 1] = sg /\ Len(stHead[r]) \in Nat
          /\ \A i \in 1 .. Len(stHead[r]) : q[i] = stHead[r][i]
      BY <2>0, <3>1, AppendProperties
    <3>6. FrameNo(got[r]) \in Nat
      <4>1. got[r] \in Seq(Pkts)
        BY <1>0 DEF ShapeInv
      <4>2. got[r] # << >> => 1 \in 1 .. Len(got[r])
        BY <4>1, HeadTailProperties
      <4> QED
        BY <4>1, <4>2, FrameTypes DEF FrameNo
    <3>7. c.n = FrameNo(got[r]) + (Len(stHead[r]) + 1)
      <4>1. Done(r) = FrameNo(got[r]) + Len(stHead[r])
        BY <2>0 DEF AllThere
      <4>2. PICK n \in Nat, f \in Nat, l \in Nat : n = c.n /\ f = FrameNo(got[r]) /\ l = Len(stHead[r])
        BY <1>5, <3>5, <3>6
      <4>3. n - 1 = f + l
        BY <2>6, <4>1, <4>2
      <4>4. n = f + (l + 1)
        BY <4>3
      <4> QED
        BY <4>2, <4>4
    <3>8. \A i \in 1 .. Len(q) : Complete(q[i], FrameNo(got[r]) + i)
      <4>1. \A i \in 1 .. Len(q) : i \in 1 .. Len(stHead[r]) \/ i = Len(stHead[r]) + 1
        BY <3>5
      <4>2. Complete(sg, FrameNo(got[r]) + (Len(stHead[r]) + 1))
        BY <2>5, <2>10, <3>7
      <4> QED
        BY <2>0, <3>5, <4>1, <4>2 DEF AllThere
    <3>9. Done(r)' = FrameNo(got[r]) + Len(q)
      BY <2>7, <3>3, <3>5, <3>7
    <3> QED
      BY <1>2, <1>3, <3>2, <3>4, <3>8, <3>9 DEF AllThere, Complete
  <2> QED
    BY <2>9, <2>10
<1>12. snd'[s].cpy <= snd'[s].left
  BY <1>2, <1>4, <1>5
<1> QED
  BY <1>1, <1>3, <1>9, <1>10, <1>11, <1>12 DEF LosslessInv

(* GET_DATA of a queue of whole frames.                                    *)
LEMMA LosslessGet ==
  ASSUME BaseInv, LosslessInv, Lossless, NEW r \in Rx, GetData(r), stHead[r] # << >>
  PROVE  LosslessInv' /\ res'[r] = "frame" /\ FrameNo(got'[r]) = FrameNo(got[r]) + 1 /\ got'[r] # << >>
<1>0. ShapeInv
  BY DEF BaseInv
<1>1. PICK sg \in Seq(Pkts), q \in Seq(Seq(Pkts)) :
        /\ 1 \in 1 .. Len(stHead[r]) /\ sg = stHead[r][1] /\ stHead' = [stHead EXCEPT ![r] = q]
        /\ Len(q) = Len(stHead[r]) - 1 /\ \A i \in 1 .. Len(q) : q[i] = stHead[r][i + 1]
        /\ pstSg' = pstSg /\ snd' = snd
  BY <1>0, GetShape
<1>2. UNCHANGED setting /\ r \in chans
  BY DEF GetData
<1>3. Sender' = Sender /\ usrLen' = usrLen /\ chans' = chans
  BY <1>2, LosslessStays
<1>4. Gathers(r) /\ AllThere(r)
  BY <1>2 DEF LosslessInv
<1>5. FrameNo(got[r]) \in Nat
  <2>1. got[r] \in Seq(Pkts)
    BY <1>0 DEF ShapeInv
  <2>2. got[r] # << >> => 1 \in 1 .. Len(got[r])
    BY <2>1, HeadTailProperties
  <2> QED
    BY <2>1, <2>2, FrameTypes DEF FrameNo
<1>6. PICK n \in Nat : n = FrameNo(got[r])
  BY <1>5
<1>7. Complete(sg, n + 1)
  BY <1>1, <1>4, <1>6 DEF AllThere
<1>8. Result(sg).res = "frame" /\ Result(sg).out = sg
  <2>1. usrLen \in Nat
    BY <1>0, SettingAssumption DEF ShapeInv, usrLen
  <2> QED
    BY <1>7, <2>1, CompleteResult
<1>9. res' = [res EXCEPT ![r] = "frame"] /\ got' = [got EXCEPT ![r] = sg]
  <2>1. sg = Head(stHead[r])
    BY <1>0, <1>1 DEF ShapeInv
  <2>2. res' = [res EXCEPT ![r] = Result(sg).res]
    BY <2>1 DEF GetData
  <2>3. got' = IF Result(sg).res = "frame" THEN [got EXCEPT ![r] = Result(sg).out] ELSE got
    BY <2>1 DEF GetData
  <2> QED
    BY <1>8, <2>2, <2>3
<1>10. got'[r] = sg /\ \A x \in Rx \ {r} : got'[x] = got[x]
  BY <1>0, <1>9 DEF ShapeInv
<1>11. sg # << >> /\ FrameNo(sg) = n + 1
  <2>1. 1 \in 1 .. Len(sg) /\ sg[1].frame = n + 1
    BY <1>7 DEF Complete
  <2>2. sg # << >>
    BY <2>1, EmptySeq
  <2> QED
    BY <2>1, <2>2 DEF FrameNo
<1>12. ASSUME NEW x \in Rx PROVE Done(x)' = Done(x) /\ (Gathers(x) => Gathers(x)')
  BY <1>1, <1>3 DEF Done, Gathers, Open, Handled, BitEnd
<1>13. ASSUME NEW x \in Rx, x # r, AllThere(x) PROVE AllThere(x)'
  <2>1. stHead'[x] = stHead[x] /\ got'[x] = got[x]
    BY <1>0, <1>1, <1>10, <1>13 DEF ShapeInv
  <2> QED
    BY <1>3, <1>12, <1>13, <2>1 DEF AllThere, Complete
<1>14. AllThere(r)'
  <2>1. stHead'[r] = q /\ Len(stHead[r]) \in Nat /\ Len(q) \in Nat
    BY <1>0, <1>1, LenTypes DEF ShapeInv
  <2>2. Done(r)' = (n + 1) + Len(q)
    BY <1>1, <1>4, <1>6, <1>12, <2>1 DEF AllThere
  <2>3. ASSUME NEW i \in 1 .. Len(q) PROVE Complete(q[i], (n + 1) + i)
    <3>1. i + 1 \in 1 .. Len(stHead[r]) /\ q[i] = stHead[r][i + 1] /\ n + (i + 1) = (n + 1) + i
      BY <1>1, <2>1
    <3>2. Complete(stHead[r][i + 1], n + (i + 1))
      BY <1>4, <1>6, <3>1 DEF AllThere
    <3> QED
      BY <3>1, <3>2
  <2> QED
    BY <1>3, <1>10, <1>11, <2>1, <2>2, <2>3 DEF AllThere, Complete
<1>15. res' \in [Rx -> {"none", "ENODATA", "frame"}] /\ res'[r] = "frame"
  BY <1>9 DEF LosslessInv
<1>16. LosslessInv'
  BY <1>1, <1>3, <1>12, <1>13, <1>14, <1>15 DEF LosslessInv
<1> QED
  BY <1>6, <1>10, <1>11, <1>15, <1>16

LEMMA LosslessPutting ==
  ASSUME BaseInv, ConnInv, LosslessInv, Lossless, NEW s \in Snd, Putting(s)
  PROVE  LosslessInv'
<1>0. ShapeInv /\ Steady
  BY DEF BaseInv, Lossless
<1>1. setting' = setting
  BY <1>0, PuttingCases
<1>2. Sender' = Sender /\ chans' = chans /\ Lossless' = Lossless
  BY <1>1, LosslessStays
<1>3. s = Sender
  <2>1. s \in chans
    BY <1>0, PuttingCases DEF BaseInv, BusyInv
  <2> QED
    BY <1>0, <2>1, SenderIs
<1>4. res' = res
  BY DEF Putting, PutData, PutFails, PutPkt, DropPkt, Signal, rdrVars
<1>5. snd[s].pc \in {"fwd", "signal"} => snd[s].cpy <= snd[s].left
  BY <1>3 DEF LosslessInv
<1>6. snd'[s].pc \in {"fwd", "signal"} => snd'[s].cpy <= snd'[s].left
  BY <1>0, <1>5, CutStays
<1>7. \A r \in Rx : r \in chans => Gathers(r)' /\ AllThere(r)'
  BY GathersPutting
<1> QED
  BY <1>2, <1>3, <1>4, <1>6, <1>7 DEF LosslessInv


LEMMA LosslessStep == BaseInv /\ ConnInv /\ LosslessInv /\ [Next]_vars => LosslessInv'
<1> SUFFICES ASSUME BaseInv, ConnInv, LosslessInv, [Next]_vars PROVE LosslessInv'
  OBVIOUS
<1>1. setting' = setting
  BY NextCases
<1>2. Lossless' = Lossless /\ usrLen' = usrLen /\ chans' = chans /\ Sender' = Sender
  BY <1>1, LosslessStays
<1> SUFFICES ASSUME Lossless PROVE LosslessInv'
  BY <1>2 DEF LosslessInv
<1>3. CASE Quiet
  <2>1. snd' = snd /\ pstSg' = pstSg /\ stHead' = stHead /\ got' = got
    BY <1>3 DEF Quiet
  <2>2. \A r \in Rx : Gathers(r)' = Gathers(r) /\ AllThere(r)' = AllThere(r)
    BY <1>2, <2>1 DEF Gathers, AllThere, Done, Open, Handled, BitEnd, Complete
  <2>3. res' \in [Rx -> {"none", "ENODATA", "frame"}]
    BY <1>3 DEF Quiet, LosslessInv
  <2> QED
    BY <1>2, <2>1, <2>2, <2>3 DEF LosslessInv
<1> QED
  BY <1>3, NextCases, LosslessPutting, LosslessQueue, LosslessGet

LEMMA NextIsNext ==
  ASSUME BaseInv, ConnInv, LosslessInv, [Next]_vars, Lossless, NEW r \in Rx
  PROVE  GetsNext(r)
<1>0. ShapeInv
  BY DEF BaseInv
<1>1. res'[r] \notin {"empty", "ENOMEM"}
  <2>1. LosslessInv' /\ Lossless'
    BY LosslessStep, LosslessStays, NextCases
  <2>2. (res \in [Rx -> {"none", "ENODATA", "frame"}])'
    BY <2>1 DEF LosslessInv
  <2> QED
    BY <2>2
<1>2. ASSUME got'[r] # got[r] PROVE got'[r][1].frame = 1 + FrameNo(got[r])
  <2>1. PICK x \in Rx : GetData(x) /\ stHead[x] # << >>
    <3>1. ~Quiet
      BY <1>2 DEF Quiet
    <3>2. \A s \in Snd : ~Putting(s)
      BY <1>0, <1>2, PuttingCases
    <3>3. \A s \in Snd, y \in Rx : ~QueueBufSg(s, y)
      BY <1>0, <1>2, QueueSender
    <3> QED
      BY <3>1, <3>2, <3>3, NextCases
  <2>2. x = r
    BY <1>0, <1>2, <2>1, GetShape DEF ShapeInv
  <2>3. FrameNo(got'[r]) = FrameNo(got[r]) + 1 /\ got'[r] # << >>
    BY <2>1, <2>2, LosslessGet
  <2>4. FrameNo(got[r]) \in Nat
    <3>1. got[r] \in Seq(Pkts)
      BY <1>0 DEF ShapeInv
    <3>2. got[r] # << >> => 1 \in 1 .. Len(got[r])
      BY <3>1, HeadTailProperties
    <3> QED
      BY <3>1, <3>2, FrameTypes DEF FrameNo
  <2> QED
    BY <2>3, <2>4 DEF FrameNo
<1> QED
  BY <1>1, <1>2 DEF GetsNext, FrameNo

(* With one sender whose receivers stay connected, no faults, no limit and *)
(* readers whose buffers are large enough, every GET_DATA of a list gives  *)
(* the frame after the last one: none is lost, cut or refused              *)
(* (vk_chan.c:173-266, fdd.c:226-284).                                     *)
THEOREM NoFrameIsLost == Spec => NothingLost
<1>1. Spec => [](BaseInv /\ ConnInv /\ LosslessInv)
  <2>1. Init => BaseInv /\ ConnInv /\ LosslessInv
    BY BaseInit, ConnInit, LosslessInit
  <2>2. BaseInv /\ ConnInv /\ LosslessInv /\ [Next]_vars => (BaseInv /\ ConnInv /\ LosslessInv)'
    BY BaseStep, ConnStep, LosslessStep
  <2> QED
    BY <2>1, <2>2, PTL DEF Spec
<1>2. BaseInv /\ ConnInv /\ LosslessInv /\ [Next]_vars =>
        [Lossless => \A r \in Rx : GetsNext(r)]_vars
  BY NextIsNext
<1> QED
  BY <1>1, <1>2, PTL DEF Spec, NothingLost

-----------------------------------------------------------------------------
(* The bytes of a queue.                                                   *)

(* What FirstBytes sums: the bytes of each list.                           *)
Loads(q) == [i \in 1 .. Len(q) |-> [len |-> TotBytes(q[i])]]

LEMMA LoadsWeighed ==
  ASSUME NEW q \in Seq(Seq(Pkts))
  PROVE  /\ Weighed(Loads(q)) /\ Len(Loads(q)) = Len(q)
         /\ \A i \in 1 .. Len(q) : Loads(q)[i].len = TotBytes(q[i])
<1>1. ASSUME NEW i \in 1 .. Len(q) PROVE TotBytes(q[i]) \in Nat
  <2>1. q[i] \in Seq(Pkts)
    BY LenTypes
  <2> QED
    BY <2>1, TotType
<1>2. Len(q) \in Nat
  BY LenTypes
<1>3. Loads(q) \in Seq([len : Nat]) /\ Len(Loads(q)) = Len(q)
  <2> DEFINE w == Loads(q)
  <2>1. w \in [1 .. Len(q) -> [len : Nat]]
    BY <1>1 DEF Loads
  <2> HIDE DEF w
  <2>2. PICK R : R = [len : Nat]
    OBVIOUS
  <2>3. PICK n \in Nat : n = Len(q)
    BY <1>2
  <2>4. w \in Seq(R)
    <3>1. w \in [1 .. n -> R]
      BY <2>1, <2>2, <2>3
    <3>2. w \in UNION {[1 .. i -> R] : i \in Nat}
      BY <3>1
    <3>3. Seq(R) = UNION {[1 .. i -> R] : i \in Nat}
      BY SeqDef
    <3> QED
      BY <3>2, <3>3
  <2>5. Len(w) \in Nat /\ 1 .. Len(w) = 1 .. n
    BY <2>1, <2>2, <2>3, <2>4, LenProperties
  <2>6. Len(w) = n
    BY <2>5
  <2> QED
    BY <2>2, <2>3, <2>4, <2>6 DEF w
<1>4. \A i \in 1 .. Len(q) : Loads(q)[i].len = TotBytes(q[i])
  BY DEF Loads
<1> QED
  BY <1>1, <1>2, <1>3, <1>4 DEF Weighed

(* FirstBytes(q, k) is what a count of the bytes of q has after k lists.   *)
LEMMA FirstIsSum ==
  ASSUME NEW q \in Seq(Seq(Pkts)), NEW n \in Nat, n = Len(q), NEW f, Sums(f, Loads(q), n),
         NEW k \in 0 .. n
  PROVE  FirstBytes(q, k) = f[k]
<1> DEFINE S == 0 .. k
           Sum(g) == [i \in S |-> IF i = 0 THEN 0 ELSE g[i - 1] + TotBytes(q[i])]
           part == [i \in S |-> f[i]]
<1>1. f[0] = 0 /\ \A i \in 1 .. n : f[i] = f[i - 1] + TotBytes(q[i])
  BY LoadsWeighed DEF Sums
<1>2. ASSUME NEW i \in S PROVE part[i] = IF i = 0 THEN 0 ELSE part[i - 1] + TotBytes(q[i])
  <2>1. CASE i = 0
    BY <1>1, <2>1
  <2>2. CASE i # 0
    <3>1. i \in 1 .. n /\ i - 1 \in S
      BY <2>2
    <3> QED
      BY <1>1, <2>2, <3>1
  <2> QED
    BY <2>1, <2>2
<1>3. part = Sum(part)
  <2>1. part = [i \in S |-> part[i]]
    OBVIOUS
  <2> HIDE DEF part
  <2> QED
    BY <1>2, <2>1
<1>4. PICK g : g = (CHOOSE h : h = Sum(h))
  OBVIOUS
<1> HIDE DEF part
<1>5. g = Sum(g)
  BY <1>3, <1>4
<1>6. FirstBytes(q, k) = g[k]
  BY <1>4 DEF FirstBytes
<1>7. \A i \in S : g[i] = IF i = 0 THEN 0 ELSE g[i - 1] + TotBytes(q[i])
  BY <1>5
<1>8. \A i \in S : g[i] = f[i]
  <2> DEFINE Bad == {i \in S : g[i] # f[i]}
  <2>1. Bad \in SUBSET Nat
    OBVIOUS
  <2>2. ASSUME Bad # {} PROVE FALSE
    <3>1. PICK i \in Bad : \A j \in Bad : i <= j
      <4> HIDE DEF Bad
      <4> QED
        BY <2>1, <2>2, LeastOf
    <3>2. i # 0
      BY <1>1, <1>7
    <3>3. i \in 1 .. n /\ i - 1 \in S /\ ~(i <= i - 1) /\ i \in S
      BY <3>2
    <3>4. g[i - 1] = f[i - 1]
      BY <3>1, <3>3
    <3> QED
      BY <1>1, <1>7, <3>1, <3>2, <3>3, <3>4
  <2> QED
    BY <2>2
<1>9. k \in S
  OBVIOUS
<1> QED
  BY <1>6, <1>8, <1>9

(* The queue q without its first k lists.                                  *)
Cut(kept, q, k) ==
  Len(kept) = Len(q) - k /\ \A i \in 1 .. Len(kept) : kept[i] = q[i + k]

Bytes(q) == FirstBytes(q, Len(q))

LEMMA BytesType ==
  ASSUME NEW q \in Seq(Seq(Pkts)), NEW k \in 0 .. Len(q)
  PROVE  FirstBytes(q, k) \in Nat
<1>1. PICK n \in Nat : n = Len(q)
  BY LenTypes
<1>2. PICK f : Sums(f, Loads(q), n)
  BY <1>1, LoadsWeighed, SumsExist
<1>3. FirstBytes(q, k) = f[k]
  BY <1>1, <1>2, FirstIsSum
<1> QED
  BY <1>1, <1>2, <1>3 DEF Sums

LEMMA NoLists == Bytes(<< >>) = 0
<1>1. << >> \in Seq(Seq(Pkts)) /\ Len(<< >>) = 0
  BY EmptySeq
<1>2. PICK q \in Seq(Seq(Pkts)) : q = << >> /\ Len(q) = 0
  BY <1>1
<1>3. PICK n \in Nat : n = Len(q) /\ n = 0
  BY <1>2
<1>4. PICK f : Sums(f, Loads(q), n)
  BY <1>3, LoadsWeighed, SumsExist
<1>5. PICK k \in 0 .. n : k = n
  BY <1>3
<1>6. FirstBytes(q, k) = f[k]
  BY ZenonT(40), <1>3, <1>4, FirstIsSum
<1> QED
  BY <1>2, <1>3, <1>4, <1>5, <1>6 DEF Bytes, Sums

(* The lists that go and the lists that stay have the bytes of all.        *)
LEMMA BytesCut ==
  ASSUME NEW q \in Seq(Seq(Pkts)), NEW k \in 0 .. Len(q), NEW kept \in Seq(Seq(Pkts)), Cut(kept, q, k)
  PROVE  Bytes(kept) = Bytes(q) - FirstBytes(q, k)
<1>1. PICK n \in Nat : n = Len(q)
  BY LenTypes
<1>2. PICK m \in Nat : m = Len(kept)
  BY LenTypes
<1>3. m = n - k /\ k \in Nat /\ k <= n /\ \A i \in 1 .. m : kept[i] = q[i + k]
  BY <1>1, <1>2 DEF Cut
<1>4. PICK f : Sums(f, Loads(q), n)
  BY <1>1, LoadsWeighed, SumsExist
<1>5. PICK g : Sums(g, Loads(kept), m)
  BY <1>2, LoadsWeighed, SumsExist
<1>6. \A i \in 1 .. n : f[i] = f[i - 1] + TotBytes(q[i])
  BY <1>1, <1>4, LoadsWeighed DEF Sums
<1>7. \A i \in 1 .. m : g[i] = g[i - 1] + TotBytes(kept[i])
  BY <1>2, <1>5, LoadsWeighed DEF Sums
<1>8. g[0] = 0 /\ \A i \in 0 .. m : g[i] \in Nat
  BY <1>5 DEF Sums
<1>9. \A i \in 0 .. n : f[i] \in Nat
  BY <1>4 DEF Sums
<1>10. \A i \in 0 .. m : f[i + k] = f[k] + g[i]
  <2> DEFINE Bad == {i \in 0 .. m : f[i + k] # f[k] + g[i]}
  <2>1. Bad \in SUBSET Nat
    OBVIOUS
  <2>2. ASSUME Bad # {} PROVE FALSE
    <3>1. PICK i \in Bad : \A j \in Bad : i <= j
      <4> HIDE DEF Bad
      <4> QED
        BY <2>1, <2>2, LeastOf
    <3>2. f[k] \in Nat /\ 0 + k = k
      BY <1>3, <1>9
    <3>3. i # 0
      BY <1>8, <3>1, <3>2
    <3>4. /\ i \in 1 .. m /\ i - 1 \in 0 .. m /\ ~(i <= i - 1) /\ i + k \in 1 .. n
          /\ i + k - 1 \in 0 .. n /\ (i - 1) + k = i + k - 1
      BY <1>3, <3>3
    <3>5. f[i + k - 1] = f[k] + g[i - 1]
      <4>1. i - 1 \notin Bad
        BY <3>1, <3>4
      <4>2. f[(i - 1) + k] = f[k] + g[i - 1]
        BY <3>4, <4>1
      <4> QED
        BY <3>4, <4>2
    <3>6. f[i + k] = f[i + k - 1] + TotBytes(q[i + k])
      BY <1>6, <3>4
    <3>7. g[i] = g[i - 1] + TotBytes(q[i + k])
      BY <1>3, <1>7, <3>4
    <3>8. TotBytes(q[i + k]) \in Nat
      <4>1. q[i + k] \in Seq(Pkts)
        BY <1>1, <3>4, LenTypes
      <4> QED
        BY <4>1, TotType
    <3>9. g[i - 1] \in Nat
      BY <1>8, <3>4
    <3>10. f[i + k] = f[k] + g[i]
      <4>1. PICK a \in Nat, b \in Nat, t \in Nat : a = f[k] /\ b = g[i - 1] /\ t = TotBytes(q[i + k])
        BY <3>2, <3>8, <3>9
      <4>2. f[i + k] = (a + b) + t /\ g[i] = b + t
        BY ONLY <4>1, <3>5, <3>6, <3>7
      <4>3. (a + b) + t = a + (b + t)
        OBVIOUS
      <4> QED
        BY <4>1, <4>2, <4>3
    <3> QED
      BY <3>1, <3>10
  <2> QED
    BY <2>2
<1>11. m + k = n /\ m \in 0 .. m /\ n \in 0 .. n /\ k \in 0 .. n
  BY <1>3
<1>12. f[n] = f[k] + g[m]
  BY <1>10, <1>11
<1>13. Bytes(q) = f[n] /\ FirstBytes(q, k) = f[k] /\ Bytes(kept) = g[m]
  BY <1>1, <1>2, <1>4, <1>5, <1>11, FirstIsSum DEF Bytes
<1>14. f[k] \in Nat /\ g[m] \in Nat
  BY <1>8, <1>9, <1>11
<1> QED
  BY <1>12, <1>13, <1>14

Alike(hd, sg, n) == \A i \in 1 .. n : hd[i] = sg[i]

LEMMA SumsSame ==
  ASSUME NEW sg, NEW hd, NEW f, NEW g, NEW n \in Nat, NEW m \in Nat, n <= m,
         Sums(f, sg, n), Sums(g, hd, m), Alike(hd, sg, n)
  PROVE  f[n] = g[n]
<1>1. \A i \in 0 .. n : f[i] = g[i]
  <2> USE DEF Alike
  <2> QED
    BY SumsAgree
<1>2. n \in 0 .. n
  OBVIOUS
<1> QED
  BY <1>1, <1>2

LEMMA BytesAppend ==
  ASSUME NEW q \in Seq(Seq(Pkts)), NEW sg \in Seq(Pkts)
  PROVE  Bytes(Append(q, sg)) = Bytes(q) + TotBytes(sg)
<1>1. PICK n \in Nat : n = Len(q)
  BY LenTypes
<1>2. PICK h \in Seq(Seq(Pkts)) : h = Append(q, sg)
  BY AppendProperties
<1>3. Len(h) = n + 1 /\ h[n + 1] = sg /\ \A i \in 1 .. n : h[i] = q[i]
  BY <1>1, <1>2, AppendProperties
<1>4. PICK m \in Nat : m = n + 1
  OBVIOUS
<1>5. PICK f : Sums(f, Loads(q), n)
  BY <1>1, LoadsWeighed, SumsExist
<1>6. PICK g : Sums(g, Loads(h), m)
  BY <1>3, <1>4, LoadsWeighed, SumsExist
<1>7. f[n] = g[n]
  <2>1. ASSUME NEW i \in 1 .. n PROVE Loads(h)[i] = Loads(q)[i]
    <3>1. i \in 1 .. Len(h) /\ i \in 1 .. Len(q)
      BY <1>1, <1>3
    <3> QED
      BY <1>3, <3>1 DEF Loads
  <2>2. n <= m
    BY <1>4
  <2>3. Alike(Loads(h), Loads(q), n)
    BY <2>1 DEF Alike
  <2> QED
    BY <1>5, <1>6, <2>2, <2>3, SumsSame
<1>8. g[m] = g[n] + TotBytes(sg)
  <2>1. m \in 1 .. m /\ m - 1 = n /\ m \in 1 .. Len(h)
    BY <1>3, <1>4
  <2>2. Loads(h)[m].len = TotBytes(sg)
    BY <1>3, <1>4, <2>1, LoadsWeighed
  <2>3. g[m] = g[m - 1] + Loads(h)[m].len
    BY <1>6, <2>1 DEF Sums
  <2> QED
    BY <2>1, <2>2, <2>3
<1>9. Bytes(q) = f[n] /\ Bytes(h) = g[m]
  <2>1. n \in 0 .. n /\ m \in 0 .. m /\ m = Len(h)
    BY <1>3, <1>4
  <2> QED
    BY <1>1, <1>5, <1>6, <2>1, FirstIsSum DEF Bytes
<1> QED
  BY <1>2, <1>7, <1>8, <1>9

-----------------------------------------------------------------------------
(* What the code counts.                                                   *)

(* The counters of a queue are what is in it.                              *)
QueuesCounted ==
  \A r \in Rx : u32QueLen[r] = Len(stHead[r]) /\ u32Bytes[r] = Bytes(stHead[r])

CountInv ==
  /\ u32Bytes \in [Rx -> Nat] /\ u32QueLen \in [Rx -> Nat]
  /\ QueuesCounted

(* What FDD_QueueBufSg makes of the counters: the lists that stay, and the *)
(* list that the packet goes to, which is queued if the packet is an end.  *)
Counting(s, r, k, kept, sg) ==
  /\ Cut(kept, stHead[r], k) /\ sg = Append(Gathered(r), Pkt(s))
  /\ \/ /\ Pkt(s).end /\ pstSg' = [pstSg EXCEPT ![r] = << >>]
        /\ stHead' = [stHead EXCEPT ![r] = Append(kept, sg)]
        /\ u32Bytes' = [u32Bytes EXCEPT ![r] = BytesAfter(r, k) + TotBytes(sg)]
        /\ u32QueLen' = [u32QueLen EXCEPT ![r] = u32QueLen[r] - k + 1]
     \/ /\ ~Pkt(s).end /\ pstSg' = [pstSg EXCEPT ![r] = sg]
        /\ stHead' = [stHead EXCEPT ![r] = kept]
        /\ u32Bytes' = [u32Bytes EXCEPT ![r] = BytesAfter(r, k)]
        /\ u32QueLen' = [u32QueLen EXCEPT ![r] = u32QueLen[r] - k]

LEMMA GatheredType ==
  ASSUME ShapeInv, NEW r \in Rx
  PROVE  /\ Gathered(r) \in Seq(Pkts)
         /\ limit # 0 => TotBytes(Gathered(r)) <= limit
<1>1. pstSg[r] \in Seq(Pkts) /\ << >> \in Seq(Pkts)
  BY EmptySeq DEF ShapeInv
<1>2. TotBytes(pstSg[r]) \in Nat /\ TotBytes(<< >>) = 0 /\ limit \in Nat
  BY <1>1, TotType, NoBytes, SettingTypes
<1>3. CASE limit # 0 /\ TotBytes(pstSg[r]) > limit
  BY <1>1, <1>2, <1>3 DEF Gathered
<1>4. CASE ~(limit # 0 /\ TotBytes(pstSg[r]) > limit)
  <2>1. Gathered(r) = pstSg[r]
    BY <1>4 DEF Gathered
  <2> QED
    BY <1>1, <1>2, <1>4, <2>1
<1> QED
  BY <1>3, <1>4

LEMMA QueueCounting ==
  ASSUME ShapeInv, NEW s \in Snd, NEW r \in Rx, QueueBufSg(s, r)
  PROVE  \E k \in 0 .. Len(stHead[r]), kept \in Seq(Seq(Pkts)), sg \in Seq(Pkts) :
           k = Trim(r) /\ Counting(s, r, k, kept, sg)
<1>1. PICK k \in 0 .. Len(stHead[r]) : k = Trim(r)
  BY TrimRange
<1>2. PICK q \in Seq(Seq(Pkts)) : q = stHead[r]
  BY DEF ShapeInv
<1>3. PICK kept \in Seq(Seq(Pkts)) : kept = SubSeq(q, k + 1, Len(q)) /\ Cut(kept, q, k)
  <2>1. /\ SubSeq(q, k + 1, Len(q)) \in Seq(Seq(Pkts))
        /\ Len(SubSeq(q, k + 1, Len(q))) = Len(q) - k
        /\ \A i \in 1 .. Len(q) - k : SubSeq(q, k + 1, Len(q))[i] = q[i + k]
    BY <1>2, CutFront
  <2> QED
    BY <2>1 DEF Cut
<1>4. PICK sg \in Seq(Pkts) : sg = Append(Gathered(r), Pkt(s))
  BY GatheredType, QueueShape, AppendProperties
<1>5. \/ /\ Pkt(s).end /\ pstSg' = [pstSg EXCEPT ![r] = << >>]
         /\ stHead' = [stHead EXCEPT ![r] = Append(kept, sg)]
         /\ u32Bytes' = [u32Bytes EXCEPT ![r] = BytesAfter(r, k) + TotBytes(sg)]
         /\ u32QueLen' = [u32QueLen EXCEPT ![r] = u32QueLen[r] - k + 1]
      \/ /\ ~Pkt(s).end /\ pstSg' = [pstSg EXCEPT ![r] = sg]
         /\ stHead' = [stHead EXCEPT ![r] = kept]
         /\ u32Bytes' = [u32Bytes EXCEPT ![r] = BytesAfter(r, k)]
         /\ u32QueLen' = [u32QueLen EXCEPT ![r] = u32QueLen[r] - k]
  <2>1. CASE Pkt(s).end
    BY <1>1, <1>2, <1>3, <1>4, <2>1 DEF QueueBufSg, AddTail
  <2>2. CASE ~Pkt(s).end
    BY <1>1, <1>2, <1>3, <1>4, <2>2 DEF QueueBufSg
  <2> QED
    BY <2>1, <2>2
<1>6. Counting(s, r, k, kept, sg)
  BY <1>2, <1>3, <1>4, <1>5 DEF Counting
<1> QED
  BY <1>1, <1>6

LEMMA CountInit == Init => CountInv
<1> SUFFICES ASSUME Init PROVE CountInv
  OBVIOUS
<1>1. Len(<< >>) = 0 /\ Bytes(<< >>) = 0
  BY EmptySeq, NoLists
<1>2. u32Bytes \in [Rx -> Nat] /\ u32QueLen \in [Rx -> Nat]
  BY DEF Init
<1>3. ASSUME NEW r \in Rx PROVE u32QueLen[r] = Len(stHead[r]) /\ u32Bytes[r] = Bytes(stHead[r])
  <2>1. u32QueLen[r] = 0 /\ u32Bytes[r] = 0 /\ stHead[r] = << >>
    BY DEF Init
  <2> QED
    BY <1>1, <2>1
<1> QED
  BY <1>2, <1>3 DEF CountInv, QueuesCounted

(* What is left of the count when the first k lists go.                    *)
LEMMA AfterCut ==
  ASSUME ShapeInv, CountInv, NEW r \in Rx, NEW k \in 0 .. Len(stHead[r]),
         NEW kept \in Seq(Seq(Pkts)), Cut(kept, stHead[r], k)
  PROVE  /\ BytesAfter(r, k) = Bytes(kept) /\ u32QueLen[r] - k = Len(kept)
         /\ Bytes(kept) \in Nat /\ Len(kept) \in Nat
<1>1. PICK q \in Seq(Seq(Pkts)) : q = stHead[r]
  BY DEF ShapeInv
<1>2. u32QueLen[r] = Len(q) /\ u32Bytes[r] = Bytes(q)
  BY <1>1 DEF CountInv, QueuesCounted
<1>3. Len(kept) = Len(q) - k
  BY <1>1 DEF Cut
<1>4. Bytes(kept) = Bytes(q) - FirstBytes(q, k)
  BY <1>1, BytesCut
<1>5. Len(kept) \in Nat
  BY LenTypes
<1>6. Bytes(kept) \in Nat
  <2>1. Len(kept) \in 0 .. Len(kept)
    BY <1>5
  <2> QED
    BY <2>1, BytesType DEF Bytes
<1> QED
  BY <1>1, <1>2, <1>3, <1>4, <1>5, <1>6 DEF BytesAfter

(* The queue of r becomes h, counted as n bytes in m lists.                *)
Becomes(r, h, n, m) ==
  /\ stHead' = [stHead EXCEPT ![r] = h]
  /\ u32Bytes' = [u32Bytes EXCEPT ![r] = n] /\ u32QueLen' = [u32QueLen EXCEPT ![r] = m]

LEMMA BecomesCounted ==
  ASSUME ShapeInv, CountInv, NEW r \in Rx, NEW h, NEW n \in Nat, NEW m \in Nat,
         Becomes(r, h, n, m), m = Len(h), n = Bytes(h)
  PROVE  CountInv'
<1>1. /\ stHead \in [Rx -> Seq(Seq(Pkts))] /\ u32Bytes \in [Rx -> Nat] /\ u32QueLen \in [Rx -> Nat]
      /\ stHead' = [stHead EXCEPT ![r] = h] /\ u32Bytes' = [u32Bytes EXCEPT ![r] = n]
      /\ u32QueLen' = [u32QueLen EXCEPT ![r] = m]
  BY DEF ShapeInv, CountInv, Becomes
<1>2. u32Bytes' \in [Rx -> Nat] /\ u32QueLen' \in [Rx -> Nat]
  BY <1>1
<1>3. ASSUME NEW x \in Rx PROVE u32QueLen'[x] = Len(stHead'[x]) /\ u32Bytes'[x] = Bytes(stHead'[x])
  <2>1. CASE x = r
    <3>1. stHead'[x] = h /\ u32Bytes'[x] = n /\ u32QueLen'[x] = m
      BY <1>1, <2>1
    <3> QED
      BY <3>1
  <2>2. CASE x # r
    <3>1. stHead'[x] = stHead[x] /\ u32Bytes'[x] = u32Bytes[x] /\ u32QueLen'[x] = u32QueLen[x]
      BY <1>1, <2>2
    <3> QED
      BY <3>1 DEF CountInv, QueuesCounted
  <2> QED
    BY <2>1, <2>2
<1>4. QueuesCounted'
  BY <1>3 DEF QueuesCounted, Bytes
<1> QED
  BY <1>2, <1>4 DEF CountInv

LEMMA QueueCount ==
  ASSUME ShapeInv, CountInv, NEW s \in Snd, NEW r \in Rx, QueueBufSg(s, r)
  PROVE  CountInv'
<1>1. PICK k \in 0 .. Len(stHead[r]), kept \in Seq(Seq(Pkts)), sg \in Seq(Pkts) :
        k = Trim(r) /\ Counting(s, r, k, kept, sg)
  BY QueueCounting
<1>2. PICK b \in Nat, l \in Nat, t \in Nat :
        /\ b = Bytes(kept) /\ BytesAfter(r, k) = b /\ l = Len(kept) /\ u32QueLen[r] - k = l
        /\ t = TotBytes(sg)
  BY <1>1, AfterCut, TotType DEF Counting
<1>3. PICK q \in Seq(Seq(Pkts)) : q = Append(kept, sg) /\ Len(q) = l + 1 /\ Bytes(q) = b + t
  <2>1. /\ Append(kept, sg) \in Seq(Seq(Pkts)) /\ Len(Append(kept, sg)) = Len(kept) + 1
    BY AppendProperties
  <2>2. Bytes(Append(kept, sg)) = Bytes(kept) + TotBytes(sg)
    BY BytesAppend
  <2> QED
    BY <1>2, <2>1, <2>2
<1>4. PICK h \in Seq(Seq(Pkts)), n \in Nat, m \in Nat : Becomes(r, h, n, m) /\ m = Len(h) /\ n = Bytes(h)
  <2>1. CASE Pkt(s).end
    <3>1. Becomes(r, q, b + t, l + 1)
      BY <1>1, <1>2, <1>3, <2>1 DEF Counting, Becomes
    <3>2. b + t \in Nat /\ l + 1 \in Nat
      OBVIOUS
    <3> QED
      BY <1>3, <3>1, <3>2
  <2>2. CASE ~Pkt(s).end
    <3>1. Becomes(r, kept, b, l)
      BY <1>1, <1>2, <2>2 DEF Counting, Becomes
    <3> QED
      BY <1>2, <3>1
  <2> QED
    BY <2>1, <2>2
<1> QED
  BY <1>4, BecomesCounted

LEMMA FirstOne ==
  ASSUME NEW q \in Seq(Seq(Pkts)), 1 \in 1 .. Len(q)
  PROVE  FirstBytes(q, 1) = TotBytes(q[1])
<1>1. PICK n \in Nat : n = Len(q) /\ 1 \in 0 .. n /\ 1 \in 1 .. n
  BY LenTypes
<1>2. PICK f : Sums(f, Loads(q), n)
  BY <1>1, LoadsWeighed, SumsExist
<1>3. FirstBytes(q, 1) = f[1]
  BY <1>1, <1>2, FirstIsSum
<1>4. f[1] = f[0] + TotBytes(q[1]) /\ f[0] = 0
  <2>1. f[0] = 0 /\ f[1] = f[1 - 1] + Loads(q)[1].len
    BY <1>1, <1>2 DEF Sums
  <2>2. Loads(q)[1].len = TotBytes(q[1]) /\ 1 - 1 = 0
    BY <1>1, LoadsWeighed
  <2> QED
    BY <2>1, <2>2
<1>5. TotBytes(q[1]) \in Nat
  <2>1. q[1] \in Seq(Pkts)
    BY <1>1, LenTypes
  <2> QED
    BY <2>1, TotType
<1> QED
  BY <1>3, <1>4, <1>5

LEMMA GetCount ==
  ASSUME ShapeInv, CountInv, NEW r \in Rx, GetData(r), stHead[r] # << >>
  PROVE  /\ CountInv' /\ pstSg' = pstSg
         /\ \E n \in Nat : n <= u32Bytes[r] /\ u32Bytes' = [u32Bytes EXCEPT ![r] = n]
<1>1. PICK sg \in Seq(Pkts), q \in Seq(Seq(Pkts)) :
        /\ 1 \in 1 .. Len(stHead[r]) /\ sg = stHead[r][1] /\ stHead' = [stHead EXCEPT ![r] = q]
        /\ Len(q) = Len(stHead[r]) - 1 /\ \A i \in 1 .. Len(q) : q[i] = stHead[r][i + 1]
        /\ pstSg' = pstSg
  BY GetShape
<1>2. PICK p \in Seq(Seq(Pkts)) : p = stHead[r]
  BY DEF ShapeInv
<1>3. Cut(q, stHead[r], 1) /\ 1 \in 0 .. Len(stHead[r])
  BY <1>1, <1>2 DEF Cut
<1>4. PICK n \in Nat, m \in Nat :
        n = Bytes(q) /\ m = Len(q) /\ BytesAfter(r, 1) = n /\ u32QueLen[r] - 1 = m
  BY <1>3, AfterCut
<1>5. FirstBytes(stHead[r], 1) = TotBytes(sg) /\ TotBytes(sg) \in Nat
  BY <1>1, <1>2, FirstOne, TotType
<1>6. Head(stHead[r]) = sg
  BY <1>1, <1>2
<1>7. /\ u32Bytes' = [u32Bytes EXCEPT ![r] = u32Bytes[r] - TotBytes(sg)]
      /\ u32QueLen' = [u32QueLen EXCEPT ![r] = u32QueLen[r] - 1]
  BY <1>6 DEF GetData
<1>8. u32Bytes[r] \in Nat /\ u32Bytes[r] - TotBytes(sg) = n
  BY <1>4, <1>5 DEF BytesAfter, CountInv
<1>9. Becomes(r, q, n, m)
  BY <1>1, <1>4, <1>7, <1>8 DEF Becomes
<1>10. n <= u32Bytes[r] /\ u32Bytes' = [u32Bytes EXCEPT ![r] = n]
  <2>1. PICK a \in Nat, t \in Nat : a = u32Bytes[r] /\ t = TotBytes(sg)
    BY <1>5, <1>8
  <2>2. a - t = n
    BY <1>8, <2>1
  <2>3. n <= a
    BY ONLY <2>2, a \in Nat, t \in Nat, n \in Nat
  <2>4. u32Bytes' = [u32Bytes EXCEPT ![r] = n]
    BY <1>7, <1>8
  <2> QED
    BY <2>1, <2>3, <2>4
<1> QED
  BY <1>1, <1>4, <1>9, <1>10, BecomesCounted

(* The other steps leave the queues alone.                                 *)
LEMMA QueueCases ==
  ASSUME [Next]_vars
  PROVE  \/ \E s \in Snd, r \in Rx : QueueBufSg(s, r)
         \/ \E r \in Rx : GetData(r) /\ stHead[r] # << >>
         \/ UNCHANGED queueVars
<1>1. CASE \E s \in Snd, len \in setting.lens : PutData(s, len)
  BY <1>1 DEF PutData
<1>2. CASE \E s \in Snd : Send(s)
  <2>1. PICK s \in Snd : Send(s)
    BY <1>2
  <2>2. CASE PutFails(s) \/ \E room \in Rooms : PutPkt(s, room)
    <3>1. ASSUME NEW room \in Rooms, PutPkt(s, room) PROVE UNCHANGED queueVars
      BY <3>1, Zenon DEF PutPkt
    <3> QED
      BY <2>2, <3>1 DEF PutFails
  <2>3. CASE \E r \in Rx : QueueBufSg(s, r)
    BY <2>3
  <2>4. CASE (\E r \in Rx : DropPkt(s, r)) \/ Signal(s)
    BY <2>4 DEF DropPkt, Signal
  <2> QED
    BY <2>1, <2>2, <2>3, <2>4 DEF Send
<1>3. CASE \E r \in Rx : Poll(r) \/ Read(r)
  BY <1>3 DEF Poll, Read, PollCheck, PollWake
<1>4. CASE \E r \in Rx : GetData(r)
  BY <1>4 DEF GetData
<1>5. CASE \E s \in Snd, r \in Rx : Connect(s, r) \/ Disconnect(s, r)
  BY <1>5 DEF Connect, Disconnect
<1>6. CASE UNCHANGED vars
  BY <1>6 DEF vars
<1> QED
  BY <1>1, <1>2, <1>3, <1>4, <1>5, <1>6 DEF Next

LEMMA CountStep == ShapeInv /\ CountInv /\ [Next]_vars => CountInv'
<1> SUFFICES ASSUME ShapeInv, CountInv, [Next]_vars PROVE CountInv'
  OBVIOUS
<1>1. CASE UNCHANGED queueVars
  BY <1>1 DEF queueVars, CountInv, QueuesCounted, Bytes
<1> QED
  BY <1>1, QueueCases, QueueCount, GetCount

LEMMA CountHolds == Spec => [](BaseInv /\ CountInv)
<1>1. Init => BaseInv /\ CountInv
  BY BaseInit, CountInit
<1>2. BaseInv /\ CountInv /\ [Next]_vars => (BaseInv /\ CountInv)'
  BY BaseStep, CountStep DEF BaseInv
<1> QED
  BY <1>1, <1>2, PTL DEF Spec

(* However frames are gathered, queued, dropped at the limit and got, the  *)
(* counters a poll and the limit look at are the lists and the bytes that  *)
(* are in the queue; they are kept apart from it, added to and taken from  *)
(* at different places (fdd.c:124-160, 226-284).                           *)
THEOREM QueuesAreCounted == Spec => []QueuesCounted
<1>1. CountInv => QueuesCounted
  BY DEF CountInv
<1> QED
  BY <1>1, CountHolds, PTL

-----------------------------------------------------------------------------
(* What a queue holds at most.                                             *)

(* With a limit, a reader that never reads has no more than the limit and  *)
(* one list in its queue, and no more than the limit and one packet in the *)
(* list that is being gathered.                                            *)
QueuesBounded ==
  limit # 0 =>
    \A r \in Rx : /\ TotBytes(pstSg[r]) <= limit + MaxPktLen
                  /\ u32Bytes[r] <= 2 * limit + MaxPktLen

BoundInv == (\A s \in Snd : snd[s].cpy <= MaxPktLen) /\ QueuesBounded

LEMMA MaxType == MaxPktLen \in Nat
  BY LenAssumption

LEMMA BoundInit == Init => BoundInv
<1> SUFFICES ASSUME Init PROVE BoundInv
  OBVIOUS
<1>1. MaxPktLen \in Nat /\ limit \in Nat
  BY LenAssumption, SettingAssumption DEF Init, limit
<1>2. \A s \in Snd : snd[s].cpy = 0
  <2>1. Idle.cpy = 0
    BY DEF Idle
  <2>2. PICK i : i = Idle
    OBVIOUS
  <2>3. snd = [u \in Snd |-> i]
    BY <2>2 DEF Init
  <2> QED
    BY <2>1, <2>2, <2>3
<1>3. \A r \in Rx : TotBytes(pstSg[r]) = 0 /\ u32Bytes[r] = 0
  BY NoBytes DEF Init
<1>4. 0 <= limit + MaxPktLen /\ 0 <= 2 * limit + MaxPktLen /\ 0 <= MaxPktLen
  BY <1>1
<1> QED
  BY <1>2, <1>3, <1>4 DEF BoundInv, QueuesBounded

(* No packet is longer than a packet may be.                               *)
LEMMA PktFits ==
  ASSUME ShapeInv, NEW s \in Snd, Putting(s), snd[s].cpy <= MaxPktLen
  PROVE  snd'[s].cpy <= MaxPktLen
<1>0. MaxPktLen \in Nat /\ snd \in [Snd -> SndType] /\ \A c \in SndType : c.cpy \in Nat
  BY MaxType DEF ShapeInv, SndType
<1>1. ASSUME NEW c, c.cpy <= MaxPktLen, snd' = [snd EXCEPT ![s] = IF c.todo = {} THEN AfterPkt(c) ELSE c],
             c \in SndType
      PROVE  snd'[s].cpy <= MaxPktLen
  <2>1. AfterPkt(c).cpy \in {c.cpy, 0}
    BY <1>1 DEF AfterPkt, Idle, SndType
  <2>2. snd'[s] = IF c.todo = {} THEN AfterPkt(c) ELSE c
    BY <1>0, <1>1
  <2> QED
    BY <1>0, <1>1, <2>1, <2>2
<1>2. CASE \E len \in setting.lens : PutData(s, len)
  BY <1>0, <1>2 DEF PutData, Idle
<1>3. CASE PutFails(s)
  BY <1>0, <1>3 DEF PutFails, Idle
<1>4. CASE \E room \in Rooms : PutPkt(s, room)
  <2>1. PICK room \in Rooms : PutPkt(s, room)
    BY <1>4
  <2>2. PICK cpy : cpy = Least(Least(snd[s].left, room), MaxPktLen)
    OBVIOUS
  <2>3. cpy \in Nat /\ cpy <= MaxPktLen
    BY <2>2, LenAssumption DEF ShapeInv, SndType, Least
  <2>4. PICK c : c = [snd[s] EXCEPT !.pc = "fwd", !.cpy = cpy, !.held = FALSE, !.todo = Receivers(s)]
    OBVIOUS
  <2>5. c \in SndType /\ c.cpy = cpy
    <3>1. snd[s] \in SndType /\ Receivers(s) \in SUBSET Rx
      BY <1>0 DEF Receivers
    <3>2. PICK R \in SUBSET Rx : R = Receivers(s)
      BY <3>1
    <3> QED
      BY <2>3, <2>4, <3>1, <3>2 DEF SndType
  <2>6. snd' = [snd EXCEPT ![s] = IF c.todo = {} THEN AfterPkt(c) ELSE c]
    BY <2>1, <2>2, <2>4 DEF PutPkt
  <2> QED
    BY <1>1, <2>3, <2>5, <2>6
<1>5. CASE \E r \in Rx : DropPkt(s, r)
  <2>1. PICK r \in Rx : snd' = [snd EXCEPT ![s].pc = "signal", ![s].rx = r]
    BY <1>5 DEF DropPkt
  <2>2. snd'[s].cpy = snd[s].cpy
    BY <1>0, <2>1 DEF SndType
  <2> QED
    BY <2>2
<1>6. CASE Signal(s)
  <2>1. PICK c \in SndType : c.cpy = snd[s].cpy /\ Onward(s, c)
    BY <1>6, SignalForwards
  <2>2. snd' = [snd EXCEPT ![s] = IF c.todo = {} THEN AfterPkt(c) ELSE c]
    BY <2>1 DEF Onward
  <2> QED
    BY <1>1, <2>1, <2>2
<1> QED
  BY <1>2, <1>3, <1>4, <1>5, <1>6 DEF Putting

LEMMA QueueBound ==
  ASSUME ShapeInv, CountInv, BoundInv, NEW s \in Snd, NEW r \in Rx, QueueBufSg(s, r)
  PROVE  BoundInv'
<1>1. PICK k \in 0 .. Len(stHead[r]), kept \in Seq(Seq(Pkts)), sg \in Seq(Pkts) :
        k = Trim(r) /\ Counting(s, r, k, kept, sg)
  BY QueueCounting
<1>2. /\ UNCHANGED << setting, conn, got >> /\ snd'[s].cpy = snd[s].cpy
      /\ \A u \in Snd \ {s} : snd'[u] = snd[u]
  BY QueueSender
<1>3. \A u \in Snd : snd'[u].cpy <= MaxPktLen
  BY <1>2 DEF BoundInv
<1>4. limit' = limit
  BY <1>2 DEF limit
<1> SUFFICES ASSUME limit # 0
             PROVE  \A x \in Rx : /\ TotBytes(pstSg'[x]) <= limit + MaxPktLen
                                  /\ u32Bytes'[x] <= 2 * limit + MaxPktLen
  BY <1>3, <1>4 DEF BoundInv, QueuesBounded
<1>5. PICK M \in Nat, L \in Nat : M = MaxPktLen /\ L = limit
  BY MaxType, SettingTypes
<1>6. PICK b \in Nat, t \in Nat : b = Bytes(kept) /\ BytesAfter(r, k) = b /\ t = TotBytes(sg)
  BY <1>1, AfterCut, TotType DEF Counting
<1>7. t <= L + M
  <2>1. Pkt(s) \in Pkts /\ Gathered(r) \in Seq(Pkts) /\ sg = Append(Gathered(r), Pkt(s))
    BY <1>1, QueueShape, GatheredType DEF Counting
  <2>2. TotBytes(Gathered(r)) \in Nat /\ TotBytes(sg) = TotBytes(Gathered(r)) + Pkt(s).len
    BY <2>1, TotAppend
  <2>3. Pkt(s).len <= MaxPktLen /\ Pkt(s).len \in Nat
    <3>1. Pkt(s).len = snd[s].cpy
      BY DEF Pkt
    <3> QED
      BY <2>1, <3>1 DEF BoundInv, Pkts
  <2>4. TotBytes(Gathered(r)) <= limit
    BY GatheredType
  <2>5. PICK a \in Nat, c \in Nat : a = TotBytes(Gathered(r)) /\ c = Pkt(s).len
    BY <2>2, <2>3
  <2>6. t = a + c /\ a <= L /\ c <= M
    BY <1>5, <1>6, <2>2, <2>3, <2>4, <2>5
  <2>7. a + c <= L + M
    BY ONLY <2>6, a \in Nat, c \in Nat, L \in Nat, M \in Nat
  <2> QED
    BY <2>6, <2>7
<1>8. b <= L
  <2>1. CASE k = Len(stHead[r])
    <3>1. Len(kept) = 0
      <4>1. Len(stHead[r]) \in Nat
        BY LenTypes DEF ShapeInv
      <4> QED
        BY <1>1, <2>1, <4>1 DEF Counting, Cut
    <3>2. kept = << >>
      BY <3>1, EmptySeq
    <3>3. b = 0
      BY <1>6, <3>2, NoLists
    <3> QED
      BY <3>3
  <2>2. CASE ~Over(r, k)
    BY <1>5, <1>6, <2>2 DEF Over, BytesAfter
  <2> QED
    BY <1>1, <2>1, <2>2, TrimRange
<1>9. b <= 2 * L + M /\ b + t <= 2 * L + M /\ 0 <= L + M
  BY <1>7, <1>8
<1>10. /\ pstSg \in [Rx -> Seq(Pkts)] /\ u32Bytes \in [Rx -> Nat]
  BY DEF ShapeInv, CountInv
<1>11. ASSUME NEW x \in Rx PROVE TotBytes(pstSg'[x]) <= L + M /\ u32Bytes'[x] <= 2 * L + M
  <2>1. CASE x # r
    <3>1. pstSg'[x] = pstSg[x] /\ u32Bytes'[x] = u32Bytes[x]
      BY <1>1, <1>10, <2>1 DEF Counting
    <3>2. TotBytes(pstSg[x]) <= limit + MaxPktLen /\ u32Bytes[x] <= 2 * limit + MaxPktLen
      BY DEF BoundInv, QueuesBounded
    <3> QED
      BY <1>5, <3>1, <3>2
  <2>2. CASE x = r /\ Pkt(s).end
    <3>1. pstSg'[x] = << >> /\ u32Bytes'[x] = b + t
      BY <1>1, <1>6, <1>10, <2>2 DEF Counting
    <3> QED
      BY <1>9, <3>1, NoBytes
  <2>3. CASE x = r /\ ~Pkt(s).end
    <3>1. pstSg'[x] = sg /\ u32Bytes'[x] = b
      BY <1>1, <1>6, <1>10, <2>3 DEF Counting
    <3> QED
      BY <1>6, <1>7, <1>9, <3>1
  <2> QED
    BY <2>1, <2>2, <2>3
<1> QED
  BY <1>5, <1>11

LEMMA GetBound ==
  ASSUME ShapeInv, CountInv, BoundInv, NEW r \in Rx, GetData(r), stHead[r] # << >>
  PROVE  BoundInv'
<1>1. UNCHANGED << setting, snd >>
  BY DEF GetData
<1>2. PICK n \in Nat : n <= u32Bytes[r] /\ u32Bytes' = [u32Bytes EXCEPT ![r] = n]
  BY GetCount
<1>3. pstSg' = pstSg /\ limit' = limit
  BY <1>1, GetCount DEF limit
<1> SUFFICES ASSUME limit # 0, NEW x \in Rx PROVE u32Bytes'[x] <= 2 * limit + MaxPktLen
  BY <1>1, <1>3 DEF BoundInv, QueuesBounded
<1>4. PICK M \in Nat, L \in Nat : M = MaxPktLen /\ L = limit
  BY MaxType, SettingTypes
<1>5. u32Bytes \in [Rx -> Nat] /\ u32Bytes[x] <= 2 * L + M
  BY <1>4 DEF BoundInv, QueuesBounded, CountInv
<1>6. CASE x = r
  <2>1. u32Bytes'[x] = n
    BY <1>2, <1>5, <1>6
  <2> QED
    BY <1>2, <1>4, <1>5, <1>6, <2>1
<1>7. CASE x # r
  BY <1>2, <1>4, <1>5, <1>7
<1> QED
  BY <1>6, <1>7

LEMMA BoundStep == ShapeInv /\ CountInv /\ BoundInv /\ [Next]_vars => BoundInv'
<1> SUFFICES ASSUME ShapeInv, CountInv, BoundInv, [Next]_vars PROVE BoundInv'
  OBVIOUS
<1>1. CASE UNCHANGED queueVars /\ UNCHANGED << setting, snd >>
  BY <1>1 DEF queueVars, BoundInv, QueuesBounded, limit
<1>2. CASE UNCHANGED queueVars /\ setting' = setting /\ \E s \in Snd : Putting(s)
  <2>1. PICK s \in Snd : Putting(s)
    BY <1>2
  <2>2. \A u \in Snd \ {s} : snd'[u] = snd[u]
    BY <2>1, PuttingCases
  <2>3. snd'[s].cpy <= MaxPktLen
    BY <2>1, PktFits DEF BoundInv
  <2>4. \A u \in Snd : snd'[u].cpy <= MaxPktLen
    BY <2>2, <2>3 DEF BoundInv
  <2>5. UNCHANGED << pstSg, u32Bytes, limit >>
    BY <1>2 DEF queueVars, limit
  <2> QED
    BY <2>4, <2>5 DEF BoundInv, QueuesBounded
<1>3. ASSUME Quiet PROVE snd' = snd
  BY <1>3 DEF Quiet
<1> QED
  BY <1>1, <1>2, <1>3, NextCases, QueueCases, QueueBound, GetBound

(* u32LimitLen bounds the memory that a slow or absent reader ties up: the *)
(* queue is trimmed before a list is added, so it may pass the limit by    *)
(* one list, which itself may pass it by one packet (fdd.c:226-284).       *)
THEOREM QueuesAreBounded == Spec => []QueuesBounded
<1>1. Init => BaseInv /\ CountInv /\ BoundInv
  BY BaseInit, CountInit, BoundInit
<1>2. BaseInv /\ CountInv /\ BoundInv /\ [Next]_vars => (BaseInv /\ CountInv /\ BoundInv)'
  BY BaseStep, CountStep, BoundStep DEF BaseInv
<1>3. BoundInv => QueuesBounded
  BY DEF BoundInv
<1> QED
  BY <1>1, <1>2, <1>3, PTL DEF Spec

-----------------------------------------------------------------------------
(* Types.                                                                  *)

(* Frames are put up to MaxFrame, and packets are of frames that were put. *)
NumberedInv ==
  /\ \A s \in Snd : snd[s].n <= MaxFrame
  /\ \A r \in Rx : /\ Upto(pstSg[r], MaxFrame) /\ Upto(got[r], MaxFrame)
                   /\ \A i \in 1 .. Len(stHead[r]) : Upto(stHead[r][i], MaxFrame)

ReaderInv ==
  /\ conn \subseteq Snd \X Rx
  /\ rdr \in [Rx -> {"idle", "poll", "sleep", "ready"}] /\ woken \in [Rx -> BOOLEAN]
  /\ res \in [Rx -> {"none", "ENODATA", "ENOMEM", "frame", "empty"}]

LEMMA UptoAppend ==
  ASSUME NEW old \in Seq(Pkts), NEW p \in Pkts, NEW n, Upto(old, n), p.frame <= n
  PROVE  Upto(Append(old, p), n)
<1>1. PICK sg \in Seq(Pkts) : sg = Append(old, p)
  BY AppendProperties
<1>2. PICK m \in Nat : m = Len(old)
  BY LenTypes
<1>3. Len(sg) = m + 1 /\ sg[m + 1] = p /\ \A i \in 1 .. m : sg[i] = old[i]
  BY <1>1, <1>2, AppendProperties
<1>4. \A i \in 1 .. m + 1 : i \in 1 .. m \/ i = m + 1
  OBVIOUS
<1>5. \A i \in 1 .. m : old[i].frame <= n
  BY <1>2 DEF Upto
<1>6. \A i \in 1 .. m + 1 : sg[i].frame <= n
  BY <1>3, <1>4, <1>5
<1>7. Upto(sg, n)
  BY <1>3, <1>6 DEF Upto
<1> QED
  BY <1>1, <1>7

LEMMA UptoNone == \A n : Upto(<< >>, n)
<1>1. \A i \in 1 .. Len(<< >>) : FALSE
  BY EmptySeq
<1> QED
  BY <1>1 DEF Upto

LEMMA MaxFrameType == MaxFrame \in Nat
  BY LenAssumption

LEMMA NumberedInit == Init => NumberedInv
<1> SUFFICES ASSUME Init PROVE NumberedInv
  OBVIOUS
<1>1. \A s \in Snd : snd[s].n = 0
  <2>1. Idle.n = 0
    BY DEF Idle
  <2>2. PICK i : i = Idle
    OBVIOUS
  <2>3. snd = [u \in Snd |-> i]
    BY <2>2 DEF Init
  <2> QED
    BY <2>1, <2>2, <2>3
<1>2. \A r \in Rx : pstSg[r] = << >> /\ got[r] = << >> /\ stHead[r] = << >>
  BY DEF Init
<1>3. \A i \in 1 .. Len(<< >>) : FALSE
  BY EmptySeq
<1>4. 0 <= MaxFrame
  BY MaxFrameType
<1>5. ASSUME NEW s \in Snd PROVE snd[s].n <= MaxFrame
  <2>1. snd[s].n = 0
    BY <1>1
  <2> QED
    BY <1>4, <2>1
<1>6. ASSUME NEW r \in Rx
      PROVE  /\ Upto(pstSg[r], MaxFrame) /\ Upto(got[r], MaxFrame)
             /\ \A i \in 1 .. Len(stHead[r]) : Upto(stHead[r][i], MaxFrame)
  BY <1>2, <1>3, UptoNone
<1> QED
  BY <1>5, <1>6 DEF NumberedInv

LEMMA NumberedPutting ==
  ASSUME ShapeInv, NumberedInv, NEW s \in Snd, Putting(s)
  PROVE  NumberedInv'
<1>1. UNCHANGED << pstSg, stHead, got >> /\ \A u \in Snd \ {s} : snd'[u] = snd[u]
  BY PuttingCases
<1>2. snd[s].n \in Nat /\ snd[s].n <= MaxFrame /\ MaxFrame \in Nat
  BY MaxFrameType DEF ShapeInv, SndType, NumberedInv
<1>3. CASE snd[s].pc = "idle" /\ snd'[s].n = snd[s].n + 1
  <2>1. \E len \in setting.lens : PutData(s, len)
    BY <1>3 DEF Putting, PutFails, PutPkt, DropPkt, Signal
  <2>2. snd[s].n < setting.frames
    BY <2>1 DEF PutData
  <2>3. setting.frames \in 0 .. MaxFrame
    BY SettingAssumption DEF ShapeInv
  <2>4. snd[s].n + 1 <= MaxFrame
    BY <1>2, <2>2, <2>3
  <2> QED
    BY <1>1, <1>3, <2>4 DEF NumberedInv
<1>4. CASE snd'[s].n = snd[s].n
  BY <1>1, <1>4 DEF NumberedInv
<1> QED
  BY <1>3, <1>4, PutNumbers

LEMMA NumberedQueue ==
  ASSUME ShapeInv, NumberedInv, NEW s \in Snd, NEW r \in Rx, QueueBufSg(s, r)
  PROVE  NumberedInv'
<1>1. PICK k \in 0 .. Len(stHead[r]), old \in Old(r), kept \in Seq(Seq(Pkts)), sg \in Seq(Pkts) :
        Queued(s, r, k, old, kept, sg)
  BY QueueShape
<1>2. UNCHANGED << setting, conn, got >> /\ snd'[s].n = snd[s].n /\ \A u \in Snd \ {s} : snd'[u] = snd[u]
  BY QueueSender
<1>3. Pkt(s) \in Pkts /\ Pkt(s).frame <= MaxFrame
  BY QueueShape DEF Pkt, NumberedInv
<1>4. Upto(sg, MaxFrame)
  <2>1. Upto(old, MaxFrame)
    BY UptoNone DEF Old, NumberedInv
  <2>2. sg = Append(old, Pkt(s)) /\ old \in Seq(Pkts)
    BY <1>1 DEF Queued
  <2> QED
    BY <1>3, <2>1, <2>2, UptoAppend
<1>5. ASSUME NEW i \in 1 .. Len(kept) PROVE Upto(kept[i], MaxFrame)
  <2>1. Len(stHead[r]) \in Nat
    BY LenTypes DEF ShapeInv
  <2>2. kept[i] = stHead[r][i + k] /\ i + k \in 1 .. Len(stHead[r])
    BY <1>1, <2>1 DEF Queued
  <2> QED
    BY <2>2 DEF NumberedInv
<1>6. ASSUME NEW x \in Rx
      PROVE  Upto(pstSg'[x], MaxFrame) /\ \A i \in 1 .. Len(stHead'[x]) : Upto(stHead'[x][i], MaxFrame)
  <2>0. pstSg \in [Rx -> Seq(Pkts)] /\ stHead \in [Rx -> Seq(Seq(Pkts))]
    BY DEF ShapeInv
  <2>1. CASE x # r
    <3>1. pstSg'[x] = pstSg[x] /\ stHead'[x] = stHead[x]
      BY <1>1, <2>0, <2>1 DEF Queued
    <3> QED
      BY <3>1 DEF NumberedInv
  <2>2. CASE x = r /\ ~Pkt(s).end
    <3>1. pstSg'[x] = sg /\ stHead'[x] = kept
      BY <1>1, <2>0, <2>2 DEF Queued
    <3> QED
      BY <1>4, <1>5, <3>1
  <2>3. CASE x = r /\ Pkt(s).end
    <3>1. stHead'[x] = Append(kept, sg) /\ pstSg'[x] = << >>
      BY <1>1, <2>0, <2>3 DEF Queued
    <3>2. /\ Len(Append(kept, sg)) = Len(kept) + 1 /\ Append(kept, sg)[Len(kept) + 1] = sg
          /\ \A i \in 1 .. Len(kept) : Append(kept, sg)[i] = kept[i]
      BY AppendProperties
    <3>3. \A i \in 1 .. Len(kept) + 1 : i \in 1 .. Len(kept) \/ i = Len(kept) + 1
      BY LenTypes
    <3> QED
      BY <1>4, <1>5, <3>1, <3>2, <3>3, UptoNone
  <2> QED
    BY <2>1, <2>2, <2>3
<1>7. \A u \in Snd : snd'[u].n <= MaxFrame
  BY <1>2 DEF NumberedInv
<1> QED
  BY <1>2, <1>6, <1>7 DEF NumberedInv

LEMMA NumberedGet ==
  ASSUME ShapeInv, NumberedInv, NEW r \in Rx, GetData(r), stHead[r] # << >>
  PROVE  NumberedInv'
<1>1. PICK sg \in Seq(Pkts), q \in Seq(Seq(Pkts)) :
        /\ 1 \in 1 .. Len(stHead[r]) /\ sg = stHead[r][1] /\ stHead' = [stHead EXCEPT ![r] = q]
        /\ Len(q) = Len(stHead[r]) - 1 /\ \A i \in 1 .. Len(q) : q[i] = stHead[r][i + 1]
        /\ \/ Result(sg).res = "frame" /\ got' = [got EXCEPT ![r] = Result(sg).out]
           \/ got' = got
        /\ pstSg' = pstSg /\ snd' = snd
  BY GetShape
<1>2. Result(sg).res = "frame" => Upto(Result(sg).out, MaxFrame)
  <2> SUFFICES ASSUME Result(sg).res = "frame" PROVE Upto(Result(sg).out, MaxFrame)
    OBVIOUS
  <2>1. PICK i \in 1 .. Len(sg) : \E j \in 1 .. i : Result(sg).out = SubSeq(sg, j, i)
    BY ResultIsRun
  <2>2. PICK j \in 1 .. i : Result(sg).out = SubSeq(sg, j, i)
    BY <2>1
  <2>3. /\ Len(SubSeq(sg, j, i)) = i - j + 1
        /\ \A k \in 1 .. i - j + 1 : SubSeq(sg, j, i)[k] = sg[j + k - 1]
    BY PartOf
  <2>4. Len(sg) \in Nat /\ Upto(sg, MaxFrame)
    BY <1>1, LenTypes DEF NumberedInv
  <2>5. \A k \in 1 .. i - j + 1 : j + k - 1 \in 1 .. Len(sg)
    BY <2>4
  <2> QED
    BY <2>2, <2>3, <2>4, <2>5 DEF Upto
<1>3. ASSUME NEW i \in 1 .. Len(q) PROVE Upto(q[i], MaxFrame)
  <2>1. Len(stHead[r]) \in Nat
    BY LenTypes DEF ShapeInv
  <2>2. i + 1 \in 1 .. Len(stHead[r]) /\ q[i] = stHead[r][i + 1]
    BY <1>1, <2>1
  <2> QED
    BY <2>2 DEF NumberedInv
<1>4. \A x \in Rx : Upto(got'[x], MaxFrame)
  BY <1>1, <1>2 DEF ShapeInv, NumberedInv
<1>5. \A x \in Rx : \A i \in 1 .. Len(stHead'[x]) : Upto(stHead'[x][i], MaxFrame)
  BY <1>1, <1>3 DEF ShapeInv, NumberedInv
<1> QED
  BY <1>1, <1>4, <1>5 DEF NumberedInv

LEMMA NumberedStep == ShapeInv /\ NumberedInv /\ [Next]_vars => NumberedInv'
<1> SUFFICES ASSUME ShapeInv, NumberedInv, [Next]_vars PROVE NumberedInv'
  OBVIOUS
<1>1. CASE Quiet
  BY <1>1 DEF Quiet, NumberedInv
<1> QED
  BY <1>1, NextCases, NumberedPutting, NumberedQueue, NumberedGet

LEMMA ReaderInit == Init => ReaderInv
<1> SUFFICES ASSUME Init PROVE ReaderInv
  OBVIOUS
<1>1. conn \subseteq Snd \X Rx
  BY DEF Init
<1>2. /\ rdr \in [Rx -> {"idle", "poll", "sleep", "ready"}] /\ woken \in [Rx -> BOOLEAN]
      /\ res \in [Rx -> {"none", "ENODATA", "ENOMEM", "frame", "empty"}]
  BY DEF Init
<1> QED
  BY <1>1, <1>2 DEF ReaderInv

LEMMA ReaderStep == ReaderInv /\ [Next]_vars => ReaderInv'
<1> SUFFICES ASSUME ReaderInv, [Next]_vars PROVE ReaderInv'
  OBVIOUS
<1>1. CASE \E s \in Snd, len \in setting.lens : PutData(s, len)
  BY <1>1 DEF PutData, rdrVars, ReaderInv
<1>2. ASSUME NEW s \in Snd, Send(s) PROVE ReaderInv'
  <2>1. CASE PutFails(s)
    BY <2>1 DEF PutFails, rdrVars, ReaderInv
  <2>2. ASSUME NEW room \in Rooms, PutPkt(s, room) PROVE ReaderInv'
    <3>1. UNCHANGED << conn, rdrVars >>
      BY <2>2, Zenon DEF PutPkt
    <3> QED
      BY <3>1 DEF rdrVars, ReaderInv
  <2>3. ASSUME NEW r \in Rx, QueueBufSg(s, r) \/ DropPkt(s, r) PROVE ReaderInv'
    BY <2>3 DEF QueueBufSg, DropPkt, rdrVars, ReaderInv
  <2>4. CASE Signal(s)
    <3>1. UNCHANGED << conn, rdr, res >>
      BY <2>4 DEF Signal
    <3>2. woken' \in [Rx -> BOOLEAN]
      BY <2>4 DEF Signal, ReaderInv
    <3> QED
      BY <3>1, <3>2 DEF ReaderInv
  <2> QED
    BY <1>2, <2>1, <2>2, <2>3, <2>4 DEF Send
<1>3. ASSUME NEW r \in Rx, Poll(r) \/ Read(r) PROVE ReaderInv'
  BY <1>3 DEF Poll, Read, PollCheck, PollWake, ReaderInv
<1>4. ASSUME NEW r \in Rx, GetData(r) PROVE ReaderInv'
  <2>1. /\ UNCHANGED << conn, woken >> /\ rdr' \in [Rx -> {"idle", "poll", "sleep", "ready"}]
    BY <1>4 DEF GetData, ReaderInv
  <2>2. \A sg : Result(sg).res \in {"ENOMEM", "frame", "empty"}
    BY DEF Result
  <2>3. PICK x \in {"ENODATA", "ENOMEM", "frame", "empty"} : res' = [res EXCEPT ![r] = x]
    BY <1>4, <2>2 DEF GetData
  <2> QED
    BY <2>1, <2>3 DEF ReaderInv
<1>5. ASSUME NEW s \in Snd, NEW r \in Rx, Connect(s, r) \/ Disconnect(s, r) PROVE ReaderInv'
  BY <1>5 DEF Connect, Disconnect, rdrVars, ReaderInv
<1>6. CASE UNCHANGED vars
  BY <1>6 DEF vars, rdrVars, ReaderInv
<1> QED
  BY <1>1, <1>2, <1>3, <1>4, <1>5, <1>6 DEF Next

LEMMA PktTypes ==
  ASSUME NEW sg \in Seq(Pkts), NEW C, From(sg, C), Upto(sg, MaxFrame)
  PROVE  \A i \in 1 .. Len(sg) : sg[i] \in PktType
<1> SUFFICES ASSUME NEW i \in 1 .. Len(sg) PROVE sg[i] \in PktType
  OBVIOUS
<1>1. PICK p \in Pkts : p = sg[i]
  BY LenTypes
<1>2. p.frame # 0 /\ p.frame <= MaxFrame /\ p.frame \in Nat /\ MaxFrame \in Nat
  BY <1>1, MaxFrameType DEF From, Upto, Pkts
<1>3. p.frame \in 1 .. MaxFrame
  BY <1>2
<1> QED
  BY <1>1, <1>3 DEF Pkts, PktType

(* The states are those the fields of the code can hold: a packet is one   *)
(* of a frame that was put, and the counters never go below zero           *)
(* (u32Bytes and u32QueLen are unsigned: fdd.c:124-160, 226-284).          *)
THEOREM ChannelTypes == Spec => []TypeOK
<1>1. Init => BaseInv /\ CountInv /\ NumberedInv /\ ReaderInv
  BY BaseInit, CountInit, NumberedInit, ReaderInit
<1>2. BaseInv /\ CountInv /\ NumberedInv /\ ReaderInv /\ [Next]_vars =>
        (BaseInv /\ CountInv /\ NumberedInv /\ ReaderInv)'
  BY BaseStep, CountStep, NumberedStep, ReaderStep DEF BaseInv
<1>3. BaseInv /\ CountInv /\ NumberedInv /\ ReaderInv => TypeOK
  <2> SUFFICES ASSUME BaseInv, CountInv, NumberedInv, ReaderInv PROVE TypeOK
    OBVIOUS
  <2>1. ASSUME NEW s \in Snd
        PROVE  /\ snd[s].pc \in {"idle", "pkt", "fwd", "signal"} /\ snd[s].n \in 0 .. MaxFrame
               /\ snd[s].left \in Nat /\ snd[s].seq \in Nat
               /\ snd[s].cpy \in Nat /\ snd[s].held \in BOOLEAN
               /\ snd[s].todo \subseteq Rx /\ snd[s].rx \in Rx \cup {NoRx}
    <3>1. snd[s] \in SndType /\ snd[s].n <= MaxFrame /\ MaxFrame \in Nat
      BY MaxFrameType DEF BaseInv, ShapeInv, NumberedInv
    <3> QED
      BY <3>1 DEF SndType
  <2>2. ASSUME NEW r \in Rx
        PROVE  /\ \A i \in 1 .. Len(pstSg[r]) : pstSg[r][i] \in PktType
               /\ \A i \in 1 .. Len(stHead[r]) :
                    \A j \in 1 .. Len(stHead[r][i]) : stHead[r][i][j] \in PktType
               /\ \A i \in 1 .. Len(got[r]) : got[r][i] \in PktType
    <3>1. pstSg[r] \in Seq(Pkts) /\ got[r] \in Seq(Pkts)
      BY DEF BaseInv, ShapeInv
    <3>2. From(pstSg[r], chans) /\ From(got[r], chans) /\ Upto(pstSg[r], MaxFrame) /\ Upto(got[r], MaxFrame)
      BY DEF BaseInv, BusyInv, NumberedInv
    <3>3. ASSUME NEW i \in 1 .. Len(stHead[r])
          PROVE  \A j \in 1 .. Len(stHead[r][i]) : stHead[r][i][j] \in PktType
      <4>1. PICK sg \in Seq(Pkts) : sg = stHead[r][i]
        BY LenTypes DEF BaseInv, ShapeInv
      <4>2. From(sg, chans) /\ Upto(sg, MaxFrame)
        BY <4>1 DEF BaseInv, BusyInv, NumberedInv
      <4> QED
        BY <4>1, <4>2, PktTypes
    <3> QED
      BY <3>1, <3>2, <3>3, PktTypes
  <2>3. ASSUME NEW r \in Rx
        PROVE  /\ u32Bytes[r] \in Nat /\ u32QueLen[r] \in Nat
               /\ rdr[r] \in {"idle", "poll", "sleep", "ready"} /\ woken[r] \in BOOLEAN
               /\ res[r] \in {"none", "ENODATA", "ENOMEM", "frame", "empty"}
    BY DEF CountInv, ReaderInv
  <2>4. conn \subseteq Snd \X Rx
    BY DEF ReaderInv
  <2> QED
    BY <2>1, <2>2, <2>3, <2>4 DEF TypeOK
<1> QED
  BY <1>1, <1>2, <1>3, PTL DEF Spec
=============================================================================
