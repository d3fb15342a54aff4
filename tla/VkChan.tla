------------------------------- MODULE VkChan -------------------------------
(***************************************************************************)
(* The frame path through the kernel channels (src/kern/chan/vk_chan.c and *)
(* the queue of src/kern/fdd/fdd.c).                                       *)
(*                                                                         *)
(* A process puts a frame into a channel (PUT_DATA); the kernel cuts it    *)
(* into packets, numbers them from 0, marks the first and the last, and    *)
(* forwards each one to the channels that are connected.  A receiving      *)
(* channel gathers packets into a list (FDD_BUF_SG_S) up to one that is    *)
(* marked as the last, and queues the list.  Its reader polls the channel  *)
(* and puts the frame together again (GET_DATA).                           *)
(*                                                                         *)
(* A packet stands for its header; "frame" says whose data it carries, the *)
(* code does not know it.  The spin lock of the queue makes one action of  *)
(* FDD_QueueBufSg and one of FDD_SgDequeue; a list that was dequeued       *)
(* belongs to the reader, so the rest of GET_DATA is in the same action.   *)
(***************************************************************************)
EXTENDS Integers, Sequences

CONSTANTS
  Snd,        (* channels that frames are put into                        *)
  Rx,         (* channels that frames are got from                        *)
  NoRx,       (* no channel                                               *)
  Rooms,      (* bytes of data a private buffer has room for              *)
  MaxPktLen,  (* VA_MAX_ES_PKT_LEN                                        *)
  MaxFrame,   (* bound on the frames put into a channel                   *)
  Settings    (* the channels in use, what may go wrong, u32LimitLen (0   *)
              (* for no limit), the length of the readers' buffers, the   *)
              (* lengths of frames, and how many are put (a bound)        *)

ASSUME LenAssumption ==
  /\ Rooms \subseteq Nat \ {0} /\ MaxPktLen \in Nat \ {0} /\ MaxFrame \in Nat
ASSUME SettingAssumption == \A c \in Settings :
  /\ c.chans \subseteq Snd \cup Rx /\ c.limit \in Nat /\ c.usr \in Nat
  /\ c.lens \subseteq Nat \ {0} /\ c.frames \in 0 .. MaxFrame
  /\ c.faults \subseteq
    {"put",       (* no buffer, or the user's memory faults                *)
     "hold",      (* no memory for another buffer header                   *)
     "sg",        (* no memory for an FDD_BUF_SG_S                         *)
     "reconnect"} (* channels are (dis)connected meanwhile                 *)
ASSUME NoRxAssumption == NoRx \notin Rx

VARIABLES
  setting,   (* the setting of this behaviour                             *)
  snd,       (* the PUT_DATA call in progress on a channel                *)
  conn,      (* pairs << sender, receiver >> that are connected           *)
  pstSg,     (* the list a receiver is gathering, << >> for NULL          *)
  stHead,    (* the lists queued for a reader                             *)
  u32Bytes,  (* bytes in stHead, as the code counts them                  *)
  u32QueLen, (* lists in stHead, as the code counts them                  *)
  rdr,       (* the poll of a reader                                      *)
  woken,     (* it was woken since it registered                          *)
  res,       (* what the last GET_DATA of a reader returned               *)
  got        (* the packets of the last frame a reader got                *)

queueVars == << pstSg, stHead, u32Bytes, u32QueLen >>
rdrVars   == << rdr, woken, res, got >>
vars == << setting, snd, conn, queueVars, rdrVars >>

chans  == setting.chans
faults == setting.faults
limit  == setting.limit
usrLen == setting.usr

Idle == [pc |-> "idle", n |-> 0, left |-> 0, seq |-> 0,
         cpy |-> 0, todo |-> {}, held |-> FALSE, rx |-> NoRx]

Least(a, b) == IF a <= b THEN a ELSE b

(* u32TotBytes                                                             *)
TotBytes(sg) ==
  LET sum[i \in 0 .. Len(sg)] == IF i = 0 THEN 0 ELSE sum[i - 1] + sg[i].len
  IN sum[Len(sg)]

(* The bytes of the first k lists of q.                                    *)
FirstBytes(q, k) ==
  LET sum[i \in 0 .. k] == IF i = 0 THEN 0 ELSE sum[i - 1] + TotBytes(q[i])
  IN sum[k]

Init ==
  /\ setting \in Settings
  /\ snd       = [s \in Snd |-> Idle]
  /\ conn      = (Snd \cap chans) \X (Rx \cap chans)
  /\ pstSg     = [r \in Rx |-> << >>]
  /\ stHead    = [r \in Rx |-> << >>]
  /\ u32Bytes  = [r \in Rx |-> 0]
  /\ u32QueLen = [r \in Rx |-> 0]
  /\ rdr       = [r \in Rx |-> "idle"]
  /\ woken     = [r \in Rx |-> FALSE]
  /\ res       = [r \in Rx |-> "none"]
  /\ got       = [r \in Rx |-> << >>]

----------------------------------------------------------------------------
(***************************************************************************)
(* PUT_DATA.                                                               *)
(***************************************************************************)
PutData(s, len) ==
  /\ s \in chans /\ snd[s].pc = "idle"
  /\ snd[s].n < setting.frames                            \* bound
  /\ snd' = [snd EXCEPT ![s] = [Idle EXCEPT !.pc = "pkt", !.n = snd[s].n + 1,
                                            !.left = len]]
  /\ UNCHANGED << setting, conn, queueVars, rdrVars >>

(* No private buffer, or copy_from_user failed: the call returns and the   *)
(* packets before stay where they are.                                     *)
PutFails(s) ==
  /\ snd[s].pc = "pkt" /\ "put" \in faults
  /\ snd' = [snd EXCEPT ![s] = [Idle EXCEPT !.n = snd[s].n]]
  /\ UNCHANGED << setting, conn, queueVars, rdrVars >>

(* The loop goes on with the next packet, or the call is over.             *)
AfterPkt(c) ==
  IF c.left > c.cpy
  THEN [c EXCEPT !.pc = "pkt", !.left = c.left - c.cpy, !.seq = c.seq + 1,
                 !.todo = {}, !.rx = NoRx]
  ELSE [Idle EXCEPT !.n = c.n]

Receivers(s) == {r \in Rx : << s, r >> \in conn}

(* One packet is filled, and FDD_FwdBufData starts on the connected ports. *)
PutPkt(s, room) ==
  /\ snd[s].pc = "pkt"
  /\ LET cpy == Least(Least(snd[s].left, room), MaxPktLen)
         c   == [snd[s] EXCEPT !.pc = "fwd", !.cpy = cpy, !.held = FALSE,
                               !.todo = Receivers(s)]
     IN snd' = [snd EXCEPT ![s] = IF c.todo = {} THEN AfterPkt(c) ELSE c]
  /\ UNCHANGED << setting, conn, queueVars, rdrVars >>

BitEnd(c) == c.left <= c.cpy

Pkt(s) == [snd |-> s, frame |-> snd[s].n, seq |-> snd[s].seq,
           len |-> snd[s].cpy, end |-> BitEnd(snd[s])]

----------------------------------------------------------------------------
(***************************************************************************)
(* FDD_QueueBufSg, called by VK_OutEsFrame for each connected receiver.    *)
(***************************************************************************)

(* The oldest lists go until the queue is not over its limit.              *)
Over(r, k) == u32Bytes[r] - FirstBytes(stHead[r], k) > limit
Trim(r) ==
  IF limit = 0 THEN 0
  ELSE CHOOSE k \in 0 .. Len(stHead[r]) : /\ (\A i \in 0 .. k - 1 : Over(r, i))
                                         /\ (k = Len(stHead[r]) \/ ~Over(r, k))

(* A list that has grown over the limit before its end starts again.       *)
Gathered(r) == IF limit # 0 /\ TotBytes(pstSg[r]) > limit THEN << >> ELSE pstSg[r]

(* FDD_HoldBuf takes the buffer itself for the first queue; it is in a     *)
(* list from then on, and the next queue needs a header of its own.        *)
HoldFails(s) == "hold" \in faults /\ snd[s].held

BytesAfter(r, k) == u32Bytes[r] - FirstBytes(stHead[r], k)

(* Mutant: the list goes to the front.                                     *)
AddHead(q, sg) == << sg >> \o q

AddTail(q, sg) == Append(q, sg)

QueueBufSg(s, r) ==
  /\ snd[s].pc = "fwd" /\ r \in snd[s].todo
  /\ LET k    == Trim(r)
         kept == SubSeq(stHead[r], k + 1, Len(stHead[r]))
         sg   == Append(Gathered(r), Pkt(s))
     IN IF Pkt(s).end
        THEN /\ pstSg'     = [pstSg EXCEPT ![r] = << >>]
             /\ stHead'    = [stHead EXCEPT ![r] = AddTail(kept, sg)]
             /\ u32Bytes'  = [u32Bytes EXCEPT ![r] =
                                BytesAfter(r, k) + TotBytes(sg)]
             /\ u32QueLen' = [u32QueLen EXCEPT ![r] = @ - k + 1]
        ELSE /\ pstSg'     = [pstSg EXCEPT ![r] = sg]
             /\ stHead'    = [stHead EXCEPT ![r] = kept]
             /\ u32Bytes'  = [u32Bytes EXCEPT ![r] = BytesAfter(r, k)]
             /\ u32QueLen' = [u32QueLen EXCEPT ![r] = @ - k]
  /\ snd' = [snd EXCEPT ![s].pc = "signal", ![s].rx = r, ![s].held = TRUE]
  /\ UNCHANGED << setting, conn, rdrVars >>

(* No header to hold the buffer with, or no FDD_BUF_SG_S for a new list:   *)
(* the packet is dropped.                                                  *)
DropPkt(s, r) ==
  /\ snd[s].pc = "fwd" /\ r \in snd[s].todo
  /\ HoldFails(s) \/ ("sg" \in faults /\ pstSg[r] = << >>)
  /\ snd' = [snd EXCEPT ![s].pc = "signal", ![s].rx = r]
  /\ UNCHANGED << setting, conn, queueVars, rdrVars >>

HasData(r) == u32QueLen[r] # 0

(* Mutant: a reader is only woken for the first list in the queue.         *)
MustWakeFirst(r) == u32QueLen[r] = 1

(* VK_OutEsFrame looks at the queue without its lock.                      *)
MustWake(r) == HasData(r)

(* Back in VK_OutEsFrame: wake the readers if there is something to read.  *)
Signal(s) ==
  /\ snd[s].pc = "signal"
  /\ LET r == snd[s].rx
         c == [snd[s] EXCEPT !.pc = "fwd", !.todo = @ \ {r}]
     IN /\ snd' = [snd EXCEPT ![s] = IF c.todo = {} THEN AfterPkt(c) ELSE c]
        /\ woken' = IF MustWake(r) /\ rdr[r] \in {"poll", "sleep"}
                    THEN [woken EXCEPT ![r] = TRUE] ELSE woken
  /\ UNCHANGED << setting, conn, queueVars, rdr, res, got >>

----------------------------------------------------------------------------
(***************************************************************************)
(* The reader.                                                             *)
(***************************************************************************)

(* poll_wait puts the reader on the wait queue ...                         *)
Poll(r) ==
  /\ r \in chans /\ rdr[r] = "idle"
  /\ rdr' = [rdr EXCEPT ![r] = "poll"]
  /\ woken' = [woken EXCEPT ![r] = FALSE]
  /\ UNCHANGED << setting, snd, conn, queueVars, res, got >>

(* ... then VK_FilePoll looks at the queue, and the kernel puts the reader *)
(* to sleep unless it was woken since.                                     *)
PollCheck(r) ==
  /\ rdr[r] = "poll"
  /\ rdr' = [rdr EXCEPT ![r] = IF HasData(r) THEN "ready"
                               ELSE IF woken[r] THEN "poll" ELSE "sleep"]
  /\ woken' = [woken EXCEPT ![r] = FALSE]
  /\ UNCHANGED << setting, snd, conn, queueVars, res, got >>

PollWake(r) ==
  /\ rdr[r] = "sleep" /\ woken[r]
  /\ rdr' = [rdr EXCEPT ![r] = "poll"]
  /\ woken' = [woken EXCEPT ![r] = FALSE]
  /\ UNCHANGED << setting, snd, conn, queueVars, res, got >>

(* Mutant: a first packet is put after what was copied before it.          *)
CopiedOn(sg, j, i) ==
  /\ j <= i /\ sg[j].seq = 0
  /\ \A k \in j + 1 .. i : sg[k].seq \in {0, sg[k - 1].seq + 1}

(* Mutant: the number expected next is the one just seen.                  *)
CopiedSame(sg, j, i) ==
  /\ j <= i /\ sg[j].seq = 0
  /\ \A k \in j + 1 .. i : sg[k].seq = k - j - 1

(* After packet i of a list, the loop of VK_GetData has copied the packets *)
(* from j on: j is a first packet, which starts the user's buffer again,   *)
(* and no number was missing since.                                        *)
Copied(sg, j, i) == j <= i /\ \A k \in j .. i : sg[k].seq = k - j

(* The loop stops at a packet that does not fit, or at a last one.         *)
Fits(sg, j, i) == TotBytes(SubSeq(sg, j, i)) <= usrLen
StopAt(sg) == {i \in 1 .. Len(sg) : \E j \in 1 .. i :
                 Copied(sg, j, i) /\ (sg[i].end \/ ~Fits(sg, j, i))}

(* What GET_DATA returns for a list: 0 also when no packet stopped it.     *)
Result(sg) ==
  IF StopAt(sg) = {} THEN [res |-> "empty", out |-> << >>]
  ELSE LET i == CHOOSE n \in StopAt(sg) : \A m \in StopAt(sg) : n <= m
           j == CHOOSE n \in 1 .. i : Copied(sg, n, i)
       IN IF Fits(sg, j, i) THEN [res |-> "frame", out |-> SubSeq(sg, j, i)]
                            ELSE [res |-> "ENOMEM", out |-> << >>]

(* GET_DATA.                                                               *)
GetData(r) ==
  /\ r \in chans /\ rdr[r] \in {"idle", "ready"}
  /\ rdr' = [rdr EXCEPT ![r] = "idle"]
  /\ IF stHead[r] = << >>
     THEN /\ res' = [res EXCEPT ![r] = "ENODATA"]
          /\ UNCHANGED << got, queueVars >>
     ELSE LET sg  == Head(stHead[r])
              ret == Result(sg)
          IN /\ stHead'    = [stHead EXCEPT ![r] = Tail(@)]
             /\ u32Bytes'  = [u32Bytes EXCEPT ![r] = @ - TotBytes(sg)]
             /\ u32QueLen' = [u32QueLen EXCEPT ![r] = @ - 1]
             /\ res' = [res EXCEPT ![r] = ret.res]
             /\ got' = IF ret.res = "frame" THEN [got EXCEPT ![r] = ret.out] ELSE got
             /\ UNCHANGED pstSg
  /\ UNCHANGED << setting, snd, conn, woken >>

----------------------------------------------------------------------------
(***************************************************************************)
(* Connections.  A packet is forwarded with the mutex of the listening     *)
(* port held, so they change between packets only.                         *)
(***************************************************************************)
NotForwarding(s) == snd[s].pc \notin {"fwd", "signal"}

Disconnect(s, r) ==
  /\ "reconnect" \in faults /\ NotForwarding(s)
  /\ << s, r >> \in conn
  /\ conn' = conn \ {<< s, r >>}
  /\ UNCHANGED << setting, snd, queueVars, rdrVars >>

Connect(s, r) ==
  /\ "reconnect" \in faults /\ NotForwarding(s)
  /\ {s, r} \subseteq chans /\ << s, r >> \notin conn
  /\ conn' = conn \cup {<< s, r >>}
  /\ UNCHANGED << setting, snd, queueVars, rdrVars >>

----------------------------------------------------------------------------

Send(s) ==
  \/ PutFails(s)
  \/ \E room \in Rooms : PutPkt(s, room)
  \/ \E r \in Rx : QueueBufSg(s, r) \/ DropPkt(s, r)
  \/ Signal(s)

Read(r) == PollCheck(r) \/ PollWake(r)

Next ==
  \/ \E s \in Snd, len \in setting.lens : PutData(s, len)
  \/ \E s \in Snd : Send(s)
  \/ \E r \in Rx : Poll(r) \/ Read(r) \/ GetData(r)
  \/ \E s \in Snd, r \in Rx : Connect(s, r) \/ Disconnect(s, r)

Spec == Init /\ [][Next]_vars

(* A call in progress goes on, and so does a poll; nobody has to call.     *)
FairSpec == Spec /\ (\A s \in Snd : WF_vars(Send(s)))
                 /\ (\A r \in Rx : WF_vars(Read(r)))

----------------------------------------------------------------------------

(* One channel puts frames, and its receivers stay connected to it.        *)
Sender == CHOOSE s \in Snd : chans \cap Snd = {s}
Steady == (\E s \in Snd : chans \cap Snd = {s}) /\ "reconnect" \notin faults

PktType == [snd : Snd, frame : 1 .. MaxFrame, seq : Nat, len : Nat, end : BOOLEAN]

TypeOK ==
  /\ \A s \in Snd : /\ snd[s].pc \in {"idle", "pkt", "fwd", "signal"}
                    /\ snd[s].n \in 0 .. MaxFrame
                    /\ snd[s].left \in Nat /\ snd[s].seq \in Nat
                    /\ snd[s].cpy \in Nat /\ snd[s].held \in BOOLEAN
                    /\ snd[s].todo \subseteq Rx /\ snd[s].rx \in Rx \cup {NoRx}
  /\ conn \subseteq Snd \X Rx
  /\ \A r \in Rx : /\ \A i \in 1 .. Len(pstSg[r]) : pstSg[r][i] \in PktType
                   /\ \A i \in 1 .. Len(stHead[r]) :
                        \A j \in 1 .. Len(stHead[r][i]) : stHead[r][i][j] \in PktType
                   /\ u32Bytes[r] \in Nat /\ u32QueLen[r] \in Nat
                   /\ rdr[r] \in {"idle", "poll", "sleep", "ready"}
                   /\ woken[r] \in BOOLEAN
                   /\ res[r] \in {"none", "ENODATA", "ENOMEM", "frame", "empty"}
                   /\ \A i \in 1 .. Len(got[r]) : got[r][i] \in PktType

(* What GET_DATA hands out is a run of packets numbered from 0 that ends   *)
(* with the only one marked as the last, and fits into the reader's buffer *)
(* (vk_chan.c:199-262), however frames are interleaved, cut short, dropped *)
(* or begun before the channel was connected.  With one sender that stays  *)
(* connected, whose packets are never dropped one by one by "hold", they   *)
(* were also put as one frame: a frame whose put failed half-way           *)
(* (vk_chan.c:57-61, 128-131), or whose list was cleared at the limit      *)
(* (fdd.c:264-268), is never glued to the next.                            *)
InSequence(out) ==
  /\ \A i \in 1 .. Len(out) : out[i].seq = i - 1 /\ (out[i].end <=> i = Len(out))
  /\ TotBytes(out) <= usrLen
WholeFrame(out) == \A i, j \in 1 .. Len(out) :
                     out[i].frame = out[j].frame /\ out[i].snd = out[j].snd
GotWholeFrames ==
  \A r \in Rx : /\ InSequence(got[r])
                /\ Steady /\ "hold" \notin faults => WholeFrame(got[r])

(* A poll with a list in the queue returns, unless the list goes.          *)
PollReturns ==
  \A r \in Rx : (rdr[r] \in {"poll", "sleep"} /\ stHead[r] # << >>)
                   ~> (rdr[r] = "ready" \/ stHead[r] = << >>)

(* With one sender that stays connected, no faults, no limit, and a reader *)
(* whose buffer is large enough, no frame is lost: each frame a reader     *)
(* gets is the one after the last (vk_chan.c:173-266, fdd.c:226-284).      *)
Lossless == Steady /\ faults = {} /\ limit = 0 /\ \A len \in setting.lens : len <= usrLen
GetsNext(r) ==
  /\ res'[r] \notin {"empty", "ENOMEM"}
  /\ (got'[r] # got[r] =>
        got'[r][1].frame = 1 + (IF got[r] = << >> THEN 0 ELSE got[r][1].frame))
NothingLost == [][Lossless => \A r \in Rx : GetsNext(r)]_vars

(* The reader's view, with one sender that stays connected: frames in      *)
(* order, each at most once (FrameStream), however puts fail and queues    *)
(* overflow.                                                               *)
Stream == INSTANCE FrameStream WITH
  Reader <- Rx,
  put    <- IF Steady THEN snd[Sender].n ELSE 0,
  got    <- [r \in Rx |-> IF Steady /\ got[r] # << >> THEN got[r][1].frame ELSE 0]
Streams == Stream!Spec
=============================================================================
