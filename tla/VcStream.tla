------------------------------ MODULE VcStream ------------------------------
(***************************************************************************)
(* A converter at work in the switch: the port that hands it ES packets    *)
(* (FDD_VswOutPkt, VC_ConvertData), the converter itself (VcRtp, VcTs) and *)
(* the buffer its output is gathered in until it is flushed to the         *)
(* receivers (FDD_OutputData2Vsw, FDD_FlushData2Vsw of                     *)
(* src/kern/fdd/fdd_port.c).                                               *)
(*                                                                         *)
(* Upstream cuts frames into packets, of which any may be lost: PUT_DATA   *)
(* stops in the middle of a frame when there is no memory, and a network   *)
(* loses what it likes. The calls a converter makes are steps of their     *)
(* own, as other threads take and free buffers between them.               *)
(***************************************************************************)
EXTENDS VcRtp, VcTs

CONSTANTS Vcers,       \* the registered converters that are tried
          MinBufLen,   \* FDD_BUF_MIN_RSVD_LEN: no buffer is shorter
          Frames,      \* what upstream may send: [i, fmt, lens]
          MaxFrames, MaxAudio,
          MaxFaults    \* bounds packets lost upstream and buffers not to be had

ASSUME StreamAssumption ==
  /\ Vcers \subseteq {"rtp", "rfc3984", "ps", "ts"}
  /\ MaxFrames \in Nat /\ MaxAudio \in Nat /\ MaxFaults \in Nat /\ MinBufLen \in Nat
  /\ \A f \in Frames : f.lens \in Seq(Nat) /\ f.i \in BOOLEAN
  /\ MinBufLen >= NetLen
  /\ MinBufLen >= TsNetPkts * TsPktLen

VARIABLES vcer,    \* the converter's type
          cb,      \* its state
          todo,    \* the calls it still has to make to the port
          out,     \* astOutBuf of each data type: held or not, u32CurrLen, and its items
          sent,    \* the network packets flushed to the receivers so far
          frame,   \* the frame upstream is sending, and its next packet
          given,   \* every packet that reached the converter
          noMem    \* the data lost because there was no buffer

vars == <<vcer, cb, todo, out, sent, frame, given, noMem>>

Types == {"video", "audio"}
NoOut == [held |-> FALSE, len |-> 0, items |-> <<>>]

NoFu == [nal |-> <<"none", 0, 0>>, s |-> FALSE, e |-> FALSE]

(* The pfnInit of each converter; the state of all of them is one record.  *)
VideoPt(v) == CASE v = "rtp" -> "es" [] v = "rfc3984" -> "h264" [] OTHER -> "h265"
NewCb(v) ==
  [video |-> NewStream(VideoPt(v)), audio |-> NewStream("audio"), raw |-> NewStream("raw"),
   fu |-> NoFu, pat |-> 0, pmt |-> 0, audioCnt |-> 0]

Init ==
  /\ vcer \in Vcers
  /\ cb = NewCb(vcer)
  /\ todo = <<>>
  /\ out = [t \in Types |-> NoOut]
  /\ sent = <<>>
  /\ frame = [n |-> 0, shape |-> [i |-> FALSE, fmt |-> "none", lens |-> <<>>], k |-> 0, lost |-> 0]
  /\ given = <<>>
  /\ noMem = 0

-----------------------------------------------------------------------------
(* Upstream. A picture starts with its parameter sets, if it is an I       *)
(* frame, and a start code; the shape gives the bytes after them.          *)
Prefix(i) == IF i THEN <<"sc", "sps", "sc", "idr">> ELSE <<"sc", "slice">>

SumLens(lens, k) ==
  LET sum[j \in 0 .. Len(lens)] == IF j = 0 THEN 0 ELSE sum[j - 1] + lens[j]
  IN  sum[k]

FrameData(shape, n) ==
  LET syms == Prefix(shape.i) \o [j \in 1 .. SumLens(shape.lens, Len(shape.lens)) |-> "d"]
  IN  [j \in 1 .. Len(syms) |-> <<syms[j], n, j>>]

PktOf(shape, n, k) ==
  LET from == IF k = 1 THEN 1 ELSE Len(Prefix(shape.i)) + SumLens(shape.lens, k - 1) + 1
      to   == Len(Prefix(shape.i)) + SumLens(shape.lens, k)
  IN  [video |-> TRUE, i |-> shape.i, fmt |-> shape.fmt, frm |-> n, seq |-> k - 1,
       first |-> k = 1, end |-> k = Len(shape.lens),
       data |-> SubSeq(FrameData(shape, n), from, to)]

AudioPkt(n, len) ==
  [video |-> FALSE, i |-> TRUE, fmt |-> "pcma", frm |-> n, seq |-> 0, first |-> TRUE, end |-> TRUE,
   data |-> [j \in 1 .. len |-> <<"a", n, j>>]]

Audio(log) == SelectSeq(log, LAMBDA p : ~p.video)

(* (A bound: no frame is sent after one for which there was no buffer.)    *)
NextFrame ==
  /\ frame.n < MaxFrames
  /\ noMem = 0
  /\ frame.k = Len(frame.shape.lens)
  /\ \E shape \in Frames :
       frame' = [frame EXCEPT !.n = @ + 1, !.shape = shape, !.k = 0]
  /\ UNCHANGED <<vcer, cb, todo, out, sent, given, noMem>>

Lose ==
  /\ frame.k < Len(frame.shape.lens)
  /\ frame.lost + noMem < MaxFaults
  /\ frame' = [frame EXCEPT !.k = @ + 1, !.lost = @ + 1]
  /\ UNCHANGED <<vcer, cb, todo, out, sent, given, noMem>>

-----------------------------------------------------------------------------
(* The converter takes a packet under the lock of its listen port: the     *)
(* last one is done with by then.                                          *)
Converted(p) ==
  CASE vcer = "rtp"     -> ES2RtpConvert(cb, p)
    [] vcer = "rfc3984" -> ESTo3984Convert(cb, p)
    [] vcer = "ps"      -> Es2PsConvert(cb, p)
    [] vcer = "ts"      -> Es2TsConvert(cb, p)

ConvertData(p) ==
  /\ todo = <<>>
  /\ cb' = Converted(p).cb
  /\ todo' = Converted(p).ops
  /\ given' = Append(given, p)
  /\ UNCHANGED <<vcer, out, sent, noMem>>

ConvertVideo ==
  /\ frame.k < Len(frame.shape.lens)
  /\ frame' = [frame EXCEPT !.k = @ + 1]
  /\ ConvertData(PktOf(frame.shape, frame.n, frame.k + 1))

ConvertAudio ==
  /\ Len(Audio(given)) < MaxAudio
  /\ UNCHANGED frame
  /\ ConvertData(AudioPkt(Len(Audio(given)) + 1, RtpMaxLen + 1))

(* FDD_OutputData2Vsw: a buffer is taken when none is held. It does not    *)
(* matter to the converter whether its data finds a place.                 *)
Fits(o, item) == o.len + item.len <= MinBufLen

Added(o, item) == [held |-> TRUE, len |-> o.len + item.len, items |-> Append(o.items, item)]

Op == todo[1]

OutputData2Vsw ==
  /\ todo # <<>> /\ Op.op = "out"
  /\ todo' = Tail(todo)
  /\ out' = IF Fits(out[Op.type], Op.item)
            THEN [out EXCEPT ![Op.type] = Added(@, Op.item)]
            ELSE out
  /\ UNCHANGED <<vcer, cb, sent, frame, given, noMem>>

OutputNoMem ==
  /\ todo # <<>> /\ Op.op = "out"
  /\ ~out[Op.type].held
  /\ frame.lost + noMem < MaxFaults
  /\ todo' = Tail(todo)
  /\ noMem' = noMem + 1
  /\ UNCHANGED <<vcer, cb, out, sent, frame, given>>

(* Mutant of Emptied: the length of what was sent is kept.                 *)
LenKept(o, left) == [held |-> left, len |-> o.len, items |-> <<>>]

(* FDD_FlushData2Vsw: what was gathered goes to the receivers; the next    *)
(* buffer is what FDD_TrimBufLen leaves of the block, if anything.         *)
Emptied(o, left) == [held |-> left, len |-> 0, items |-> <<>>]

FlushData2Vsw ==
  /\ todo # <<>> /\ Op.op = "flush"
  /\ todo' = Tail(todo)
  /\ IF out[Op.type].len = 0
     THEN UNCHANGED <<out, sent>>
     ELSE /\ sent' = Append(sent, [type |-> Op.type, len |-> out[Op.type].len,
                                   items |-> out[Op.type].items])
          /\ \E left \in BOOLEAN : out' = [out EXCEPT ![Op.type] = Emptied(@, left)]
  /\ UNCHANGED <<vcer, cb, frame, given, noMem>>

Next ==
  \/ NextFrame \/ Lose \/ ConvertVideo \/ ConvertAudio
  \/ OutputData2Vsw \/ OutputNoMem \/ FlushData2Vsw

Spec == Init /\ [][Next]_vars

-----------------------------------------------------------------------------
(* What came out, between two conversions: sent, or gathered to be sent.   *)
Quiet == todo = <<>> /\ noMem = 0
Sent(t) == SelectSeq(sent, LAMBDA n : n.type = t)
Made(t) ==
  LET s == Sent(t) IN FlattenSeq([j \in 1 .. Len(s) |-> s[j].items]) \o out[t].items

(* The bytes of a frame that an item carries. The NAL byte of a picture is *)
(* in the header of its first fragment.                                    *)
BytesOf(x) == IF x.kind = "fu" /\ x.seq = 0 THEN <<>> ELSE x.data
Payload(t) ==
  LET m == Made(t) IN FlattenSeq([j \in 1 .. Len(m) |-> BytesOf(m[j])])

Picture(bytes) == SelectSeq(bytes, LAMBDA b : Kind(b) # "a")

FrameOf(byte) == byte[2]
Place(byte)   == byte[3]
Follows(a, b) == FrameOf(b) = FrameOf(a) /\ Place(b) = Place(a) + 1
Before(a, b)  == \/ FrameOf(a) < FrameOf(b)
                 \/ FrameOf(a) = FrameOf(b) /\ Place(a) < Place(b)

Given == ToSet(given)
IsIFrame(n) == \E p \in Given : p.video /\ p.frm = n /\ p.i
Gated == vcer \in {"ps", "ts"}

(* The bytes of a stream come out in the order they went in, none twice.   *)
(* A program or transport stream is also one that can be decoded: a frame  *)
(* comes out from its start without a hole, and a frame that is not an I   *)
(* frame only right behind the one it refers to. (The end of a frame may   *)
(* be missing: that the last packets of a frame are lost is not noticed    *)
(* when the next frame follows.)                                           *)
Decodable ==
  Quiet =>
    LET b == Picture(Payload("video"))
    IN  /\ \A j \in 2 .. Len(b) : Before(b[j - 1], b[j])
        /\ Gated => \A j \in 1 .. Len(b) :
             \/ j > 1 /\ Follows(b[j - 1], b[j])
             \/ Place(b[j]) = 1 /\ IsIFrame(FrameOf(b[j]))
             \/ Place(b[j]) = 1 /\ j > 1 /\ FrameOf(b[j]) = FrameOf(b[j - 1]) + 1

(* What has to come out. A program or transport stream owes every frame    *)
(* that it got whole and whose chain of frames back to an I frame has no   *)
(* hole, unless an I frame came in packets VC_CheckEsEncFormat refuses:    *)
(* shorter than it looks at, or of a format it is not told.                *)
Clear(p) == p.i => Len(p.data) >= FmtMin /\ p.fmt # "unknown"
Got(n) == {p \in Given : p.video /\ p.frm = n}
NoHole(n) == /\ Got(n) # {}
             /\ \A p \in Got(n) : Clear(p) /\ (p.seq > 0 => \E q \in Got(n) : q.seq + 1 = p.seq)
IsWhole(n) == NoHole(n) /\ \E p \in Got(n) : p.end

Chained == LET c[n \in 0 .. MaxFrames] ==
                 n > 0 /\ NoHole(n) /\ (IsIFrame(n) \/ c[n - 1])
           IN  c

IsOwed(p) ==
  CASE vcer = "rtp" -> TRUE
    [] vcer = "rfc3984" -> ~p.video \/ (\E q \in Given : Starts(q) /\ q.video /\ q.frm <= p.frm)
    [] OTHER -> ~p.video \/ (Chained[p.frm] /\ IsWhole(p.frm))

(* RFC 3984 carries no start codes.                                        *)
Owed(p) == {b \in ToSet(p.data) : ~(vcer = "rfc3984" /\ Kind(b) = "sc")}

(* However packets, pieces and network packets are cut, no byte that the   *)
(* converter owes is lost on the way.                                      *)
NothingLost ==
  Quiet =>
    LET delivered == ToSet(Payload("video")) \union ToSet(Payload("audio"))
    IN  \A p \in Given : IsOwed(p) => Owed(p) \subseteq delivered

(* The packets of one stream that were sent are numbered without a gap, so *)
(* that a receiver can tell what the network lost: RTP packets per stream, *)
(* TS packets per PID, modulo the width of the counter.                    *)
Streams == Types \X {"es", "h264", "h265", "audio", "raw"}
RtpOf(st) ==
  SelectSeq(sent, LAMBDA n : n.type = st[1] /\ (vcer = "rtp" => n.items[1].pt = st[2]))
TsItems(t) == SelectSeq(Made(t), LAMBDA x : x.kind = "ts")
IsNumbered(nums, mod) == \A j \in 2 .. Len(nums) : nums[j] = (nums[j - 1] + 1) % mod
Numbered ==
  Quiet =>
    IF vcer = "ts"
    THEN \A t \in Types :
           LET its == TsItems(t) IN IsNumbered([j \in 1 .. Len(its) |-> its[j].seq], CounterMod)
    ELSE \A st \in Streams :
           LET pkts == RtpOf(st)
           IN  IsNumbered([j \in 1 .. Len(pkts) |-> pkts[j].items[1].seq], SeqIdMod)

(* The marker (in a transport stream, the priority bit) is in the packet   *)
(* with the last byte of a frame and in no other. Of the fragments of an   *)
(* RFC 3984 picture whose first packet came, the first one alone has S and *)
(* the last one alone has E.                                               *)
EndsFrame(byte) == \E p \in Given : p.end /\ p.data[Len(p.data)] = byte
MarkedRight(mark, d) == d # <<>> => (mark <=> EndsFrame(d[Len(d)]))
FuRight(fu, d) ==
  (\E p \in Got(FrameOf(d[1])) : p.first) =>
    /\ fu.mark <=> EndsFrame(d[Len(d)])
    /\ fu.seq = 1 <=> Follows(fu.data[1], d[1])
Marked ==
  Quiet =>
    \A n \in ToSet(sent) :
      LET its == n.items
          d   == its[Len(its)].data
      IN  IF vcer = "ts" THEN \A x \in ToSet(its) : x.kind = "ts" => MarkedRight(x.mark, x.data)
          ELSE /\ MarkedRight(its[1].mark, d)
               /\ its[2].kind = "fu" => FuRight(its[2], d)

(* A receiver of what was sent can tell packets, frames and losses apart   *)
(* (vc_es2rtp.c:15-55, vc_es2_3984.c:93-135, vc_es2ts.c:151-311): both of  *)
(* the parts above together.                                               *)
Framed == Numbered /\ Marked

(* Whatever was lost for want of memory: data always finds room in the     *)
(* buffer, no network packet is longer than one may be, and an RTP packet  *)
(* is never sent together with part of another.                            *)
Packaged ==
  /\ todo # <<>> /\ Op.op = "out" => Fits(out[Op.type], Op.item)
  /\ sent # <<>> =>
       LET n == sent[Len(sent)]
       IN IF vcer = "ts" THEN Len(n.items) <= TsNetPkts
          ELSE /\ n.len <= NetLen
               /\ \A j \in 2 .. Len(n.items) : n.items[j].kind # "rtp"
=============================================================================
