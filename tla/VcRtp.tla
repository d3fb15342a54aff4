------------------------------- MODULE VcRtp -------------------------------
(***************************************************************************)
(* The converters that send every piece of a stream in an RTP packet of    *)
(* its own: src/kern/fdd/vc/vc_es2rtp.c (the ES bytes as they are),        *)
(* vc_es2_3984.c (H.264 in fragmentation units) and vc_es2ps.c (a program  *)
(* stream). Each operator takes the converter's state cb and a packet, and *)
(* yields the new state and the calls it makes to the port, in order. Time *)
(* stamps are left out; one length stands for those of all PS headers.     *)
(***************************************************************************)
EXTENDS VcEs

(* A run of RTP packets over the pieces of d: the marker is set in the     *)
(* last one when the ES packet ends its frame. leads[i] is what packet i   *)
(* carries before its piece.                                               *)
MarkAt(i, pieces, end) == end /\ i = Len(pieces)

RtpRun(type, s, pieces, end, leads) ==
  FlattenSeq([i \in 1 .. Len(pieces) |->
    RtpPkt(type, s.seq + i, MarkAt(i, pieces, end), s.pt, leads[i] \o <<Data(pieces[i])>>)])

NoLeads(pieces) == [i \in DOMAIN pieces |-> <<>>]

(* Mutant of SeqAfter: counts the ES packets.                              *)
SeqAfterOne(s, n) == [s EXCEPT !.seq = @ + 1]

SeqAfter(s, n) == [s EXCEPT !.seq = @ + n]

-----------------------------------------------------------------------------
(* ES to RTP. JPEG has a stream of its own, which shares the video buffer. *)
RtpStreamOf(p) == IF p.fmt = "jpeg" THEN "raw" ELSE IF p.video THEN "video" ELSE "audio"

RtpType(name) == IF name = "audio" THEN "audio" ELSE "video"

ES2RtpConvert(cb, p) ==
  LET name == RtpStreamOf(p)
      pieces == Pieces(p.data, RtpMaxLen)
  IN  [cb |-> [cb EXCEPT ![name] = SeqAfter(@, Len(pieces))],
       ops |-> RtpRun(RtpType(name), cb[name], pieces, p.end, NoLeads(pieces))]

-----------------------------------------------------------------------------
(* ES to RFC 3984. Where the start codes of d are that something follows.  *)
CodesIn(d) == {i \in 1 .. Len(d) - 1 : Kind(d[i]) = "sc"}
Codes(d) ==
  [j \in 1 .. Cardinality(CodesIn(d)) |->
     CHOOSE i \in CodesIn(d) : Cardinality({c \in CodesIn(d) : c <= i}) = j]

(* The picture starts at the first code that leads to an IDR slice; in a   *)
(* frame that is not an I frame, to anything but a parameter set.          *)
LeadsToPicture(d, code, i) ==
  IF i THEN Len(d) - code > 1 /\ Kind(d[code + 1]) = "idr"
       ELSE ~(Len(d) - code > 1 /\ Kind(d[code + 1]) = "sps")

(* Parameter sets travel in packets of their own, without start codes.     *)
Unit(d, codes, j) == SubSeq(d, codes[j] + 1, codes[j + 1] - 1)

Units(d, codes, n) == [j \in 1 .. n |-> Unit(d, codes, j)]

FuHdr(fu, pieces, end, i) ==
  Item("fu", IF fu.s /\ i = 1 THEN 1 ELSE 0, fu.e \/ MarkAt(i, pieces, end), "none", <<fu.nal>>, FuLen)

(* VC_EsTo3984OutputData: S is cleared after the first fragment, E is set  *)
(* in the last one and stays until the next frame starts.                  *)
FuRun(s, fu, d, end) ==
  LET pieces == Pieces(d, FuDataLen)
      leads  == [i \in DOMAIN pieces |-> <<FuHdr(fu, pieces, end, i)>>]
  IN  RtpRun("video", s, pieces, end, leads)

FuAfter(fu, d, end) ==
  IF d = <<>> THEN fu ELSE [fu EXCEPT !.s = FALSE, !.e = @ \/ end]

(* The code that leads to the picture, or 0, and the units before it.      *)
PictCode(d, codes, i) == SelectInSeq(codes, LAMBDA c : LeadsToPicture(d, c, i))
UnitCnt(codes, pict) ==
  IF pict # 0 THEN pict - 1 ELSE IF codes = <<>> THEN 0 ELSE Len(codes) - 1

ESTo3984First(cb, s, p) ==
  LET codes == Codes(p.data)
      pict  == PictCode(p.data, codes, p.i)
      n     == UnitCnt(codes, pict)
      units == Units(p.data, codes, n)
      sent  == RtpRun("video", s, units, FALSE, NoLeads(units))
      t     == SeqAfter(s, n)
      slice == SubSeq(p.data, codes[pict] + 2, Len(p.data))
      fu    == [nal |-> p.data[codes[pict] + 1], s |-> TRUE, e |-> FALSE]
  IN  IF pict = 0
      THEN [cb |-> [cb EXCEPT !.video = t], ops |-> sent]
      ELSE [cb |-> [cb EXCEPT !.video = SeqAfter(t, Len(Pieces(slice, FuDataLen))),
                              !.fu = FuAfter(fu, slice, p.end)],
            ops |-> sent \o FuRun(t, fu, slice, p.end)]

ESTo3984Video(cb, p) ==
  LET s  == [cb.video EXCEPT !.drop = FALSE]
      fu == [cb.fu EXCEPT !.s = FALSE]
  IN  IF cb.video.drop /\ ~Starts(p) THEN [cb |-> cb, ops |-> <<>>]
      ELSE IF p.first THEN ESTo3984First(cb, s, p)
      ELSE [cb |-> [cb EXCEPT !.video = SeqAfter(s, Len(Pieces(p.data, FuDataLen))),
                              !.fu = FuAfter(fu, p.data, p.end)],
            ops |-> FuRun(s, fu, p.data, p.end)]

(* Audio is converted with the state of the video stream, as the code      *)
(* passes &pstVc3984Cb->stVideoType for it.                                *)
AudioStream == "video"

ESTo3984Audio(cb, p) ==
  LET s == [cb[AudioStream] EXCEPT !.pt = "audio"]
      pieces == Pieces(p.data, RtpMaxLen)
  IN  [cb |-> [cb EXCEPT ![AudioStream] = SeqAfter(s, Len(pieces))],
       ops |-> RtpRun(AudioStream, s, pieces, p.end, NoLeads(pieces))]

ESTo3984Convert(cb, p) == IF p.video THEN ESTo3984Video(cb, p) ELSE ESTo3984Audio(cb, p)

-----------------------------------------------------------------------------
(* ES to PS: pack, system and map headers in packets of their own, and     *)
(* every piece in a PES packet.                                            *)
PsHdr(kind) == Item(kind, 0, FALSE, "none", <<>>, PesLen)

PsHdrs(p) == IF ~p.first /\ p.video THEN <<>>
             ELSE IF p.video /\ p.i THEN <<<<PsHdr("ps")>>, <<PsHdr("sys")>>, <<PsHdr("map")>>>>
             ELSE <<<<PsHdr("ps")>>>>

Es2PsOutput(cb, name, s, p) ==
  LET hdrs   == PsHdrs(p)
      pieces == Pieces(p.data, PsDataLen)
      leads  == [i \in DOMAIN pieces |-> <<PsHdr("pes")>>]
      t      == SeqAfter(s, Len(hdrs))
  IN  [cb |-> [cb EXCEPT ![name] = SeqAfter(t, Len(pieces))],
       ops |-> FlattenSeq([i \in 1 .. Len(hdrs) |-> RtpPkt(name, s.seq + i, FALSE, s.pt, hdrs[i])])
                 \o RtpRun(name, t, pieces, p.end, leads)]

Es2PsConvert(cb, p) ==
  LET g == Gate(cb.video, p)
      s == [g.s EXCEPT !.pt = IF g.s.fmt \in {"h264", "h265"} THEN g.s.fmt ELSE @]
  IN  IF ~p.video THEN Es2PsOutput(cb, "audio", cb.audio, p)
      ELSE IF g.pass THEN Es2PsOutput(cb, "video", s, p)
      ELSE [cb |-> [cb EXCEPT !.video = g.s], ops |-> <<>>]
=============================================================================
