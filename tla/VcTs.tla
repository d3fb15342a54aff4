-------------------------------- MODULE VcTs --------------------------------
(***************************************************************************)
(* ES to transport stream (src/kern/fdd/vc/vc_es2ts.c): frames are cut     *)
(* into TS packets of one length, which are gathered into network packets  *)
(* in the port's buffer. What does not fill a TS packet is left for the    *)
(* next ES packet of the frame, as only the end of a frame may be padded.  *)
(***************************************************************************)
EXTENDS VcEs

CONSTANTS TsPktLen,    \* VC_TS_PKT_LEN
          TsHdrLen,    \* VC_TS_MID_HDR_LEN
          TsFirstLen,  \* VC_TS_HDR_AND_ADAPT_LEN + VC_TS_PES_LEN
          TsNetPkts,   \* TS packets in one network packet (VC_TS_NET_PKT_LEN)
          CounterMod,  \* the continuity counter has four bits
          AudioTables  \* audio packets from one PAT and PMT to the next (25)

ASSUME TsAssumption ==
  /\ TsPktLen \in Nat /\ TsHdrLen \in Nat /\ TsFirstLen \in Nat
  /\ TsHdrLen < TsFirstLen /\ TsFirstLen < TsPktLen
  /\ TsNetPkts \in Nat \ {0} /\ CounterMod \in Nat \ {0} /\ AudioTables \in Nat \ {0}

TsMaxDataLen == TsPktLen - TsHdrLen
TsFirstDataLen == TsPktLen - TsFirstLen

(* A conversion in progress: the converter, the stream it converts and the *)
(* calls made so far. t is the video or the audio stream.                  *)
TsWork(cb, t, ops) == [cb |-> cb, t |-> t, ops |-> ops]

FlushEsData(w) ==
  [w EXCEPT !.ops = Append(@, Flush(w.t)), !.cb[w.t].outLen = 0]

(* VC_Es2TsOutputData: the seventh packet flushes the buffer.              *)
IsNetPkt(outLen) == outLen >= TsNetPkts

TsOutput(w, item) ==
  LET v == [w EXCEPT !.ops = Append(@, Out(w.t, item)), !.cb[w.t].outLen = @ + 1]
  IN  IF IsNetPkt(v.cb[w.t].outLen) THEN FlushEsData(v) ELSE v

(* One TS packet of the stream with data d; last marks the one that ends   *)
(* the frame (its priority bit is set).                                    *)
TsPkt(w, d, last) ==
  TsOutput([w EXCEPT !.cb[w.t].seq = @ + 1],
           Item("ts", w.cb[w.t].seq % CounterMod, last, w.t, d, TsPktLen))

(* PAT and PMT have counters of their own, which both streams share.       *)
FillPat(w) ==
  [TsOutput(w, Item("pat", w.cb.pat % CounterMod, FALSE, "none", <<>>, TsPktLen)) EXCEPT !.cb.pat = @ + 1]
FillPmt(w) ==
  [TsOutput(w, Item("pmt", w.cb.pmt % CounterMod, FALSE, "none", <<>>, TsPktLen)) EXCEPT !.cb.pmt = @ + 1]
FillTables(w) == FillPmt(FillPat(w))

-----------------------------------------------------------------------------
(* The full packets of FillData, the data that is left over, and the end:  *)
(* the frame's last packet is padded and flushed, other data is left.      *)
FullPkts(d) == Len(d) \div TsMaxDataLen
Whole(d) == SubSeq(d, 1, FullPkts(d) * TsMaxDataLen)
Rest(d)  == SubSeq(d, FullPkts(d) * TsMaxDataLen + 1, Len(d))

LeaveData(w, d) == [w EXCEPT !.cb[w.t].left = d]

FillMiddle(w, d, end) ==
  LET pieces == Pieces(Whole(d), TsMaxDataLen)
      IsLast(i) == end /\ Rest(d) = <<>> /\ i = Len(pieces)
      filled[i \in 0 .. Len(pieces)] ==
        IF i = 0 THEN w ELSE TsPkt(filled[i - 1], pieces[i], IsLast(i))
  IN  filled[Len(pieces)]

FillData(w, d, end) ==
  LET v == FillMiddle(w, d, end)
  IN  CASE Rest(d) = <<>> /\ end  -> FlushEsData(v)
        [] Rest(d) = <<>> /\ ~end -> v
        [] Rest(d) # <<>> /\ end  -> FlushEsData(TsPkt(v, Rest(d), TRUE))
        [] OTHER -> LeaveData(v, Rest(d))

(* The frame's first TS packet holds the PES header. It is padded when the *)
(* ES packet is shorter, and what the last frame left is forgotten.        *)
ClearBuf(w) == LeaveData(w, <<>>)

FillFirst(w, p) ==
  LET n == IF Len(p.data) < TsFirstDataLen THEN Len(p.data) ELSE TsFirstDataLen
  IN  FillData(TsPkt(w, SubSeq(p.data, 1, n), p.end /\ n = Len(p.data)),
               SubSeq(p.data, n + 1, Len(p.data)), p.end)

(* The other packets of a frame first complete what was left.              *)
FillNextVideoData(w, p) ==
  LET all == w.cb[w.t].left \o p.data
      n   == IF Len(all) > TsMaxDataLen THEN TsMaxDataLen ELSE Len(all)
      v   == ClearBuf(TsPkt(w, SubSeq(all, 1, n), p.end /\ n = Len(all)))
  IN  IF ~p.end /\ Len(all) < TsMaxDataLen THEN LeaveData(w, all)
      ELSE IF n = Len(all) THEN v
      ELSE FillData(v, SubSeq(all, n + 1, Len(all)), p.end)

FillFirstVideoData(w, p) ==
  FillFirst(IF p.i THEN FillTables(ClearBuf(w)) ELSE ClearBuf(w), p)

Done(w) == [cb |-> w.cb, ops |-> w.ops]

Es2TsVideo(cb, p) ==
  LET g == Gate(cb.video, p)
      w == TsWork([cb EXCEPT !.video = g.s], "video", <<>>)
  IN  IF ~g.pass THEN Done(w)
      ELSE IF p.first THEN Done(FillFirstVideoData(w, p))
      ELSE Done(FillNextVideoData(w, p))

(* Audio comes in one packet per frame. Only a stream that is told to have *)
(* no video gets its tables with the audio.                                *)
Es2TsAudio(cb, p) ==
  LET w == TsWork(cb, "audio", <<>>)
      v == [w EXCEPT !.cb.audioCnt = @ + 1]
  IN  IF ~(p.first /\ p.end) THEN Done(w)
      ELSE IF cb.video.fmt # "null" THEN Done(FillFirst(w, p))
      ELSE IF cb.audioCnt % AudioTables = 0 THEN Done(FillFirst(FillTables(v), p))
      ELSE Done(FillFirst(v, p))

Es2TsConvert(cb, p) == IF p.video THEN Es2TsVideo(cb, p) ELSE Es2TsAudio(cb, p)
=============================================================================
