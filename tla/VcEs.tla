-------------------------------- MODULE VcEs --------------------------------
(***************************************************************************)
(* What the stream converters of src/kern/fdd/vc share: elementary stream  *)
(* (ES) packets, the test that lets a video packet into a converter, and   *)
(* the calls a converter makes to the output buffer of its port.           *)
(*                                                                         *)
(* A packet is a record: video, first, end (the bits of its header), i (an *)
(* I frame), fmt (u8EncFormat), frm (le32FrmSeq), seq (le16PktSeq), data.  *)
(* A byte of data is <<symbol, frame, place>>: a start code is one symbol, *)
(* and so is the NAL byte that follows it.                                 *)
(***************************************************************************)
EXTENDS Naturals, Sequences, FiniteSets, SequencesExt

CONSTANTS NetLen,      \* VC_MAX_NET_PKT_LEN: the longest network packet
          RtpHdrLen,   \* sizeof(VA_RTP_HDR_S)
          PesLen,      \* VC_PES_LEN
          FuLen,       \* the two bytes of a fragmentation unit
          SeqIdMod,    \* the numbers of RTP packets have 16 bits
          FmtMin       \* an I frame packet that is shorter is not recognised

ASSUME LensAssumption ==
  /\ NetLen \in Nat /\ PesLen \in Nat /\ FmtMin \in Nat
  /\ RtpHdrLen \in Nat \ {0} /\ FuLen \in Nat \ {0} /\ SeqIdMod \in Nat \ {0}
  /\ NetLen > RtpHdrLen + PesLen
  /\ PesLen >= FuLen

RtpMaxLen == NetLen - RtpHdrLen
PsDataLen == RtpMaxLen - PesLen
FuDataLen == RtpMaxLen - FuLen

Kind(byte) == byte[1]

(* The state of one stream of a converter: VC_ES_BUF_TYPE_S and the       *)
(* numbers of what was cut from it so far.                                *)
NewStream(pt) ==
  [drop |-> TRUE, fmt |-> "h265", next |-> 0, frm |-> 0,
   seq |-> 0, pt |-> pt, left |-> <<>>, outLen |-> 0]

-----------------------------------------------------------------------------
(* The calls of a converter to its port, and what they carry.              *)
Item(kind, seq, mark, pt, data, len) ==
  [kind |-> kind, seq |-> seq, mark |-> mark, pt |-> pt, data |-> data, len |-> len]
Data(d) == Item("data", 0, FALSE, "none", d, Len(d))
Out(type, item) == [op |-> "out", type |-> type, item |-> item]
Flush(type) == [op |-> "flush", type |-> type, item |-> Data(<<>>)]

(* Mutant of Pieces: what does not fill a piece is forgotten.              *)
FullPieces(d, max) == [i \in 1 .. (Len(d) \div max) |-> SubSeq(d, (i - 1) * max + 1, i * max)]

(* d cut into pieces of max bytes, the last one as short as it comes.      *)
Pieces(d, max) ==
  [i \in 1 .. ((Len(d) + max - 1) \div max) |->
     SubSeq(d, (i - 1) * max + 1, IF i * max < Len(d) THEN i * max ELSE Len(d))]

(* One RTP packet: its header, its parts, and the flush that sends it.     *)
RtpPkt(type, seq, mark, pt, parts) ==
  <<Out(type, Item("rtp", seq % SeqIdMod, mark, pt, <<>>, RtpHdrLen))>>
    \o [i \in 1 .. Len(parts) |-> Out(type, parts[i])] \o <<Flush(type)>>

-----------------------------------------------------------------------------
(* The NAL byte that tells H.264 data whose format is not given.           *)
LooksH264(d) == Kind(d[1]) = "sc" /\ Kind(d[2]) = "sps"

(* VC_CheckEsEncFormat: only packets of I frames are looked at, and a      *)
(* format that is not given is guessed once, from the first of them.       *)
FmtAfter(s, p) ==
  IF ~(p.video /\ p.i) THEN s.fmt
  ELSE IF Len(p.data) < FmtMin THEN "bad"
  ELSE IF p.fmt # "unknown" THEN p.fmt
  ELSE IF s.fmt = "h265" /\ LooksH264(p.data) THEN "h264" ELSE "bad"

(* Mutant of ChkEsPkt: the number of the frame is not looked at.           *)
ChkSeqOnly(s, p) == p.seq = s.next

(* VC_ChkEsPkt: the packet is the one that has to follow.                  *)
ChkEsPkt(s, p) == p.seq = s.next /\ p.frm = s.frm

Starts(p) == p.first /\ p.i

(* What VC_Es2TsVideo and VC_Es2PsVideo do before they look at the data:   *)
(* after a packet that is not the one expected, every packet is dropped    *)
(* until the next I frame starts. `pass` says whether p is converted.      *)
Refuse(s) == [pass |-> FALSE, s |-> [s EXCEPT !.drop = TRUE]]
Pass(s)   == [pass |-> TRUE, s |-> s]

Expecting(s, p) ==
  IF p.first THEN [s EXCEPT !.frm = @ + 1, !.next = 0] ELSE s

Gate(s, p) ==
  LET t == [s EXCEPT !.fmt = FmtAfter(s, p)]
      e == Expecting(t, p)
  IN  CASE FmtAfter(s, p) = "bad" -> Refuse(s)
        [] FmtAfter(s, p) # "bad" /\ Starts(p) ->
             Pass([t EXCEPT !.drop = FALSE, !.frm = p.frm, !.next = p.seq + 1])
        [] FmtAfter(s, p) # "bad" /\ ~Starts(p) /\ t.drop -> Refuse(t)
        [] OTHER -> IF ChkEsPkt(e, p) THEN Pass([e EXCEPT !.next = @ + 1]) ELSE Refuse(e)
=============================================================================
