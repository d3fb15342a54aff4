------------------------------- MODULE VnTcp -------------------------------
(***************************************************************************)
(* The TCP transport of a network channel (kern/chan/vn_tcp.c): packets    *)
(* are cut out of the byte stream of a socket.  A packet is sent as a      *)
(* header ('$', a channel, the length in two bytes) and its payload.  The  *)
(* receiving end keeps what it reads in a ring, mapped twice in a row so   *)
(* that a packet across its end is in one piece, between two indices of 32 *)
(* bits that run freely; where it finds no header it skips a byte.         *)
(*                                                                         *)
(* sk_data_ready queues the work of the channel, which reads the socket    *)
(* once and then forwards packet by packet; segments arrive meanwhile.     *)
(* The sending end has one header and one pair of iovecs, which whoever    *)
(* has a packet for it fills without a lock.  The channel has been set up  *)
(* and is not released (VnNode has its life).                              *)
(***************************************************************************)
EXTENDS Naturals, Sequences, FiniteSets

CONSTANTS
  BufLen,    \* VN_RX_BUF_LEN
  MaxPkt,    \* VN_RX_BUF_LEN - VA_KB: packets are shorter
  IdxMod,    \* 2^32
  Senders,   \* the listeners the channel is connected to: each forwards with
             \* its own mutex only, two of them at a time
  Payloads,  \* what is sent
  Stray,     \* what may lie in memory behind a payload: one byte, repeated
  Remains,   \* what may be left of a packet whose head was flushed
  MaxSent,   \* bound on the packets sent
  MaxMixed,  \* bound on them once two senders have met
  MaxCut     \* bound on those the sender's socket takes a part of

HdrLen == 4      \* sizeof(TCP_PKT_HDR_S)
Dollar == 36

ASSUME RingAssumption ==
  /\ BufLen \in Nat \ {0} /\ MaxPkt \in Nat \ {0} /\ MaxPkt + HdrLen <= BufLen
  /\ IdxMod \in Nat /\ IdxMod > BufLen /\ IdxMod % BufLen = 0
ASSUME StreamAssumption ==
  /\ MaxSent \in Nat /\ MaxMixed \in Nat /\ MaxCut \in Nat
  /\ Payloads \subseteq Seq(0 .. 255) /\ Remains \subseteq Seq(0 .. 255)
  /\ Stray \subseteq 0 .. 255

VARIABLES
  txCache,  \* stTxHdrCache and astTxIoVec: the packets whose length is in the
            \* header, whose data iov_base points to, whose length is in iov_len
  tx,       \* the packet each sender is sending, and what it does next
  mixed,    \* history: two senders were sending at a time
  wire,     \* the bytes between the two sockets
  sock,     \* those the receiving socket has
  pending,  \* stRxWork is queued
  rxwork,   \* VN_TCP_RxWork: "idle" or in its loop, "parse"
  ring,     \* stRxBuf
  rd, wr,   \* u32RxRdIndx, u32RxWrIndx
  sent,     \* history: the payloads sent
  cuts,     \* history: how many of them in part
  got       \* history: the payloads forwarded

txVars == <<txCache, tx, mixed>>
tcpVars == <<txVars, wire, sock, pending, rxwork, ring, rd, wr, sent, cuts, got>>

\* U32 arithmetic on the indices
Sub(a, b) == IF a >= b THEN a - b ELSE a + IdxMod - b
Add(a, n) == IF a + n < IdxMod THEN a + n ELSE a + n - IdxMod

LeftLen == Sub(wr, rd)
ByteAt(k) == ring[Add(rd, k) % BufLen]

NotSending == [pkt |-> <<>>, at |-> "idle"]

TcpInit ==
  /\ txCache = [hdr |-> <<>>, base |-> <<>>, len |-> <<>>]
  /\ tx = [s \in Senders |-> NotSending] /\ mixed = FALSE
  /\ wire \in Remains
  /\ sock = <<>> /\ pending = FALSE /\ rxwork = "idle"
  /\ ring = [i \in 0 .. BufLen - 1 |-> 0] /\ rd = 0 /\ wr = 0
  /\ sent = <<>> /\ cuts = 0 /\ got = <<>>

-----------------------------------------------------------------------------
(* The sending end                                                         *)

\* the length is cut to the 16 bits of be16Len
Header(p) == <<Dollar, 0, (Len(p) \div 256) % 256, Len(p) % 256>>

Sending == {s \in Senders : tx[s].at # "idle"}

\* VN_TCP_OutPkt begins: the length in the header
OutPkt(s) ==
  /\ tx[s].at = "idle"
  /\ Len(sent) + Cardinality(Sending) < IF mixed \/ Sending # {} THEN MaxMixed ELSE MaxSent
  /\ \E p \in Payloads :
       /\ txCache' = [txCache EXCEPT !.hdr = p]
       /\ tx' = [tx EXCEPT ![s] = [pkt |-> p, at |-> "base"]]
  /\ mixed' = (mixed \/ Sending # {})
  /\ UNCHANGED <<wire, sock, pending, rxwork, ring, rd, wr, sent, cuts, got>>

\* then iov_base and iov_len
Fill(s) ==
  /\ tx[s].at \in {"base", "len"}
  /\ txCache' = [txCache EXCEPT ![tx[s].at] = tx[s].pkt]
  /\ tx' = [tx EXCEPT ![s].at = IF @ = "base" THEN "len" ELSE "send"]
  /\ UNCHANGED <<mixed, wire, sock, pending, rxwork, ring, rd, wr, sent, cuts, got>>

\* kernel_sendmsg with what is there now.  The socket does not block: when it
\* is full it takes a part, which is counted and left at that; so it may when
\* two senders share the state of the copy in stTxMsgHdr.
Send(s) ==
  /\ tx[s].at = "send"
  /\ tx' = [tx EXCEPT ![s] = NotSending] /\ sent' = Append(sent, tx[s].pkt)
  /\ \E stray \in Stray :
       LET data  == [k \in 1 .. Len(txCache.len) |->
                       IF k <= Len(txCache.base) THEN txCache.base[k] ELSE stray]
           bytes == Header(txCache.hdr) \o data
       IN  \/ wire' = wire \o bytes /\ UNCHANGED cuts
           \/ /\ IF mixed THEN UNCHANGED cuts ELSE cuts < MaxCut /\ cuts' = cuts + 1
              /\ \E n \in 0 .. Len(bytes) - 1 : wire' = wire \o SubSeq(bytes, 1, n)
  /\ UNCHANGED <<txCache, mixed, sock, pending, rxwork, ring, rd, wr, got>>

-----------------------------------------------------------------------------
(* The receiving end                                                       *)

\* a segment arrives: VN_TCP_DataReady
DataReady ==
  /\ \E n \in 1 .. Len(wire) :
       /\ sock' = sock \o SubSeq(wire, 1, n)
       /\ wire' = SubSeq(wire, n + 1, Len(wire))
  /\ pending' = TRUE
  /\ UNCHANGED <<txVars, rxwork, ring, rd, wr, sent, cuts, got>>

\* VN_TCP_RxWork up to the loop: kernel_recvmsg with the room there is
RxWork ==
  /\ pending /\ rxwork = "idle"
  /\ LET room == BufLen - LeftLen
         n == IF Len(sock) < room THEN Len(sock) ELSE room
         slot(k) == Add(wr, k - 1) % BufLen
     IN  /\ ring' = [i \in DOMAIN ring |->
                       IF \E k \in 1 .. n : slot(k) = i
                       THEN sock[CHOOSE k \in 1 .. n : slot(k) = i] ELSE ring[i]]
         /\ wr' = Add(wr, n)
         /\ sock' = SubSeq(sock, n + 1, Len(sock))
  /\ pending' = FALSE /\ rxwork' = "parse"
  /\ UNCHANGED <<txVars, wire, rd, sent, cuts, got>>

PktLen == 256 * ByteAt(2) + ByteAt(3)
NeedLen == PktLen + HdrLen

\* Mutant: any length a header can have.
AnyHeader == LeftLen > HdrLen /\ ByteAt(0) = Dollar

Headed == LeftLen > HdrLen /\ ByteAt(0) = Dollar /\ PktLen < MaxPkt

\* Mutant: the payload may be yet to come.
HeaderIn == Headed

Whole == Headed /\ NeedLen <= LeftLen

\* the rest of the loop body of __VN_TCP_RxPkt, in its three ways
Wait ==
  /\ rxwork = "parse"
  /\ \/ LeftLen <= HdrLen
     \/ Headed /\ ~Whole
  /\ rxwork' = "idle"
  /\ UNCHANGED <<txVars, wire, sock, pending, ring, rd, wr, sent, cuts, got>>

Forward ==
  /\ rxwork = "parse" /\ Whole
  /\ got' = Append(got, [k \in 1 .. PktLen |-> ByteAt(HdrLen + k - 1)])
  /\ rd' = Add(rd, NeedLen)
  /\ UNCHANGED <<txVars, wire, sock, pending, rxwork, ring, wr, sent, cuts>>

Skip ==
  /\ rxwork = "parse" /\ LeftLen > HdrLen /\ ~Headed
  /\ rd' = Add(rd, 1)
  /\ UNCHANGED <<txVars, wire, sock, pending, rxwork, ring, wr, sent, cuts, got>>

TcpNext ==
  \/ \E s \in Senders : OutPkt(s) \/ Fill(s) \/ Send(s)
  \/ DataReady \/ RxWork \/ Wait \/ Forward \/ Skip

TcpSpec == TcpInit /\ [][TcpNext]_tcpVars

-----------------------------------------------------------------------------
(* Properties                                                              *)

TcpTypeOK ==
  /\ txCache \in [hdr : Seq(0 .. 255), base : Seq(0 .. 255), len : Seq(0 .. 255)]
  /\ tx \in [Senders -> [pkt : Payloads, at : {"base", "len", "send"}] \union {NotSending}]
  /\ mixed \in BOOLEAN
  /\ wire \in Seq(0 .. 255) /\ sock \in Seq(0 .. 255)
  /\ pending \in BOOLEAN /\ rxwork \in {"idle", "parse"}
  /\ ring \in [0 .. BufLen - 1 -> 0 .. 255]
  /\ rd \in 0 .. IdxMod - 1 /\ wr \in 0 .. IdxMod - 1
  /\ sent \in Seq(Seq(0 .. 255)) /\ cuts \in 0 .. MaxCut /\ got \in Seq(Seq(0 .. 255))

\* The ring never holds more than it has room for, across the wrap of its
\* indices, and a receiver that waits for the rest of a packet has room for
\* it: no stream of bytes, whole or not, makes a channel deaf.
RoomLeft ==
  /\ LeftLen <= BufLen
  /\ rxwork = "idle" => LeftLen < BufLen

\* the packets that are not too long
Due == {n \in DOMAIN sent : Len(sent[n]) < MaxPkt}

\* What is skipped does not look like a header: the code has nothing else to
\* tell where the next packet begins.
Harmless ==
  /\ \A r \in Remains : Dollar \notin {r[i] : i \in DOMAIN r}
  /\ \A p \in Payloads :
       /\ Len(p) < 65536
       /\ Len(p) >= MaxPkt =>
            LET b == Header(p) \o p IN Dollar \notin {b[i] : i \in 2 .. Len(b)}

\* While the sender's socket takes packets whole and no two senders meet in
\* VN_TCP_OutPkt, which the code leaves to chance, the packets that are not too
\* long are forwarded as they were sent, in their order and each once, whoever
\* sent the one before, however the
\* stream is cut into segments, wherever in the ring they lie, and also behind
\* packets that are too long and the remains of one: the i-th that is forwarded
\* is the i-th of them.
Forwarded ==
  cuts = 0 /\ ~mixed /\ Harmless =>
    \A i \in DOMAIN got : \E n \in Due :
      got[i] = sent[n] /\ Cardinality({m \in Due : m <= n}) = i
=============================================================================
