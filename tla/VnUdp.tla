------------------------------- MODULE VnUdp -------------------------------
(***************************************************************************)
(* The UDP transport of a network channel (kern/chan/vn_udp.c): a datagram *)
(* is a packet, if it comes from the address and the port the channel was  *)
(* made with, either of which may be left open.  The work reads the socket *)
(* until it is empty or a datagram has no bytes or comes from elsewhere.   *)
(***************************************************************************)
EXTENDS Naturals, Sequences, FiniteSets

CONSTANTS
  Hosts,    \* the addresses and ports
  NoHost,   \* 0: left open
  MaxSent   \* bound on the datagrams that arrive

VARIABLES
  remote,   \* stRemoteAddr of the channel
  sock,     \* the datagrams the socket has
  pending,  \* stRxWork is queued
  rxwork,   \* VN_UDP_RxWork: "idle" or in its loop, "read"
  sent,     \* history: the datagrams that arrived
  got       \* history: those forwarded

vars == <<remote, sock, pending, rxwork, sent, got>>

Addr == [ip : Hosts, port : Hosts]

Init ==
  /\ remote \in [ip : Hosts \union {NoHost}, port : Hosts \union {NoHost}]
  /\ sock = <<>> /\ pending = FALSE /\ rxwork = "idle"
  /\ sent = <<>> /\ got = <<>>

\* VN_UDP_DataReady; what the network loses or reorders it does before
DataReady ==
  /\ Len(sent) < MaxSent
  /\ \E a \in Addr, e \in BOOLEAN :
       LET d == [from |-> a, empty |-> e, id |-> Len(sent)]
       IN  sock' = Append(sock, d) /\ sent' = Append(sent, d)
  /\ pending' = TRUE
  /\ UNCHANGED <<remote, rxwork, got>>

RxWork ==
  /\ pending /\ rxwork = "idle"
  /\ pending' = FALSE /\ rxwork' = "read"
  /\ UNCHANGED <<remote, sock, sent, got>>

FromRemote(d) ==
  /\ remote.ip = NoHost \/ d.from.ip = remote.ip
  /\ remote.port = NoHost \/ d.from.port = remote.port

\* kernel_recvmsg has nothing, or a datagram of no bytes: that is gone then,
\* and the work returns
Empty ==
  /\ rxwork = "read"
  /\ \/ sock = <<>> /\ UNCHANGED sock
     \/ sock # <<>> /\ Head(sock).empty /\ sock' = Tail(sock)
  /\ rxwork' = "idle"
  /\ UNCHANGED <<remote, pending, sent, got>>

Forward ==
  /\ rxwork = "read" /\ sock # <<>> /\ ~Head(sock).empty /\ FromRemote(Head(sock))
  /\ got' = Append(got, Head(sock)) /\ sock' = Tail(sock)
  /\ UNCHANGED <<remote, pending, rxwork, sent>>

\* the work returns, whatever else the socket has
Stranger ==
  /\ rxwork = "read" /\ sock # <<>> /\ ~Head(sock).empty /\ ~FromRemote(Head(sock))
  /\ rxwork' = "idle" /\ sock' = Tail(sock)
  /\ UNCHANGED <<remote, pending, sent, got>>

Next == DataReady \/ RxWork \/ Empty \/ Forward \/ Stranger

-----------------------------------------------------------------------------
Due == {n \in DOMAIN sent : FromRemote(sent[n]) /\ ~sent[n].empty}

\* The datagrams of the remote end, and no others, but for those of no bytes,
\* which end the work and may leave others behind, are forwarded in the order
\* they arrived in, each once: the i-th that is forwarded is the i-th of them.
Forwarded ==
  \A i \in DOMAIN got : \E n \in Due :
    got[i] = sent[n] /\ Cardinality({m \in Due : m <= n}) = i
=============================================================================
