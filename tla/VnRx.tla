-------------------------------- MODULE VnRx --------------------------------
(***************************************************************************)
(* The receiving end of a network channel, which has one of the two        *)
(* transports: stream or datagrams, as vn_chan.c sets it up.               *)
(***************************************************************************)
EXTENDS VnTcp

CONSTANTS Hosts, NoHost

VARIABLES transport, remote

U == INSTANCE VnUdp

ringVars == <<txVars, wire, ring, rd, wr, cuts>>
rxVars == <<transport, remote, tcpVars>>

RxInit ==
  \/ transport = "tcp" /\ TcpInit /\ remote = NoHost
  \/ transport = "udp" /\ U!Init
     /\ wire = <<>> /\ ring = <<>> /\ rd = 0 /\ wr = 0 /\ cuts = 0
     /\ txCache = <<>> /\ tx = <<>> /\ mixed = FALSE

RxNext ==
  \/ transport = "tcp" /\ TcpNext /\ UNCHANGED <<transport, remote>>
  \/ transport = "udp" /\ U!Next /\ UNCHANGED <<transport, ringVars>>

RxSpec == RxInit /\ [][RxNext]_rxVars

-----------------------------------------------------------------------------
\* What is forwarded is what was sent, by either transport (see VnTcp and
\* VnUdp).
AllForwarded ==
  /\ transport = "tcp" => Forwarded
  /\ transport = "udp" => U!Forwarded
=============================================================================
