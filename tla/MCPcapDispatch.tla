--------------------------- MODULE MCPcapDispatch ---------------------------
(***************************************************************************)
(* The instance of PcapDispatch for TLC.  Ports 1 and 256 are each other's *)
(* byte swap.  The lengths lie on both sides of the limits the parsers     *)
(* test: 14, 16 and 18 bytes of link header, 42 for the fast path, and IP  *)
(* headers of 0, 5 and 15 words.                                           *)
(***************************************************************************)
EXTENDS PcapDispatch

CONSTANTS h1, h2

MCPorts == {1, 256}

Frame(link, caplen, len, type, version, ihl, proto, port, udpLen) ==
  [fileLink |-> link[1], link |-> link[2], caplen |-> caplen, len |-> len,
   type |-> type, inner |-> EtherTypeIP, version |-> version, ihl |-> ihl,
   proto |-> proto, port |-> port, udpLen |-> udpLen]

\* Legacy files carry their link type; for pcapng files only the frame has one,
\* and the other may be left from a legacy file opened before.
Legacy == <<EN10MB, EN10MB>>
Ng == <<0, EN10MB>>
Sll == <<LinuxSll, LinuxSll>>
Left == <<EN10MB, LinuxSll>>

\* Datagrams of every kind and length of header, one byte short, exact, or long.
Headers ==
  {Frame(l, c, c, t, 4, i, ProtoUdp, 1, 8) :
     l \in {Legacy, Ng, Sll, Left}, c \in {42, 46, 82}, t \in {EtherTypeIP, EtherTypeVlan}, i \in {5, 15}}
  \cup {Frame(Legacy, c, c, EtherTypeIP, 4, i, ProtoUdp, 1, u) :
          c \in {41, 42, 81, 82}, i \in {0, 15}, u \in {7, 8, 9}}

\* Frames cut off in each header.
Short ==
  {Frame(l, c, c, t, 4, 5, ProtoUdp, 1, 8) :
     l \in {Legacy, Sll}, c \in {13, 16, 18, 33}, t \in {EtherTypeIP, EtherTypeVlan}}

\* Traffic of both ports; frames refused for version, protocol, link, or a
\* captured length that is not the original one, and after the port is looked up.
Traffic ==
  {Frame(Legacy, 60, 60, EtherTypeIP, 4, 5, ProtoUdp, p, u) : p \in MCPorts, u \in {7, 20, 27}}
  \cup {Frame(Legacy, 60, n, EtherTypeIP, 4, 5, ProtoUdp, 256, u) :
          n \in {50, 70}, u \in {20, 27}}
  \cup {Frame(Legacy, 60, 60, EtherTypeIP, v, 5, q, 256, 20) : v \in {4, 6}, q \in {6, ProtoUdp}}
  \cup {Frame(<<0, 0>>, 60, 60, EtherTypeIP, 4, 5, ProtoUdp, 256, 20)}

MCFrames == Headers \cup Short \cup Traffic
=============================================================================
