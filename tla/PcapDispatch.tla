---------------------------- MODULE PcapDispatch ----------------------------
(***************************************************************************)
(* From a captured frame to a call of a subscriber: PcapReceiver's         *)
(* subscribe and unsubscribe, the fast and the slow parser, the port table *)
(* and the one-entry cache in front of it.                                 *)
(*                                                                         *)
(* A frame is abstracted to the fields the parsers test, at the offsets of *)
(* its link layer.  Reads are tracked by how many bytes of the frame must  *)
(* exist for them.                                                         *)
(***************************************************************************)
EXTENDS Integers

CONSTANTS
  Ports,      \* ports passed to subscribe and found in frames, host byte order
  Handlers,   \* handlers, with their context
  NoHandler,  \* nullptr
  Frames      \* captured frames

VARIABLES
  fdMap,      \* keys of the base class's m_port_to_fd_map: this class adds none
  portTable,  \* m_portTable, indexed by port in network byte order
  hotPort,    \* m_hotPort, in network byte order
  hotHandler, \* m_hotHandler and m_hotContext
  frame,      \* the last frame parsed
  called,     \* the handler it was given to, NoHandler if none
  latest,     \* history: the handler subscribed last for each port
  ever,       \* history: all handlers ever subscribed for each port
  answer      \* the last unsubscribe: its port and its result

vars == <<fdMap, portTable, hotPort, hotHandler, frame, called, latest, ever, answer>>

IsUint16(n) == n \in Nat /\ n <= 65535

\* htons on a little-endian machine: the two bytes are swapped.
Htons(port) == (port % 256) * 256 + port \div 256

NetPorts == {Htons(p) : p \in Ports} \cup Ports

EN10MB == 1
LinuxSll == 113
EtherTypeIP == 2048
EtherTypeVlan == 33024
ProtoUdp == 17

\* m_linkType ("fileLink") is set by the header of a legacy file only: for a frame
\* of a pcapng file it is the initial 0, or that of a legacy file opened before.
ASSUME DispatchAssumption ==
  /\ \A p \in Ports : IsUint16(p)
  /\ NoHandler \notin Handlers
  /\ \A f \in Frames :
       /\ f.link \in Nat /\ f.fileLink \in Nat
       /\ f.caplen \in Nat /\ f.len \in Nat
       /\ f.type \in Nat /\ f.inner \in Nat
       /\ f.version \in Nat /\ f.ihl \in Nat /\ f.proto \in Nat
       /\ f.port \in Ports /\ IsUint16(f.udpLen)

-----------------------------------------------------------------------------
(***************************************************************************)
(* The result of a parser: how far it gets ("drop" before the port is      *)
(* looked up, "port" when the frame is refused after it, "ok"), where the  *)
(* payload lies, and how many bytes of the frame it has read.              *)
(***************************************************************************)
Dropped(need) == [end |-> "drop", offset |-> 0, len |-> 0, need |-> need]

\* The UDP part, with the UDP header at the given offset.
Udp(f, offset) ==
  IF f.udpLen < 8 \/ f.caplen < offset + f.udpLen
    THEN [end |-> "port", offset |-> 0, len |-> 0, need |-> offset + 8]
    ELSE [end |-> "ok", offset |-> offset + 8, len |-> f.udpLen - 8, need |-> offset + f.udpLen]

\* The tests before the fast path; the link type tested is the file's.
FastApplies(f) ==
  /\ f.fileLink = EN10MB /\ f.caplen >= f.len /\ f.caplen >= 42
  /\ f.type = EtherTypeIP /\ f.version = 4 /\ f.proto = ProtoUdp

\* Mutant: the fixed minimum of 42 bytes is trusted for every header length.
FastPathNoCheck(f) == Udp(f, 14 + 4 * f.ihl)

FastPath(f) ==
  IF f.caplen < 14 + 4 * f.ihl + 8 THEN Dropped(24) ELSE Udp(f, 14 + 4 * f.ihl)

\* IPv4 at the given offset, behind a header whose protocol field is proto.
SlowIp(f, proto, offset) ==
  IF proto # EtherTypeIP \/ f.caplen < offset + 20 THEN Dropped(offset)
  ELSE IF \/ f.version # 4
          \/ f.caplen < offset + 4 * f.ihl
          \/ f.proto # ProtoUdp
          \/ f.caplen < offset + 4 * f.ihl + 8
  THEN Dropped(offset + 20)
  ELSE Udp(f, offset + 4 * f.ihl)

\* The link header, with a VLAN tag if there is one, and what follows it.
\* The original length and the link type are arguments of slowPathParse.
SlowPath(f, len, link) ==
  IF f.caplen # len THEN Dropped(0)
  ELSE IF link = LinuxSll
    THEN IF f.caplen < 16 THEN Dropped(0) ELSE SlowIp(f, f.type, 16)
  ELSE IF link # EN10MB \/ f.caplen < 14 THEN Dropped(0)
  ELSE IF f.type # EtherTypeVlan THEN SlowIp(f, f.type, 14)
  ELSE IF f.caplen < 18 THEN Dropped(14)
  ELSE SlowIp(f, f.inner, 18)

Parse(f) == IF FastApplies(f) THEN FastPath(f) ELSE SlowPath(f, f.len, f.link)

-----------------------------------------------------------------------------
Init ==
  /\ fdMap = {}
  /\ portTable = [p \in NetPorts |-> NoHandler]
  /\ hotPort = 0
  /\ hotHandler = NoHandler
  /\ frame \in Frames
  /\ called = NoHandler
  /\ latest = [p \in Ports |-> NoHandler]
  /\ ever = [p \in Ports |-> {}]
  /\ answer = [port |-> 0, result |-> "none"]

\* Mutant: the table is indexed by the port in host byte order.
IndexHostOrder(port) == port

\* Where subscribe files the handler of a port.
Index(port) == Htons(port)

\* The base class refuses the ports of its map, and no other.
Subscribe(port, handler) ==
  /\ port \notin fdMap
  /\ portTable' = [portTable EXCEPT ![Index(port)] = handler]
  /\ latest' = [latest EXCEPT ![port] = handler]
  /\ ever' = [ever EXCEPT ![port] = @ \cup {handler}]
  /\ UNCHANGED <<fdMap, hotPort, hotHandler, frame, called, answer>>

\* The base class looks the port up in its map; on success the entry at the
\* port in host byte order is cleared.
Unsubscribe(port) ==
  /\ answer' = [port |-> port, result |-> IF port \in fdMap THEN "ok" ELSE "ENOENT"]
  /\ fdMap' = fdMap \ {port}
  /\ portTable' = IF port \in fdMap THEN [portTable EXCEPT ![port] = NoHandler] ELSE portTable
  /\ UNCHANGED <<hotPort, hotHandler, frame, called, latest, ever>>

\* Mutant: the cached handler is used for every port.
CacheHitAnyPort(net) == hotHandler # NoHandler

CacheHit(net) == net = hotPort /\ hotHandler # NoHandler

(***************************************************************************)
(* parseAndDispatch.  A port other than the cached one is looked up, and   *)
(* cached if it has a handler, before the lengths are checked.             *)
(***************************************************************************)
Dispatch(f) ==
  LET net == Htons(f.port)
      handler == IF CacheHit(net) THEN hotHandler ELSE portTable[net]
      looks == Parse(f).end # "drop" /\ handler # NoHandler
  IN  /\ frame' = f
      /\ hotPort' = IF looks THEN net ELSE hotPort
      /\ hotHandler' = IF looks THEN handler ELSE hotHandler
      /\ called' = IF Parse(f).end = "ok" THEN handler ELSE NoHandler
      /\ UNCHANGED <<fdMap, portTable, latest, ever, answer>>

Next ==
  \/ \E p \in Ports, h \in Handlers : Subscribe(p, h)
  \/ \E p \in Ports : Unsubscribe(p)
  \/ \E f \in Frames : Dispatch(f)

Spec == Init /\ [][Next]_vars

-----------------------------------------------------------------------------
(***************************************************************************)
(* The fast path decides every frame it is used for as the slow path would *)
(* decide a complete frame of the file's link type: same frames dropped,   *)
(* same payload handed over.  Two tests of the slow path have no           *)
(* counterpart in it, for a frame whose captured length exceeds its        *)
(* original one and for a frame whose own link type is not the file's; it  *)
(* takes them as complete Ethernet frames.                                 *)
(***************************************************************************)
FastAgreesWithSlow ==
  FastApplies(frame) =>
    LET fast == FastPath(frame)
        slow == SlowPath(frame, frame.caplen, frame.fileLink)
    IN  fast.end = slow.end /\ fast.offset = slow.offset /\ fast.len = slow.len

(***************************************************************************)
(* Neither parser reads, nor hands to a subscriber, a byte behind the      *)
(* captured length, for any header length field and any UDP length.        *)
(***************************************************************************)
ReadsInsideFrame == Parse(frame).need <= frame.caplen

(***************************************************************************)
(* A frame is given only to a handler that was subscribed to the frame's   *)
(* own destination port, whatever frames of other ports went through the   *)
(* cache before.                                                           *)
(***************************************************************************)
CalledForItsPort == called # NoHandler => called \in ever[frame.port]

(***************************************************************************)
(* What a complete UDP datagram over IPv4 is, on the three link layers     *)
(* supported: a definition of its own, that shares nothing with the        *)
(* parsers.                                                                *)
(***************************************************************************)
LinkHeader(f) ==
  IF f.link = LinuxSll THEN 16 ELSE IF f.type = EtherTypeVlan THEN 18 ELSE 14

IsDatagram(f) ==
  LET header == LinkHeader(f) + 4 * f.ihl
  IN  /\ f.link \in {EN10MB, LinuxSll}
      /\ f.caplen = f.len
      /\ EtherTypeIP = IF LinkHeader(f) = 18 THEN f.inner ELSE f.type
      /\ f.version = 4 /\ f.ihl >= 5 /\ f.proto = ProtoUdp
      /\ f.udpLen >= 8 /\ header + f.udpLen <= f.caplen

(***************************************************************************)
(* A subscribed port does not lose frames: the step that parses a complete *)
(* datagram for it calls a handler, with the datagram's payload, whatever  *)
(* the byte order of the port and whatever the cache holds.  The captured  *)
(* length is the original one, and m_linkType does not stem from a file    *)
(* opened before.                                                          *)
(***************************************************************************)
SubscribedIsCalled ==
  [][/\ UNCHANGED <<latest, answer>>
     /\ IsDatagram(frame') /\ frame'.fileLink \in {0, frame'.link}
     /\ latest[frame'.port] # NoHandler
     => /\ called' # NoHandler
        /\ Parse(frame').offset = LinkHeader(frame') + 4 * frame'.ihl + 8
        /\ Parse(frame').len = frame'.udpLen - 8]_vars

(***************************************************************************)
(* "When a packet in the PCAP matches this destination port, the handler   *)
(* is called" (PcapReceiver.h:126): the handler called is the one that was *)
(* subscribed to the port last.                                            *)
(***************************************************************************)
CallsLatestHandler ==
  [][UNCHANGED <<latest, answer>> /\ called' # NoHandler
       => called' = latest[frame'.port]]_vars
=============================================================================
