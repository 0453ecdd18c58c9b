------------------------- MODULE PcapDispatchProofs -------------------------
(***************************************************************************)
(* Proofs about PcapDispatch, for all ports, handlers and frames.  The     *)
(* parsers are pure: what is said of them holds of every frame.  What the  *)
(* port table and its cache say of each other is inductive with TableInv.  *)
(***************************************************************************)
EXTENDS PcapDispatch, TLAPS

(***************************************************************************)
(* The tables hold handlers, and the cached port fits in uint16_t.         *)
(***************************************************************************)
TypeOK ==
  /\ fdMap \subseteq Ports
  /\ portTable \in [NetPorts -> Handlers \cup {NoHandler}]
  /\ IsUint16(hotPort)
  /\ hotHandler \in Handlers \cup {NoHandler}
  /\ frame \in Frames
  /\ called \in Handlers \cup {NoHandler}
  /\ latest \in [Ports -> Handlers \cup {NoHandler}]
  /\ ever \in [Ports -> SUBSET Handlers]
  /\ answer.port \in Ports \cup {0} /\ answer.result \in {"none", "ok", "ENOENT"}

(***************************************************************************)
(* A port's entry holds the handler subscribed to it last, the cache one   *)
(* that was subscribed to the port it names; no port is ever in the base   *)
(* class's map.                                                            *)
(***************************************************************************)
TableInv ==
  /\ fdMap = {}
  /\ \A p \in Ports :
       /\ portTable[Htons(p)] = latest[p]
       /\ latest[p] # NoHandler => latest[p] \in ever[p]
       /\ hotHandler # NoHandler /\ hotPort = Htons(p) => hotHandler \in ever[p]

DispatchInv == TypeOK /\ TableInv /\ CalledForItsPort

-----------------------------------------------------------------------------
\* htons maps different ports to different entries of the table.
LEMMA HtonsInjective ==
  ASSUME NEW p \in Nat, NEW q \in Nat, IsUint16(p), IsUint16(q), Htons(p) = Htons(q)
  PROVE  p = q
<1>1. /\ p = 256 * (p \div 256) + (p % 256) /\ p \div 256 <= 255 /\ p % 256 <= 255
      /\ q = 256 * (q \div 256) + (q % 256) /\ q \div 256 <= 255 /\ q % 256 <= 255
      /\ {p \div 256, p % 256, q \div 256, q % 256} \subseteq Nat
  BY DEF IsUint16
<1>2. (p % 256) * 256 + p \div 256 = (q % 256) * 256 + q \div 256
  BY DEF Htons
<1> QED
  BY <1>1, <1>2

\* htons stays inside uint16_t.
LEMMA HtonsType ==
  ASSUME NEW p \in Nat, IsUint16(p)
  PROVE  IsUint16(Htons(p))
  BY DEF Htons, IsUint16

\* The fields of a frame.
LEMMA FrameType ==
  ASSUME NEW f \in Frames
  PROVE  /\ f.caplen \in Nat /\ f.len \in Nat /\ f.udpLen \in Nat /\ f.ihl \in Nat
         /\ f.port \in Ports
  BY DispatchAssumption DEF IsUint16

(***************************************************************************)
(* On every frame that parseAndDispatch gives to its fast path, the slow   *)
(* one gives the same answer, whatever the lengths in the headers, once    *)
(* its two arguments that the fast path does not look at say what the fast *)
(* path assumes.                                                           *)
(***************************************************************************)
LEMMA ParsersAgree ==
  ASSUME NEW f \in Frames, FastApplies(f)
  PROVE  /\ FastPath(f).end = SlowPath(f, f.caplen, f.fileLink).end
         /\ FastPath(f).offset = SlowPath(f, f.caplen, f.fileLink).offset
         /\ FastPath(f).len = SlowPath(f, f.caplen, f.fileLink).len
<1> DEFINE slow == SlowPath(f, f.caplen, f.fileLink)
<1>1. slow = SlowIp(f, f.type, 14)
  BY FrameType DEF SlowPath, FastApplies, EN10MB, LinuxSll, EtherTypeIP, EtherTypeVlan
<1> HIDE DEF slow
<1>2. CASE f.caplen < 14 + 4 * f.ihl + 8
  <2>1. FastPath(f) = Dropped(24)
    BY <1>2 DEF FastPath
  <2>2. slow = Dropped(34)
    BY <1>1, <1>2, FrameType DEF SlowIp, FastApplies
  <2> QED
    BY <2>1, <2>2 DEF Dropped, slow
<1>3. CASE ~(f.caplen < 14 + 4 * f.ihl + 8)
  <2>1. FastPath(f) = Udp(f, 14 + 4 * f.ihl)
    BY <1>3 DEF FastPath
  <2>2. slow = Udp(f, 14 + 4 * f.ihl)
    BY <1>1, <1>3, FrameType DEF SlowIp, FastApplies
  <2> QED
    BY <2>1, <2>2 DEF slow
<1> QED
  BY <1>2, <1>3

\* Reading the UDP part needs no more bytes than were captured, when its header
\* was.
LEMMA UdpInside ==
  ASSUME NEW f \in Frames, NEW offset \in Nat, f.caplen >= offset + 8
  PROVE  Udp(f, offset).need <= f.caplen
  BY FrameType DEF Udp

\* Nor does the rest of the slow path, when the link header was captured.
LEMMA SlowIpInside ==
  ASSUME NEW f \in Frames, NEW proto, NEW offset \in Nat, f.caplen >= offset
  PROVE  SlowIp(f, proto, offset).need <= f.caplen
<1> DEFINE udp == offset + 4 * f.ihl
<1>1. f.caplen \in Nat /\ udp \in Nat
  BY FrameType
<1>2. \/ SlowIp(f, proto, offset) = Dropped(offset)
      \/ f.caplen >= offset + 20 /\ SlowIp(f, proto, offset) = Dropped(offset + 20)
      \/ f.caplen >= udp + 8 /\ SlowIp(f, proto, offset) = Udp(f, udp)
  BY <1>1 DEF SlowIp
<1>3. Dropped(offset).need = offset /\ Dropped(offset + 20).need = offset + 20
  BY DEF Dropped
<1>4. f.caplen >= udp + 8 => Udp(f, udp).need <= f.caplen
  BY <1>1, UdpInside
<1> QED
  BY <1>1, <1>2, <1>3, <1>4

(***************************************************************************)
(* Neither parser reads behind the captured bytes of any frame.            *)
(***************************************************************************)
LEMMA ParseInside ==
  ASSUME NEW f \in Frames
  PROVE  Parse(f).need <= f.caplen
<1>1. CASE FastApplies(f)
  <2>1. CASE f.caplen < 14 + 4 * f.ihl + 8
    BY <1>1, <2>1, FrameType DEF Parse, FastPath, Dropped, FastApplies
  <2>2. CASE ~(f.caplen < 14 + 4 * f.ihl + 8)
    <3>1. 14 + 4 * f.ihl \in Nat /\ f.caplen >= (14 + 4 * f.ihl) + 8
      BY <2>2, FrameType
    <3>2. Udp(f, 14 + 4 * f.ihl).need <= f.caplen
      BY <3>1, UdpInside
    <3> QED
      BY <1>1, <2>2, <3>2 DEF Parse, FastPath
  <2> QED
    BY <2>1, <2>2
<1>2. CASE ~FastApplies(f)
  <2>1. f.caplen >= 14 => SlowIp(f, f.type, 14).need <= f.caplen
    BY SlowIpInside
  <2>2. f.caplen >= 16 => SlowIp(f, f.type, 16).need <= f.caplen
    BY SlowIpInside
  <2>3. f.caplen >= 18 => SlowIp(f, f.inner, 18).need <= f.caplen
    BY SlowIpInside
  <2>4. SlowPath(f, f.len, f.link).need <= f.caplen
    BY <2>1, <2>2, <2>3, FrameType DEF SlowPath, Dropped
  <2> QED
    BY <1>2, <2>4 DEF Parse
<1> QED
  BY <1>1, <1>2

(***************************************************************************)
(* A complete datagram gets through whichever parser it meets, and its     *)
(* payload is found behind the headers.                                    *)
(***************************************************************************)
LEMMA DatagramParsed ==
  ASSUME NEW f \in Frames, IsDatagram(f), f.fileLink \in {0, f.link}
  PROVE  /\ Parse(f).end = "ok"
         /\ Parse(f).offset = LinkHeader(f) + 4 * f.ihl + 8
         /\ Parse(f).len = f.udpLen - 8
<1> DEFINE header == LinkHeader(f) + 4 * f.ihl
<1>1. /\ f.caplen \in Nat /\ f.udpLen \in Nat /\ f.ihl \in Nat
      /\ LinkHeader(f) \in {14, 16, 18}
      /\ f.ihl >= 5 /\ f.udpLen >= 8 /\ header + f.udpLen <= f.caplen
  BY FrameType DEF IsDatagram, LinkHeader
<1>2. /\ Udp(f, header).end = "ok"
      /\ Udp(f, header).offset = header + 8
      /\ Udp(f, header).len = f.udpLen - 8
  BY <1>1 DEF Udp
<1>3. CASE FastApplies(f)
  <2>1. LinkHeader(f) = 14
    BY <1>3, DispatchAssumption
       DEF FastApplies, LinkHeader, EN10MB, LinuxSll, EtherTypeIP, EtherTypeVlan
  <2>2. FastPath(f) = Udp(f, header)
    BY <1>1, <2>1 DEF FastPath
  <2> QED
    BY <1>2, <1>3, <2>2 DEF Parse
<1>4. CASE ~FastApplies(f)
  <2>1. \A proto \in {EtherTypeIP} : SlowIp(f, proto, LinkHeader(f)) = Udp(f, header)
    BY <1>1 DEF SlowIp, IsDatagram
  <2>2. SlowPath(f, f.len, f.link) = SlowIp(f, EtherTypeIP, LinkHeader(f))
    BY <1>1 DEF SlowPath, IsDatagram, LinkHeader, EN10MB, LinuxSll, EtherTypeIP, EtherTypeVlan
  <2> QED
    BY <1>2, <1>4, <2>1, <2>2 DEF Parse
<1> QED
  BY <1>3, <1>4

-----------------------------------------------------------------------------
\* Every port and its byte swap have an entry in the table.
LEMMA PortType ==
  ASSUME NEW p \in Ports
  PROVE  /\ p \in Nat /\ IsUint16(p) /\ IsUint16(Htons(p))
         /\ p \in NetPorts /\ Htons(p) \in NetPorts
<1>1. p \in Nat /\ IsUint16(p)
  BY DispatchAssumption DEF IsUint16
<1> QED
  BY <1>1, HtonsType DEF NetPorts

LEMMA DispatchInitially == Init => DispatchInv
<1> SUFFICES ASSUME Init PROVE DispatchInv
  OBVIOUS
<1>1. \A p \in Ports : Htons(p) \in NetPorts
  BY PortType, Zenon
<1>2. TypeOK
  BY DEF Init, TypeOK, IsUint16
<1>3. TableInv
  BY <1>1 DEF Init, TableInv
<1> QED
  BY <1>2, <1>3 DEF Init, DispatchInv, CalledForItsPort

\* subscribe: the entry of another port is another entry.
LEMMA SubscribeKeeps ==
  ASSUME DispatchInv, NEW port \in Ports, NEW handler \in Handlers, Subscribe(port, handler)
  PROVE  DispatchInv'
<1>1. Htons(port) \in NetPorts
  BY PortType
<1>2. handler # NoHandler
  BY DispatchAssumption
<1>3. TypeOK'
  BY <1>1 DEF DispatchInv, TypeOK, Subscribe, Index
<1>4. \A p \in Ports : p # port => Htons(p) # Htons(port)
  BY PortType, HtonsInjective
<1>5. \A p \in Ports :
        /\ ever'[p] = IF p = port THEN ever[p] \cup {handler} ELSE ever[p]
        /\ latest'[p] = IF p = port THEN handler ELSE latest[p]
        /\ portTable'[Htons(p)] = IF p = port THEN handler ELSE portTable[Htons(p)]
  BY <1>1, <1>4, PortType, Zenon DEF DispatchInv, TypeOK, Subscribe, Index
<1>6. TableInv'
  <2>1. fdMap' = {} /\ hotHandler' = hotHandler /\ hotPort' = hotPort
    BY DEF DispatchInv, TableInv, Subscribe
  <2>2. ASSUME NEW p \in Ports
        PROVE  /\ portTable'[Htons(p)] = latest'[p]
               /\ latest'[p] # NoHandler => latest'[p] \in ever'[p]
               /\ hotHandler # NoHandler /\ hotPort = Htons(p) => hotHandler \in ever'[p]
    BY <1>2, <1>5, Zenon DEF DispatchInv, TableInv
  <2> QED
    BY <2>1, <2>2 DEF TableInv, Htons
<1>7. CalledForItsPort'
  BY <1>5, FrameType DEF DispatchInv, TypeOK, CalledForItsPort, Subscribe
<1> QED
  BY <1>3, <1>6, <1>7 DEF DispatchInv

\* unsubscribe never finds the port in the base class's map.
LEMMA UnsubscribeKeeps ==
  ASSUME DispatchInv, NEW port \in Ports, Unsubscribe(port)
  PROVE  DispatchInv'
<1>1. portTable' = portTable /\ fdMap' = {} /\ answer' = [port |-> port, result |-> "ENOENT"]
  BY DEF DispatchInv, TableInv, Unsubscribe
<1>2. TypeOK'
  BY <1>1 DEF DispatchInv, TypeOK, Unsubscribe
<1> QED
  BY <1>1, <1>2 DEF DispatchInv, TableInv, CalledForItsPort, Unsubscribe

\* parseAndDispatch: the handler comes from the cache or from the table, and
\* either way was subscribed to the port of the frame.
LEMMA DispatchKeeps ==
  ASSUME DispatchInv, NEW f \in Frames, Dispatch(f)
  PROVE  DispatchInv'
<1> DEFINE net == Htons(f.port)
           handler == IF CacheHit(net) THEN hotHandler ELSE portTable[net]
<1>1. f.port \in Ports /\ net \in NetPorts /\ IsUint16(net)
  BY FrameType, PortType
<1>2. handler \in Handlers \cup {NoHandler}
  BY <1>1 DEF DispatchInv, TypeOK
<1>3. handler # NoHandler => handler \in ever[f.port]
  BY <1>1 DEF DispatchInv, TableInv, CacheHit
<1>4. \A p \in Ports : Htons(p) = net => p = f.port
  BY <1>1, PortType, HtonsInjective
<1>5. /\ frame' = f
      /\ called' \in {handler, NoHandler}
      /\ \/ hotPort' = hotPort /\ hotHandler' = hotHandler
         \/ handler # NoHandler /\ hotPort' = net /\ hotHandler' = handler
      /\ UNCHANGED <<fdMap, portTable, latest, ever, answer>>
  BY DEF Dispatch
<1> HIDE DEF net, handler
<1>6. TypeOK'
  BY <1>1, <1>2, <1>5 DEF DispatchInv, TypeOK
<1>7. TableInv'
  BY <1>3, <1>4, <1>5 DEF DispatchInv, TableInv
<1>8. CalledForItsPort'
  BY <1>3, <1>5 DEF CalledForItsPort
<1> QED
  BY <1>6, <1>7, <1>8 DEF DispatchInv

-----------------------------------------------------------------------------
LEMMA DispatchInvHolds == Spec => []DispatchInv
<1>1. DispatchInv /\ [Next]_vars => DispatchInv'
  <2> SUFFICES ASSUME DispatchInv, [Next]_vars PROVE DispatchInv'
    OBVIOUS
  <2>1. CASE UNCHANGED vars
    BY <2>1 DEF vars, DispatchInv, TypeOK, TableInv, CalledForItsPort
  <2> QED
    BY <2>1, SubscribeKeeps, UnsubscribeKeeps, DispatchKeeps DEF Next
<1> QED
  BY <1>1, DispatchInitially, PTL DEF Spec

\* A second subscribe of a port with the handler it has changes nothing.
LEMMA SubscribedAgain ==
  ASSUME DispatchInv, NEW p \in Ports, NEW h \in Handlers, Subscribe(p, h), latest' = latest
  PROVE  UNCHANGED vars
<1>1. latest[p] = h /\ portTable[Htons(p)] = h /\ h \in ever[p]
  <2>1. latest'[p] = h
    BY DEF Subscribe, DispatchInv, TypeOK
  <2> QED
    BY <2>1, DispatchAssumption DEF DispatchInv, TableInv
<1>2. portTable' = portTable
  BY <1>1, PortType DEF Subscribe, Index, DispatchInv, TypeOK
<1>3. ever' = ever
  <2>1. ever[p] \cup {h} = ever[p]
    BY <1>1
  <2> QED
    BY <2>1 DEF Subscribe, DispatchInv, TypeOK
<1> QED
  BY <1>2, <1>3 DEF Subscribe, vars

(***************************************************************************)
(* Every frame goes only to a handler that was subscribed to the frame's   *)
(* own port, through parseAndDispatch's cache or the table.                *)
(***************************************************************************)
THEOREM RightPort == Spec => []CalledForItsPort
<1>1. DispatchInv => CalledForItsPort
  BY DEF DispatchInv
<1> QED
  BY <1>1, DispatchInvHolds, PTL

(***************************************************************************)
(* For frames of any length, with any header length and UDP length, the    *)
(* two parsers of parseAndDispatch stay inside the captured bytes.         *)
(***************************************************************************)
THEOREM ReadsInside == Spec => []ReadsInsideFrame
<1>1. DispatchInv => ReadsInsideFrame
  BY ParseInside DEF DispatchInv, TypeOK, ReadsInsideFrame
<1> QED
  BY <1>1, DispatchInvHolds, PTL

(***************************************************************************)
(* The fast path of parseAndDispatch decides every frame it is used for as *)
(* slowPathParse would, but for the two tests it leaves out: it takes a    *)
(* frame with more bytes than its original length, and a frame whose own   *)
(* link type differs from m_linkType, as a complete Ethernet frame.        *)
(***************************************************************************)
THEOREM FastIsSlow == Spec => []FastAgreesWithSlow
<1>1. DispatchInv => FastAgreesWithSlow
  BY ParsersAgree, Zenon DEF DispatchInv, TypeOK, FastAgreesWithSlow
<1> QED
  BY <1>1, DispatchInvHolds, PTL

(***************************************************************************)
(* A complete datagram for a port that has been subscribed to is handed to *)
(* a handler, with its payload, whatever was parsed before, as long as     *)
(* m_linkType is 0 or the link type of the frame.                          *)
(***************************************************************************)
THEOREM NoneMissed == Spec => SubscribedIsCalled
<1> DEFINE Called ==
      /\ UNCHANGED <<latest, answer>>
      /\ IsDatagram(frame') /\ frame'.fileLink \in {0, frame'.link}
      /\ latest[frame'.port] # NoHandler
      => /\ called' # NoHandler
         /\ Parse(frame').offset = LinkHeader(frame') + 4 * frame'.ihl + 8
         /\ Parse(frame').len = frame'.udpLen - 8
<1>1. DispatchInv /\ [Next]_vars => [Called]_vars
  <2> SUFFICES ASSUME DispatchInv, Next, UNCHANGED <<latest, answer>>,
                      ~ UNCHANGED vars, IsDatagram(frame'), frame'.fileLink \in {0, frame'.link},
                      latest[frame'.port] # NoHandler
               PROVE  /\ called' # NoHandler
                      /\ Parse(frame').offset = LinkHeader(frame') + 4 * frame'.ihl + 8
                      /\ Parse(frame').len = frame'.udpLen - 8
    BY DEF vars
  <2>1. ASSUME NEW p \in Ports, NEW h \in Handlers, Subscribe(p, h)
        PROVE  UNCHANGED vars
    BY <2>1, SubscribedAgain
  <2>2. ASSUME NEW p \in Ports, Unsubscribe(p)
        PROVE  UNCHANGED vars
    BY <2>2 DEF Unsubscribe, DispatchInv, TableInv, vars
  <2>3. PICK f \in Frames : Dispatch(f)
    BY <2>1, <2>2 DEF Next
  <2>4. frame' = f
    BY <2>3 DEF Dispatch
  <2>5. Parse(f).end = "ok"
    BY <2>4, DatagramParsed
  <2>6. portTable[Htons(f.port)] # NoHandler
    BY <2>4, FrameType DEF DispatchInv, TableInv
  <2>7. called' # NoHandler
    BY <2>3, <2>5, <2>6 DEF Dispatch, CacheHit
  <2> QED
    BY <2>4, <2>7, DatagramParsed
<1> QED
  BY <1>1, DispatchInvHolds, PTL DEF Spec, SubscribedIsCalled
-----------------------------------------------------------------------------
\* A step that leaves the handler of every subscribed port alone: no second
\* subscribe of the port, or one with the handler it has.
KeepsHandlers == \A p \in Ports : latest[p] # NoHandler => latest'[p] = latest[p]

\* The cache then holds what the table holds for the cached port.
CacheInv ==
  \A p \in Ports :
    hotHandler # NoHandler /\ hotPort = Htons(p) =>
      latest[p] # NoHandler /\ hotHandler = latest[p]

\* The handler parseAndDispatch takes, from the cache or from the table.
LEMMA TakesLatest ==
  ASSUME DispatchInv, CacheInv, NEW f \in Frames
  PROVE  (IF CacheHit(Htons(f.port)) THEN hotHandler ELSE portTable[Htons(f.port)])
           = latest[f.port]
<1>1. f.port \in Ports
  BY FrameType
<1>2. portTable[Htons(f.port)] = latest[f.port]
  BY <1>1 DEF DispatchInv, TableInv
<1>3. CacheHit(Htons(f.port)) => hotHandler = latest[f.port]
  BY <1>1, Zenon DEF CacheHit, CacheInv
<1> QED
  BY <1>2, <1>3

LEMMA CacheKept ==
  ASSUME DispatchInv, CacheInv, [Next]_vars, [KeepsHandlers]_vars
  PROVE  CacheInv'
<1>1. CASE UNCHANGED vars
  BY <1>1 DEF vars, CacheInv
<1>2. ASSUME NEW p \in Ports, NEW h \in Handlers, Subscribe(p, h), KeepsHandlers
      PROVE  CacheInv'
  BY <1>2, Zenon DEF Subscribe, KeepsHandlers, CacheInv
<1>3. ASSUME NEW p \in Ports, Unsubscribe(p) PROVE CacheInv'
  BY <1>3 DEF Unsubscribe, CacheInv
<1>4. ASSUME NEW f \in Frames, Dispatch(f) PROVE CacheInv'
  <2>1. PICK net : net = Htons(f.port)
    OBVIOUS
  <2>2. /\ latest' = latest
        /\ \/ hotPort' = hotPort /\ hotHandler' = hotHandler
           \/ latest[f.port] # NoHandler /\ hotPort' = net /\ hotHandler' = latest[f.port]
    BY <1>4, <2>1, TakesLatest DEF Dispatch
  <2>3. \A p \in Ports : Htons(p) = net => p = f.port
    BY <2>1, FrameType, PortType, HtonsInjective
  <2> QED
    BY <2>2, <2>3 DEF CacheInv
<1> QED
  BY <1>1, <1>2, <1>3, <1>4 DEF Next

(***************************************************************************)
(* The one-entry cache of parseAndDispatch is transparent as long as no    *)
(* port is given a second handler: every frame then goes to the handler    *)
(* subscribed last, as PcapReceiver.h:126 says, however ports and frames   *)
(* alternate.                                                              *)
(***************************************************************************)
THEOREM CacheTransparent == Spec /\ [][KeepsHandlers]_vars => CallsLatestHandler
<1> DEFINE Latest == UNCHANGED <<latest, answer>> /\ called' # NoHandler
                       => called' = latest[frame'.port]
<1>1. Init => CacheInv
  BY DEF Init, CacheInv
<1>2. DispatchInv /\ CacheInv /\ [Next]_vars /\ [KeepsHandlers]_vars => CacheInv'
  BY CacheKept
<1>3. DispatchInv /\ CacheInv /\ [Next]_vars => [Latest]_vars
  <2> SUFFICES ASSUME DispatchInv, CacheInv, Next, UNCHANGED <<latest, answer>>,
                      ~ UNCHANGED vars, called' # NoHandler
               PROVE  called' = latest[frame'.port]
    BY DEF vars
  <2>1. ASSUME NEW p \in Ports, NEW h \in Handlers, Subscribe(p, h)
        PROVE  UNCHANGED vars
    BY <2>1, SubscribedAgain
  <2>2. ASSUME NEW p \in Ports, Unsubscribe(p)
        PROVE  UNCHANGED vars
    BY <2>2 DEF Unsubscribe, DispatchInv, TableInv, vars
  <2>3. PICK f \in Frames : Dispatch(f)
    BY <2>1, <2>2 DEF Next
  <2>4. frame' = f /\ called' \in {latest[f.port], NoHandler}
    BY <2>3, TakesLatest DEF Dispatch
  <2> QED
    BY <2>4
<1> QED
  BY <1>1, <1>2, <1>3, DispatchInvHolds, PTL DEF Spec, CallsLatestHandler
=============================================================================
