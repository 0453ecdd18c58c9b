---------------------------- MODULE UDPReceiver -----------------------------
(***************************************************************************)
(* UDPReceiver and its base PacketReceiver on top of EventLoop: sockets,   *)
(* ports, subscriptions and the delivery of datagrams.                     *)
(*                                                                         *)
(* A step of this module is a step of EventLoop together with what the     *)
(* receiver and the kernel's sockets do in it.  User code (subscribe,      *)
(* unsubscribe, construction and destruction of receivers) runs between    *)
(* two runOnce calls and in packet handlers.  subscribe takes several      *)
(* steps, because a datagram can arrive as soon as the socket is bound.    *)
(***************************************************************************)
EXTENDS EventLoop, FiniteSets

CONSTANTS
  Receivers,    \* receiver objects
  Ports,        \* UDP ports, other than 0
  Sizes,        \* sizes of datagrams
  BufferSize,   \* ReceiverConfig::bufferSize
  BatchSize,    \* ReceiverConfig::batchSize
  MaxFds,       \* ReceiverConfig::maxFds, 0 for no limit
  EpollErrors,  \* {FALSE}, or {TRUE, FALSE} when epoll_ctl may lack resources
  SharedPorts,  \* TRUE when the kernel may pick a port in use for port 0
  MaxSubs,      \* bound: number of calls of subscribe that get a socket
  MaxPackets    \* bound: number of datagrams that arrive

Subs == 1 .. MaxSubs

ASSUME UDPAssumption ==
  /\ Callbacks = [receiver : Receivers, sub : Subs]
  /\ 0 \notin Ports
  /\ Sizes \subseteq Nat
  /\ BufferSize \in Nat \ {0}
  /\ BatchSize \in Nat \ {0}
  /\ MaxFds \in Nat
  /\ EpollErrors \subseteq BOOLEAN
  /\ SharedPorts \in BOOLEAN
  /\ MaxSubs \in Nat
  /\ MaxPackets \in Nat

VARIABLES
  alive,      \* receivers that exist
  portToFd,   \* m_port_to_fd_map of each receiver: port -> descriptor
  socket,     \* kernel: bound socket -> [port, sub, queue]
  call,       \* the subscribe call in progress
  stage,      \* handleRead: "none", "read", "batch" or "callback"
  batch,      \* handleRead: datagrams received and not yet handed over
  nextSub,    \* history: numbers the subscriptions
  arrived,    \* history: sizes of the datagrams each subscription's socket got
  delivered   \* history: what each subscription's handler was called with

udpVars == <<alive, portToFd, socket, call, stage, batch, nextSub, arrived, delivered>>
history == <<nextSub, arrived, delivered>>
allVars == <<vars, udpVars>>

NoCall == [at |-> "none"]

UdpInit ==
  /\ Init
  /\ alive = Receivers
  /\ portToFd = [r \in Receivers |-> << >>]
  /\ socket = << >>
  /\ call = NoCall
  /\ stage = "none"
  /\ batch = << >>
  /\ nextSub = 1
  /\ arrived = [s \in Subs |-> << >>]
  /\ delivered = [s \in Subs |-> << >>]

\* Code of the application runs: no call of the receiver is in progress.
AppCode ==
  /\ call = NoCall
  /\ pc = "idle" \/ stage = "callback"

-----------------------------------------------------------------------------
\* A datagram reaches a bound socket.
PacketArrives(fd, size) ==
  /\ Cardinality({d \in Subs \X (1 .. MaxPackets) : d[2] \in DOMAIN arrived[d[1]]})
       < MaxPackets
  /\ socket' = [socket EXCEPT ![fd].queue = Append(@, size)]
  /\ arrived' = [arrived EXCEPT ![socket[fd].sub] = Append(@, size)]
  /\ IF fd \in readable THEN UNCHANGED vars ELSE DataArrives(fd)
  /\ UNCHANGED <<alive, portToFd, call, stage, batch, nextSub, delivered>>

\* close() of the descriptors of S, which epoll forgets if it knows them.
Close(S) ==
  /\ open' = open \ S
  /\ readable' = readable \ S
  /\ socket' = [fd \in DOMAIN socket \ S |-> socket[fd]]

-----------------------------------------------------------------------------
(***************************************************************************)
(* subscribe.  PacketReceiver::subscribe refuses the call when the limit   *)
(* is reached or the port is taken (nothing changes); then socket().       *)
(***************************************************************************)
SubscribeSocket(r, port, fd) ==
  /\ AppCode
  /\ r \in alive
  /\ MaxFds > 0 => Cardinality(DOMAIN portToFd[r]) < MaxFds
  /\ port \notin DOMAIN portToFd[r]
  /\ nextSub \in Subs
  /\ OpenFd(fd)
  /\ call' = [at |-> "socket", receiver |-> r, port |-> port, fd |-> fd, sub |-> nextSub]
  /\ nextSub' = nextSub + 1
  /\ UNCHANGED <<alive, portToFd, socket, stage, batch, arrived, delivered>>

(***************************************************************************)
(* setsockopt, bind and getsockname succeed.  SO_REUSEADDR and             *)
(* SO_REUSEPORT let several sockets share a port, so the kernel may pick   *)
(* for port 0 one that is in use.                                          *)
(***************************************************************************)
SubscribeBind(localPort) ==
  /\ call.at = "socket"
  /\ \/ call.port = localPort
     \/ call.port = 0 /\ (SharedPorts \/ \A fd \in DOMAIN socket : socket[fd].port # localPort)
  /\ call' = [call EXCEPT !.at = "bound", !.port = localPort]
  /\ socket' = [fd \in DOMAIN socket \cup {call.fd} |->
                  IF fd = call.fd
                    THEN [port |-> localPort, sub |-> call.sub, queue |-> << >>]
                    ELSE socket[fd]]
  /\ UNCHANGED <<vars, alive, portToFd, stage, batch, history>>

SubscribeAdd(ctlFails) ==
  /\ call.at = "bound"
  /\ AddSource(call.fd,
               [fd |-> call.fd,
                callback |-> [receiver |-> call.receiver, sub |-> call.sub]], ctlFails)
  /\ call' = [call EXCEPT !.at = IF ctlFails THEN "refused" ELSE "added"]
  /\ UNCHANGED <<alive, portToFd, socket, stage, batch, history>>

\* Mutant: the raw descriptor is not closed when the registration fails.
GuardedNot == call.at = "socket"

\* ScopedFd owns the descriptor until emplace takes it over.
Guarded == call.at \in {"socket", "refused"}

\* setsockopt, bind, getsockname or the registration failed: ScopedFd closes the
\* socket on return.
SubscribeFails ==
  /\ call.at \in {"socket", "refused"}
  /\ Close(IF Guarded THEN {call.fd} ELSE {})
  /\ call' = NoCall
  /\ UNCHANGED <<mem, slowSources, interest, readyList, removed, loopVars, taskVars,
                 alive, portToFd, stage, batch, history>>

(***************************************************************************)
(* emplace stores the socket under its port.  When the port is in the map  *)
(* already, emplace stores nothing, the socket is closed, and subscribe    *)
(* returns the port all the same.                                          *)
(***************************************************************************)
SubscribeDone ==
  /\ call.at = "added"
  /\ call' = NoCall
  /\ LET r == call.receiver IN
       IF call.port \in DOMAIN portToFd[r]
         THEN /\ Close({call.fd})
              /\ EpollForgets({call.fd})
              /\ UNCHANGED portToFd
         ELSE /\ portToFd' = [portToFd EXCEPT ![r] =
                   [p \in DOMAIN @ \cup {call.port} |->
                      IF p = call.port THEN call.fd ELSE @[p]]]
              /\ UNCHANGED <<open, readable, socket, interest, readyList>>
  /\ UNCHANGED <<mem, slowSources, removed, loopVars, taskVars, alive, stage, batch, history>>

\* Mutant: the entry of the map is left behind.
WithoutKept(map, port) == map

Without(map, port) == [p \in DOMAIN map \ {port} |-> map[p]]

\* unsubscribe of a port that is not in the map returns ENOENT.
Unsubscribe(r, port) ==
  /\ AppCode
  /\ r \in alive
  /\ port \in DOMAIN portToFd[r]
  /\ Forget({portToFd[r][port]})
  /\ Close({portToFd[r][port]})
  /\ portToFd' = [portToFd EXCEPT ![r] = Without(@, port)]
  /\ UNCHANGED <<loopVars, taskVars, alive, call, stage, batch, history>>

FdsOf(r) == {portToFd[r][p] : p \in DOMAIN portToFd[r]}

\* Mutant: the sockets are closed and the loop not told.
ForgetOnlyEpoll(S) == EpollForgets(S) /\ UNCHANGED <<mem, slowSources, removed>>

\* removeSource for the sockets of a receiver.
RemoveSources(S) == Forget(S)

(***************************************************************************)
(* ~PacketReceiver removes every source of its map; the map's ScopedFds    *)
(* then close the sockets.  A receiver is not destroyed by its own packet  *)
(* handler: handleRead goes on using the object.                           *)
(***************************************************************************)
Destroy(r) ==
  /\ AppCode
  /\ r \in alive
  /\ stage = "callback" => current.callback.receiver # r
  /\ RemoveSources(FdsOf(r))
  /\ Close(FdsOf(r))
  /\ alive' = alive \ {r}
  /\ portToFd' = [portToFd EXCEPT ![r] = << >>]
  /\ UNCHANGED <<loopVars, taskVars, call, stage, batch, history>>

-----------------------------------------------------------------------------
(***************************************************************************)
(* The loop.  handleRead is called with copies of the tag's members; it    *)
(* receives one batch and hands the datagrams over one by one.             *)
(***************************************************************************)
Poll ==
  /\ call = NoCall
  /\ (\E t \in Timeouts : RunOnce(t)) \/ EpollWait \/ TakeTasks \/ RunOnceReturns
  /\ UNCHANGED udpVars

HandleRead ==
  /\ Dispatch
  /\ stage' = IF pc' = "handler" THEN "read" ELSE "none"
  /\ UNCHANGED <<alive, portToFd, socket, call, batch, history>>

\* Mutant: datagrams beyond the batch are thrown away.
LeftNone(queue) == << >>

\* What recvmmsg leaves in the socket when it takes up to BatchSize datagrams.
Left(queue) == SubSeq(queue, BatchSize + 1, Len(queue))

\* Mutant: datagrams beyond the batch are not reported again, as with EPOLLET.
StillReadableNever(queue) == FALSE

StillReadable(queue) == Left(queue) # << >>

\* recvmmsg; on a closed descriptor it fails.
Receive ==
  /\ stage = "read"
  /\ stage' = "batch"
  /\ LET fd == current.fd IN
       IF fd \in DOMAIN socket
         THEN LET queue == socket[fd].queue
              IN  /\ batch' = SubSeq(queue, 1, IF Len(queue) < BatchSize
                                              THEN Len(queue) ELSE BatchSize)
                  /\ socket' = [socket EXCEPT ![fd].queue = Left(@)]
                  /\ readable' = IF StillReadable(queue) THEN readable ELSE readable \ {fd}
         ELSE batch' = << >> /\ UNCHANGED <<socket, readable>>
  /\ UNCHANGED <<mem, slowSources, open, interest, readyList, removed, loopVars, taskVars,
                 alive, portToFd, call, history>>

\* What a handler is called with for a datagram of this size.
Packet(size) ==
  [len |-> IF size > BufferSize THEN BufferSize ELSE size, truncated |-> size > BufferSize]

\* An empty datagram is consumed without a call.
Deliver ==
  /\ stage = "batch"
  /\ batch # << >>
  /\ batch' = Tail(batch)
  /\ IF Head(batch) = 0
       THEN UNCHANGED <<stage, delivered>>
       ELSE /\ stage' = "callback"
            /\ delivered' = [delivered EXCEPT ![current.callback.sub] =
                               Append(@, Packet(Head(batch)))]
  /\ UNCHANGED <<vars, alive, portToFd, socket, call, nextSub, arrived>>

CallbackReturns ==
  /\ stage = "callback"
  /\ call = NoCall
  /\ stage' = "batch"
  /\ UNCHANGED <<vars, alive, portToFd, socket, call, batch, history>>

HandleReadReturns ==
  /\ stage = "batch"
  /\ batch = << >>
  /\ EndHandler
  /\ stage' = "none"
  /\ UNCHANGED <<alive, portToFd, socket, call, batch, history>>

-----------------------------------------------------------------------------
Subscribing ==
  \/ \E p \in Ports : SubscribeBind(p)
  \/ SubscribeFails
  \/ \E f \in EpollErrors : SubscribeAdd(f)
  \/ SubscribeDone

App ==
  \/ \E r \in Receivers, p \in Ports \cup {0}, fd \in Fds \ {TimerFd} :
       SubscribeSocket(r, p, fd)
  \/ \E r \in Receivers, p \in Ports : Unsubscribe(r, p)
  \/ \E r \in Receivers : Destroy(r)

UdpLoop ==
  \/ Poll
  \/ HandleRead
  \/ Receive
  \/ Deliver
  \/ CallbackReturns
  \/ HandleReadReturns

UdpNext ==
  \/ \E fd \in DOMAIN socket, size \in Sizes : PacketArrives(fd, size)
  \/ Subscribing
  \/ App
  \/ UdpLoop

UdpSpec == UdpInit /\ [][UdpNext]_allVars

\* subscribe comes to its end, runOnce is called again and again, and callbacks return.
FairUdpSpec == UdpSpec /\ WF_allVars(Subscribing) /\ WF_allVars(UdpLoop)

-----------------------------------------------------------------------------
SocketsOf(s) == {fd \in DOMAIN socket : socket[fd].sub = s}

(***************************************************************************)
(* The types of the port maps and the sockets: m_port_to_fd_map holds open *)
(* descriptors only, and handleRead runs exactly while runOnce dispatches. *)
(***************************************************************************)
UdpTypeOK ==
  /\ TypeOK
  /\ alive \subseteq Receivers
  /\ \A r \in Receivers : DOMAIN portToFd[r] \subseteq Ports /\ FdsOf(r) \subseteq open
  /\ DOMAIN socket \subseteq open
  /\ \A fd \in DOMAIN socket :
       socket[fd] \in [port : Ports, sub : Subs, queue : Seq(Sizes)]
  /\ call.at \in {"none", "socket", "bound", "refused", "added"}
  /\ stage \in {"none", "read", "batch", "callback"}
  /\ stage # "none" <=> pc = "handler"
  /\ batch \in Seq(Sizes)
  /\ nextSub \in 1 .. MaxSubs + 1
  /\ \A s \in Subs : \A f, g \in SocketsOf(s) : f = g

(***************************************************************************)
(* Between two calls of the receivers, the open sockets are exactly those  *)
(* of the port maps, every one is watched by epoll, bound to the port it   *)
(* is filed under, and leads to the handler of its own subscription: no    *)
(* failing step of subscribe leaks a descriptor or a registration.         *)
(***************************************************************************)
SocketsOwned ==
  call = NoCall =>
    /\ open = {TimerFd} \cup UNION {FdsOf(r) : r \in Receivers}
    /\ DOMAIN interest = open
    /\ \A r \in Receivers, p \in Ports :
         p \in DOMAIN portToFd[r] =>
           LET fd == portToFd[r][p] IN
             /\ r \in alive
             /\ socket[fd].port = p
             /\ mem[interest[fd]].callback = [receiver |-> r, sub |-> socket[fd].sub]

(***************************************************************************)
(* handleRead is never called on a destroyed receiver, although events for *)
(* it may be in the batch when another handler destroys it                 *)
(* (PacketReceiver.cc:76, UDPReceiverTest.SafeDestruction).  This rests on *)
(* every registration being taken back: no epoll_ctl fails, the kernel     *)
(* picks no port for port 0 that the receiver has, and descriptors are     *)
(* below MAX_FAST_FDS.  Each of these cases leaves a tag, or frees its     *)
(* cell, while an event of the batch may still lead to it.                 *)
(***************************************************************************)
ReceiverAlive == stage # "none" => current.callback.receiver \in alive

(***************************************************************************)
(* handleRead reads from a socket that is open and belongs to the          *)
(* subscription it was called for, even when the descriptor of its event   *)
(* was closed and used again by another handler of the batch: the copies   *)
(* of the tag's members are never stale.  It rests on the same three       *)
(* conditions as ReceiverAlive.                                            *)
(***************************************************************************)
ReadsOwnSocket ==
  stage = "read" =>
    /\ current.fd \in DOMAIN socket
    /\ socket[current.fd].sub = current.callback.sub

Deliverable(sizes) ==
  LET s == Filter(sizes, Sizes \ {0}) IN [i \in DOMAIN s |-> Packet(s[i])]

(***************************************************************************)
(* Every subscription's handler gets the datagrams of its own socket, in   *)
(* order, none twice and none of another subscription, however             *)
(* descriptors are reused under events that are still in the batch.  While *)
(* it is subscribed it misses none but the empty ones.                     *)
(***************************************************************************)
DeliveredInOrder ==
  \A s \in Subs :
    LET got == delivered[s] \o
               Deliverable(IF stage # "none" /\ current.callback.sub = s
                             THEN batch ELSE << >>)
        all == Deliverable(arrived[s])
    IN  IF SocketsOf(s) = {}
          THEN Len(got) <= Len(all) /\ got = SubSeq(all, 1, Len(got))
          ELSE \A fd \in SocketsOf(s) : got \o Deliverable(socket[fd].queue) = all

(***************************************************************************)
(* A datagram in a socket is received, or its subscription ends.           *)
(***************************************************************************)
EveryPacketReceived ==
  \A s \in Subs :
    (\E fd \in SocketsOf(s) : socket[fd].queue # << >>)
      ~> (\A fd \in SocketsOf(s) : socket[fd].queue = << >>)
=============================================================================
