------------------------- MODULE UDPReceiverProofs --------------------------
(***************************************************************************)
(* Proofs about UDPReceiver, for any number of receivers, ports,           *)
(* descriptors, subscriptions and datagrams.                               *)
(*                                                                         *)
(* OwnInv says who owns every descriptor: the timerfd, an entry of a port  *)
(* map or the subscribe call in progress; and how far the kernel and the   *)
(* loop know it.  It needs SourceInv of the loop, because the handler a    *)
(* socket leads to is found through the loop's cells.                      *)
(***************************************************************************)
EXTENDS UDPReceiver, EventLoopProofs

\* fd is filed in the port map of a receiver.
Filed(fd) == \E r \in Receivers : \E p \in DOMAIN portToFd[r] : portToFd[r][p] = fd

\* The subscribe call in progress holds fd and is at one of these points.
Held(fd, points) == call.at \in points /\ call.fd = fd

Points == {"socket", "bound", "refused", "added"}

\* An entry of a port map: a socket bound to its port, watched, and leading to
\* the handler of the subscription.
EntryOK(r, p, fd) ==
  /\ r \in alive
  /\ fd \in Fds \ {TimerFd}
  /\ fd \in DOMAIN socket /\ fd \in DOMAIN interest /\ fd \in open
  /\ socket[fd].port = p
  /\ mem[interest[fd]].callback = [receiver |-> r, sub |-> socket[fd].sub]
  /\ ~Held(fd, Points)

\* The call in progress: how far its socket has come.
CallOK ==
  \/ call = NoCall
  \/ /\ call \in [at : Points, receiver : alive, port : Ports \cup {0},
                  fd : Fds \ {TimerFd}, sub : Subs]
     /\ call.fd \in open
     /\ call.sub < nextSub
     /\ pc = "idle" \/ stage = "callback"
     /\ call.fd \in DOMAIN socket <=> call.at # "socket"
     /\ call.fd \in DOMAIN interest <=> call.at = "added"
     /\ call.at # "socket" => socket[call.fd].port = call.port /\ socket[call.fd].sub = call.sub
     /\ call.at = "added" =>
          mem[interest[call.fd]].callback = [receiver |-> call.receiver, sub |-> call.sub]

OwnInv ==
  /\ alive \subseteq Receivers
  /\ portToFd = [r \in Receivers |-> portToFd[r]]
  /\ \A r \in Receivers : \A p \in DOMAIN portToFd[r] : p \in Ports /\ EntryOK(r, p, portToFd[r][p])
  /\ CallOK
  /\ TimerFd \in open /\ TimerFd \in DOMAIN interest
  /\ \A fd \in open : fd = TimerFd \/ Filed(fd) \/ Held(fd, Points)
  /\ \A fd \in DOMAIN interest : fd = TimerFd \/ Filed(fd) \/ Held(fd, {"added"})
  /\ \A fd \in DOMAIN socket : Filed(fd) \/ Held(fd, Points \ {"socket"})
  /\ readable \subseteq DOMAIN socket

\* The sockets: no two of them belong to the same subscription.
SocketInv ==
  /\ socket \in [DOMAIN socket -> [port : Ports, sub : Subs, queue : Seq(Sizes)]]
  /\ nextSub \in 1 .. MaxSubs + 1
  /\ \A fd \in DOMAIN socket : socket[fd].sub < nextSub
  /\ \A f, g \in DOMAIN socket : socket[f].sub = socket[g].sub => f = g
  /\ call.at = "socket" => \A fd \in DOMAIN socket : socket[fd].sub # call.sub

StageInv ==
  /\ stage \in {"none", "read", "batch", "callback"}
  /\ stage # "none" <=> pc = "handler"
  /\ batch \in Seq(Sizes)

UdpInv == TypeOK /\ SourceInv /\ OwnInv /\ SocketInv /\ StageInv

-----------------------------------------------------------------------------
(* Who owns the descriptors.                                               *)

LEMMA UdpInitially == UdpInit => UdpInv
<1> SUFFICES ASSUME UdpInit PROVE UdpInv
  OBVIOUS
<1>1. TypeOK /\ SourceInv
  BY TypesInitially, SourceInitially DEF UdpInit
<1>2. call = NoCall /\ call.at = "none" /\ DOMAIN socket = {} /\ \A r \in Receivers : DOMAIN portToFd[r] = {}
  BY DEF UdpInit, NoCall
<1>3. OwnInv
  BY <1>2 DEF UdpInit, Init, OwnInv, CallOK
<1>4. SocketInv
  <2>1. 1 \in 1 .. MaxSubs + 1
    BY UDPAssumption
  <2> QED
    BY <1>2, <2>1 DEF UdpInit, SocketInv
<1>5. StageInv
  BY DEF UdpInit, Init, StageInv
<1> QED
  BY <1>1, <1>3, <1>4, <1>5 DEF UdpInv

\* A step that leaves the descriptors to their owners.
LEMMA OwnFrame ==
  ASSUME OwnInv, UNCHANGED <<mem, interest, open, alive, portToFd, call, nextSub>>,
         DOMAIN socket' = DOMAIN socket,
         \A fd \in DOMAIN socket : socket'[fd].port = socket[fd].port
                                   /\ socket'[fd].sub = socket[fd].sub,
         readable' \subseteq DOMAIN socket,
         call # NoCall => pc' = "idle" \/ stage' = "callback"
  PROVE  OwnInv'
<1>1. \A fd : Filed(fd)' <=> Filed(fd)
  BY DEF Filed
<1>2. \A fd, points : Held(fd, points)' <=> Held(fd, points)
  BY ZenonT(30) DEF Held
<1>3. \A r \in Receivers : \A p \in DOMAIN portToFd[r] : EntryOK(r, p, portToFd[r][p])'
  <2> SUFFICES ASSUME NEW r \in Receivers, NEW p \in DOMAIN portToFd[r]
               PROVE  EntryOK(r, p, portToFd[r][p])'
    OBVIOUS
  <2>1. EntryOK(r, p, portToFd[r][p])
    BY ZenonT(30) DEF OwnInv
  <2> QED
    BY <1>2, <2>1 DEF EntryOK
<1>4. CallOK'
  BY DEF OwnInv, CallOK
<1> QED
  BY <1>1, <1>2, <1>3, <1>4, Zenon DEF OwnInv

LEMMA SocketFrame ==
  ASSUME SocketInv, UNCHANGED <<call, nextSub>>,
         DOMAIN socket' = DOMAIN socket,
         socket' \in [DOMAIN socket -> [port : Ports, sub : Subs, queue : Seq(Sizes)]],
         \A fd \in DOMAIN socket : socket'[fd].sub = socket[fd].sub
  PROVE  SocketInv'
  BY DEF SocketInv

\* A datagram arrives, and handleRead receives and hands over.
LEMMA PacketArrivesKeeps ==
  ASSUME UdpInv, NEW fd \in DOMAIN socket, NEW size \in Sizes, PacketArrives(fd, size)
  PROVE  UdpInv'
<1> USE DEF UdpInv
<1>1. /\ socket' = [socket EXCEPT ![fd].queue = Append(@, size)]
      /\ UNCHANGED <<mem, slowSources, open, interest, removed, loopVars, taskVars,
                     alive, portToFd, call, stage, batch, nextSub>>
      /\ readable' \subseteq readable \cup {fd}
  BY DEF PacketArrives, DataArrives, vars, sourceVars
<1>2. TypeOK'
  <2>1. CASE UNCHANGED vars
    BY <2>1 DEF TypeOK, vars, sourceVars, loopVars, taskVars
  <2>2. CASE DataArrives(fd)
    BY <2>2, DataArrivesTypes
  <2> QED
    BY <2>1, <2>2, ZenonT(30) DEF PacketArrives
<1>3. SourceInv'
  BY <1>1, OthersKeep
<1>4. /\ DOMAIN socket' = DOMAIN socket
      /\ socket' \in [DOMAIN socket -> [port : Ports, sub : Subs, queue : Seq(Sizes)]]
      /\ \A f \in DOMAIN socket : socket'[f].port = socket[f].port
                                  /\ socket'[f].sub = socket[f].sub
  <2>1. /\ socket[fd] \in [port : Ports, sub : Subs, queue : Seq(Sizes)]
        /\ Append(socket[fd].queue, size) \in Seq(Sizes)
    BY DEF SocketInv
  <2> QED
    BY <1>1, <2>1, Zenon DEF SocketInv
<1>5. readable' \subseteq DOMAIN socket
  BY <1>1, ZenonT(30) DEF OwnInv
<1>6. call # NoCall => pc' = "idle" \/ stage' = "callback"
  BY <1>1 DEF OwnInv, CallOK, loopVars
<1>7. OwnInv'
  BY <1>1, <1>4, <1>5, <1>6, OwnFrame, ZenonT(30)
<1>8. SocketInv'
  BY <1>1, <1>4, SocketFrame, ZenonT(30)
<1>9. StageInv'
  BY <1>1, ZenonT(30) DEF StageInv, loopVars
<1> QED
  BY <1>2, <1>3, <1>7, <1>8, <1>9, ZenonT(30)

\* No call is in progress while the loop itself runs.
LEMMA LoopRuns ==
  ASSUME OwnInv, StageInv, pc \notin {"idle", "handler"} \/ stage \in {"read", "batch"}
  PROVE  call = NoCall
  BY DEF OwnInv, CallOK, StageInv

LEMMA PollKeeps ==
  ASSUME UdpInv, Poll
  PROVE  UdpInv'
<1> USE DEF UdpInv
<1>1. UNCHANGED <<mem, slowSources, open, interest, readable, removed, udpVars>> /\ call = NoCall
  BY DEF Poll, RunOnce, EpollWait, TakeTasks, RunOnceReturns, sourceVars
<1>2. TypeOK'
  BY EpollWaitTypes, OtherLoopTypes DEF Poll
<1>3. SourceInv'
  BY <1>1, OthersKeep
<1>4. OwnInv'
  BY <1>1, OwnFrame, Zenon DEF udpVars, OwnInv
<1>5. SocketInv' 
  BY <1>1, ZenonT(30) DEF udpVars, SocketInv
<1>6. pc \notin {"handler"} /\ pc' \notin {"handler"}
  BY DEF Poll, RunOnce, EpollWait, TakeTasks, RunOnceReturns
<1>7. StageInv'
  BY <1>1, <1>6 DEF udpVars, StageInv
<1> QED
  BY <1>2, <1>3, <1>4, <1>5, <1>7, ZenonT(30)

LEMMA HandleReadKeeps ==
  ASSUME UdpInv, HandleRead
  PROVE  UdpInv'
<1> USE DEF UdpInv
<1>1. /\ UNCHANGED <<mem, slowSources, open, interest, removed, alive, portToFd, socket,
                     call, batch, nextSub>>
      /\ readable' \subseteq readable
      /\ pc = "dispatch"
      /\ pc' \in {"dispatch", "handler"}
      /\ stage' = IF pc' = "handler" THEN "read" ELSE "none"
  BY DEF HandleRead, Dispatch, history
<1>2. TypeOK'
  BY DispatchTypes DEF HandleRead
<1>3. SourceInv'
  BY <1>1, OthersKeep
<1>4. call = NoCall
  BY <1>1, LoopRuns
<1>5. OwnInv'
  BY <1>1, <1>4, OwnFrame, Zenon DEF OwnInv
<1>6. SocketInv' /\ StageInv'
  BY <1>1, ZenonT(30) DEF SocketInv, StageInv
<1> QED
  BY <1>2, <1>3, <1>5, <1>6, ZenonT(30)

LEMMA ReceiveKeeps ==
  ASSUME UdpInv, Receive
  PROVE  UdpInv'
<1> USE DEF UdpInv
<1>1. /\ UNCHANGED <<mem, slowSources, open, interest, readyList, removed, loopVars, taskVars,
                     alive, portToFd, call, nextSub>>
      /\ readable' \subseteq readable
      /\ stage = "read" /\ stage' = "batch"
  BY ZenonT(30) DEF Receive, history
<1>2. TypeOK'
  BY <1>1 DEF TypeOK, loopVars, taskVars
<1>3. SourceInv'
  BY <1>1, OthersKeep
<1>4. call = NoCall
  BY <1>1, LoopRuns, ZenonT(30)
<1>5. /\ DOMAIN socket' = DOMAIN socket
      /\ socket' \in [DOMAIN socket -> [port : Ports, sub : Subs, queue : Seq(Sizes)]]
      /\ \A f \in DOMAIN socket : socket'[f].port = socket[f].port
                                  /\ socket'[f].sub = socket[f].sub
      /\ batch' \in Seq(Sizes)
  <2> DEFINE fd == current.fd
  <2>1. CASE fd \in DOMAIN socket
    <3> DEFINE queue == socket[fd].queue
               n == IF Len(queue) < BatchSize THEN Len(queue) ELSE BatchSize
    <3>1. socket[fd] \in [port : Ports, sub : Subs, queue : Seq(Sizes)] /\ queue \in Seq(Sizes)
      BY <2>1, ZenonT(30) DEF SocketInv
    <3>2. /\ batch' = SubSeq(queue, 1, n)
          /\ socket' = [socket EXCEPT ![fd].queue = Left(queue)]
      BY <2>1, ZenonT(30) DEF Receive
    <3>3. Left(queue) \in Seq(Sizes) /\ SubSeq(queue, 1, n) \in Seq(Sizes)
      BY <3>1, UDPAssumption, PartOf, SMTT(30) DEF Left
    <3> HIDE DEF queue, n
    <3> QED
      BY <2>1, <3>1, <3>2, <3>3, Zenon DEF SocketInv
  <2>2. CASE fd \notin DOMAIN socket
    BY <2>2 DEF Receive, SocketInv
  <2> QED
    BY <2>1, <2>2
<1>6. OwnInv'
  BY <1>1, <1>4, <1>5, OwnFrame, Zenon DEF OwnInv
<1>7. SocketInv'
  BY <1>1, <1>5, SocketFrame, ZenonT(30)
<1>8. StageInv'
  BY <1>1, <1>5 DEF StageInv, loopVars
<1> QED
  BY <1>2, <1>3, <1>6, <1>7, <1>8

LEMMA DeliverKeeps ==
  ASSUME UdpInv, Deliver \/ CallbackReturns
  PROVE  UdpInv'
<1> USE DEF UdpInv
<1>1. /\ UNCHANGED <<vars, alive, portToFd, socket, call, nextSub>>
      /\ stage \in {"batch", "callback"} /\ stage' \in {"batch", "callback"}
  BY ZenonT(30) DEF Deliver, CallbackReturns, history
<1>2. call = NoCall
  BY LoopRuns, ZenonT(30) DEF Deliver, CallbackReturns
<1>3. TypeOK' /\ SourceInv'
  BY <1>1, OthersKeep DEF TypeOK, vars, sourceVars, loopVars, taskVars
<1>4. OwnInv'
  BY <1>1, <1>2, OwnFrame, Zenon DEF OwnInv, vars, sourceVars
<1>5. SocketInv'
  BY <1>1, ZenonT(30) DEF SocketInv
<1>6. batch' \in Seq(Sizes)
  BY SMTT(30) DEF Deliver, CallbackReturns, StageInv
<1>7. StageInv'
  BY <1>1, <1>6 DEF StageInv, vars, loopVars
<1> QED
  BY <1>3, <1>4, <1>5, <1>7, ZenonT(30)

LEMMA HandleReadReturnsKeeps ==
  ASSUME UdpInv, HandleReadReturns
  PROVE  UdpInv'
<1> USE DEF UdpInv
<1>1. /\ UNCHANGED <<sourceVars, alive, portToFd, socket, call, batch, nextSub>>
      /\ stage = "batch" /\ stage' = "none" /\ pc' = "dispatch"
  BY DEF HandleReadReturns, EndHandler, history
<1>2. call = NoCall
  BY <1>1, LoopRuns
<1>3. TypeOK'
  BY OtherLoopTypes DEF HandleReadReturns
<1>4. SourceInv'
  BY <1>1, OthersKeep DEF sourceVars
<1>5. OwnInv'
  BY <1>1, <1>2, OwnFrame, Zenon DEF OwnInv, sourceVars
<1>6. SocketInv' /\ StageInv'
  BY <1>1 DEF SocketInv, StageInv
<1> QED
  BY <1>3, <1>4, <1>5, <1>6

\* What is filed or bound is open.
LEMMA OwnedOpen ==
  ASSUME OwnInv
  PROVE  /\ \A fd : Filed(fd) => /\ fd \in open /\ fd \in DOMAIN interest /\ fd \in DOMAIN socket
                                 /\ fd # TimerFd /\ ~Held(fd, Points)
         /\ DOMAIN socket \subseteq open \ {TimerFd}
<1>1. ASSUME NEW fd, Filed(fd)
      PROVE  /\ fd \in open /\ fd \in DOMAIN interest /\ fd \in DOMAIN socket
             /\ fd # TimerFd /\ ~Held(fd, Points)
  <2>1. PICK r \in Receivers : \E p \in DOMAIN portToFd[r] : portToFd[r][p] = fd
    BY <1>1 DEF Filed
  <2>2. PICK p \in DOMAIN portToFd[r] : portToFd[r][p] = fd
    BY <2>1
  <2>3. EntryOK(r, p, fd)
    BY <2>2, ZenonT(30) DEF OwnInv
  <2> QED
    BY <2>3 DEF EntryOK
<1>2. ASSUME NEW fd, Held(fd, Points)
      PROVE  fd \in open /\ fd # TimerFd
  BY <1>2 DEF Held, Points, OwnInv, CallOK, NoCall
<1>3. \A fd : Held(fd, Points \ {"socket"}) => Held(fd, Points)
  BY DEF Held
<1> QED
  BY <1>1, <1>2, <1>3, Zenon DEF OwnInv

LEMMA SubscribeSocketKeeps ==
  ASSUME UdpInv, NEW r \in Receivers, NEW port \in Ports \cup {0}, NEW fd \in Fds \ {TimerFd},
         SubscribeSocket(r, port, fd)
  PROVE  UdpInv'
<1> USE DEF UdpInv
<1>1. /\ call = NoCall /\ call.at = "none" /\ (pc = "idle" \/ stage = "callback")
      /\ r \in alive /\ nextSub \in Subs
      /\ fd \notin open /\ open' = open \cup {fd}
      /\ call' = [at |-> "socket", receiver |-> r, port |-> port, fd |-> fd, sub |-> nextSub]
      /\ nextSub' = nextSub + 1
      /\ UNCHANGED <<mem, slowSources, interest, readable, readyList, removed, loopVars,
                     taskVars, alive, portToFd, socket, stage, batch>>
  BY ZenonT(30) DEF SubscribeSocket, AppCode, OpenFd, NoCall
<1>2. TypeOK'
  BY <1>1, ZenonT(30) DEF TypeOK, loopVars, taskVars
<1>3. SourceInv'
  BY <1>1, OthersKeep, ZenonT(30)
<1>4. fd \notin DOMAIN interest /\ fd \notin DOMAIN socket /\ ~Filed(fd)
  BY <1>1, OwnedOpen, ZenonT(30) DEF TypeOK
<1>5. \A f : Filed(f)' <=> Filed(f)
  BY <1>1, ZenonT(30) DEF Filed
<1>6. \A f : Held(f, Points)' <=> f = fd
  BY <1>1, ZenonT(30) DEF Held, Points
<1>7. \A f : ~Held(f, Points)
  BY <1>1, ZenonT(30) DEF Held, Points
<1>8. CallOK'
  <2>1. call' \in [at : Points, receiver : alive, port : Ports \cup {0},
                   fd : Fds \ {TimerFd}, sub : Subs]
    BY <1>1, ZenonT(30) DEF Points
  <2>2. call'.sub < nextSub'
    BY <1>1, SMTT(30) DEF Subs, UdpInv, SocketInv
  <2> QED
    BY <1>1, <1>4, <2>1, <2>2, ZenonT(30) DEF CallOK, loopVars
<1>9. \A q \in Receivers : \A p \in DOMAIN portToFd[q] : EntryOK(q, p, portToFd[q][p])'
  <2> SUFFICES ASSUME NEW q \in Receivers, NEW p \in DOMAIN portToFd[q]
               PROVE  EntryOK(q, p, portToFd[q][p])'
    BY ZenonT(30)
  <2>1. EntryOK(q, p, portToFd[q][p]) /\ portToFd[q][p] # fd
    BY <1>4 DEF OwnInv, Filed
  <2> QED
    BY <1>1, <1>6, <2>1, ZenonT(30) DEF EntryOK
<1>10. OwnInv'
  BY <1>1, <1>5, <1>6, <1>7, <1>8, <1>9, ZenonT(30) DEF OwnInv, Held, Points
<1>11. SocketInv'
  <2>1. nextSub' \in 1 .. MaxSubs + 1
    BY <1>1, UDPAssumption, SMTT(30) DEF Subs
  <2>2. \A f \in DOMAIN socket : socket[f].sub \in Int /\ socket[f].sub < nextSub
    BY SMTT(30) DEF SocketInv, Subs
  <2>3. nextSub \in Int
    BY <1>1, SMTT(30) DEF Subs
  <2> QED
    BY <1>1, <2>1, <2>2, <2>3, SMTT(30) DEF SocketInv
<1>12. StageInv'
  BY <1>1 DEF StageInv, loopVars
<1> QED
  BY <1>2, <1>3, <1>10, <1>11, <1>12, ZenonT(30)

LEMMA SubscribeBindKeeps ==
  ASSUME UdpInv, NEW localPort \in Ports, SubscribeBind(localPort)
  PROVE  UdpInv'
<1> USE DEF UdpInv
<1>1. /\ call.at = "socket" /\ call # NoCall
      /\ call' = [call EXCEPT !.at = "bound", !.port = localPort]
      /\ DOMAIN socket' = DOMAIN socket \cup {call.fd}
      /\ socket'[call.fd] = [port |-> localPort, sub |-> call.sub, queue |-> << >>]
      /\ \A f \in DOMAIN socket : f # call.fd => socket'[f] = socket[f]
      /\ socket' = [f \in DOMAIN socket' |-> socket'[f]]
      /\ UNCHANGED <<vars, alive, portToFd, stage, batch, nextSub>>
  BY DEF SubscribeBind, NoCall, history
<1>2. TypeOK' /\ SourceInv'
  BY <1>1, OthersKeep, ZenonT(30) DEF TypeOK, vars, sourceVars, loopVars, taskVars
<1>3. CallOK /\ call \in [at : Points, receiver : alive, port : Ports \cup {0},
                          fd : Fds \ {TimerFd}, sub : Subs]
  BY <1>1 DEF OwnInv, CallOK
<1>4. /\ call' \in [at : Points, receiver : alive, port : Ports \cup {0},
                    fd : Fds \ {TimerFd}, sub : Subs]
      /\ call'.at = "bound" /\ call'.fd = call.fd /\ call'.sub = call.sub
      /\ call'.port = localPort /\ call'.receiver = call.receiver
      /\ call.fd \notin DOMAIN socket
  BY <1>1, <1>3, Zenon DEF Points, CallOK
<1>5. \A f : (Filed(f)' <=> Filed(f)) /\ (Held(f, Points)' <=> f = call.fd)
             /\ (Held(f, Points \ {"socket"})' <=> f = call.fd)
             /\ ~Held(f, {"added"})'
  BY <1>1, <1>4 DEF Filed, Held, Points
<1>6. \A f : (Held(f, Points) <=> f = call.fd) /\ ~Held(f, {"added"}) /\ ~Held(f, Points \ {"socket"})
  BY <1>1 DEF Held, Points
<1>7. CallOK'
  BY <1>1, <1>3, <1>4, SMTT(30) DEF CallOK, vars, sourceVars, loopVars
<1>8. \A q \in Receivers : \A p \in DOMAIN portToFd[q] : EntryOK(q, p, portToFd[q][p])'
  <2> SUFFICES ASSUME NEW q \in Receivers, NEW p \in DOMAIN portToFd[q]
               PROVE  EntryOK(q, p, portToFd[q][p])'
    BY ZenonT(30)
  <2>1. EntryOK(q, p, portToFd[q][p]) /\ portToFd[q][p] # call.fd
    BY <1>6 DEF OwnInv, EntryOK
  <2> QED
    BY <1>1, <1>5, <2>1, ZenonT(30) DEF EntryOK, vars, sourceVars
<1>9. OwnInv'
  BY <1>1, <1>5, <1>6, <1>7, <1>8, Zenon DEF OwnInv, vars, sourceVars
<1>10. SocketInv'
  <2>1. socket' \in [DOMAIN socket' -> [port : Ports, sub : Subs, queue : Seq(Sizes)]]
    <3>1. \A f \in DOMAIN socket' :
            socket'[f] \in [port : Ports, sub : Subs, queue : Seq(Sizes)]
      <4>1. socket'[call.fd] \in [port : Ports, sub : Subs, queue : Seq(Sizes)]
        <5>1. call.sub \in Subs /\ << >> \in Seq(Sizes)
          BY <1>3, SMTT(30)
        <5> QED
          BY <1>1, <5>1
      <4>2. \A f \in DOMAIN socket : socket[f] \in [port : Ports, sub : Subs, queue : Seq(Sizes)]
        BY DEF SocketInv
      <4> QED
        BY <1>1, <4>1, <4>2, Zenon
    <3> QED
      BY <1>1, <3>1
  <2>2. \A f \in DOMAIN socket : socket'[f].sub = socket[f].sub /\ socket[f].sub # call.sub
    BY <1>1, <1>4, ZenonT(30) DEF SocketInv
  <2> QED
    BY <1>1, <1>3, <1>4, <2>1, <2>2, SMTT(30) DEF SocketInv, CallOK
<1>11. StageInv'
  BY <1>1, ZenonT(30) DEF StageInv, vars, loopVars
<1> QED
  BY <1>2, <1>9, <1>10, <1>11, ZenonT(30)

LEMMA SubscribeAddKeeps ==
  ASSUME UdpInv, NEW ctlFails \in BOOLEAN, SubscribeAdd(ctlFails)
  PROVE  UdpInv'
<1> USE DEF UdpInv
<1> DEFINE tag == [fd |-> call.fd,
                   callback |-> [receiver |-> call.receiver, sub |-> call.sub]]
           CallType == [at : Points, receiver : alive, port : Ports \cup {0},
                        fd : Fds \ {TimerFd}, sub : Subs]
<1>1. /\ call.at = "bound" /\ call # NoCall
      /\ AddSource(call.fd, tag, ctlFails)
      /\ call' = [call EXCEPT !.at = IF ctlFails THEN "refused" ELSE "added"]
      /\ UNCHANGED <<alive, portToFd, socket, stage, batch, nextSub>>
      /\ UNCHANGED <<open, readable, loopVars, taskVars>>
  <2>1. AddSource(call.fd, tag, ctlFails)
    BY ZenonT(30) DEF SubscribeAdd
  <2>2. UNCHANGED <<open, readable, loopVars, taskVars>>
    BY <2>1, ZenonT(30) DEF AddSource
  <2> QED
    BY <2>1, <2>2 DEF SubscribeAdd, NoCall, history
<1>2. CallOK /\ call \in CallType
  BY <1>1 DEF OwnInv, CallOK
<1>3. /\ call.fd \in Fds \ {TimerFd} /\ tag \in UDPReceiverTag /\ tag.fd = call.fd
      /\ call.fd \in open /\ call.fd \notin DOMAIN interest
  <2>1. call.receiver \in Receivers /\ call.sub \in Subs /\ call.fd \in Fds \ {TimerFd}
    BY <1>2, ZenonT(30) DEF OwnInv
  <2>2. tag \in UDPReceiverTag
    BY <2>1, UDPAssumption DEF UDPReceiverTag
  <2> QED
    BY <1>1, <1>2, <2>1, <2>2, ZenonT(30) DEF CallOK
<1>4. TypeOK' /\ SourceInv'
  BY <1>1, <1>3, AddSourceTypes, AddSourceKeeps, ZenonT(30)
<1> HIDE DEF tag
<1>5. /\ DOMAIN interest' = IF ctlFails THEN DOMAIN interest ELSE DOMAIN interest \cup {call.fd}
      /\ \A g \in DOMAIN interest : mem'[interest'[g]] = mem[interest[g]]
      /\ ~ctlFails => mem'[interest'[call.fd]] = tag
  BY <1>1, <1>3, AddSourceOthers, SMTT(30)
<1>6. /\ call' \in CallType
      /\ call'.at = (IF ctlFails THEN "refused" ELSE "added")
      /\ call'.fd = call.fd /\ call'.sub = call.sub
      /\ call'.port = call.port /\ call'.receiver = call.receiver
  BY <1>1, <1>2 DEF Points
<1>7. \A f : /\ Filed(f)' <=> Filed(f)
             /\ Held(f, Points)' <=> f = call.fd
             /\ Held(f, Points) <=> f = call.fd
             /\ Held(f, Points \ {"socket"})' <=> f = call.fd
             /\ Held(f, Points \ {"socket"}) <=> f = call.fd
             /\ Held(f, {"added"})' <=> f = call.fd /\ ~ctlFails
             /\ ~Held(f, {"added"})
  BY <1>1, <1>6, ZenonT(30) DEF Filed, Held, Points
<1>8. CallOK'
  <2>1. tag.callback = [receiver |-> call.receiver, sub |-> call.sub]
    BY ZenonT(30) DEF tag
  <2> QED
    BY <1>1, <1>2, <1>3, <1>5, <1>6, <2>1, ZenonT(30) DEF CallOK, loopVars
<1>9. \A q \in Receivers : \A p \in DOMAIN portToFd[q] : EntryOK(q, p, portToFd[q][p])'
  <2> SUFFICES ASSUME NEW q \in Receivers, NEW p \in DOMAIN portToFd[q]
               PROVE  EntryOK(q, p, portToFd[q][p])'
    BY ZenonT(30)
  <2>1. EntryOK(q, p, portToFd[q][p]) /\ portToFd[q][p] # call.fd
    BY <1>7 DEF OwnInv, EntryOK
  <2> QED
    BY <1>1, <1>5, <1>7, <2>1, ZenonT(30) DEF EntryOK
<1>10. OwnInv'
  BY <1>1, <1>5, <1>7, <1>8, <1>9, Zenon DEF OwnInv
<1>11. SocketInv'
  BY <1>1, <1>6, ZenonT(30) DEF SocketInv
<1>12. StageInv'
  BY <1>1 DEF StageInv, loopVars
<1> QED
  BY <1>4, <1>10, <1>11, <1>12, ZenonT(30)

\* The call ends without its socket.
LEMMA CallDropped ==
  ASSUME UdpInv, call # NoCall, call' = NoCall, Close({call.fd}),
         DOMAIN interest' = DOMAIN interest \ {call.fd},
         \A g \in DOMAIN interest' : interest'[g] = interest[g],
         UNCHANGED <<mem, alive, portToFd, nextSub>>
  PROVE  OwnInv' /\ SocketInv'
<1> USE DEF UdpInv
<1>1. /\ open' = open \ {call.fd} /\ readable' = readable \ {call.fd}
      /\ DOMAIN socket' = DOMAIN socket \ {call.fd}
      /\ \A f \in DOMAIN socket' : socket'[f] = socket[f]
      /\ socket' = [f \in DOMAIN socket' |-> socket'[f]]
  BY ZenonT(30) DEF Close
<1>2. CallOK /\ call.at \in Points /\ call.fd # TimerFd /\ call'.at = "none"
  BY DEF OwnInv, CallOK, NoCall
<1>3. \A f : /\ Filed(f)' <=> Filed(f)
             /\ Held(f, Points) <=> f = call.fd
             /\ ~Held(f, Points)' /\ ~Held(f, Points \ {"socket"})' /\ ~Held(f, {"added"})'
             /\ Held(f, {"added"}) => f = call.fd
             /\ Held(f, Points \ {"socket"}) => f = call.fd
  BY <1>2, ZenonT(30) DEF Filed, Held, Points
<1>4. \A q \in Receivers : \A p \in DOMAIN portToFd[q] : EntryOK(q, p, portToFd[q][p])'
  <2> SUFFICES ASSUME NEW q \in Receivers, NEW p \in DOMAIN portToFd[q]
               PROVE  EntryOK(q, p, portToFd[q][p])'
    BY ZenonT(30)
  <2>1. EntryOK(q, p, portToFd[q][p]) /\ portToFd[q][p] # call.fd
    BY <1>3, SMTT(30) DEF OwnInv, EntryOK
  <2> QED
    BY <1>1, <1>3, <2>1, ZenonT(30) DEF EntryOK
<1>5. CallOK'
  BY Zenon DEF CallOK
<1>6. OwnInv'
  BY <1>1, <1>2, <1>3, <1>4, <1>5, ZenonT(30) DEF OwnInv
<1>7. SocketInv'
  BY <1>1, <1>2, SMTT(30) DEF SocketInv
<1> QED
  BY <1>6, <1>7, ZenonT(30)

LEMMA SubscribeFailsKeeps ==
  ASSUME UdpInv, SubscribeFails
  PROVE  UdpInv'
<1> USE DEF UdpInv
<1>1. /\ call.at \in {"socket", "refused"} /\ call # NoCall /\ call' = NoCall
      /\ Close({call.fd})
      /\ UNCHANGED <<mem, slowSources, interest, readyList, removed, loopVars, taskVars,
                     alive, portToFd, stage, batch, nextSub>>
  BY SMTT(30) DEF SubscribeFails, Guarded, NoCall, history
<1>2. call.fd \notin DOMAIN interest
  BY <1>1 DEF OwnInv, CallOK
<1>3. OwnInv' /\ SocketInv'
  BY <1>1, <1>2, CallDropped, Zenon
<1>4. TypeOK'
  BY <1>1, <1>2, Zenon DEF TypeOK, Close, loopVars, taskVars
<1>5. SourceInv'
  BY <1>1, OthersKeep
<1>6. StageInv'
  BY <1>1, ZenonT(30) DEF StageInv, loopVars
<1> QED
  BY <1>3, <1>4, <1>5, <1>6, ZenonT(30)

\* epoll forgets descriptors whose cells stay as they are.
LEMMA UnwatchKeeps ==
  ASSUME SourceInv, NEW S, EpollForgets(S), UNCHANGED <<mem, slowSources, removed>>
  PROVE  SourceInv'
  BY DEF SourceInv, TableInv, WatchedInv, InterestHasHandler, RemovedInv, EpollForgets

\* The call ends and its socket is filed.
LEMMA CallFiled ==
  ASSUME UdpInv, call.at = "added", call.port \notin DOMAIN portToFd[call.receiver],
         call' = NoCall,
         portToFd' = [portToFd EXCEPT ![call.receiver] =
                        [p \in DOMAIN @ \cup {call.port} |->
                           IF p = call.port THEN call.fd ELSE @[p]]],
         UNCHANGED <<mem, interest, open, readable, socket, alive, nextSub>>
  PROVE  OwnInv' /\ SocketInv'
<1> USE DEF UdpInv
<1>0. PICK r, fd, port : r = call.receiver /\ fd = call.fd /\ port = call.port
  BY ZenonT(30)
<1>1. CallOK /\ call # NoCall /\ r \in alive /\ r \in Receivers /\ call'.at = "none"
  BY <1>0, SMTT(30) DEF OwnInv, CallOK, NoCall
<1>2. /\ fd \in DOMAIN socket /\ fd \in DOMAIN interest /\ fd \in open /\ fd \in Fds \ {TimerFd}
      /\ socket[fd].port = port /\ socket[fd].sub = call.sub /\ port \in Ports
      /\ mem[interest[fd]].callback = [receiver |-> r, sub |-> call.sub]
  BY <1>0, <1>1, ZenonT(30) DEF CallOK, SocketInv
<1>3. /\ portToFd' = [q \in Receivers |-> portToFd'[q]]
      /\ \A q \in Receivers : q # r => portToFd'[q] = portToFd[q]
      /\ DOMAIN portToFd'[r] = DOMAIN portToFd[r] \cup {port}
      /\ portToFd'[r][port] = fd
      /\ \A p \in DOMAIN portToFd[r] : portToFd'[r][p] = portToFd[r][p]
  <2>1. DOMAIN portToFd = Receivers
    BY DEF OwnInv
  <2>2. portToFd' = [q \in Receivers |->
                       IF q = r THEN [p \in DOMAIN portToFd[r] \cup {port} |->
                                        IF p = port THEN fd ELSE portToFd[r][p]]
                       ELSE portToFd[q]]
    BY <1>0, <1>1, <2>1, Zenon
  <2>3. /\ \A q \in Receivers : q # r => portToFd'[q] = portToFd[q]
        /\ portToFd'[r] = [p \in DOMAIN portToFd[r] \cup {port} |->
                             IF p = port THEN fd ELSE portToFd[r][p]]
    BY <1>1, <2>2, ZenonT(30)
  <2>4. port \notin DOMAIN portToFd[r]
    BY <1>0
  <2>5. portToFd' = [q \in Receivers |-> portToFd'[q]]
    BY <2>2, Zenon
  <2> QED
    BY <2>3, <2>4, <2>5, SMTT(30)
<1>4. \A f : /\ Held(f, Points) <=> f = fd
             /\ Held(f, {"added"}) => f = fd
             /\ Held(f, Points \ {"socket"}) => f = fd
             /\ ~Held(f, Points)' /\ ~Held(f, Points \ {"socket"})' /\ ~Held(f, {"added"})'
  BY <1>0, <1>1, ZenonT(30) DEF Held, Points
<1>5. \A f : (Filed(f) => Filed(f)') /\ Filed(fd)'
  BY <1>1, <1>3, SMTT(30) DEF Filed
<1>6. \A q \in Receivers : \A p \in DOMAIN portToFd'[q] :
        p \in Ports /\ EntryOK(q, p, portToFd[q][p])'
  <2> SUFFICES ASSUME NEW q \in Receivers, NEW p \in DOMAIN portToFd'[q]
               PROVE  p \in Ports /\ EntryOK(q, p, portToFd[q][p])'
    BY ZenonT(30)
  <2>1. CASE q = r /\ p = port
    <3>1. portToFd'[q][p] = fd /\ call'.at \notin Points
      BY <1>1, <1>3, <2>1, ZenonT(30) DEF Points
    <3>2. /\ q \in alive' /\ fd \in DOMAIN socket' /\ fd \in DOMAIN interest' /\ fd \in open'
          /\ socket'[fd].port = p
          /\ mem'[interest'[fd]].callback = [receiver |-> q, sub |-> socket'[fd].sub]
      BY <1>1, <1>2, <2>1, ZenonT(30)
    <3>3. EntryOK(q, p, portToFd[q][p])'
      BY <1>2, <3>1, <3>2, Zenon DEF EntryOK, Held
    <3> QED
      BY <1>2, <2>1, <3>3, Zenon
  <2>2. CASE ~(q = r /\ p = port)
    <3>1. p \in DOMAIN portToFd[q] /\ portToFd'[q][p] = portToFd[q][p]
      BY <1>3, <2>2, ZenonT(30)
    <3>2. p \in Ports /\ EntryOK(q, p, portToFd[q][p])
      BY <3>1, SMTT(30) DEF OwnInv
    <3> QED
      <4>1. PICK e : e = portToFd[q][p]
        BY ZenonT(30)
      <4>2. /\ q \in alive /\ e \in Fds \ {TimerFd}
            /\ e \in DOMAIN socket /\ e \in DOMAIN interest /\ e \in open
            /\ socket[e].port = p
            /\ mem[interest[e]].callback = [receiver |-> q, sub |-> socket[e].sub]
        BY <3>2, <4>1, ZenonT(30) DEF EntryOK
      <4>3. portToFd'[q][p] = e
        BY <3>1, <4>1, ZenonT(30)
      <4>4. /\ q \in alive' /\ e \in DOMAIN socket' /\ e \in DOMAIN interest' /\ e \in open'
            /\ socket'[e].port = p
            /\ mem'[interest'[e]].callback = [receiver |-> q, sub |-> socket'[e].sub]
            /\ call'.at \notin Points
        BY <1>1, <4>2 DEF Points
      <4>5. EntryOK(q, p, portToFd[q][p])'
        BY <4>2, <4>3, <4>4, ZenonT(30) DEF EntryOK, Held
      <4> QED
        BY <3>2, <4>5, ZenonT(30)
  <2> QED
    BY <2>1, <2>2, ZenonT(30)
<1>7. CallOK'
  BY DEF CallOK
<1>8. OwnInv'
  <2>1. /\ alive' \subseteq Receivers /\ TimerFd \in open' /\ TimerFd \in DOMAIN interest'
        /\ readable' \subseteq DOMAIN socket'
    BY ZenonT(30) DEF OwnInv
  <2>2. \A f \in open' : f = TimerFd \/ Filed(f)'
    BY <1>4, <1>5, ZenonT(30) DEF OwnInv
  <2>3. \A f \in DOMAIN interest' : f = TimerFd \/ Filed(f)'
    BY <1>4, <1>5, ZenonT(30) DEF OwnInv
  <2>4. \A f \in DOMAIN socket' : Filed(f)'
    BY <1>4, <1>5, Zenon DEF OwnInv
  <2> QED
    BY <1>3, <1>6, <1>7, <2>1, <2>2, <2>3, <2>4, ZenonT(30) DEF OwnInv
<1>9. SocketInv'
  BY <1>1, ZenonT(30) DEF SocketInv
<1> QED
  BY <1>8, <1>9

LEMMA SubscribeDoneKeeps ==
  ASSUME UdpInv, SubscribeDone
  PROVE  UdpInv'
<1> USE DEF UdpInv
<1>1. /\ call.at = "added" /\ call # NoCall /\ call' = NoCall
      /\ UNCHANGED <<mem, slowSources, removed, loopVars, taskVars, alive, stage, batch, nextSub>>
  BY SMTT(30) DEF SubscribeDone, NoCall, history
<1>2. CASE call.port \in DOMAIN portToFd[call.receiver]
  <2>1. Close({call.fd}) /\ EpollForgets({call.fd}) /\ UNCHANGED portToFd
    BY <1>2, ZenonT(30) DEF SubscribeDone
  <2>2. OwnInv' /\ SocketInv'
    BY <1>1, <2>1, CallDropped, ZenonT(30) DEF EpollForgets
  <2>3. SourceInv'
    BY <1>1, <2>1, UnwatchKeeps, ZenonT(30)
  <2>4. /\ open' \subseteq open /\ open \ {call.fd} \subseteq open'
        /\ readable' \subseteq readable \cap open'
    BY <2>1, Zenon DEF Close, TypeOK
  <2>5. TypeOK'
    BY <1>1, <2>1, <2>4, ForgetTypes, ZenonT(30)
  <2> QED
    BY <1>1, <2>2, <2>3, <2>5, ZenonT(30) DEF StageInv, loopVars
<1>3. CASE call.port \notin DOMAIN portToFd[call.receiver]
  <2>1. /\ portToFd' = [portToFd EXCEPT ![call.receiver] =
                          [p \in DOMAIN @ \cup {call.port} |->
                             IF p = call.port THEN call.fd ELSE @[p]]]
        /\ UNCHANGED <<open, readable, socket, interest, readyList>>
    BY <1>3, ZenonT(30) DEF SubscribeDone
  <2>2. OwnInv' /\ SocketInv'
    BY <1>1, <1>3, <2>1, CallFiled, ZenonT(30)
  <2>3. SourceInv'
    BY <1>1, <2>1, OthersKeep
  <2> QED
    BY <1>1, <2>1, <2>2, <2>3, ZenonT(30) DEF TypeOK, StageInv, loopVars, taskVars
<1> QED
  BY <1>2, <1>3, ZenonT(30)

\* A receiver gives up the sockets S of its map, its last ones when it goes away.
LEMMA ReleaseKeeps ==
  ASSUME UdpInv, call = NoCall, NEW r \in Receivers, NEW S, NEW map, Forget(S), Close(S),
         portToFd' = [portToFd EXCEPT ![r] = map],
         DOMAIN map \subseteq DOMAIN portToFd[r],
         \A p \in DOMAIN map : map[p] = portToFd[r][p],
         S = {portToFd[r][p] : p \in DOMAIN portToFd[r] \ DOMAIN map},
         alive' \subseteq alive, alive \ {r} \subseteq alive', DOMAIN map # {} => alive' = alive,
         UNCHANGED <<loopVars, taskVars, call, stage, batch, nextSub>>
  PROVE  UdpInv'
<1> USE DEF UdpInv
<1>1. /\ open' = open \ S /\ readable' = readable \ S
      /\ DOMAIN socket' = DOMAIN socket \ S
      /\ \A f \in DOMAIN socket' : socket'[f] = socket[f]
      /\ socket' = [f \in DOMAIN socket' |-> socket'[f]]
  BY Zenon DEF Close
<1>2. /\ DOMAIN interest' = DOMAIN interest \ S
      /\ \A g \in DOMAIN interest \ S : mem'[interest'[g]] = mem[interest[g]]
  BY ForgetOthers, ZenonT(30)
<1>3. S \subseteq Fds \ {TimerFd}
  <2>1. \A p \in DOMAIN portToFd[r] : portToFd[r][p] \in Fds \ {TimerFd}
    <3> SUFFICES ASSUME NEW p \in DOMAIN portToFd[r] PROVE portToFd[r][p] \in Fds \ {TimerFd}
      BY ZenonT(30)
    <3>1. EntryOK(r, p, portToFd[r][p])
      BY DEF OwnInv
    <3> QED
      BY <3>1, Zenon DEF EntryOK
  <2> QED
    BY <2>1
<1>4. SourceInv'
  BY <1>3, ForgetKeeps, Zenon
<1>5. TypeOK'
  <2>1. /\ open' \subseteq open /\ open \ S \subseteq open' /\ readable' \subseteq readable \cap open'
    BY <1>1, ZenonT(30) DEF TypeOK
  <2>2. EpollForgets(S)
    BY ZenonT(30) DEF Forget
  <2> QED
    BY <2>1, <2>2, ForgetTypes, Zenon
<1>6. call'.at = "none" /\ call.at = "none" /\ \A f, points : points \subseteq Points => ~Held(f, points)
  BY DEF NoCall, Held, Points
<1>7. /\ portToFd' = [q \in Receivers |-> portToFd'[q]]
      /\ \A q \in Receivers : q # r => portToFd'[q] = portToFd[q]
      /\ portToFd'[r] = map
  <2>1. portToFd' = [q \in Receivers |-> IF q = r THEN map ELSE portToFd[q]]
    BY ZenonT(30) DEF OwnInv
  <2> QED
    BY <2>1, Zenon
\* An entry that stays: its socket is not one of S.
<1>8. ASSUME NEW q \in Receivers, NEW p \in DOMAIN portToFd'[q]
      PROVE  /\ p \in DOMAIN portToFd[q] /\ p \in Ports
             /\ portToFd'[q][p] = portToFd[q][p]
             /\ portToFd[q][p] \notin S
             /\ EntryOK(q, p, portToFd[q][p])
             /\ q \in alive'
  <2>1. p \in DOMAIN portToFd[q] /\ portToFd'[q][p] = portToFd[q][p]
    BY <1>7, ZenonT(30)
  <2>2. p \in Ports /\ EntryOK(q, p, portToFd[q][p])
    BY <2>1, ZenonT(30) DEF OwnInv
  <2>3. ASSUME portToFd[q][p] \in S PROVE FALSE
    <3>1. PICK o \in DOMAIN portToFd[r] \ DOMAIN map : portToFd[q][p] = portToFd[r][o]
      BY <2>3
    <3>2. PICK e : e = portToFd[q][p] /\ e = portToFd[r][o]
      BY <3>1, Zenon
    <3>3. /\ socket[e].port = p /\ socket[e].port = o
          /\ mem[interest[e]].callback = [receiver |-> q, sub |-> socket[e].sub]
          /\ mem[interest[e]].callback = [receiver |-> r, sub |-> socket[e].sub]
      <4>1. EntryOK(q, p, e)
        BY <2>2, <3>2, Zenon
      <4>2. EntryOK(r, o, e)
        BY <3>1, <3>2, ZenonT(30) DEF OwnInv
      <4> QED
        BY <4>1, <4>2, Zenon DEF EntryOK
    <3>4. q = r /\ p = o
      BY <3>3, SMTT(30)
    <3> QED
      BY <1>7, <3>1, <3>4, ZenonT(30)
  <2>4. q \in alive'
    <3>1. q \in alive
      BY <2>2, Zenon DEF EntryOK
    <3>2. CASE q = r
      BY <1>7, <3>1, <3>2, Zenon
    <3> QED
      BY <3>1, <3>2
  <2> QED
    BY <2>1, <2>2, <2>3, <2>4, ZenonT(30)
<1>9. \A q \in Receivers : \A p \in DOMAIN portToFd'[q] :
        p \in Ports /\ EntryOK(q, p, portToFd[q][p])'
  <2> SUFFICES ASSUME NEW q \in Receivers, NEW p \in DOMAIN portToFd'[q]
               PROVE  p \in Ports /\ EntryOK(q, p, portToFd[q][p])'
    BY Zenon
  <2>1. PICK e : e = portToFd[q][p]
    BY Zenon
  <2>2. /\ e \in Fds \ {TimerFd} /\ e \notin S
        /\ e \in DOMAIN socket /\ e \in DOMAIN interest /\ e \in open
        /\ socket[e].port = p
        /\ mem[interest[e]].callback = [receiver |-> q, sub |-> socket[e].sub]
    <3>1. EntryOK(q, p, e) /\ e \notin S
      BY <1>8, <2>1, Zenon
    <3> QED
      BY <3>1, Zenon DEF EntryOK
  <2>3. /\ q \in alive' /\ portToFd'[q][p] = e
        /\ e \in DOMAIN socket' /\ e \in DOMAIN interest' /\ e \in open'
        /\ socket'[e].port = p
        /\ mem'[interest'[e]].callback = [receiver |-> q, sub |-> socket'[e].sub]
        /\ call'.at \notin Points
    BY <1>1, <1>2, <1>6, <1>8, <2>1, <2>2, ZenonT(30) DEF Points
  <2>4. EntryOK(q, p, portToFd[q][p])'
    BY <2>2, <2>3, Zenon DEF EntryOK, Held
  <2> QED
    BY <1>8, <2>4, Zenon
\* A descriptor that is not in S stays filed.
<1>10. ASSUME NEW f, f \notin S, Filed(f) PROVE Filed(f)'
  <2>1. PICK q \in Receivers : \E p \in DOMAIN portToFd[q] : portToFd[q][p] = f
    BY <1>10, ZenonT(30) DEF Filed
  <2>2. PICK p \in DOMAIN portToFd[q] : portToFd[q][p] = f
    BY <2>1
  <2>3. p \in DOMAIN portToFd'[q] /\ portToFd'[q][p] = f
    BY <1>7, <1>10, <2>2, ZenonT(30)
  <2> QED
    BY <2>3, Zenon DEF Filed
<1>11. OwnInv'
  <2>1. /\ alive' \subseteq Receivers /\ TimerFd \in open' /\ TimerFd \in DOMAIN interest'
        /\ readable' \subseteq DOMAIN socket'
    BY <1>1, <1>2, <1>3, Zenon DEF OwnInv
  <2>2. \A f \in open : f = TimerFd \/ Filed(f)
    BY <1>6, Zenon DEF OwnInv
  <2>3. \A f \in DOMAIN interest : f = TimerFd \/ Filed(f)
    <3>1. {"added"} \subseteq Points
      BY Zenon DEF Points
    <3> QED
      BY <1>6, <3>1, Zenon DEF OwnInv
  <2>4. \A f \in DOMAIN socket : Filed(f)
    BY <1>6 DEF OwnInv
  <2>5. \A f \in open' : f = TimerFd \/ Filed(f)'
    BY <1>1, <1>10, <2>2, Zenon
  <2>6. \A f \in DOMAIN interest' : f = TimerFd \/ Filed(f)'
    BY <1>2, <1>10, <2>3, Zenon
  <2>7. \A f \in DOMAIN socket' : Filed(f)'
    BY <1>1, <1>10, <2>4, Zenon
  <2>8. CallOK'
    BY ZenonT(30) DEF CallOK
  <2> QED
    BY <1>7, <1>9, <2>1, <2>5, <2>6, <2>7, <2>8, ZenonT(30) DEF OwnInv
<1>12. SocketInv'
  <2>1. socket' \in [DOMAIN socket' -> [port : Ports, sub : Subs, queue : Seq(Sizes)]]
    BY <1>1, SMTT(30) DEF SocketInv
  <2> QED
    BY <1>1, <1>6, <2>1, SMTT(30) DEF SocketInv
<1>13. StageInv'
  BY DEF StageInv, loopVars
<1> QED
  BY <1>4, <1>5, <1>11, <1>12, <1>13, Zenon

LEMMA UnsubscribeKeeps ==
  ASSUME UdpInv, NEW r \in Receivers, NEW port \in Ports, Unsubscribe(r, port)
  PROVE  UdpInv'
<1>1. PICK S : S = {portToFd[r][port]}
  BY Zenon
<1>2. PICK map : map = Without(portToFd[r], port)
  OBVIOUS
<1>3. /\ DOMAIN map = DOMAIN portToFd[r] \ {port} /\ port \in DOMAIN portToFd[r]
      /\ \A p \in DOMAIN map : map[p] = portToFd[r][p]
  BY <1>2, Zenon DEF Without, Unsubscribe
<1>4. S = {portToFd[r][p] : p \in DOMAIN portToFd[r] \ DOMAIN map}
  BY <1>1, <1>3, ZenonT(30)
<1>5. portToFd' = [portToFd EXCEPT ![r] = map]
  BY <1>2, ZenonT(30) DEF Unsubscribe
<1>6. /\ call = NoCall /\ Forget(S) /\ Close(S) /\ alive' = alive
      /\ UNCHANGED <<loopVars, taskVars, call, stage, batch, nextSub>>
  BY <1>1 DEF Unsubscribe, AppCode, history
<1> QED
  BY <1>3, <1>4, <1>5, <1>6, ReleaseKeeps, Zenon

LEMMA DestroyKeeps ==
  ASSUME UdpInv, NEW r \in Receivers, Destroy(r)
  PROVE  UdpInv'
<1>1. PICK S : S = FdsOf(r)
  OBVIOUS
<1>2. PICK map : map = << >>
  OBVIOUS
<1>3. DOMAIN map = {}
  BY <1>2, SMTT(30)
<1>4. S = {portToFd[r][p] : p \in DOMAIN portToFd[r] \ DOMAIN map}
  BY <1>1, <1>3, ZenonT(30) DEF FdsOf
<1>5. portToFd' = [portToFd EXCEPT ![r] = map]
  BY <1>2, ZenonT(30) DEF Destroy
<1>6. /\ call = NoCall /\ Forget(S) /\ Close(S) /\ alive' = alive \ {r}
      /\ UNCHANGED <<loopVars, taskVars, call, stage, batch, nextSub>>
  BY <1>1 DEF Destroy, AppCode, RemoveSources, history
<1> QED
  BY <1>3, <1>4, <1>5, <1>6, ReleaseKeeps, Zenon

LEMMA UdpInvHolds == UdpSpec => []UdpInv
<1>1. UdpInv /\ [UdpNext]_allVars => UdpInv'
  <2> SUFFICES ASSUME UdpInv, [UdpNext]_allVars PROVE UdpInv'
    OBVIOUS
  <2>1. CASE \E fd \in DOMAIN socket, size \in Sizes : PacketArrives(fd, size)
    BY <2>1, PacketArrivesKeeps, ZenonT(30)
  <2>2. CASE Subscribing
    <3>1. \A f \in EpollErrors : f \in BOOLEAN
      BY UDPAssumption, ZenonT(30)
    <3> QED
      BY <2>2, <3>1, SubscribeBindKeeps, SubscribeFailsKeeps, SubscribeAddKeeps, SubscribeDoneKeeps, ZenonT(30)
         DEF Subscribing
  <2>3. CASE App
    BY <2>3, SubscribeSocketKeeps, UnsubscribeKeeps, DestroyKeeps, ZenonT(30) DEF App
  <2>4. CASE UdpLoop
    BY <2>4, PollKeeps, HandleReadKeeps, ReceiveKeeps, DeliverKeeps, HandleReadReturnsKeeps, ZenonT(30)
       DEF UdpLoop
  <2>5. CASE UNCHANGED allVars
    <3>1. UNCHANGED <<vars, udpVars>>
      BY <2>5, ZenonT(30) DEF allVars
    <3>2. TypeOK' /\ SourceInv'
      BY <3>1, OthersKeep, ZenonT(30) DEF UdpInv, TypeOK, vars, sourceVars, loopVars, taskVars
    <3>3. call # NoCall => pc' = "idle" \/ stage' = "callback"
      BY <3>1 DEF UdpInv, OwnInv, CallOK, vars, loopVars, udpVars
    <3>4. OwnInv'
      BY <3>1, <3>3, OwnFrame, Zenon DEF UdpInv, OwnInv, vars, sourceVars, udpVars
    <3> QED
      BY <3>1, <3>2, <3>4, ZenonT(30) DEF UdpInv, SocketInv, StageInv, vars, loopVars, udpVars
  <2> QED
    BY <2>1, <2>2, <2>3, <2>4, <2>5, ZenonT(30) DEF UdpNext
<1> QED
  BY <1>1, UdpInitially, PTL DEF UdpSpec

(***************************************************************************)
(* Between two calls of the receivers the open sockets are exactly those   *)
(* of the port maps, each watched, bound to its port and leading to its    *)
(* own handler: subscribe, unsubscribe and the destructor leak neither a   *)
(* descriptor nor a registration, whichever of their steps fails and       *)
(* whichever ports the kernel picks.                                       *)
(***************************************************************************)
THEOREM Owned == UdpSpec => []SocketsOwned
<1>1. UdpInv => SocketsOwned
  <2> SUFFICES ASSUME UdpInv, call = NoCall
               PROVE  /\ open = {TimerFd} \cup UNION {FdsOf(r) : r \in Receivers}
                      /\ DOMAIN interest = open
                      /\ \A r \in Receivers, p \in Ports :
                           p \in DOMAIN portToFd[r] =>
                             /\ r \in alive
                             /\ socket[portToFd[r][p]].port = p
                             /\ mem[interest[portToFd[r][p]]].callback
                                  = [receiver |-> r, sub |-> socket[portToFd[r][p]].sub]
    BY Zenon DEF SocketsOwned
  <2>1. OwnInv /\ \A f, points : points \subseteq Points => ~Held(f, points)
    BY DEF UdpInv, NoCall, Held, Points
  <2>2. {"added"} \subseteq Points
    BY ZenonT(30) DEF Points
  <2>3. \A f : f \in open <=> f = TimerFd \/ Filed(f)
    BY <2>1, OwnedOpen, ZenonT(30) DEF OwnInv
  <2>4. \A f : f \in DOMAIN interest <=> f = TimerFd \/ Filed(f)
    BY <2>1, <2>2, OwnedOpen, ZenonT(30) DEF OwnInv
  <2>5. \A f : f \in UNION {FdsOf(r) : r \in Receivers} <=> Filed(f)
    BY DEF FdsOf, Filed
  <2>6. ASSUME NEW r \in Receivers, NEW p \in DOMAIN portToFd[r]
        PROVE  /\ r \in alive
               /\ socket[portToFd[r][p]].port = p
               /\ mem[interest[portToFd[r][p]]].callback
                    = [receiver |-> r, sub |-> socket[portToFd[r][p]].sub]
    <3>1. EntryOK(r, p, portToFd[r][p])
      BY <2>1, ZenonT(30) DEF OwnInv
    <3> QED
      BY <3>1, Zenon DEF EntryOK
  <2> QED
    BY <2>3, <2>4, <2>5, <2>6, Zenon
<1> QED
  BY <1>1, UdpInvHolds, PTL

(***************************************************************************)
(* The port maps hold open descriptors only, no two sockets belong to one  *)
(* subscription, handleRead runs exactly while runOnce dispatches, and     *)
(* every variable of the loop under it keeps its type.                     *)
(***************************************************************************)
THEOREM UdpTypeCorrect == UdpSpec => []UdpTypeOK
<1>1. UdpInv => UdpTypeOK
  <2> SUFFICES ASSUME UdpInv PROVE UdpTypeOK
    OBVIOUS
  <2>1. TypeOK /\ OwnInv /\ SocketInv /\ StageInv
    BY DEF UdpInv
  <2>2. \A r \in Receivers : DOMAIN portToFd[r] \subseteq Ports /\ FdsOf(r) \subseteq open
    <3> SUFFICES ASSUME NEW r \in Receivers
                 PROVE  DOMAIN portToFd[r] \subseteq Ports /\ FdsOf(r) \subseteq open
      BY ZenonT(30)
    <3>1. \A f \in FdsOf(r) : Filed(f)
      BY DEF FdsOf, Filed
    <3> QED
      BY <2>1, <3>1, OwnedOpen, Zenon DEF OwnInv
  <2>3. \A s \in Subs : \A f, g \in SocketsOf(s) : f = g
    BY <2>1, ZenonT(30) DEF SocketsOf, SocketInv
  <2>4. call.at \in {"none", "socket", "bound", "refused", "added"}
    BY <2>1, SMTT(30) DEF OwnInv, CallOK, NoCall, Points
  <2> QED
    BY <2>1, <2>2, <2>3, <2>4, OwnedOpen, Zenon DEF UdpTypeOK, OwnInv, SocketInv, StageInv
<1> QED
  BY <1>1, UdpInvHolds, PTL

-----------------------------------------------------------------------------
(***************************************************************************)
(* handleRead.  What follows needs three things of the environment, and    *)
(* fails without any of them: every registration succeeds (a refused one   *)
(* leaves its tag in the array), the kernel picks no port for port 0 that  *)
(* a receiver has filed (the socket of a second entry is closed and its    *)
(* tag stays), and descriptors are below MAX_FAST_FDS (a node of           *)
(* m_slowSources is freed under the events that point to it).  Then a cell *)
(* in use is the cell of a watched socket.                                 *)
(***************************************************************************)
AllRegister == EpollErrors = {FALSE} /\ SharedPorts = FALSE /\ SlowFds = {}

\* The port of the call in progress is not in the map it will be filed in.
PortFree == call # NoCall => call.port \notin DOMAIN portToFd[call.receiver]

CellInv ==
  /\ PortFree
  /\ \A fd \in FastFds : mem[fd] # None => fd \in DOMAIN interest
  /\ \A i \in 1 .. Len(events) : events[i] \in FastFds \ {TimerFd}

\* handleRead runs for a receiver that is there, and reads its own socket.
ReadInv ==
  /\ stage # "none" => current \in UDPReceiverTag /\ current.callback.receiver \in alive
  /\ stage = "read" => current.fd \in DOMAIN socket
                       /\ socket[current.fd].sub = current.callback.sub
  /\ stage \in {"none", "read"} => batch = << >>

LEMMA CellFrame ==
  ASSUME CellInv, UNCHANGED <<mem, interest, events>>, PortFree'
  PROVE  CellInv'
  BY ZenonT(30) DEF CellInv

LEMMA ReadFrame ==
  ASSUME ReadInv, UNCHANGED <<alive, stage, batch, current>>,
         stage = "read" => \A fd \in DOMAIN socket : fd \in DOMAIN socket'
                                                     /\ socket'[fd].sub = socket[fd].sub
  PROVE  ReadInv'
  BY ZenonT(30) DEF ReadInv

LEMMA PortFreeFrame ==
  ASSUME CellInv, UNCHANGED portToFd, call' = NoCall \/ call' = call
  PROVE  PortFree'
  BY ZenonT(30) DEF CellInv, PortFree

LEMMA SubscribeCells ==
  ASSUME AllRegister, UdpInv, CellInv, ReadInv,
         \/ Subscribing
         \/ \E r \in Receivers, p \in Ports \cup {0}, fd \in Fds \ {TimerFd} :
              SubscribeSocket(r, p, fd)
  PROVE  CellInv' /\ ReadInv'
<1>1. UNCHANGED <<alive, stage, batch, current, events>> /\ stage # "read"
  <2>1. UNCHANGED <<alive, stage, batch, current, events>>
    BY Zenon DEF Subscribing, SubscribeBind, SubscribeFails, SubscribeAdd, SubscribeDone,
           SubscribeSocket, AddSource, OpenFd, vars, loopVars
  <2>2. call = NoCall => call.at = "none"
    BY DEF NoCall
  <2>3. call # NoCall \/ AppCode
    BY <2>2, ZenonT(30) DEF Subscribing, SubscribeBind, SubscribeFails, SubscribeAdd, SubscribeDone,
           SubscribeSocket
  <2>4. stage # "read"
    BY <2>3, ZenonT(30) DEF UdpInv, OwnInv, CallOK, AppCode, StageInv
  <2> QED
    BY <2>1, <2>4, ZenonT(30)
<1>2. ReadInv'
  BY <1>1, ReadFrame
<1>3. ASSUME NEW r \in Receivers, NEW p \in Ports \cup {0}, NEW fd \in Fds,
             SubscribeSocket(r, p, fd)
      PROVE  CellInv'
  <2>1. PortFree'
    BY <1>3, Zenon DEF SubscribeSocket, PortFree
  <2> QED
    BY <1>1, <1>3, <2>1, CellFrame, Zenon DEF SubscribeSocket, OpenFd
<1>4. ASSUME NEW p \in Ports, SubscribeBind(p)
      PROVE  CellInv'
  <2>1. /\ call.at = "socket" /\ call # NoCall
        /\ call' = [call EXCEPT !.at = "bound", !.port = p]
        /\ UNCHANGED <<vars, portToFd>>
        /\ call.port = p \/ \A f \in DOMAIN socket : socket[f].port # p
    BY <1>4, SMTT(30) DEF SubscribeBind, NoCall, AllRegister
  <2>2. call'.receiver = call.receiver /\ call'.port = p /\ call.receiver \in Receivers
    BY <2>1, ZenonT(30) DEF UdpInv, OwnInv, CallOK
  <2>3. p \notin DOMAIN portToFd[call.receiver]
    <3>1. CASE call.port = p
      BY <2>1, <3>1, ZenonT(30) DEF CellInv, PortFree
    <3>2. CASE \A f \in DOMAIN socket : socket[f].port # p
      <4> SUFFICES ASSUME p \in DOMAIN portToFd[call.receiver] PROVE FALSE
        BY Zenon
      <4>1. EntryOK(call.receiver, p, portToFd[call.receiver][p])
        BY <2>2, ZenonT(30) DEF UdpInv, OwnInv
      <4> QED
        BY <3>2, <4>1, Zenon DEF EntryOK
    <3> QED
      BY <2>1, <3>1, <3>2, ZenonT(30)
  <2> QED
    BY <2>1, <2>2, <2>3, CellFrame, ZenonT(30) DEF PortFree, vars, sourceVars, loopVars
<1>5. CASE SubscribeFails
  <2>1. call' = NoCall /\ UNCHANGED <<mem, interest, portToFd>>
    BY <1>5, ZenonT(30) DEF SubscribeFails
  <2>2. PortFree'
    BY <2>1, ZenonT(30) DEF PortFree
  <2> QED
    BY <1>1, <1>2, <2>1, <2>2, CellFrame, ZenonT(30)
<1>6. ASSUME NEW f \in EpollErrors, SubscribeAdd(f)
      PROVE  CellInv'
  <2>1. PICK tag : tag = [fd |-> call.fd,
                          callback |-> [receiver |-> call.receiver, sub |-> call.sub]]
    BY Zenon
  <2>2. /\ call.at = "bound" /\ call # NoCall /\ AddSource(call.fd, tag, FALSE)
        /\ call' = [call EXCEPT !.at = "added"] /\ UNCHANGED portToFd
    <3>1. f = FALSE
      BY DEF AllRegister
    <3>2. SubscribeAdd(FALSE)
      BY <1>6, <3>1, Zenon
    <3>3. AddSource(call.fd, tag, FALSE)
      BY <2>1, <3>2, Zenon DEF SubscribeAdd
    <3>4. call.at = "bound" /\ call' = [call EXCEPT !.at = "added"] /\ UNCHANGED portToFd
      BY <3>2, ZenonT(30) DEF SubscribeAdd
    <3>5. call # NoCall
      BY <3>4, SMTT(30) DEF NoCall
    <3> QED
      BY <3>3, <3>4, <3>5, Zenon
  <2>3. /\ call.fd \in FastFds /\ call.fd \in open /\ call.fd \notin DOMAIN interest
        /\ call'.receiver = call.receiver /\ call'.port = call.port
    BY <2>2, ZenonT(30) DEF UdpInv, OwnInv, CallOK, AllRegister, Fds
  <2>4. call.fd \notin DOMAIN slowSources
    BY Zenon DEF UdpInv, TypeOK, AllRegister
  <2>5. mem' = [mem EXCEPT ![call.fd] = tag] /\ EpollCtlAdd(call.fd, call.fd)
    BY <2>2, <2>3, <2>4, Zenon DEF AddSource, Cells, CellsFresh
  <2>6. \A g \in FastFds : mem'[g] # None => g \in DOMAIN interest'
    BY <2>5, Zenon DEF CellInv, EpollCtlAdd, UdpInv, TypeOK
  <2>7. PortFree'
    BY <2>2, <2>3, ZenonT(30) DEF PortFree, CellInv
  <2> QED
    BY <1>1, <2>6, <2>7, ZenonT(30) DEF CellInv
<1>7. CASE SubscribeDone
  <2>1. call.port \notin DOMAIN portToFd[call.receiver]
    BY <1>7, SMTT(30) DEF SubscribeDone, CellInv, PortFree, NoCall
  <2>2. call' = NoCall /\ UNCHANGED <<mem, interest>>
    BY <1>7, <2>1, ZenonT(30) DEF SubscribeDone
  <2>3. PortFree'
    BY <2>2, ZenonT(30) DEF PortFree
  <2> QED
    BY <1>1, <1>2, <2>2, <2>3, CellFrame, ZenonT(30)
<1> QED
  BY <1>2, <1>3, <1>4, <1>5, <1>6, <1>7, ZenonT(30) DEF Subscribing

LEMMA ReleaseCells ==
  ASSUME UdpInv, CellInv, ReadInv,
         \/ \E r \in Receivers, p \in Ports : Unsubscribe(r, p)
         \/ \E r \in Receivers : Destroy(r)
  PROVE  CellInv' /\ ReadInv'
<1>1. /\ AppCode /\ stage # "read" /\ call' = NoCall
      /\ UNCHANGED <<stage, batch, current, events>>
  BY Zenon DEF Unsubscribe, Destroy, AppCode, loopVars, StageInv, UdpInv
<1>2. PICK S : Forget(S)
  BY Zenon DEF Unsubscribe, Destroy, RemoveSources
<1>3. stage # "none" /\ current.callback.receiver \in alive => current.callback.receiver \in alive'
  BY <1>1, Zenon DEF Unsubscribe, Destroy, AppCode, StageInv, UdpInv
<1>4. ReadInv'
  BY <1>1, <1>3, Zenon DEF ReadInv
<1>5. ASSUME NEW fd \in FastFds, mem'[fd] # None PROVE fd \in DOMAIN interest'
  <2>1. fd \in DOMAIN mem /\ fd \notin Nodes
    BY LoopAssumption, ZenonT(30) DEF UdpInv, TypeOK, Fds
  <2>2. fd \notin CellsOf(S) /\ mem[fd] # None
    BY <1>2, <1>5, <2>1, ZenonT(30) DEF Forget, Emptied
  <2>3. fd \notin S /\ fd \in DOMAIN interest
    BY <2>2, ZenonT(30) DEF CellsOf, CellInv
  <2> QED
    BY <1>2, <2>3, Zenon DEF Forget, EpollForgets
<1>6. CellInv'
  BY <1>1, <1>5, ZenonT(30) DEF CellInv, PortFree
<1> QED
  BY <1>4, <1>6, ZenonT(30)

\* The batch epoll_wait fills holds the cells of sockets.
LEMMA PollCells ==
  ASSUME AllRegister, UdpInv, CellInv, ReadInv, Poll
  PROVE  CellInv' /\ ReadInv'
<1>1. UNCHANGED <<mem, interest, udpVars>> /\ stage = "none" /\ call' = NoCall
  BY ZenonT(30) DEF Poll, RunOnce, EpollWait, TakeTasks, RunOnceReturns, sourceVars, udpVars, UdpInv, StageInv
<1>2. ReadInv'
  BY <1>1, ZenonT(30) DEF ReadInv, udpVars
<1>3. \A i \in 1 .. Len(events') : events'[i] \in FastFds \ {TimerFd}
  <2>1. CASE EpollWait
    <3> DEFINE n == IF Len(Ready) < MaxEvents THEN Len(Ready) ELSE MaxEvents
               taken == SubSeq(Ready, 1, n)
               W == DOMAIN interest \cap readable
    <3>1. Ready \in Seq(W)
      BY ReadyType, ZenonT(30) DEF UdpInv
    <3>2. n \in Nat /\ n <= Len(Ready) /\ Len(Ready) \in Nat
      BY <3>1, LoopAssumption, SMTT(30)
    <3>3. \A i \in 1 .. n : taken[i] \in W
      BY <3>1, <3>2, PartOf, SMTT(30)
    <3>4. \A fd \in W : interest[fd] = fd /\ fd \in FastFds \ {TimerFd}
      <4> SUFFICES ASSUME NEW fd \in W PROVE interest[fd] = fd /\ fd \in FastFds \ {TimerFd}
        BY Zenon
      <4>1. fd \in FastFds
        BY ZenonT(30) DEF UdpInv, TypeOK, AllRegister, Fds
      <4>2. fd # TimerFd
        BY OwnedOpen DEF UdpInv, OwnInv
      <4> QED
        BY <4>1, <4>2, ZenonT(30) DEF UdpInv, SourceInv, WatchedInv, InterestHasHandler
    <3>5. events' = [i \in 1 .. n |-> interest[taken[i]]]
      BY <2>1, ZenonT(30) DEF EpollWait
    <3> HIDE DEF n, taken, W
    <3>6. Len(events') = n
      BY <3>2, <3>5, SMTT(30)
    <3> QED
      BY <3>3, <3>4, <3>5, <3>6, Zenon
  <2>2. CASE events' = events
    BY <2>2, ZenonT(30) DEF CellInv
  <2> QED
    BY <2>1, <2>2, ZenonT(30) DEF Poll, RunOnce, TakeTasks, RunOnceReturns
<1>4. CellInv'
  BY <1>1, <1>3, ZenonT(30) DEF CellInv, PortFree
<1> QED
  BY <1>2, <1>4, ZenonT(30)

\* What is dispatched is the handler of a filed socket.
LEMMA HandleReadCells ==
  ASSUME UdpInv, CellInv, ReadInv, HandleRead
  PROVE  CellInv' /\ ReadInv'
<1>1. /\ UNCHANGED <<mem, interest, alive, portToFd, socket, call, batch>>
      /\ pc = "dispatch" /\ stage = "none" /\ batch = << >>
      /\ events # << >> /\ events' = Tail(events)
      /\ stage' = IF pc' = "handler" THEN "read" ELSE "none"
  BY DEF HandleRead, Dispatch, Undispatched, UdpInv, StageInv, ReadInv
<1>2. call = NoCall
  BY <1>1, LoopRuns, ZenonT(30) DEF UdpInv
<1>3. events \in Seq(FastFds \cup Nodes) /\ Head(events) = events[1] /\ 1 \in 1 .. Len(events)
  BY <1>1, SMTT(30) DEF UdpInv, TypeOK
<1>4. Head(events) \in FastFds \ {TimerFd}
  BY <1>3 DEF CellInv
<1>5. CellInv'
  <2>1. \A i \in 1 .. Len(Tail(events)) : Tail(events)[i] \in FastFds \ {TimerFd}
    BY <1>1, <1>3, SMTT(30) DEF CellInv
  <2>2. PortFree'
    BY <1>1, ZenonT(30) DEF CellInv, PortFree
  <2> QED
    BY <1>1, <2>1, <2>2, ZenonT(30) DEF CellInv
<1>6. CASE pc' = "handler"
  <2>1. PICK fd : fd = Head(events)
    BY ZenonT(30)
  <2>2. mem[fd] \in TagsFor(fd) \cup {None}
    BY <1>4, <2>1, ZenonT(30) DEF UdpInv, SourceInv, TableInv
  <2>3. mem[fd] # Freed
    BY <2>2, LoopAssumption, TagType, ZenonT(30)
  <2>4. current' = mem[fd] /\ mem[fd] # None
    <3>1. \E h \in {mem[fd]} : IF h = None THEN UNCHANGED <<pc, current>>
                               ELSE pc' = "handler" /\ current' = h
      BY <2>1, <2>3, ZenonT(30) DEF HandleRead, Dispatch, Visit
    <3> QED
      BY <1>1, <1>6, <3>1, ZenonT(30)
  <2>5. current' \in UDPReceiverTag /\ current'.fd = fd /\ fd \in DOMAIN interest
    BY <1>4, <2>1, <2>2, <2>4, ZenonT(30) DEF TagsFor, CellInv
  <2>6. Filed(fd)
    <3>1. ~Held(fd, {"added"}) /\ fd # TimerFd
      BY <1>2, <1>4, <2>1, ZenonT(30) DEF Held, NoCall
    <3> QED
      BY <2>5, <3>1, ZenonT(30) DEF UdpInv, OwnInv
  <2>7. PICK r \in Receivers : \E p \in DOMAIN portToFd[r] : portToFd[r][p] = fd
    BY <2>6, ZenonT(30) DEF Filed
  <2>8. PICK p \in DOMAIN portToFd[r] : portToFd[r][p] = fd
    BY <2>7
  <2>9. EntryOK(r, p, fd)
    BY <2>8, Zenon DEF UdpInv, OwnInv
  <2>10. interest[fd] = fd
    BY <1>4, <2>1, <2>5, ZenonT(30) DEF UdpInv, SourceInv, WatchedInv, InterestHasHandler
  <2>11. /\ current'.callback.receiver = r /\ r \in alive
         /\ fd \in DOMAIN socket /\ current'.callback.sub = socket[fd].sub
    <3>1. /\ r \in alive /\ fd \in DOMAIN socket
          /\ mem[fd].callback = [receiver |-> r, sub |-> socket[fd].sub]
      BY <2>9, <2>10, Zenon DEF EntryOK
    <3> QED
      BY <2>4, <3>1, SMTT(30)
  <2>12. ReadInv'
    BY <1>1, <1>6, <2>5, <2>11, ZenonT(30) DEF ReadInv
  <2> QED
    BY <1>5, <2>12, ZenonT(30)
<1>7. CASE pc' # "handler"
  BY <1>1, <1>5, <1>7, ZenonT(30) DEF ReadInv
<1> QED
  BY <1>6, <1>7, ZenonT(30)

\* The other steps.
LEMMA ReadCells ==
  ASSUME UdpInv, CellInv, ReadInv,
         \/ \E fd \in DOMAIN socket, size \in Sizes : PacketArrives(fd, size)
         \/ Receive \/ Deliver \/ CallbackReturns \/ HandleReadReturns
         \/ UNCHANGED allVars
  PROVE  CellInv' /\ ReadInv'
<1>1. UNCHANGED <<mem, interest, events, portToFd, alive, call>>
  BY Zenon DEF PacketArrives, DataArrives, Receive, Deliver, CallbackReturns, HandleReadReturns,
         EndHandler, allVars, vars, sourceVars, loopVars, udpVars
<1>2. PortFree'
  BY <1>1, PortFreeFrame, ZenonT(30)
<1>3. CellInv'
  BY <1>1, <1>2, CellFrame, ZenonT(30)
<1>4. ASSUME NEW fd \in DOMAIN socket, NEW size \in Sizes, PacketArrives(fd, size)
      PROVE  ReadInv'
  <2>1. socket' = [socket EXCEPT ![fd].queue = Append(@, size)]
        /\ UNCHANGED <<alive, stage, batch, current>>
    BY <1>4 DEF PacketArrives, DataArrives, vars, loopVars
  <2>2. \A f \in DOMAIN socket : f \in DOMAIN socket' /\ socket'[f].sub = socket[f].sub
    BY <2>1, Zenon DEF UdpInv, SocketInv
  <2> QED
    BY <2>1, <2>2, ReadFrame, ZenonT(30)
<1>5. CASE Receive \/ Deliver \/ CallbackReturns
  <2>1. stage # "none" /\ stage' \in {"batch", "callback"} /\ UNCHANGED <<current, alive>>
    <3>1. CASE Receive
      BY <3>1, SMTT(30) DEF Receive, vars, loopVars
    <3>2. CASE Deliver
      BY <3>2, SMTT(30) DEF Deliver, vars, loopVars
    <3>3. CASE CallbackReturns
      BY <3>3, SMTT(30) DEF CallbackReturns, vars, loopVars
    <3> QED
      BY <1>5, <3>1, <3>2, <3>3, Zenon
  <2> QED
    BY <1>3, <2>1, ZenonT(30) DEF ReadInv
<1>6. CASE HandleReadReturns
  BY <1>3, <1>6 DEF HandleReadReturns, ReadInv
<1>7. CASE UNCHANGED allVars
  BY <1>3, <1>7, Zenon DEF allVars, vars, loopVars, udpVars, ReadInv
<1> QED
  BY <1>3, <1>4, <1>5, <1>6, <1>7, ZenonT(30)

LEMMA ReadInitially == UdpInit => CellInv /\ ReadInv
<1> SUFFICES ASSUME UdpInit PROVE CellInv /\ ReadInv
  BY ZenonT(30)
<1>1. FastFds \cap Nodes = {} /\ TimerFd \in FastFds
  BY LoopAssumption, ZenonT(30) DEF Fds
<1>2. events = << >> /\ Len(events) = 0
  BY ZenonT(30) DEF UdpInit, Init
<1>3. CellInv
  BY <1>1, <1>2, SMTT(30) DEF UdpInit, Init, CellInv, PortFree
<1> QED
  BY <1>3, ZenonT(30) DEF UdpInit, ReadInv

LEMMA ReadInvHolds ==
  ASSUME AllRegister
  PROVE  UdpSpec => [](CellInv /\ ReadInv)
<1>1. UdpInv /\ CellInv /\ ReadInv /\ [UdpNext]_allVars => CellInv' /\ ReadInv'
  BY SubscribeCells, ReleaseCells, PollCells, HandleReadCells, ReadCells, ZenonT(30)
     DEF UdpNext, App, UdpLoop
<1> QED
  BY <1>1, ReadInitially, UdpInvHolds, PTL DEF UdpSpec

(***************************************************************************)
(* handleRead is never called on a destroyed receiver, although events for *)
(* its sockets may be in the batch when another handler destroys it, if    *)
(* every registration succeeds, on a port of its own and below             *)
(* MAX_FAST_FDS.                                                           *)
(***************************************************************************)
THEOREM OnlyAlive ==
  ASSUME AllRegister
  PROVE  UdpSpec => []ReceiverAlive
<1>1. ReadInv => ReceiverAlive
  BY Zenon DEF ReadInv, ReceiverAlive
<1> QED
  BY <1>1, ReadInvHolds, PTL

(***************************************************************************)
(* handleRead reads from an open socket of the subscription it was called  *)
(* for, however often its descriptor was closed and used again while the   *)
(* event waited in the batch.                                              *)
(***************************************************************************)
THEOREM OwnSocketRead ==
  ASSUME AllRegister
  PROVE  UdpSpec => []ReadsOwnSocket
<1>1. ReadInv => ReadsOwnSocket
  BY Zenon DEF ReadInv, ReadsOwnSocket
<1> QED
  BY <1>1, ReadInvHolds, PTL

-----------------------------------------------------------------------------
(* What is delivered.                                                      *)

Packets == {Packet(n) : n \in Sizes}

LEMMA DeliverableType ==
  ASSUME NEW sizes \in Seq(Sizes)
  PROVE  Deliverable(sizes) \in Seq(Packets)
<1> DEFINE s == Filter(sizes, Sizes \ {0})
<1>1. s \in Seq(Sizes \cap (Sizes \ {0}))
  BY FilterType
<1> HIDE DEF s
<1>2. Len(s) \in Nat /\ DOMAIN s = 1 .. Len(s) /\ \A i \in 1 .. Len(s) : s[i] \in Sizes
  BY <1>1, SMTT(30)
<1>3. Deliverable(sizes) = [i \in 1 .. Len(s) |-> Packet(s[i])]
  BY <1>2, ZenonT(30) DEF Deliverable, s
<1>4. \A i \in 1 .. Len(s) : Packet(s[i]) \in Packets
  BY <1>2, ZenonT(30) DEF Packets
<1> QED
  BY <1>2, <1>3, <1>4, SMTT(30)

LEMMA DeliverableEmpty == Deliverable(<< >>) = << >>
<1>1. Filter(<< >>, Sizes \ {0}) = << >>
  BY FilterEmpty
<1>2. PICK e : e = << >>
  OBVIOUS
<1>3. Deliverable(e) = [i \in DOMAIN e |-> Packet(e[i])]
  BY <1>1, <1>2, Zenon DEF Deliverable
<1>4. e \in Seq(Sizes) /\ DOMAIN e = {}
  BY <1>2, SMTT(30)
<1>5. Deliverable(e) \in Seq(Packets) /\ DOMAIN Deliverable(e) = {}
  BY <1>3, <1>4, DeliverableType, ZenonT(30)
<1> QED
  BY <1>2, <1>5, SMTT(30)

LEMMA DeliverableOne ==
  ASSUME NEW size \in Sizes
  PROVE  Deliverable(<<size>>) = IF size = 0 THEN << >> ELSE <<Packet(size)>>
<1>1. Filter(<<size>>, Sizes \ {0}) = IF size = 0 THEN << >> ELSE <<size>>
  BY FilterOne
<1> QED
  BY <1>1, SMTT(30) DEF Deliverable

LEMMA DeliverableConcat ==
  ASSUME NEW a \in Seq(Sizes), NEW b \in Seq(Sizes)
  PROVE  Deliverable(a \o b) = Deliverable(a) \o Deliverable(b)
<1> DEFINE S == Sizes \ {0}  U == Sizes \cap S
           s == Filter(a, S)  t == Filter(b, S)
           f == Filter(a \o b, S)
           ds == Deliverable(a)  dt == Deliverable(b)  df == Deliverable(a \o b)
<1>1. s \in Seq(U) /\ t \in Seq(U)
  BY FilterType, ZenonT(30)
<1>2. f = s \o t
  BY FilterConcat, SMTT(30)
<1>3. /\ ds = [i \in DOMAIN s |-> Packet(s[i])]
      /\ dt = [i \in DOMAIN t |-> Packet(t[i])]
      /\ df = [i \in DOMAIN f |-> Packet(f[i])]
  BY DEF Deliverable
<1>4. ds \in Seq(Packets) /\ dt \in Seq(Packets) /\ df \in Seq(Packets)
  <2>1. a \o b \in Seq(Sizes)
    BY SMTT(30)
  <2> QED
    BY <2>1, DeliverableType, Zenon
<1> HIDE DEF s, t, f, ds, dt, df, U
<1>5. /\ Len(s) \in Nat /\ Len(t) \in Nat /\ Len(f) = Len(s) + Len(t)
      /\ DOMAIN s = 1 .. Len(s) /\ DOMAIN t = 1 .. Len(t) /\ DOMAIN f = 1 .. Len(s) + Len(t)
      /\ \A i \in 1 .. Len(s) : f[i] = s[i]
      /\ \A i \in 1 .. Len(t) : f[Len(s) + i] = t[i]
  BY <1>1, <1>2, SMTT(30)
<1>6. Len(ds) = Len(s) /\ Len(dt) = Len(t) /\ Len(df) = Len(s) + Len(t)
  BY <1>3, <1>4, <1>5, SMTT(30)
<1>7. ds \o dt \in Seq(Packets) /\ Len(ds \o dt) = Len(s) + Len(t)
  <2>1. ds \o dt \in Seq(Packets) /\ Len(ds \o dt) = Len(ds) + Len(dt)
    BY <1>4
  <2> QED
    BY <1>6, <2>1
<1>8. ASSUME NEW i \in 1 .. Len(s) + Len(t) PROVE df[i] = (ds \o dt)[i]
  <2>1. CASE i <= Len(s)
    <3>1. i \in 1 .. Len(s) /\ (ds \o dt)[i] = ds[i]
      BY <1>4, <1>5, <1>6, <2>1, SMTT(30)
    <3> QED
      BY <1>3, <1>5, <3>1, Zenon
  <2>2. CASE i > Len(s)
    <3>1. PICK j : j = i - Len(s)
      BY ZenonT(30)
    <3>2. j \in 1 .. Len(t) /\ i = Len(s) + j /\ (ds \o dt)[i] = dt[j]
      BY <1>4, <1>5, <1>6, <2>2, <3>1, SMTT(30)
    <3>3. f[i] = t[j]
      BY <1>5, <3>2, ZenonT(30)
    <3> QED
      BY <1>3, <1>5, <3>2, <3>3, ZenonT(30)
  <2>3. i <= Len(s) \/ i > Len(s)
    BY <1>5
  <2> QED
    BY <2>1, <2>2, <2>3, Zenon
<1>9. df = ds \o dt
  BY <1>4, <1>6, <1>7, <1>8, SameSeq, Zenon
<1> QED
  BY <1>9, ZenonT(30) DEF ds, dt, df

\* What the handler of s has got or is about to get from the batch in hand.
InHand(s) == IF stage # "none" /\ current.callback.sub = s THEN batch ELSE << >>

Got(s) == delivered[s] \o Deliverable(InHand(s))

\* The subscription has got a prefix of what arrived, the rest waits in its socket.
Ordered(s) ==
  /\ \E rest \in Seq(Packets) : Got(s) \o rest = Deliverable(arrived[s])
  /\ \A fd \in SocketsOf(s) : Got(s) \o Deliverable(socket[fd].queue) = Deliverable(arrived[s])

OrderInv ==
  /\ arrived \in [Subs -> Seq(Sizes)]
  /\ delivered \in [Subs -> Seq(Packets)]
  /\ \A s \in Subs : s >= nextSub \/ (call.at = "socket" /\ call.sub = s) => arrived[s] = << >>
  /\ \A s \in Subs : Ordered(s)

LEMMA GotType ==
  ASSUME StageInv, OrderInv, NEW s \in Subs
  PROVE  InHand(s) \in Seq(Sizes) /\ Got(s) \in Seq(Packets)
<1>1. InHand(s) \in Seq(Sizes)
  BY SMTT(30) DEF InHand, StageInv
<1>2. Deliverable(InHand(s)) \in Seq(Packets) /\ delivered[s] \in Seq(Packets)
  BY <1>1, DeliverableType, ZenonT(30) DEF OrderInv
<1> QED
  BY <1>1, <1>2, SMTT(30) DEF Got

LEMMA OrderInitially == UdpInit => OrderInv
<1> SUFFICES ASSUME UdpInit PROVE OrderInv
  OBVIOUS
<1>1. /\ arrived = [s \in Subs |-> << >>] /\ delivered = [s \in Subs |-> << >>]
      /\ socket = << >> /\ stage = "none"
  BY ZenonT(30) DEF UdpInit
<1>2. \A s \in Subs : Got(s) = << >> /\ Deliverable(arrived[s]) = << >> /\ SocketsOf(s) = {}
  BY <1>1, DeliverableEmpty, SMTT(30) DEF Got, InHand, SocketsOf
<1>3. << >> \in Seq(Packets) /\ << >> \o << >> = << >>
  OBVIOUS
<1>4. \A s \in Subs : Ordered(s)
  BY <1>2, <1>3, ZenonT(30) DEF Ordered
<1> QED
  BY <1>1, <1>4, SMTT(30) DEF OrderInv

\* A step in which no datagram arrives, no socket is bound and no queue changes.
LEMMA OrderFrame ==
  ASSUME OrderInv, UNCHANGED arrived, delivered' \in [Subs -> Seq(Packets)],
         \A s \in Subs : Got(s)' = Got(s),
         DOMAIN socket' \subseteq DOMAIN socket,
         \A fd \in DOMAIN socket' : socket'[fd] = socket[fd],
         \A s \in Subs : (s >= nextSub' \/ (call'.at = "socket" /\ call'.sub = s))
                           => (s >= nextSub \/ (call.at = "socket" /\ call.sub = s))
  PROVE  OrderInv'
<1>1. ASSUME NEW s \in Subs PROVE Ordered(s)'
  <2>1. Ordered(s) /\ Got(s)' = Got(s)
    BY Zenon DEF OrderInv
  <2>2. SocketsOf(s)' \subseteq SocketsOf(s)
    BY ZenonT(30) DEF SocketsOf
  <2>3. \A fd \in SocketsOf(s)' : socket'[fd].queue = socket[fd].queue
    BY ZenonT(30) DEF SocketsOf
  <2> QED
    BY <2>1, <2>2, <2>3, Zenon DEF Ordered
<1> QED
  BY <1>1 DEF OrderInv

LEMMA SubscribeOrder ==
  ASSUME UdpInv, ReadInv, OrderInv, NEW p \in Ports, SubscribeBind(p)
  PROVE  OrderInv'
<1>1. /\ call.at = "socket" /\ call # NoCall
      /\ call' = [call EXCEPT !.at = "bound", !.port = p]
      /\ DOMAIN socket' = DOMAIN socket \cup {call.fd}
      /\ socket'[call.fd].queue = << >> /\ socket'[call.fd].sub = call.sub
      /\ \A f \in DOMAIN socket : f # call.fd => socket'[f] = socket[f]
      /\ UNCHANGED <<vars, stage, batch, nextSub, arrived, delivered>>
  BY SMTT(30) DEF SubscribeBind, NoCall, history
<1>2. /\ call.sub \in Subs /\ call'.at = "bound" /\ call.fd \notin DOMAIN socket
  BY <1>1, ZenonT(30) DEF UdpInv, OwnInv, CallOK
<1>3. ASSUME NEW s \in Subs PROVE Ordered(s)'
  <2>1. Got(s)' = Got(s) /\ Ordered(s)
    BY <1>1, ZenonT(30) DEF Got, InHand, vars, loopVars, OrderInv
  <2>2. CASE s = call.sub
    <3>1. arrived[s] = << >> /\ Deliverable(arrived[s]) = << >>
      BY <1>1, <1>2, <2>2, DeliverableEmpty, ZenonT(30) DEF OrderInv
    <3>2. Got(s) = << >>
      <4>1. PICK rest \in Seq(Packets) : Got(s) \o rest = << >>
        BY <2>1, <3>1, ZenonT(30) DEF Ordered
      <4>2. Got(s) \in Seq(Packets)
        BY GotType DEF UdpInv
      <4> QED
        BY <4>1, <4>2, SMTT(30)
    <3>3. SocketsOf(s)' = {call.fd}
      <4>1. \A f \in DOMAIN socket : socket[f].sub # s
        BY <1>1, <2>2, ZenonT(30) DEF UdpInv, SocketInv
      <4> QED
        BY <1>1, <1>2, <2>2, <4>1, ZenonT(30) DEF SocketsOf
    <3>4. Got(s)' \o Deliverable(socket'[call.fd].queue) = Deliverable(arrived'[s])
      BY <1>1, <2>1, <3>1, <3>2, DeliverableEmpty, SMTT(30)
    <3> QED
      BY <1>1, <2>1, <3>1, <3>2, <3>3, <3>4, ZenonT(30) DEF Ordered
  <2>3. CASE s # call.sub
    <3>1. /\ SocketsOf(s)' \subseteq SocketsOf(s)
          /\ \A f \in SocketsOf(s)' : socket'[f].queue = socket[f].queue
      BY <1>1, <1>2, <2>3, ZenonT(30) DEF SocketsOf
    <3> QED
      BY <1>1, <2>1, <3>1, Zenon DEF Ordered
  <2> QED
    BY <2>2, <2>3, ZenonT(30)
<1> QED
  BY <1>1, <1>2, <1>3, ZenonT(30) DEF OrderInv

LEMMA PacketOrder ==
  ASSUME UdpInv, ReadInv, OrderInv, NEW fd \in DOMAIN socket, NEW size \in Sizes,
         PacketArrives(fd, size)
  PROVE  OrderInv'
<1>1. PICK c : c = socket[fd].sub
  BY ZenonT(30)
<1>2. PICK d : d = Deliverable(<<size>>)
  OBVIOUS
<1>3. /\ socket' = [socket EXCEPT ![fd].queue = Append(@, size)]
      /\ arrived' = [arrived EXCEPT ![c] = Append(@, size)]
      /\ UNCHANGED <<current, call, stage, batch, nextSub, delivered>>
  BY <1>1, ZenonT(30) DEF PacketArrives, DataArrives, vars, loopVars
<1>4. c \in Subs /\ socket[fd].queue \in Seq(Sizes) /\ arrived[c] \in Seq(Sizes)
  BY <1>1, ZenonT(30) DEF UdpInv, SocketInv, OrderInv
<1>5. /\ DOMAIN socket' = DOMAIN socket
      /\ socket'[fd].queue = Append(socket[fd].queue, size)
      /\ \A f \in DOMAIN socket : socket'[f].sub = socket[f].sub
      /\ \A f \in DOMAIN socket : f # fd => socket'[f] = socket[f]
      /\ arrived'[c] = Append(arrived[c], size)
      /\ \A s \in Subs : s # c => arrived'[s] = arrived[s]
  BY <1>3, <1>4, ZenonT(30) DEF UdpInv, SocketInv, OrderInv
<1>6. \A q \in Seq(Sizes) : Append(q, size) \in Seq(Sizes)
                           /\ Deliverable(Append(q, size)) = Deliverable(q) \o d
  <2> SUFFICES ASSUME NEW q \in Seq(Sizes)
               PROVE  Append(q, size) \in Seq(Sizes)
                      /\ Deliverable(Append(q, size)) = Deliverable(q) \o d
    BY ZenonT(30)
  <2>1. <<size>> \in Seq(Sizes) /\ Append(q, size) = q \o <<size>> /\ Append(q, size) \in Seq(Sizes)
    BY AddedOne
  <2> QED
    BY <1>2, <2>1, DeliverableConcat, Zenon
<1>7. d \in Seq(Packets)
  <2>1. <<size>> \in Seq(Sizes)
    BY SMTT(30)
  <2> QED
    BY <1>2, <2>1, DeliverableType, Zenon
<1>8. \A s \in Subs : Got(s)' = Got(s) /\ SocketsOf(s)' = SocketsOf(s)
  BY <1>3, <1>5, ZenonT(30) DEF Got, InHand, SocketsOf
<1>9. ASSUME NEW s \in Subs PROVE Ordered(s)'
  <2>1. Ordered(s)
    BY DEF OrderInv
  <2>2. CASE s = c
    <3>1. SocketsOf(s) = {fd}
      BY <1>1, <2>2, ZenonT(30) DEF SocketsOf, UdpInv, SocketInv
    <3>2. PICK got, old, wait : got = Got(s) /\ old = Deliverable(arrived[s])
                                /\ wait = Deliverable(socket[fd].queue)
      OBVIOUS
    <3>3. got \o wait = old
      BY <2>1, <3>1, <3>2, Zenon DEF Ordered
    <3>4. got \in Seq(Packets) /\ wait \in Seq(Packets)
      BY <1>4, <3>2, GotType, DeliverableType, Zenon DEF UdpInv
    <3>5. Deliverable(arrived'[s]) = old \o d /\ Deliverable(socket'[fd].queue) = wait \o d
      BY <1>4, <1>5, <1>6, <2>2, <3>2, ZenonT(30)
    <3>6. got \o (wait \o d) = old \o d
      <4>1. (got \o wait) \o d = got \o (wait \o d)
        BY <1>7, <3>4, AddedTwice, SMTT(30)
      <4> QED
        BY <3>3, <4>1, ZenonT(30)
    <3>7. wait \o d \in Seq(Packets)
      BY <1>7, <3>4
    <3>8. Got(s)' = got /\ SocketsOf(s)' = {fd}
      BY <1>8, <3>1, <3>2, Zenon
    <3> QED
      BY <3>5, <3>6, <3>7, <3>8, ZenonT(30) DEF Ordered
  <2>3. CASE s # c
    <3>1. \A f \in SocketsOf(s) : socket'[f] = socket[f]
      BY <1>1, <1>5, <2>3, Zenon DEF SocketsOf
    <3> QED
      BY <1>5, <1>8, <2>1, <2>3, <3>1, ZenonT(30) DEF Ordered
  <2> QED
    BY <2>2, <2>3, Zenon
<1>10. arrived' \in [Subs -> Seq(Sizes)]
  BY <1>3, <1>4, <1>6, Zenon DEF OrderInv
<1>11. \A s \in Subs : s >= nextSub' \/ (call'.at = "socket" /\ call'.sub = s) => arrived'[s] = << >>
  <2> SUFFICES ASSUME NEW s \in Subs, s >= nextSub \/ (call.at = "socket" /\ call.sub = s)
               PROVE  arrived'[s] = << >>
    BY <1>3, ZenonT(30)
  <2>1. s # c
    BY <1>1, SMTT(30) DEF UdpInv, SocketInv, Subs
  <2> QED
    BY <1>5, <2>1, Zenon DEF OrderInv
<1> QED
  BY <1>3, <1>9, <1>10, <1>11, Zenon DEF OrderInv

\* recvmmsg splits the queue: what it takes, and what it leaves.
LEMMA ReceiveOrder ==
  ASSUME UdpInv, ReadInv, OrderInv, Receive
  PROVE  OrderInv'
<1>1. PICK fd, c : fd = current.fd /\ c = current.callback.sub
  OBVIOUS
<1>2. /\ stage = "read" /\ batch = << >> /\ fd \in DOMAIN socket /\ socket[fd].sub = c
  BY <1>1, ZenonT(30) DEF Receive, ReadInv
<1>3. PICK queue : queue = socket[fd].queue
  OBVIOUS
<1>4. PICK n : n = IF Len(queue) < BatchSize THEN Len(queue) ELSE BatchSize
  OBVIOUS
<1>5. /\ batch' = SubSeq(queue, 1, n)
      /\ socket' = [socket EXCEPT ![fd].queue = Left(queue)]
      /\ stage' = "batch"
      /\ UNCHANGED <<current, call, nextSub, arrived, delivered>>
  BY <1>1, <1>2, <1>3, <1>4, ZenonT(30) DEF Receive, loopVars, history
<1>6. /\ queue \in Seq(Sizes) /\ Len(queue) \in Nat /\ n \in Nat /\ n <= Len(queue)
      /\ c \in Subs
  BY <1>2, <1>3, <1>4, UDPAssumption, SMTT(30) DEF UdpInv, SocketInv
<1>7. /\ SubSeq(queue, 1, n) \in Seq(Sizes) /\ Left(queue) \in Seq(Sizes)
      /\ queue = SubSeq(queue, 1, n) \o Left(queue)
  <2>1. CASE n = BatchSize
    <3>1. Left(queue) = SubSeq(queue, n + 1, Len(queue))
      BY <2>1 DEF Left
    <3>2. SubSeq(queue, 1, n) \o SubSeq(queue, n + 1, Len(queue)) = queue
      <4>1. n \in 0 .. Len(queue)
        BY <1>6, SMTT(30)
      <4> QED
        BY <1>6, <4>1, SplitAt, Zenon
    <3>3. SubSeq(queue, 1, n) \in Seq(Sizes) /\ SubSeq(queue, n + 1, Len(queue)) \in Seq(Sizes)
      BY <1>6, PartOf, SMTT(30)
    <3> QED
      BY <3>1, <3>2, <3>3, Zenon
  <2>2. CASE n = Len(queue) /\ n < BatchSize
    <3>1. Left(queue) = << >> /\ SubSeq(queue, 1, n) = queue
      BY <1>6, <2>2, UDPAssumption, SMTT(30) DEF Left
    <3> QED
      BY <1>6, <3>1, SMTT(30)
  <2> QED
    BY <1>4, <1>6, <2>1, <2>2, UDPAssumption, ZenonT(30)
<1>8. PICK taken, left : taken = Deliverable(SubSeq(queue, 1, n)) /\ left = Deliverable(Left(queue))
  OBVIOUS
<1>9. /\ taken \in Seq(Packets) /\ left \in Seq(Packets)
      /\ Deliverable(queue) = taken \o left
  BY <1>7, <1>8, DeliverableType, DeliverableConcat, Zenon
<1>10. /\ DOMAIN socket' = DOMAIN socket
       /\ socket'[fd].queue = Left(queue)
       /\ \A f \in DOMAIN socket : socket'[f].sub = socket[f].sub
       /\ \A f \in DOMAIN socket : f # fd => socket'[f] = socket[f]
  BY <1>2, <1>5, ZenonT(30) DEF UdpInv, SocketInv
<1>11. \A s \in Subs : SocketsOf(s)' = SocketsOf(s)
  BY <1>10, ZenonT(30) DEF SocketsOf
<1>12. ASSUME NEW s \in Subs PROVE Ordered(s)'
  <2>1. Ordered(s)
    BY DEF OrderInv
  <2>2. CASE s = c
    <3>1. SocketsOf(s) = {fd}
      BY <1>2, <2>2, ZenonT(30) DEF SocketsOf, UdpInv, SocketInv
    <3>2. PICK had : had = delivered[s]
      BY ZenonT(30)
    <3>3. had \in Seq(Packets)
      BY <3>2, ZenonT(30) DEF OrderInv
    <3>4. Got(s) = had
      BY <1>1, <1>2, <2>2, <3>2, <3>3, DeliverableEmpty, NothingAdded, ZenonT(30) DEF Got, InHand
    <3>5. Got(s)' = had \o taken
      BY <1>1, <1>5, <1>8, <2>2, <3>2, Zenon DEF Got, InHand
    <3>6. had \o (taken \o left) = Deliverable(arrived[s])
      BY <1>3, <1>9, <2>1, <3>1, <3>4, ZenonT(30) DEF Ordered
    <3>7. (had \o taken) \o left = Deliverable(arrived[s])
      <4>1. (had \o taken) \o left = had \o (taken \o left)
        BY <1>9, <3>3, AddedTwice, SMTT(30)
      <4> QED
        BY <3>6, <4>1, ZenonT(30)
    <3> QED
      BY <1>5, <1>8, <1>9, <1>10, <1>11, <3>1, <3>5, <3>7, ZenonT(30) DEF Ordered
  <2>3. CASE s # c
    <3>1. \A f \in SocketsOf(s) : socket'[f] = socket[f]
      BY <1>2, <1>10, <2>3, ZenonT(30) DEF SocketsOf
    <3>2. Got(s)' = Got(s)
      BY <1>1, <1>2, <1>5, <2>3, ZenonT(30) DEF Got, InHand
    <3> QED
      BY <1>5, <1>11, <2>1, <3>1, <3>2, ZenonT(30) DEF Ordered
  <2> QED
    BY <2>2, <2>3, ZenonT(30)
<1> QED
  BY <1>5, <1>12, ZenonT(30) DEF OrderInv

\* A datagram of the batch in hand is delivered: got stays what it is.
LEMMA DeliverOrder ==
  ASSUME UdpInv, ReadInv, OrderInv, Deliver
  PROVE  OrderInv'
<1>1. PICK c, size, rest : c = current.callback.sub /\ size = Head(batch) /\ rest = Tail(batch)
  BY ZenonT(30)
<1>2. /\ stage = "batch" /\ batch # << >> /\ batch' = rest
      /\ stage' = (IF size = 0 THEN "batch" ELSE "callback")
      /\ delivered' = IF size = 0 THEN delivered
                      ELSE [delivered EXCEPT ![c] = Append(@, Packet(size))]
      /\ UNCHANGED <<current, socket, call, nextSub, arrived>>
  BY <1>1, ZenonT(30) DEF Deliver, vars, loopVars
<1>3. /\ size \in Sizes /\ rest \in Seq(Sizes) /\ batch = <<size>> \o rest
      /\ <<size>> \in Seq(Sizes)
  <2>1. batch \in Seq(Sizes)
    BY DEF UdpInv, StageInv
  <2> QED
    BY <1>1, <1>2, <2>1, SMTT(30)
<1>4. c \in Subs
  BY <1>1, <1>2, UDPAssumption, Zenon DEF ReadInv, UDPReceiverTag
<1>5. PICK had, one, left : had = delivered[c] /\ one = Deliverable(<<size>>)
                            /\ left = Deliverable(rest)
  OBVIOUS
<1>6. /\ had \in Seq(Packets) /\ one \in Seq(Packets) /\ left \in Seq(Packets)
      /\ Deliverable(batch) = one \o left
  BY <1>3, <1>4, <1>5, DeliverableType, DeliverableConcat, ZenonT(30) DEF OrderInv
<1>7. delivered'[c] = had \o one
  <2>1. CASE size = 0
    <3>1. one = << >>
      BY <1>3, <1>5, <2>1, DeliverableOne, ZenonT(30)
    <3> QED
      BY <1>2, <1>5, <1>6, <2>1, <3>1, NothingAdded, ZenonT(30)
  <2>2. CASE size # 0
    <3>1. one = <<Packet(size)>> /\ Packet(size) \in Packets
      BY <1>3, <1>5, <2>2, DeliverableOne, ZenonT(30) DEF Packets
    <3>2. delivered'[c] = Append(had, Packet(size))
      BY <1>2, <1>4, <1>5, <2>2, ZenonT(30) DEF OrderInv
    <3> QED
      BY <1>6, <3>1, <3>2, AddedOne, ZenonT(30)
  <2> QED
    BY <2>1, <2>2, ZenonT(30)
<1>8. ASSUME NEW s \in Subs PROVE Got(s)' = Got(s) /\ delivered'[s] \in Seq(Packets)
  <2>1. CASE s = c
    <3>1. Got(s) = had \o (one \o left)
      BY <1>1, <1>2, <1>5, <1>6, <2>1, Zenon DEF Got, InHand
    <3>2. Got(s)' = (had \o one) \o left
      BY <1>1, <1>2, <1>5, <1>7, <2>1, ZenonT(30) DEF Got, InHand
    <3>3. (had \o one) \o left = had \o (one \o left)
      BY <1>6, AddedTwice, SMTT(30)
    <3>4. had \o one \in Seq(Packets)
      BY <1>6
    <3> QED
      BY <1>7, <2>1, <3>1, <3>2, <3>3, <3>4, Zenon
  <2>2. CASE s # c
    <3>1. delivered'[s] = delivered[s]
      BY <1>2, <1>4, <2>2, ZenonT(30) DEF OrderInv
    <3> QED
      BY <1>1, <1>2, <2>2, <3>1, ZenonT(30) DEF Got, InHand, OrderInv
  <2> QED
    BY <2>1, <2>2, ZenonT(30)
<1>9. delivered' \in [Subs -> Seq(Packets)]
  <2>1. delivered' = [s \in Subs |-> delivered'[s]]
    BY <1>2, Zenon DEF OrderInv
  <2> QED
    BY <1>8, <2>1
<1> QED
  BY <1>2, <1>8, <1>9, OrderFrame, ZenonT(30)

\* Steps that leave the histories alone.
LEMMA QuietOrder ==
  ASSUME UdpInv, ReadInv, OrderInv,
         \/ \E r \in Receivers, p \in Ports \cup {0}, fd \in Fds \ {TimerFd} :
              SubscribeSocket(r, p, fd)
         \/ SubscribeFails \/ SubscribeDone \/ \E f \in EpollErrors : SubscribeAdd(f)
         \/ \E r \in Receivers, p \in Ports : Unsubscribe(r, p)
         \/ \E r \in Receivers : Destroy(r)
         \/ Poll \/ HandleRead \/ CallbackReturns \/ HandleReadReturns
         \/ UNCHANGED allVars
  PROVE  OrderInv'
<1>1. UNCHANGED <<batch, arrived, delivered>>
  BY Zenon DEF SubscribeSocket, SubscribeFails, SubscribeDone, SubscribeAdd, Unsubscribe, Destroy,
         Poll, HandleRead, CallbackReturns, HandleReadReturns, udpVars, allVars, history
<1>2. /\ DOMAIN socket' \subseteq DOMAIN socket
      /\ \A fd \in DOMAIN socket' : socket'[fd] = socket[fd]
  BY Zenon DEF SubscribeSocket, SubscribeFails, SubscribeDone, SubscribeAdd, Unsubscribe, Destroy,
         Poll, HandleRead, CallbackReturns, HandleReadReturns, Close, udpVars, allVars
<1>3. batch = << >> \/ (stage' # "none" /\ stage # "none" /\ current' = current)
                    \/ (stage = "none" /\ stage' = "none")
  <2>1. CASE UNCHANGED <<stage, current>>
    BY <2>1, ZenonT(30)
  <2>2. CASE Poll
    BY <2>2, Zenon DEF Poll, RunOnce, EpollWait, TakeTasks, RunOnceReturns, udpVars, UdpInv, StageInv
  <2>3. CASE HandleRead
    BY <2>3, Zenon DEF HandleRead, Dispatch, UdpInv, StageInv, ReadInv
  <2>4. CASE CallbackReturns \/ HandleReadReturns
    BY <2>4, Zenon DEF CallbackReturns, HandleReadReturns, vars, loopVars
  <2> QED
    BY <2>1, <2>2, <2>3, <2>4, ZenonT(30)
       DEF SubscribeSocket, SubscribeFails, SubscribeDone, SubscribeAdd, Unsubscribe, Destroy,
           AddSource, OpenFd, udpVars, allVars, vars, loopVars
<1>4. \A s \in Subs : InHand(s)' = InHand(s)
  BY <1>1, <1>3, Zenon DEF InHand
<1>5. \A s \in Subs : Got(s)' = Got(s)
  BY <1>1, <1>4, Zenon DEF Got
<1>6. delivered' \in [Subs -> Seq(Packets)]
  BY <1>1, ZenonT(30) DEF OrderInv
<1>7. \A s \in Subs : (s >= nextSub' \/ (call'.at = "socket" /\ call'.sub = s))
                        => (s >= nextSub \/ (call.at = "socket" /\ call.sub = s))
  <2>1. CASE UNCHANGED <<call, nextSub>> \/ (call' = NoCall /\ UNCHANGED nextSub)
    <3>1. CASE UNCHANGED <<call, nextSub>>
      BY <3>1, Zenon
    <3>2. CASE call' = NoCall /\ UNCHANGED nextSub
      <4>1. call'.at # "socket"
        BY <3>2, ZenonT(30) DEF NoCall
      <4> QED
        BY <3>2, <4>1, ZenonT(30)
    <3> QED
      BY <2>1, <3>1, <3>2, Zenon
  <2>2. ASSUME NEW r \in Receivers, NEW p \in Ports \cup {0}, NEW fd \in Fds \ {TimerFd},
               SubscribeSocket(r, p, fd)
        PROVE  \A s \in Subs : (s >= nextSub' \/ (call'.at = "socket" /\ call'.sub = s))
                                 => s >= nextSub
    <3>1. nextSub' = nextSub + 1 /\ call'.sub = nextSub
      BY <2>2, ZenonT(30) DEF SubscribeSocket
    <3>2. nextSub \in Int
      BY DEF UdpInv, SocketInv
    <3> QED
      BY <3>1, <3>2, SMTT(30) DEF Subs
  <2>3. ASSUME NEW f \in EpollErrors, SubscribeAdd(f)
        PROVE  call'.at # "socket" /\ UNCHANGED nextSub
    <3>1. call.at = "bound" /\ call' = [call EXCEPT !.at = IF f THEN "refused" ELSE "added"]
          /\ UNCHANGED nextSub
      BY <2>3, ZenonT(30) DEF SubscribeAdd, history
    <3>2. "at" \in DOMAIN call
      <4>1. call # NoCall
        BY <3>1, SMTT(30) DEF NoCall
      <4> QED
        BY <4>1, Zenon DEF UdpInv, OwnInv, CallOK
    <3> QED
      BY <3>1, <3>2, ZenonT(30)
  <2>4. CASE \/ SubscribeFails \/ SubscribeDone \/ \E r \in Receivers, p \in Ports : Unsubscribe(r, p)
             \/ \E r \in Receivers : Destroy(r)
             \/ Poll \/ HandleRead \/ CallbackReturns \/ HandleReadReturns
             \/ UNCHANGED allVars
    BY <2>1, <2>4, Zenon DEF SubscribeFails, SubscribeDone, Unsubscribe, Destroy, Poll, HandleRead,
                      CallbackReturns, HandleReadReturns, udpVars, allVars, history
  <2> QED
    BY <2>2, <2>3, <2>4, ZenonT(30)
<1> QED
  BY <1>1, <1>2, <1>5, <1>6, <1>7, OrderFrame, ZenonT(30)

LEMMA OrderInvHolds ==
  ASSUME AllRegister
  PROVE  UdpSpec => [](StageInv /\ OrderInv)
<1>1. UdpInv /\ ReadInv /\ OrderInv /\ [UdpNext]_allVars => OrderInv'
  BY SubscribeOrder, PacketOrder, ReceiveOrder, DeliverOrder, QuietOrder, ZenonT(30)
     DEF UdpNext, Subscribing, App, UdpLoop
<1>2. UdpInv => StageInv
  BY DEF UdpInv
<1> QED
  BY <1>1, <1>2, OrderInitially, ReadInvHolds, UdpInvHolds, PTL DEF UdpSpec

(***************************************************************************)
(* Every subscription's handler gets the datagrams of its own socket, in   *)
(* order, cut to the buffer, none twice and none of another subscription;  *)
(* while it is subscribed it misses none but the empty ones.               *)
(***************************************************************************)
THEOREM InOrderOnce ==
  ASSUME AllRegister
  PROVE  UdpSpec => []DeliveredInOrder
<1>1. StageInv /\ OrderInv => DeliveredInOrder
  <2> SUFFICES ASSUME StageInv, OrderInv, NEW s \in Subs
               PROVE  IF SocketsOf(s) = {}
                        THEN /\ Len(Got(s)) <= Len(Deliverable(arrived[s]))
                             /\ Got(s) = SubSeq(Deliverable(arrived[s]), 1, Len(Got(s)))
                        ELSE \A fd \in SocketsOf(s) :
                               Got(s) \o Deliverable(socket[fd].queue) = Deliverable(arrived[s])
    BY Zenon DEF DeliveredInOrder, Got, InHand
  <2>1. Ordered(s)
    BY DEF OrderInv
  <2>2. PICK got, rest \in Seq(Packets) : got = Got(s) /\ got \o rest = Deliverable(arrived[s])
    BY <2>1, GotType, Zenon DEF Ordered
  <2>3. Len(got) <= Len(got \o rest) /\ got = SubSeq(got \o rest, 1, Len(got))
    BY <2>2
  <2> QED
    BY <2>1, <2>2, <2>3, ZenonT(30) DEF Ordered
<1> QED
  BY <1>1, OrderInvHolds, PTL
=============================================================================
