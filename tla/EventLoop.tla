----------------------------- MODULE EventLoop ------------------------------
(***************************************************************************)
(* EventLoop::runOnce, addSource, removeSource and runInLoop.              *)
(*                                                                         *)
(* epoll hands back the address of a Source: an element of m_fastSources   *)
(* for descriptors below MAX_FAST_FDS, a node of the m_slowSources map for *)
(* the others.  Both are cells of `mem'; the cell of a fast descriptor is  *)
(* the descriptor itself, the cell of a slow one is a node of the heap.    *)
(*                                                                         *)
(* The loop is single threaded.  User code runs between two runOnce calls, *)
(* in a dispatched handler and in a deferred task, and may call the loop   *)
(* from all three places: the batch of events and the list of tasks being  *)
(* worked on were both fixed before it ran.                                *)
(***************************************************************************)
EXTENDS Integers, Sequences

CONSTANTS
  FastFds,    \* descriptors below MAX_FAST_FDS
  SlowFds,    \* descriptors from MAX_FAST_FDS on
  Nodes,      \* heap cells for the nodes of m_slowSources
  Callbacks,  \* what a UDPReceiverTag calls: receiver, context and function
  TimerFd,    \* m_timer_fd
  TimerTag,   \* the handler the constructor registers for m_timer_fd
  Tasks,      \* functions passed to runInLoop
  Timeouts,   \* arguments of runOnce, -1 for no timeout
  MaxEvents,  \* MAX_EVENTS
  MaxQueue,   \* bound: number of tasks waiting
  None,       \* monostate, and "no handler runs"
  Freed       \* content of a heap cell that is not allocated

Fds == FastFds \cup SlowFds

\* The values of InternalHandler other than monostate: a UDPReceiverTag holds
\* the descriptor it was made for.
UDPReceiverTag == [fd : Fds, callback : Callbacks]

Handlers == UDPReceiverTag \cup {TimerTag}

ASSUME LoopAssumption ==
  /\ FastFds \cap SlowFds = {}
  /\ Nodes \cap Fds = {}
  /\ TimerFd \in FastFds
  /\ TimerTag \notin UDPReceiverTag
  /\ None \notin Handlers /\ Freed \notin Handlers /\ None # Freed
  /\ Timeouts \subseteq Int
  /\ MaxEvents \in Nat \ {0}
  /\ MaxQueue \in Nat

VARIABLES
  mem,          \* the Source cells: m_fastSources and the nodes of m_slowSources
  slowSources,  \* m_slowSources: descriptor -> its node
  open,         \* kernel: open descriptors
  interest,     \* kernel: epoll interest list, descriptor -> data.ptr
  readable,     \* kernel: descriptors with input
  readyList,    \* kernel: epoll ready list
  pc,           \* where the single thread is
  timeout,      \* runOnce: timeoutMs as passed to epoll_wait
  events,       \* runOnce: the events not yet dispatched
  current,      \* the handler being run
  pendingTasks, \* m_pendingTasks
  tasks,        \* runOnce: the local vector, without the task being run
  running,      \* the task being run, as a sequence of length 0 or 1
  removed       \* history: handlers taken out by removeSource since they were added

sourceVars == <<mem, slowSources, open, interest, readable, readyList, removed>>
loopVars   == <<pc, timeout, events, current>>
taskVars   == <<pendingTasks, tasks, running>>
vars == <<sourceVars, loopVars, taskVars>>

UserCode == pc \in {"idle", "handler", "task"}

\* The constructor registers the timerfd.
Init ==
  /\ mem = [p \in FastFds \cup Nodes |->
              IF p \in Nodes THEN Freed ELSE IF p = TimerFd THEN TimerTag ELSE None]
  /\ slowSources = << >>
  /\ open = {TimerFd}
  /\ interest = [fd \in {TimerFd} |-> fd]
  /\ readable = {}
  /\ readyList = << >>
  /\ pc = "idle"
  /\ timeout = 0
  /\ events = << >>
  /\ current = None
  /\ pendingTasks = << >>
  /\ tasks = << >>
  /\ running = << >>
  /\ removed = {}

-----------------------------------------------------------------------------
(***************************************************************************)
(* The kernel.  Input makes a descriptor readable and puts it on epoll's   *)
(* ready list; registrations are level triggered.                          *)
(***************************************************************************)
\* The elements of a list that are in S, in their order.
Filter(list, S) ==
  LET kept[i \in 0 .. Len(list)] ==
        IF i = 0 THEN << >>
        ELSE IF list[i] \in S THEN Append(kept[i - 1], list[i]) ELSE kept[i - 1]
  IN  kept[Len(list)]

Queued(fd, list) == \E i \in DOMAIN list : list[i] = fd

DataArrives(fd) ==
  /\ fd \in open \ readable
  /\ readable' = readable \cup {fd}
  /\ readyList' = IF fd \in DOMAIN interest /\ ~Queued(fd, readyList)
                    THEN Append(readyList, fd) ELSE readyList
  /\ UNCHANGED <<mem, slowSources, open, interest, removed, loopVars, taskVars>>

\* User code opens a descriptor, and empties one (re-arming the timerfd does, too).
OpenFd(fd) ==
  /\ UserCode
  /\ fd \notin open
  /\ open' = open \cup {fd}
  /\ UNCHANGED <<mem, slowSources, interest, readable, readyList, removed,
                 loopVars, taskVars>>

ReadFd(fd) ==
  /\ UserCode
  /\ fd \in readable
  /\ readable' = readable \ {fd}
  /\ UNCHANGED <<mem, slowSources, open, interest, readyList, removed,
                 loopVars, taskVars>>

\* Callers of the loop close a descriptor only when it is not registered.
CloseFd(fd) ==
  /\ UserCode
  /\ fd \in open \ DOMAIN interest
  /\ open' = open \ {fd}
  /\ readable' = readable \ {fd}
  /\ UNCHANGED <<mem, slowSources, interest, readyList, removed, loopVars, taskVars>>

\* epoll_ctl(EPOLL_CTL_ADD) with data.ptr = p; an input that waits is reported.
EpollCtlAdd(fd, p) ==
  /\ interest' = [f \in DOMAIN interest \cup {fd} |-> IF f = fd THEN p ELSE interest[f]]
  /\ readyList' = IF fd \in readable THEN Append(readyList, fd) ELSE readyList

\* epoll_ctl(EPOLL_CTL_DEL) for the descriptors of S; close() does the same.
EpollForgets(S) ==
  /\ interest' = [f \in DOMAIN interest \ S |-> interest[f]]
  /\ readyList' = Filter(readyList, Fds \ S)

-----------------------------------------------------------------------------
\* Mutant: a node is made for a descriptor that has one.
CellsFresh(fd) == IF fd \in FastFds THEN {fd} ELSE {n \in Nodes : mem[n] = Freed}

\* The cell of fd: its own, the node it has, or a fresh node.
Cells(fd) == IF fd \in DOMAIN slowSources THEN {slowSources[fd]} ELSE CellsFresh(fd)

(***************************************************************************)
(* addSource writes the handler before it asks the kernel, and leaves it   *)
(* there when the kernel refuses: fd is not open (EBADF), is registered    *)
(* already (EEXIST), or the kernel lacks resources.                        *)
(***************************************************************************)
AddSource(fd, handler, ctlFails) ==
  /\ UserCode
  /\ \E p \in Cells(fd) :
       /\ mem' = [mem EXCEPT ![p] = handler]
       /\ slowSources' = IF fd \in FastFds THEN slowSources
                         ELSE [f \in DOMAIN slowSources \cup {fd} |->
                                 IF f = fd THEN p ELSE slowSources[f]]
       /\ IF ctlFails \/ fd \notin open \/ fd \in DOMAIN interest
            THEN UNCHANGED <<interest, readyList>>
            ELSE EpollCtlAdd(fd, p)
  /\ removed' = removed \ {handler}
  /\ UNCHANGED <<open, readable, loopVars, taskVars>>

\* The cells of the descriptors of S.
CellsOf(S) == (S \cap FastFds) \cup {slowSources[fd] : fd \in S \cap DOMAIN slowSources}

\* Mutant: the handlers stay in their cells.
EmptiedNot(S) == mem

Emptied(S) ==
  [p \in DOMAIN mem |->
     IF p \notin CellsOf(S) THEN mem[p] ELSE IF p \in Nodes THEN Freed ELSE None]

(***************************************************************************)
(* removeSource of every descriptor of S: a fast cell is emptied, the node *)
(* of a slow one is freed, and the kernel forgets the descriptor (when it  *)
(* answers ENOENT there was nothing to forget).                            *)
(***************************************************************************)
Forget(S) ==
  /\ mem' = Emptied(S)
  /\ slowSources' = [fd \in DOMAIN slowSources \ S |-> slowSources[fd]]
  /\ removed' = removed \cup ({mem[p] : p \in CellsOf(S)} \cap Handlers)
  /\ EpollForgets(S)

RemoveSource(fd) ==
  /\ UserCode
  /\ Forget({fd})
  /\ UNCHANGED <<open, readable, loopVars, taskVars>>

RunInLoop(t) ==
  /\ UserCode
  /\ Len(pendingTasks) < MaxQueue
  /\ pendingTasks' = Append(pendingTasks, t)
  /\ UNCHANGED <<sourceVars, loopVars, tasks, running>>

-----------------------------------------------------------------------------
\* Mutant: the loop may block although tasks wait.
EpollTimeoutAsGiven(timeoutMs) == timeoutMs

\* runOnce does not block in epoll_wait when tasks wait.
EpollTimeout(timeoutMs) == IF pendingTasks # << >> THEN 0 ELSE timeoutMs

RunOnce(timeoutMs) ==
  /\ pc = "idle"
  /\ timeout' = EpollTimeout(timeoutMs)
  /\ pc' = "wait"
  /\ UNCHANGED <<sourceVars, events, current, taskVars>>

\* The descriptors epoll_wait finds readable, in the order of its ready list.
Ready == Filter(readyList, readable)

(***************************************************************************)
(* epoll_wait takes at most MAX_EVENTS entries from the front of the ready *)
(* list and, registrations being level triggered, puts them back at its    *)
(* end.  With nothing ready it returns only when there is a timeout, and a *)
(* signal interrupts it only when it would sleep.                          *)
(***************************************************************************)
EpollWait ==
  /\ pc = "wait"
  /\ Ready # << >> \/ timeout # -1
  /\ LET n == IF Len(Ready) < MaxEvents THEN Len(Ready) ELSE MaxEvents
         batch == SubSeq(Ready, 1, n)
     IN  /\ events' = [i \in 1 .. n |-> interest[batch[i]]]
         /\ readyList' = SubSeq(Ready, n + 1, Len(Ready)) \o batch
  /\ pc' = "dispatch"
  /\ UNCHANGED <<mem, slowSources, open, interest, readable, removed, timeout,
                 current, taskVars>>

\* EINTR: runOnce returns success at once, the tasks are not run.
EpollInterrupted ==
  /\ pc = "wait"
  /\ Ready = << >> /\ timeout # 0
  /\ pc' = "idle"
  /\ UNCHANGED <<sourceVars, timeout, events, current, taskVars>>

\* What std::visit finds in a cell; in freed memory it may find anything.
Visit(p) == IF mem[p] = Freed THEN Handlers \cup {None} ELSE {mem[p]}

\* Mutant: the last event of a batch is left out.
UndispatchedButLast == Len(events) > 1

Undispatched == events # << >>

\* The timer's handler starts by reading the timerfd.
Dispatch ==
  /\ pc = "dispatch"
  /\ Undispatched
  /\ events' = Tail(events)
  /\ \E h \in Visit(Head(events)) :
       /\ IF h = None THEN UNCHANGED <<pc, current>>
                      ELSE pc' = "handler" /\ current' = h
       /\ readable' = IF h = TimerTag THEN readable \ {TimerFd} ELSE readable
  /\ UNCHANGED <<mem, slowSources, open, interest, readyList, removed, timeout, taskVars>>

\* The callback returns.
EndHandler ==
  /\ pc = "handler"
  /\ pc' = "dispatch"
  /\ current' = None
  /\ UNCHANGED <<sourceVars, timeout, events, taskVars>>

\* The pending tasks are swapped into a local vector.
TakeTasks ==
  /\ pc = "dispatch"
  /\ ~Undispatched
  /\ pc' = "tasks"
  /\ tasks' = pendingTasks
  /\ pendingTasks' = << >>
  /\ UNCHANGED <<sourceVars, timeout, events, current, running>>

\* Mutant: the tasks that tasks submit are run in the same round.
StartTaskShared ==
  /\ pc = "tasks"
  /\ tasks \o pendingTasks # << >>
  /\ running' = <<Head(tasks \o pendingTasks)>>
  /\ tasks' = Tail(tasks \o pendingTasks)
  /\ pendingTasks' = << >>
  /\ pc' = "task"
  /\ UNCHANGED <<sourceVars, timeout, events, current>>

StartTask ==
  /\ pc = "tasks"
  /\ tasks # << >>
  /\ running' = <<Head(tasks)>>
  /\ tasks' = Tail(tasks)
  /\ pc' = "task"
  /\ UNCHANGED <<sourceVars, timeout, events, current, pendingTasks>>

EndTask ==
  /\ pc = "task"
  /\ running' = << >>
  /\ pc' = "tasks"
  /\ UNCHANGED <<sourceVars, timeout, events, current, pendingTasks, tasks>>

RunOnceReturns ==
  /\ pc = "tasks"
  /\ tasks = << >>
  /\ pc' = "idle"
  /\ UNCHANGED <<sourceVars, timeout, events, current, taskVars>>

-----------------------------------------------------------------------------
User ==
  \/ \E fd \in Fds : ReadFd(fd)
  \/ \E fd \in Fds \ {TimerFd} :
       \/ OpenFd(fd) \/ CloseFd(fd) \/ RemoveSource(fd)
       \/ \E h \in UDPReceiverTag, f \in BOOLEAN : h.fd = fd /\ AddSource(fd, h, f)
  \/ \E t \in Tasks : RunInLoop(t)

Loop ==
  \/ \E t \in Timeouts : RunOnce(t)
  \/ EpollWait
  \/ Dispatch
  \/ EndHandler
  \/ TakeTasks
  \/ StartTask
  \/ EndTask
  \/ RunOnceReturns

Next ==
  \/ \E fd \in Fds : DataArrives(fd)
  \/ User
  \/ Loop
  \/ EpollInterrupted

Spec == Init /\ [][Next]_vars

(***************************************************************************)
(* The application calls runOnce again and again, and callbacks return.    *)
(* Nothing is assumed of input, of user calls or of signals.               *)
(***************************************************************************)
FairSpec == Spec /\ WF_vars(Loop)
-----------------------------------------------------------------------------
(***************************************************************************)
(* The types of the source tables, the kernel's lists and the locals of    *)
(* runOnce: epoll watches open descriptors only, and every data.ptr it     *)
(* holds is the address of a Source.                                       *)
(***************************************************************************)
TypeOK ==
  /\ mem \in [FastFds \cup Nodes -> Handlers \cup {None, Freed}]
  /\ DOMAIN slowSources \subseteq SlowFds
  /\ \A fd \in DOMAIN slowSources : slowSources[fd] \in Nodes
  /\ open \subseteq Fds
  /\ DOMAIN interest \subseteq open
  /\ \A fd \in DOMAIN interest : interest[fd] \in FastFds \cup Nodes
  /\ readable \subseteq open
  /\ readyList \in Seq(DOMAIN interest)
  /\ pc \in {"idle", "wait", "dispatch", "handler", "tasks", "task"}
  /\ timeout \in Timeouts \cup {0}
  /\ events \in Seq(FastFds \cup Nodes)
  /\ current \in Handlers \cup {None}
  /\ pendingTasks \in Seq(Tasks)
  /\ tasks \in Seq(Tasks)
  /\ running \in {<< >>} \cup {<<t>> : t \in Tasks}
  /\ removed \subseteq Handlers

(***************************************************************************)
(* Every descriptor epoll watches leads to its own handler: data.ptr is    *)
(* the cell addSource and removeSource use for that descriptor now, and    *)
(* the cell holds a handler made for it, whatever calls have failed.       *)
(***************************************************************************)
InterestHasHandler ==
  \A fd \in DOMAIN interest :
    /\ interest[fd] = IF fd \in FastFds THEN fd ELSE slowSources[fd]
    /\ IF fd = TimerFd THEN mem[fd] = TimerTag
       ELSE mem[interest[fd]] \in {h \in UDPReceiverTag : h.fd = fd}

\* An event that was fetched for one of these cells calls a removed handler.
CallsRemoved(cells) ==
  pc = "dispatch" /\ pc' = "handler" /\ Head(events) \in cells /\ current' \in removed

(***************************************************************************)
(* "Explicitly remove all sources from EventLoop so it doesn't try to call *)
(* callbacks on this destroyed object" (PacketReceiver.cc:76): a handler   *)
(* that removeSource has taken out is not called, even by an event that    *)
(* was already in the batch, unless it is added again (which addSource     *)
(* does also when it fails, for it writes the table first).                *)
(***************************************************************************)
NoCallAfterRemove == [][~CallsRemoved(FastFds \cup Nodes)]_vars

(***************************************************************************)
(* The same for the descriptors below MAX_FAST_FDS, whose sources are      *)
(* never freed, while descriptors of both kinds come and go.               *)
(***************************************************************************)
NoFastCallAfterRemove == [][~CallsRemoved(FastFds)]_vars

(***************************************************************************)
(* Whatever tasks the tasks themselves submit, runOnce comes to its end:   *)
(* it works on a fixed batch of events and a fixed vector of tasks.        *)
(***************************************************************************)
RunOnceTerminates == pc \in {"dispatch", "handler", "tasks", "task"} ~> pc = "idle"

(***************************************************************************)
(* A registered descriptor that stays readable has its handler called,     *)
(* even when more than MAX_EVENTS descriptors are ready and tasks resubmit *)
(* themselves for ever.                                                    *)
(***************************************************************************)
ReadyIsServed ==
  \A fd \in Fds :
    (fd \in DOMAIN interest /\ fd \in readable)
      ~> \/ fd \notin DOMAIN interest
         \/ fd \notin readable
         \/ current = mem[interest[fd]]
=============================================================================
