# AtuReactor in TLA+

AtuReactor is a single-threaded reactor for Linux: an `EventLoop` around epoll
and one timerfd, a `UDPReceiver` that hands datagrams to handlers in batches,
and a `PcapReceiver` that replays capture files through the same loop. This
directory models its control flow, checks it with TLC on small instances, and
proves its safety properties with TLAPS for every instance.

## The system and its hard parts

| Part | State | Operations | What is hard about it |
|---|---|---|---|
| Timers (`EventLoop`) | `m_timers` (ordered set), `m_activeTimers` (id to iterator), the timerfd, the local batch of `handleTimerRead` | `runAfter`, `runEvery`, `cancelTimer`, `handleTimerRead` | callbacks add and cancel timers in the middle of a batch; one timerfd serves all timers and is re-armed on some paths only |
| Descriptors and tasks (`EventLoop`) | `m_fastSources`, `m_slowSources`, `m_pendingTasks`, the batch of events | `addSource`, `removeSource`, `runOnce`, `runInLoop` | the batch holds addresses of sources that handlers may remove or replace; tasks that resubmit themselves |
| Subscriptions (`PacketReceiver`, `UDPReceiver`, `ScopedFd`) | `m_port_to_fd_map`, sockets, the receive batch | `subscribe`, `unsubscribe`, destruction, `handleRead` | many steps that may fail; descriptors reused under pending events; receivers destroyed by other receivers' handlers |
| Dispatch of captured frames (`PcapReceiver`) | `m_portTable`, `m_hotPort`, `m_hotHandler` | `subscribe`, `unsubscribe`, `parseAndDispatch` | two parsers for the same frames, byte order, a cache nobody invalidates |
| Replay (`PcapReceiver`) | cursor, `m_finished`, `m_firstPacket`, the replay clock, pending timers and tasks | `start`, `rewind`, `step`, `processBatch`, `processBatchFlood` | it drives itself through timers and tasks; millisecond timers for nanosecond timestamps |
| Receive buffer (`PacketReceiver`, `UDPReceiver`) | the mapping, `m_ioVectors`, `m_msgHeaders` | constructors, `handleRead`, destruction | alignment at the limits; headers that recvmmsg changes and the next call reuses; nested calls |
| File formats (`PcapReceiver`) | the mapping, the cursor, byte order, `m_interfaces` | `open`, `rewind`, `internalStep`, `stepPcapNg`, destruction | state left over from failed and earlier opens; cut-off files; handlers that move the cursor under a step |

All of it runs on one thread. What interleaves is user code (callbacks), the
kernel (input, the clock, the timerfd, signals) and the steps of the loop; so a
function of the library is one action unless user code runs in its middle, and
is cut there. `PROJECT.json` lists every hazard at its line with the properties
that cover it, and maps every definition to the lines it models.

## Modules

| Module | Role |
|---|---|
| `TimerQueue` | the timers of `EventLoop` |
| `TimerService` | what the timers promise, without timerfd, index and control flow |
| `TimerRefinement` | `TimerQueue` implements `TimerService` |
| `TimerQueueProofs` | inductive invariant and theorems about `TimerQueue`, and the refinement, step by step |
| `EventLoop` | descriptors, dispatch and deferred tasks |
| `EventLoopProofs` | theorems about the source tables, the batch of events and the tasks |
| `TaskQueue` | what `runInLoop` promises: a fair FIFO queue |
| `UDPReceiver` | receivers, sockets and datagrams, composed with `EventLoop` by extending it |
| `UDPReceiverProofs` | theorems about the composition; extends `EventLoopProofs` |
| `ReceiveBuffer`, `ReceiveBufferProofs` | the memory `recvmmsg` writes to and handlers read |
| `PcapDispatch`, `PcapDispatchProofs` | parsing and dispatch of captured frames |
| `PcapFile`, `PcapFileProofs` | opening and reading capture files |
| `PcapReplay`, `PcapReplayProofs` | the replay of a capture file |
| `Induction` | induction and recursion on natural numbers, in a form the provers can use |
| `MC...` | instances for TLC |

Operators called "Mutant" in a comment belong to no specification: each is one
definition changed as a plausible mistake would change it, and shows that a
property notices the mistake.

**TimerQueue.** `timers`, `activeTimers` and `nextTimerId` are the members of
the class; `deadline` and `ticks` are the timerfd; `cutoff` and `expired` are
the locals of `handleTimerRead`; `pc` says whether user code runs outside
(`"user"`) or in a callback (`"callback"`), or the function extracts
(`"extract"`) or goes through the batch (`"fire"`). `RunAfter`, `RunEvery` and
`CancelTimer` are enabled wherever user code runs. `ResetTimerFd` hands the
kernel the *delay* as an absolute time, as the code does. A call reads the
clock once in the model; the readings of `runAfter` and `resetTimerFd` in the
same call are taken as one instant.

**EventLoop.** A `Source` is a cell of `mem`: the cell of a descriptor below
`MAX_FAST_FDS` is the descriptor, that of another is a heap node, `Freed` when
not allocated. Visiting a freed cell may find anything. epoll is its interest
list and a ready list from which at most `MaxEvents` entries are taken and put
back at the end (level triggered, Linux's rotation). `EINTR` happens only when
`epoll_wait` would sleep. The timer handler is abstracted to reading the
timerfd; `TimerQueue` has the rest.

**UDPReceiver.** A step is a step of `EventLoop` with what the receiver and the
sockets do in it. `subscribe` takes four steps (`socket`, `bind`, `addSource`,
`emplace`), because datagrams arrive from `bind` on, and each may fail.
`handleRead` receives one batch and delivers it one datagram at a time; user
code runs in each delivery. A receiver is not destroyed by its own packet
handler, since `handleRead` goes on using it.

**ReceiveBuffer.** Addresses are offsets from `m_hugeBuffer`; `memory` says
which datagram each byte belongs to, so that a byte of an earlier datagram shows.
`header` is what `recvmmsg` leaves in `m_msgHeaders`, the room for control
messages included, which the next call must set again. `frames` are the calls of
`handleRead` in progress: a handler may call `runOnce`, and with it `handleRead`
of its own receiver. `recvmmsg` is external and modelled by what its manual page
promises. A call that fails is a call that receives nothing.

**PcapDispatch.** A frame is the record of the fields the parsers test.
`FastPath` and `SlowPath` return how far they get, where the payload lies and
how many bytes must exist for what they read. `Htons` swaps bytes. `fileLink` is
`m_linkType`: the link layer of a legacy file, and for a pcapng file 0 or what a
legacy file opened before has left there.

**PcapFile.** A file is a record with its byte order, its size and its blocks;
`pos` is the cursor in bytes, so every comparison with the end is one of bytes.
Where the cursor is not at the start of a block, or the byte order was read
wrongly, the code may see any block of `Garbage`. `step` is cut where the handler
runs, and `stack` holds the steps whose handler is running, with what each will do
to the cursor: `internalStep` sets it, `stepPcapNg` adds to it. The application
calls `step` and `rewind` only while its last `open` succeeded. The resolution of
an interface is computed in `uint64_t`: `Power` wraps, and is 0 for high powers of
10, and a shift by the width or more, which is undefined, gives one of the results
of the usual builds (`Shifts`). A division by a resolution of 0 ends the process
(`pc = "crashed"`). Names of interfaces, snap lengths and padding are left out.

**PcapReplay.** A file is the sequence of its timestamps. Times are relative to
the present: a timer is known by the time it has left, the start of the replay
by how long ago it was, counted up to the longest replay of a file (beyond it
nothing changes). So the clock needs no bound. The loop is reduced to what
`TimerService` and `TaskQueue` promise: timers run when due or later, tasks run
in order. A batch goes packet by packet and time may pass in it. In FLOOD mode
`processBatch` calls `processBatchFlood` (`run.fn = "floodFirst"`) and then goes
on with its own loop, as the code does.

## Runs

`tlc -config X.cfg M`, with `M` the `MC` module the configuration's name starts
with (`MCTimerQueue` for `MCTimerWaits`, `MCUDPReceiver` for `MCUDPErrors`,
`MCPcapDispatch` for `MCPcapStale`, `MCPcapReplay` for `MCPcapFloodChains`).
Passing runs:

| Configuration | States | Shows |
|---|---|---|
| `MCTimerQueue.cfg` | 155,248 | index and set agree, no timer is in two places, none is lost, early, out of order, or run after a successful cancel; no lost wake-up; the timers implement `TimerService` with its fairness, and every timer runs or is cancelled |
| `MCEventLoop.cfg` | 285,142 | both tables, failing `epoll_ctl`: what epoll watches leads to its own handler; a handler removed from the array is not called from the rest of the batch; tasks are a fair FIFO queue, `runOnce` terminates, ready descriptors are served |
| `MCUDPReceiver.cfg` | 1,181,244 | if registrations succeed, on ports not yet filed and descriptors below 1024: no call of a destroyed receiver, none on a descriptor that belongs to another subscription; each subscription gets its own datagrams in order |
| `MCUDPErrors.cfg` | 295,128 | sockets, registrations and port maps agree after every call, whatever failed; datagrams waiting in a socket are received |
| `MCReceiveBuffer.cfg` | 145,655 | slots are aligned, disjoint and inside the mapping; what is handed over lies in its slot, also under nested calls; without them it is the datagram and the time stamp received for it |
| `MCPcapDispatch.cfg` | 25,500 | the fast parser decides as the slow one would a complete frame of the link layer in `m_linkType`; both stay inside the frame; frames go to handlers of their port, no complete datagram of a subscribed port is missed |
| `MCPcapFile.cfg` | 342,160 | packets come out as the file has them, to the nanosecond, in order and completely; timestamps are divided by zero only for a resolution that does not fit; data whose length fits its block or file is inside the mapping; every step returns; the destructor releases what `open` took, whichever step of it failed |
| `MCPcapReplay.cfg` | 133,935 | all modes: the replay ends; no packet is early (TIMED); one chain per call, and one fewer when the end was found, so none after a single `start` (TIMED and STEP) |

Runs in which TLC shows that the code does not do what a comment or document
says (the findings of `PROJECT.json` quote it):

| Configuration | Counterexample |
|---|---|
| `MCTimerWaits.cfg` | the delay is used as an absolute time: the timerfd fires early, again and again |
| `MCEventLoopStale.cfg` | descriptors from 1024 on: the batch points to a freed source |
| `MCPcapStale.cfg` | the cache calls a handler that was replaced |
| `MCPcapFloodChains.cfg` | FLOOD: pending tasks grow with every round |

Other divergences between comments and code are part of the models as the code
has them, without a run of their own:

- `cancelTimer` cancels "if it hasn't run yet" (`EventLoop.h:125`), but not a
  timer that expired in the batch being run (`EventLoop.cc:281`).
- A failing read of the timerfd "Should not happen" (`EventLoop.cc:267`); it does
  when a handler earlier in the batch re-armed it.
- `runInLoop` runs a task "in the next iteration" (`EventLoop.h:107`); a task
  submitted by a handler runs at the end of the same one (`EventLoop.cc:154`).
- `subscribe(0)` ignores the result of `emplace` (`UDPReceiver.cc:138`): when the
  kernel picks a port the receiver has, it reports success with its socket closed.
- `addSource` writes the tag before `epoll_ctl` (`EventLoop.cc:72`) and leaves it
  there when that fails. `subscribe` then closes the socket and files no entry, so
  `~PacketReceiver` does not clear the slot, although it removes sources so that
  the loop "doesn't try to call callbacks on this destroyed object"
  (`PacketReceiver.cc:76`); an event of the batch fetched for the previous user of
  the descriptor would call it. `MCUDPReceiver.cfg` with `EpollErrors` including
  `TRUE` shows it as a violation of `ReceiverAlive` and `ReadsOwnSocket`.
- `m_interfaces` "Maps Interface ID (index in file) to its metadata"
  (`PcapReceiver.h:207`), but neither `rewind` nor `open` clears it: after a rewind
  past an interface that is described late, or in a second pcapng file, new
  interfaces get other ids. `PacketAsCaptured` excludes these cases (`OwnTable`).
- A second `open` leaks the first mapping and descriptor, and a failed one leaves
  `m_fileSize` of the new file with the mapping of the old one
  (`PcapReceiver.cc:68-86`); `ReleasedWhenDestroyed` is about one `open`.
- `internalStep` does not compare `caplen` with the end of the file
  (`PcapReceiver.cc:280`), and `stepPcapNg` compares the length of the block with it
  ("Safety check", `PcapReceiver.cc:306`), but not `capLen` with that length
  (`PcapReceiver.cc:376-382`), nor the length with the 28 bytes of the headers it
  reads. So the data of a legacy packet that is cut off, and of a pcapng packet that
  states more than its block holds, may reach past the mapping. `ReadsInsideFile`
  excludes these two cases, the first with `DataComplete`, the second with a
  condition on the packet handed over.
- `if_tsresol` can state 10^127 or 2^127 units per second
  (`PcapReceiver.cc:335-336`). What does not fit in `uint64_t` wraps, to 0 from 10^64
  on, or is an undefined shift, and the timestamps of the interface are wrong, or
  divided by zero. Resolutions above 2^64 / 10^9 overflow in the conversion
  (`PcapReceiver.cc:363`). `PacketAsCaptured` excludes both (`UnitFits`).
- The fast path is entered by `m_linkType` (`PcapReceiver.cc:507`), which only
  legacy files set and nothing resets: after a legacy Ethernet file, packets of a
  pcapng file with another link layer are parsed as Ethernet. It also takes a packet
  with more captured than original bytes, which the slow path drops.
- `PcapReceiver::unsubscribe` answers `ENOENT` for every port
  (`PcapReceiver.cc:185`), because the base class's map stays empty.

### Bounds

- Timers: three timers are the fewest with one running, one waiting in the
  batch and one added or cancelled meanwhile; the clock runs far enough for a
  repeating timer to fall behind and catch up. Negative delays and empty
  callbacks are included.
- Loop: the timerfd, one more descriptor of the array and one of the map, with a
  batch smaller than their number, so that the rotation matters. Two heap nodes let a freed
  node be used again.
- UDP: two receivers and three subscriptions, so that a descriptor is reused
  while an event for it is pending; more datagrams than a batch takes; an empty
  one and one longer than the buffer. `MCUDPReceiver.cfg`, about races, uses
  `EpollErrors = {FALSE}` and `SharedPorts = FALSE`; the failures are explored by
  `MCUDPErrors.cfg`, because with them `ReceiverAlive` does not hold.
- Buffer: a cache line of 4 bytes and a page of 16 stand for 64 and 2 MiB; buffer
  sizes of 0, below, at and above the line, up to three slots, datagrams that are
  empty, fit, or are too long; four datagrams make two batches, one inside the other.
- Files: two opens, so that each file is read fresh and after another one; one
  rewind; steps nested two deep. Files are cut short by up to 40 bytes, more than
  the last packet; some packets state more data than their block holds, and some
  blocks are shorter than a packet's headers. A second has 1000 nanoseconds and 100
  microseconds, and `uint64_t` 20 bits, so that resolutions lie on both sides of the
  one that overflows in the conversion and of the one that does not fit: 10^7 wraps,
  10^20 is 0, and a shift by 21 is undefined.
- Frames: captured lengths on both sides of the limits (13 to 18 for link
  headers, 41, 42 and 46 for the fast path, 81 and 82 for the longest IP header).
- Replay: batches of two packets, two ticks to the millisecond, files with equal
  and decreasing timestamps and gaps below a millisecond, played at 2/3 of their
  speed, three calls of `start`, `step` or `rewind`. FLOOD batches of 2 and 1 packets
  stand for 20000 and 10000.

The types of `EventLoop` (`TypeOK`) are checked as part of `UdpTypeOK`, those of
`PcapDispatch` are part of the invariant its proofs establish.

`CHECK_DEADLOCK FALSE` is set where the system may stop: a loop without input,
a replay that is over, a bound that is used up.

### Fairness

The application calls `runOnce` again and again, and callbacks return: every
example and test is such a loop. So steps of the loop are weakly fair. The
clock advances, and an armed timerfd expires. Nothing is assumed of input, user
calls or signals. In `UDPReceiver` a `subscribe` that has begun comes to its
end, and in `PcapFile` a `step`, which waits for nothing.

## Proofs

For every value of the constants that the named assumption of the module admits:

| Module | Theorem | Statement |
|---|---|---|
| `TimerQueueProofs` | `TypeCorrect` | `Spec => []TypeOK` |
| | `IndexSafe` | `Spec => []IndexConsistent` |
| | `NoDuplicates` | `Spec => []TimersDistinct` |
| | `WakeupSafe` | `Spec => []NoLostWakeup` |
| | `NotEarly` | `Spec => []NeverEarly` |
| | `InOrder` | `Spec => []FiresInOrder` |
| | `CancelSafe` | `Spec => []CancelledNeverFires` |
| | `Refines` | `Spec => Service!ServiceSpec` |
| | `NoneLost` | `Spec => NoTimerLost` |
| `EventLoopProofs` | `WatchedHasHandler` | `Spec => []InterestHasHandler` |
| | `RemovedNotCalled` | `Spec => NoFastCallAfterRemove` |
| | `NoneCalledWhenFast` | `Spec => NoCallAfterRemove`, if `SlowFds = {}` |
| | `TasksRunInOrder` | `Spec => Queue!FifoSpec` |
| | `RunOnceShrinks` | `Spec => [][RoundShrinks]_vars` |
| `UDPReceiverProofs` | `UdpTypeCorrect` | `UdpSpec => []UdpTypeOK` |
| | `Owned` | `UdpSpec => []SocketsOwned` |
| | `OnlyAlive` | `UdpSpec => []ReceiverAlive`, if `AllRegister` |
| | `OwnSocketRead` | `UdpSpec => []ReadsOwnSocket`, if `AllRegister` |
| | `InOrderOnce` | `UdpSpec => []DeliveredInOrder`, if `AllRegister` |
| `ReceiveBufferProofs` | `LayoutCorrect` | `BufSpec => []SlotsLaidOut` |
| | `HandedInside` | `BufSpec => []HandedInsideSlot` |
| | `OwnData` | `BufSpec => []OwnDatagram` |
| `PcapDispatchProofs` | `RightPort` | `Spec => []CalledForItsPort` |
| | `ReadsInside` | `Spec => []ReadsInsideFrame` |
| | `FastIsSlow` | `Spec => []FastAgreesWithSlow` |
| | `NoneMissed` | `Spec => SubscribedIsCalled` |
| | `CacheTransparent` | `Spec /\ [][KeepsHandlers]_vars => CallsLatestHandler` |
| `PcapFileProofs` | `FileTypesCorrect` | `FileSpec => []FileTypeOK` |
| | `Released` | `FileSpec => []ReleasedWhenDestroyed` |
| | `KnownWhenRead` | `FileSpec => []InterfaceKnown` |
| | `AtBlocks` | `FileSpec => []CursorAtBlock` |
| | `EveryPacketOnce` | `FileSpec => NextPacketOrEnd` |
| | `InsideFile` | `FileSpec => []ReadsInsideFile` |
| | `AsCaptured` | `FileSpec => []PacketAsCaptured` |
| | `StepAdvances` | `FileSpec => [][ReadsOn]_fileVars` |
| `PcapReplayProofs` | `TimedReplay` | `Spec => []NotEarlierThanCaptured` |
| | `OneChain` | `Spec => []OneChainPerStart` |
| | `QuietAtEnd` | `Spec => []QuietWhenFinished` |

Two of them say when a property holds that a run shows to be violated in
general. `NoneCalledWhenFast`: a removed handler is called only in a process with
descriptors from 1024 on. `CacheTransparent`: the cache calls an old handler only
after a port was given a second one.

### Induction over data

The library's principles of induction take an operator for what is proved, which
the provers cannot instantiate. `Induction` states them with a set instead: the
numbers for which a statement is true. From it come `IntervalInduction`, and
`RecursionExists` and `RecursionType` for the recursive functions of the models:
`Filter` (the entries of a list that are in a set), `Deliverable`, `Pending` (the
timers of a replay) and `Starts` (the offsets of the blocks of a file). Each is
first shown to satisfy its own equation; every other fact about it follows from
that.

### Timers

The only assumption is `TimerAssumption`, the types of the constants, with a
clock that does not start at 0 (`timerfd_settime` reads 0 as "disarm").

None of the properties is inductive. `IInv` adds what they rest on:
`IdInv` (the ids in use, and the cancelled ones, are below `nextTimerId`, so a
new timer is new), `TimeInv` (expirations and repeat intervals are positive, so
that no timer re-arms the timerfd with the value that disarms it, and a repeated
timer moves forward), `BatchInv` (the batch is empty outside `handleTimerRead`,
not empty in a callback, everything in it is at or before the cutoff, which is
not in the future, and during extraction it comes before what is left in the
set) and `CancelInv` (no cancelled id is in the set or in the batch). The
argument about wake-ups is two lemmas: `ResetCovers`, re-arming covers every
timer of the set it is computed from, since a delay never exceeds the
expiration it leads to; and `InsertCovers`, inserting a timer that is not the
earliest keeps the cover. One lemma per action shows that `IInv` is preserved.

The refinement maps `timers` to what is scheduled, the batch to what the service
has committed to, and its head, during a callback, to what is running. Each action
is one step of the service (`ExtractExpired` commits, `BeginCallback` starts,
`EndCallback` finishes or skips) or a stutter. The service lets a timer run only
in its turn; that the head of the batch has its turn is `FiresInOrder`, and that
the rest of the batch does not contain the head is `TimersDistinct`.

### Event loop

`LoopAssumption`: fast and slow descriptors and heap nodes are different things,
and no handler is the mark of an empty or freed cell. `InterestHasHandler` is
about one descriptor at a time, but removing one source must not disturb another:
`TableInv` says that a cell in use holds a handler of its own descriptor and that
two descriptors never share a node, and `WatchedInv` that what epoll watches has a
cell. `RemovedInv` says that a handler in the array is not a removed one, so an
event that is still in the batch finds either nothing or a handler that was added
again. Without slow descriptors every entry of the batch is a cell of the array
(`BatchInv`), and the promise holds without exception.

The tasks refine `TaskQueue` with the queue taken as the rest of the local vector
followed by `m_pendingTasks`. The swap throws the old content of the vector away;
it loses nothing because the vector is empty whenever `runOnce` is not at its tasks
(`TaskInv`). `RunOnceShrinks` is the argument behind `RunOnceTerminates`: from the
return of `epoll_wait` on, every step of the loop shrinks a pair of numbers (the
phase, and what is left of its events or tasks), and nothing that user code or the
kernel does makes it grow.

### Receivers

`UdpInv` joins the invariants of the loop with `OwnInv` (every open descriptor,
bound socket and registration is the timerfd's, is filed in the port map of one
receiver, or is held by the `subscribe` in progress, which has reached the step
that takes it), `SocketInv` (no two sockets belong to one subscription) and
`StageInv`. `Owned` and `UdpTypeCorrect` follow from it, with every failure of
`subscribe` included.

The other three need `AllRegister`: every `epoll_ctl` succeeds, the kernel picks no
port for port 0 that the receiver has filed, and descriptors are below 1024. None of
the three can be dropped, for each of the excluded cases leaves a tag behind, or frees
the cell of one, that an event of the batch still leads to; without any one of them
TLC finds `ReadsOwnSocket` violated.
With them, `CellInv` says that a cell in use is the cell of a watched socket, so
that an event finds nothing or a live subscription, and `ReadInv` that `handleRead`
runs for a receiver that is there and reads its own socket. `OrderInv` keeps, for
each subscription, an equation between sequences: what was delivered, followed by
what is left of the batch and by what waits in the socket, is what arrived, without
the empty datagrams and cut to the buffer.

### Receive buffer

`BufferAssumption`: sizes are natural numbers, the cache line and the page are
not 0. The layout is arithmetic: rounding up loses nothing, and slots are a stride
apart. For what is handed over the invariant says that every header's length fits
a slot, *whichever* call of `handleRead` wrote it; so an outer call that goes on
with the headers of a nested one still stays inside its slots. That the bytes are
those of the right datagram holds without nesting: `DatagramInv` says that the
header and the memory of every slot of the call in progress are those `recvmmsg`
wrote for it, since slots do not overlap and a handler does not write.

### Dispatch

`DispatchAssumption`: ports and UDP lengths are 16 bits wide, the other fields
natural numbers. That the fast parser decides as the slow one would, given the
captured length for the original one and `m_linkType` for the link layer of the
frame, and that both stay inside the frame, is proved for every frame by following
both; that
the table and the cache are right rests on `HtonsInjective` (no two ports share an
entry) and `TableInv` (an entry holds the handler subscribed last, the cache one
subscribed to the port it names). If in addition no subscribed port is given another
handler (`KeepsHandlers`), the cache holds what the table holds (`CacheInv`).

### Replay

`ReplayAssumption`: positive units, sizes and speed, and `Span` no less than the
replay of a file takes. The property compares times of packets played, the code compares with its
own clock; `ClockInv` says that the two are the same since the first packet, and
that the clock is set again exactly when the history is.

The number of batches is a sum over the due times of the timers. `PendingIsSum`
unfolds it; `OneMore`, `OneLess` and `NoneLostByTime` say what setting a timer,
running one and the passing of time do to it. With these `ChainInv`, the types and
the two properties together, is inductive: outside FLOOD mode a batch that goes on
replaces itself.

### Files

`FilesAssumption` says what a file is. A legacy packet is as long as what it holds,
a block of a pcapng file may state any length, a packet names an interface described before it (`stepPcapNg` says "Assuming IDB
appeared before EPB"), and the blocks listed are all of the file: behind the last
one no header fits, or the last one states a length that ends the reading. `UnitIs`
says what the options of an interface mean, in an arithmetic that stops at 2^64
(`Saturated`), independently of `Divisors`, which computes it as the code does; by
`PowerExact`, an induction, the two agree on every resolution that fits. Files may be cut off anywhere, and be of a format,
or with a byte order mark, that the code does not know; what is read off a block
boundary is any block of `Garbage`.

- `TypeInv` and `HeldInv` (of a receiver opened once, the kernel holds what the
  members name) give the types and `Released`.
- `LegacyInv`: the cursor of a legacy file, and the place where each waiting step
  will put it, is the start of a block. It holds under any nesting of handlers,
  because `internalStep` sets the cursor from the packet it read.
- `SteadyInv`, as long as no handler has moved the cursor under a step: the cursor
  is at the i-th block, the packets before it have been handed over, and the table
  of interfaces is either in the making, complete, or of no use to any packet. An
  entry of the file's own table has the resolution stated, if that fits; from this
  `DividedBy` concludes what a division by zero says of the file.
- `OutInv`: the packet handed over is a block of the file, field by field. The
  timestamps are exact by `TimespecExact` and `LegacyExact`, integer arithmetic
  with the wrap-around of 64 bits.
- `InsideInv`: the step whose handler is running is the last one on the stack, and
  its block ends inside the file. This needs nothing of the file, and so holds
  wherever the cursor was moved to.

`StepAdvances` is the argument behind `StepReturns`: every round of the loop of
`stepPcapNg` moves the cursor by 8 bytes or more and not past the end.

### Only model-checked

Liveness and fairness are beyond this prover: `EventuallyRuns`, `RunOnceTerminates`,
`ReadyIsServed`, `EveryPacketReceived`, `StepReturns` and `ReplayCompletes`, and the
fairness in `ImplementsService` and `TasksAreFifo`, whose safety parts are `Refines`
and `TasksRunInOrder`. Every invariant and action property of the passing runs is
proved.

## Not modelled

- The rounding errors of a speed multiplier that is a `double`; replay and file
  reading are separate modules, so timestamps are numbers in `PcapReplay` and the file reader
  is in STEP mode in `PcapFile`.
- Packet handlers that call `start`, and a `PcapReceiver` destroyed or opened again
  while its timers and tasks are pending.
- Exceptions thrown by callbacks, and use from several threads (asserted against by
  `checkThread`). Of a `runOnce` called from a callback only the effect on the
  receive buffer is modelled, not the one on the batch of events.
- The moves of `ScopedFd`, other than who closes a descriptor.
- `Result`, `Types`, `PacketMetadata`, `Export`: no behaviour of their own;
  `PacketReceiver::dispatch` is called by nothing. The examples are applications.
