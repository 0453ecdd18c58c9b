----------------------------- MODULE PcapReplay -----------------------------
(***************************************************************************)
(* The replay of an open capture file: start, rewind, step, the batches    *)
(* that the event loop runs for it, and the timing of TIMED mode.          *)
(*                                                                         *)
(* A file is the sequence of its packets' timestamps.  The event loop is   *)
(* reduced to what processBatch relies on: a timer runs at its due time or *)
(* later, tasks run in the order they were submitted.  Time is in ticks,   *)
(* several to the millisecond, the unit timers are set in.  Only times     *)
(* relative to the present matter: a timer is known by the time it still   *)
(* has to wait, the start of the replay by how long ago it was, counted up *)
(* to the longest span of a file.  A batch is not atomic: time passes      *)
(* between two packets.                                                    *)
(***************************************************************************)
EXTENDS Integers, Sequences

CONSTANTS
  Files,        \* capture files
  Modes,        \* replay modes of the configuration
  TicksPerMs,
  SpeedNum, SpeedDen,  \* speedMultiplier, as a fraction
  BatchSize,    \* batchSize of the configuration
  FloodBatch,   \* packets of a batch of processBatchFlood
  FloodRest,    \* packets of a batch of processBatch in FLOOD mode
  Span,         \* the longest replay of a file, in ticks
  MaxCalls      \* bound on the calls of start, step and rewind

VARIABLES
  mode, file,   \* fixed by the configuration and by open
  cursor,       \* m_currentPtr: packets before it
  finished,     \* m_finished
  firstPacket,  \* m_firstPacket
  pcapStart,    \* m_pcapStartTs
  elapsed,      \* the time since m_wallStartTs
  timers,       \* timers[d]: processBatch timers of the event loop due in d ticks
  tasks,        \* m_pendingTasks: "batch" for processBatch, "flood" for the other
  run,          \* the function on the stack and the packets it has left
  first,        \* history: the first packet played since start, or rewind
  since,        \* history: the time since then
  last,         \* history: the last packet played, and since at that time
  starts,       \* history: calls of start and step
  calls         \* calls of start, step and rewind

vars == <<mode, file, cursor, finished, firstPacket, pcapStart, elapsed,
          timers, tasks, run, first, since, last, starts, calls>>

ASSUME ReplayAssumption ==
  /\ Modes \subseteq {"TIMED", "FLOOD", "STEP"}
  /\ {TicksPerMs, SpeedNum, SpeedDen, BatchSize, FloodBatch, FloodRest} \subseteq Nat \ {0}
  /\ {Span, MaxCalls} \subseteq Nat
  /\ \A f \in Files :
       /\ f \in Seq(Nat)
       /\ \A i, j \in DOMAIN f : ((f[i] - f[j]) * SpeedDen) \div SpeedNum <= Span

NotPlayed == [packet |-> 0, at |-> 0]

Idle == [fn |-> "none", left |-> 0]

Init ==
  /\ mode \in Modes /\ file \in Files
  /\ cursor = 0
  /\ finished = FALSE
  /\ firstPacket = TRUE
  /\ pcapStart = 0 /\ elapsed = 0
  /\ timers = [d \in 0 .. Span |-> 0]
  /\ tasks = <<>>
  /\ run = Idle
  /\ first = 0 /\ since = 0 /\ last = NotPlayed
  /\ starts = 0 /\ calls = 0

-----------------------------------------------------------------------------
\* Mutant: a batch that goes on is scheduled twice.
RunAfterTwice(delay) == timers' = [timers EXCEPT ![0] = @ + 2]

\* runAfter, with the delay in ticks: the event loop counts milliseconds.
RunAfter(delay) ==
  timers' = [timers EXCEPT ![(delay \div TicksPerMs) * TicksPerMs] = @ + 1]

\* How long until the packet with this timestamp is to be played, the target
\* time of calculateTargetTimeHighRes less the present time.  The first packet
\* sets the origin.  The code rounds towards 0, also a time before the origin,
\* which has come in any case.
Wait(ts) == IF firstPacket THEN 0 ELSE ((ts - pcapStart) * SpeedDen) \div SpeedNum - elapsed

(***************************************************************************)
(* The three ways through internalStep: the end of the file, a packet that *)
(* is not due yet, for which a timer is set, and a packet that is played.  *)
(***************************************************************************)
AtEof == cursor = Len(file)

TooEarly == mode = "TIMED" /\ ~AtEof /\ Wait(file[cursor + 1]) > 0

\* Mutant: the end of the file is looked for again.
StepEofAgain ==
  /\ AtEof
  /\ finished' = TRUE
  /\ RunAfter(0)
  /\ UNCHANGED <<cursor, firstPacket, pcapStart, elapsed, first, since, last>>

StepEof ==
  /\ AtEof
  /\ finished' = TRUE
  /\ UNCHANGED <<cursor, firstPacket, pcapStart, elapsed, timers, first, since, last>>

\* Mutant: the packet waits, and nobody is woken up for it.
StepWaitsForgotten ==
  /\ TooEarly
  /\ UNCHANGED <<cursor, finished, firstPacket, pcapStart, elapsed, first, since, last, timers>>

StepWaits ==
  /\ TooEarly
  /\ RunAfter(Wait(file[cursor + 1]))
  /\ UNCHANGED <<cursor, finished, firstPacket, pcapStart, elapsed, first, since, last>>

StepPlays ==
  /\ ~AtEof /\ ~TooEarly
  /\ cursor' = cursor + 1
  /\ first' = IF first = 0 THEN cursor + 1 ELSE first
  /\ since' = IF first = 0 THEN 0 ELSE since
  /\ last' = [packet |-> cursor + 1, at |-> since']
  /\ IF mode = "TIMED" /\ firstPacket
       THEN pcapStart' = file[cursor + 1] /\ elapsed' = 0 /\ firstPacket' = FALSE
       ELSE UNCHANGED <<pcapStart, elapsed, firstPacket>>
  /\ UNCHANGED <<finished, timers>>

-----------------------------------------------------------------------------
(* The application. *)

MayCall == run = Idle /\ calls < MaxCalls /\ calls' = calls + 1

\* Mutant: the origin of time survives a rewind.
RewoundSameClock == cursor' = 0 /\ finished' = FALSE /\ UNCHANGED firstPacket

Rewound == cursor' = 0 /\ finished' = FALSE /\ firstPacket' = TRUE

Rewind ==
  /\ MayCall
  /\ Rewound
  /\ first' = 0 /\ since' = 0 /\ last' = NotPlayed
  /\ UNCHANGED <<mode, file, pcapStart, elapsed, timers, tasks, run, starts>>

Start ==
  /\ MayCall
  /\ firstPacket' = TRUE
  /\ first' = 0 /\ since' = 0 /\ last' = NotPlayed
  /\ starts' = starts + 1
  /\ IF mode = "STEP" THEN UNCHANGED timers ELSE RunAfter(0)
  /\ UNCHANGED <<mode, file, cursor, finished, pcapStart, elapsed, tasks, run>>

Step ==
  /\ MayCall
  /\ starts' = starts + 1
  /\ StepEof \/ StepWaits \/ StepPlays
  /\ UNCHANGED <<mode, file, tasks, run>>

-----------------------------------------------------------------------------
(* The event loop runs a timer or a task, and the batch goes packet by packet. *)

\* processBatch up to its loop: nothing when the replay is over; in FLOOD mode
\* processBatchFlood is called before the loop.
ProcessBatch ==
  IF finished THEN run' = Idle
  ELSE run' = IF mode = "FLOOD" THEN [fn |-> "floodFirst", left |-> FloodBatch]
              ELSE [fn |-> "batch", left |-> BatchSize]

TimerRuns ==
  /\ run = Idle
  /\ timers[0] > 0
  /\ timers' = [timers EXCEPT ![0] = @ - 1]
  /\ ProcessBatch
  /\ UNCHANGED <<mode, file, cursor, finished, firstPacket, pcapStart, elapsed,
                 tasks, first, since, last, starts, calls>>

TaskRuns ==
  /\ run = Idle /\ tasks # <<>>
  /\ tasks' = Tail(tasks)
  /\ IF Head(tasks) = "batch" THEN ProcessBatch
     ELSE run' = [fn |-> "flood", left |-> FloodBatch]
  /\ UNCHANGED <<mode, file, cursor, finished, firstPacket, pcapStart, elapsed,
                 timers, first, since, last, starts, calls>>

\* processBatchFlood returns to the event loop or, if it was called by
\* processBatch, to the loop of that function.
Returns == run' = IF run.fn = "floodFirst" THEN [fn |-> "batch", left |-> FloodRest] ELSE Idle

BelowLimit == run.left > 0

BatchPlays ==
  /\ BelowLimit
  /\ StepPlays
  /\ run' = [run EXCEPT !.left = @ - 1]
  /\ UNCHANGED <<mode, file, tasks, starts, calls>>

BatchStops ==
  /\ BelowLimit
  /\ StepEof \/ StepWaits
  /\ Returns
  /\ UNCHANGED <<mode, file, tasks, starts, calls>>

\* The batch is complete: it yields, and goes on in a task or a timer.  m_finished
\* is false here: only a step that stops the batch sets it.
BatchEnds ==
  /\ run # Idle /\ run.left = 0
  /\ IF mode = "FLOOD"
       THEN /\ tasks' = Append(tasks, IF run.fn = "batch" THEN "batch" ELSE "flood")
            /\ UNCHANGED timers
       ELSE RunAfter(0) /\ UNCHANGED tasks
  /\ Returns
  /\ UNCHANGED <<mode, file, cursor, finished, firstPacket, pcapStart, elapsed,
                 first, since, last, starts, calls>>

\* Time passes.
Tick ==
  /\ elapsed' = IF elapsed < Span THEN elapsed + 1 ELSE Span
  /\ since' = IF since < Span THEN since + 1 ELSE Span
  /\ timers' = [d \in 0 .. Span |->
                  (IF d = 0 THEN timers[0] ELSE 0) + (IF d < Span THEN timers[d + 1] ELSE 0)]
  /\ UNCHANGED <<mode, file, cursor, finished, firstPacket, pcapStart,
                 tasks, run, first, last, starts, calls>>

Loop == TimerRuns \/ TaskRuns \/ BatchPlays \/ BatchStops \/ BatchEnds

Next == Rewind \/ Start \/ Step \/ Loop \/ Tick

Spec == Init /\ [][Next]_vars

FairSpec == Spec /\ WF_vars(Loop) /\ WF_vars(Tick)

-----------------------------------------------------------------------------
\* upTo[d] of these timers are due in at most d ticks.
Pending(due) ==
  LET upTo[d \in 0 .. Span] == IF d = 0 THEN due[0] ELSE due[d] + upTo[d - 1]
  IN  upTo[Span]

\* Batches that run or will run.
Chains == Pending(timers) + Len(tasks) + (IF run = Idle THEN 0 ELSE 1)

(***************************************************************************)
(* "Respect PCAP timestamps relative to wall clock" (ReplayMode::TIMED):   *)
(* no packet is played earlier after the first one than it was captured    *)
(* after it, although timers are set in whole milliseconds, batches catch  *)
(* up, and the application may start, rewind or step in between.           *)
(***************************************************************************)
NotEarlierThanCaptured ==
  mode = "TIMED" /\ last # NotPlayed =>
    last.at >= ((file[last.packet] - file[first]) * SpeedDen) \div SpeedNum

(***************************************************************************)
(* Except in FLOOD mode, a call of start() or step() leaves at most one    *)
(* batch running or pending: one that stops reschedules itself once.       *)
(***************************************************************************)
OneChainPerStart == mode # "FLOOD" => Chains <= starts

(***************************************************************************)
(* Except in FLOOD mode, the batch that finds the end of the file is the   *)
(* last one of its start() or step(), so fewer batches are pending than    *)
(* calls were made.  After a single start() there is none, and a finished  *)
(* receiver, whose this pointer the timers hold, can be destroyed; after   *)
(* two a batch of the other one may still be pending.                      *)
(***************************************************************************)
QuietWhenFinished == mode # "FLOOD" /\ finished => Chains < starts

(***************************************************************************)
(* "Dispatch to optimized loop for the flood case" (PcapReceiver.cc:391):  *)
(* in FLOOD mode, too, a call of start() leaves one batch, in the          *)
(* optimized loop.                                                         *)
(***************************************************************************)
OneFloodPerStart == mode = "FLOOD" => Chains <= starts

(***************************************************************************)
(* Once a batch is pending the whole file is replayed: isFinished()        *)
(* becomes true, as the loop of the replay example waits for.              *)
(***************************************************************************)
ReplayCompletes == (Chains > 0 /\ ~finished) ~> finished
=============================================================================
