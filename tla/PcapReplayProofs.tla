-------------------------- MODULE PcapReplayProofs --------------------------
(***************************************************************************)
(* The timing of a TIMED replay, proved for all files, speeds, batch sizes *)
(* and numbers of calls.  The property speaks of the packets played, the   *)
(* code of its own clock; ClockInv ties the two together: since the first  *)
(* packet was played, m_pcapStartTs is its timestamp and the time since    *)
(* m_wallStartTs the time since it was played, although start, rewind and  *)
(* step set firstPacket again at any time.                                 *)
(***************************************************************************)
EXTENDS PcapReplay, Induction

CursorInv ==
  /\ file \in Files
  /\ cursor \in 0 .. Len(file)
  /\ first \in 0 .. Len(file)
  /\ last.packet \in 0 .. Len(file)
  /\ elapsed \in Nat /\ since \in Nat

ClockInv ==
  mode = "TIMED" =>
    /\ firstPacket <=> first = 0
    /\ first = 0 => last = NotPlayed
    /\ first # 0 => pcapStart = file[first] /\ elapsed = since

ReplayInv == CursorInv /\ ClockInv /\ NotEarlierThanCaptured

-----------------------------------------------------------------------------
LEMMA FileType ==
  ASSUME NEW f \in Files
  PROVE  /\ f \in Seq(Nat) /\ Len(f) \in Nat
         /\ \A i \in 1 .. Len(f) : f[i] \in Nat
         /\ SpeedNum \in Nat \ {0} /\ SpeedDen \in Nat /\ Span \in Nat
  BY ReplayAssumption, SMTT(30)

LEMMA ReplayInitially == Init => ReplayInv
  BY FileType
     DEF Init, ReplayInv, CursorInv, ClockInv, NotEarlierThanCaptured, NotPlayed

\* internalStep plays a packet: either it is the first one, and sets the clock,
\* or its target time has come.
LEMMA StepPlaysKeeps ==
  ASSUME ReplayInv, StepPlays, UNCHANGED <<mode, file>>
  PROVE  ReplayInv'
<1> DEFINE n == cursor + 1
<1>1. /\ file \in Files /\ Len(file) \in Nat /\ cursor \in Nat /\ n \in 1 .. Len(file)
      /\ file[n] \in Nat
      /\ first \in Nat /\ first <= Len(file)
      /\ elapsed \in Nat /\ since \in Nat
      /\ SpeedNum \in Nat /\ SpeedNum > 0 /\ SpeedDen \in Nat
  BY FileType DEF ReplayInv, CursorInv, StepPlays, AtEof
<1>2. /\ cursor' = n
      /\ first' = IF first = 0 THEN n ELSE first
      /\ since' = IF first = 0 THEN 0 ELSE since
      /\ last' = [packet |-> n, at |-> since']
      /\ file' = file /\ mode' = mode
  BY DEF StepPlays
<1>3. elapsed' \in Nat
  BY <1>1 DEF StepPlays
<1>4. CursorInv'
  BY <1>1, <1>2, <1>3 DEF CursorInv
<1>5. CASE mode # "TIMED"
  BY <1>2, <1>4, <1>5 DEF ReplayInv, ClockInv, NotEarlierThanCaptured
<1>6. CASE mode = "TIMED" /\ first = 0
  <2>1. firstPacket' = FALSE /\ pcapStart' = file[n] /\ elapsed' = 0
    BY <1>6 DEF StepPlays, ReplayInv, ClockInv
  <2>2. first' = n /\ since' = 0 /\ last'.packet = n /\ last'.at = 0
    BY <1>2, <1>6
  <2>3. ClockInv'
    BY <1>1, <1>2, <2>1, <2>2 DEF ClockInv
  <2>4. ((file[n] - file[n]) * SpeedDen) \div SpeedNum = 0
    <3>1. (file[n] - file[n]) * SpeedDen = 0
      BY <1>1
    <3> QED
      BY <1>1, <3>1
  <2>5. NotEarlierThanCaptured'
    BY <1>2, <2>2, <2>4 DEF NotEarlierThanCaptured
  <2> QED
    BY <1>4, <2>3, <2>5 DEF ReplayInv
<1>7. CASE mode = "TIMED" /\ first # 0
  <2>1. ~firstPacket /\ pcapStart = file[first] /\ elapsed = since
    BY <1>7 DEF ReplayInv, ClockInv
  <2>2. UNCHANGED <<firstPacket, pcapStart, elapsed>>
    BY <2>1 DEF StepPlays
  <2>3. first' = first /\ since' = since /\ last'.packet = n /\ last'.at = since
    BY <1>2, <1>7
  <2>4. ClockInv'
    BY <1>1, <1>2, <1>7, <2>1, <2>2, <2>3 DEF ClockInv
  <2>5. since >= ((file[n] - file[first]) * SpeedDen) \div SpeedNum
    <3>1. ~(Wait(file[n]) > 0)
      BY <1>7 DEF StepPlays, TooEarly
    <3>2. Wait(file[n]) = ((file[n] - file[first]) * SpeedDen) \div SpeedNum - since
      BY <2>1 DEF Wait
    <3>3. file[first] \in Nat
      BY <1>1, <1>7, FileType
    <3>4. ((file[n] - file[first]) * SpeedDen) \div SpeedNum \in Int
      <4>1. (file[n] - file[first]) * SpeedDen \in Int
        BY <1>1, <3>3
      <4> QED
        BY <1>1, <4>1
    <3> QED
      BY <1>1, <3>1, <3>2, <3>4
  <2>6. NotEarlierThanCaptured'
    BY <1>2, <2>3, <2>5 DEF NotEarlierThanCaptured
  <2> QED
    BY <1>4, <2>4, <2>6 DEF ReplayInv
<1> QED
  BY <1>5, <1>6, <1>7

\* What the invariant is about: steps that leave it alone keep it.
LEMMA OthersKeep ==
  ASSUME ReplayInv,
         UNCHANGED <<mode, file, cursor, firstPacket, pcapStart, elapsed, first, since, last>>
  PROVE  ReplayInv'
  BY DEF ReplayInv, CursorInv, ClockInv, NotEarlierThanCaptured

\* start() and rewind() begin a new replay: nothing is played yet.
LEMMA RestartKeeps ==
  ASSUME ReplayInv, cursor' \in {0, cursor}, firstPacket' = TRUE,
         first' = 0, since' = 0, last' = NotPlayed,
         UNCHANGED <<mode, file, pcapStart, elapsed>>
  PROVE  ReplayInv'
  BY FileType DEF ReplayInv, CursorInv, ClockInv, NotEarlierThanCaptured, NotPlayed

LEMMA TickKeeps ==
  ASSUME ReplayInv, Tick
  PROVE  ReplayInv'
<1>1. Span \in Nat
  BY ReplayAssumption
<1>2. CursorInv'
  BY <1>1, ReplayAssumption DEF ReplayInv, CursorInv, Tick
<1>3. ClockInv'
  BY DEF ReplayInv, ClockInv, Tick
<1> QED
  BY <1>2, <1>3 DEF ReplayInv, NotEarlierThanCaptured, Tick

LEMMA ReplayInvHolds == Spec => []ReplayInv
<1>1. ReplayInv /\ [Next]_vars => ReplayInv'
  <2> SUFFICES ASSUME ReplayInv, [Next]_vars PROVE ReplayInv'
    OBVIOUS
  <2>1. CASE Rewind
    BY <2>1, RestartKeeps DEF Rewind, Rewound
  <2>2. CASE Start
    BY <2>2, RestartKeeps DEF Start
  <2>3. CASE Step
    BY <2>3, OthersKeep, StepPlaysKeeps DEF Step, StepEof, StepWaits
  <2>4. CASE TimerRuns
    BY <2>4, OthersKeep DEF TimerRuns
  <2>5. CASE TaskRuns
    BY <2>5, OthersKeep DEF TaskRuns
  <2>6. CASE BatchPlays
    BY <2>6, StepPlaysKeeps DEF BatchPlays
  <2>7. CASE BatchStops
    BY <2>7, OthersKeep DEF BatchStops, StepEof, StepWaits
  <2>8. CASE BatchEnds
    BY <2>8, OthersKeep DEF BatchEnds
  <2>9. CASE Tick
    BY <2>9, TickKeeps
  <2>10. CASE UNCHANGED vars
    BY <2>10, OthersKeep DEF vars
  <2> QED
    BY <2>1, <2>2, <2>3, <2>4, <2>5, <2>6, <2>7, <2>8, <2>9, <2>10 DEF Next, Loop
<1> QED
  BY <1>1, ReplayInitially, PTL DEF Spec

(***************************************************************************)
(* In TIMED mode no packet is played earlier after the first one than it   *)
(* was captured after it, whatever calls of start, step and rewind are     *)
(* made while batches are pending (internalStep, calculateTargetTime).     *)
(***************************************************************************)
THEOREM TimedReplay == Spec => []NotEarlierThanCaptured
<1>1. ReplayInv => NotEarlierThanCaptured
  BY DEF ReplayInv
<1> QED
  BY <1>1, ReplayInvHolds, PTL

-----------------------------------------------------------------------------
(***************************************************************************)
(* The number of pending batches.  Counting the timers is a recursion over *)
(* their due times: first that Pending satisfies its own equation, then    *)
(* what setting, running and ageing the timers does to the count.          *)
(***************************************************************************)
Due == [0 .. Span -> Nat]

UpTo(due, sum) ==
  sum \in Due /\ \A d \in 0 .. Span : sum[d] = IF d = 0 THEN due[0] ELSE due[d] + sum[d - 1]

LEMMA PendingIsSum ==
  ASSUME NEW due \in Due
  PROVE  \E sum : UpTo(due, sum) /\ Pending(due) = sum[Span]
<1> DEFINE Body(f) == [d \in 0 .. Span |-> IF d = 0 THEN due[0] ELSE due[d] + f[d - 1]]
           step == [d \in 0 .. Span |-> [v \in Nat |-> due[d] + v]]
<1>1. Span \in Nat /\ \A d \in 0 .. Span : due[d] \in Nat
  BY ReplayAssumption DEF Due
<1>2. step \in [0 .. Span -> [Nat -> Nat]]
  BY <1>1
<1>3. 0 \in Int /\ Span \in Int /\ 0 <= Span /\ due[0] \in Nat
  BY <1>1
<1>4. PICK f : f \in [0 .. Span -> Nat] /\ Recursive(f, 0, Span, Nat, due[0], step)
  <2> HIDE DEF step
  <2> QED
    BY <1>2, <1>3, RecursionExists, Zenon
<1>5. \A d \in 0 .. Span, v \in Nat : step[d][v] = due[d] + v
  OBVIOUS
<1> HIDE DEF step
<1>6. ASSUME NEW d \in 0 .. Span, d # 0 PROVE f[d] = due[d] + f[d - 1]
  <2>1. f[d - 1] \in Nat
    BY <1>1, <1>4, <1>6
  <2>2. f[d] = step[d][f[d - 1]]
    BY <1>4, <1>6, <2>1 DEF Recursive
  <2> QED
    BY <1>5, <2>1, <2>2
<1>7. f = Body(f)
  BY <1>1, <1>4, <1>6 DEF Recursive
<1> DEFINE g == CHOOSE h : h = Body(h)
<1>8. g = Body(g)
  BY <1>7, Zenon
<1>9. Pending(due) = g[Span]
  BY DEF Pending
<1> HIDE DEF g
<1>10. \A d \in 0 .. Span : g[d] = IF d = 0 THEN due[0] ELSE due[d] + g[d - 1]
  BY <1>8, Zenon
<1>11. Recursive(g, 0, Span, Nat, due[0], step)
  BY <1>1, <1>5, <1>10 DEF Recursive
<1>12. \A d \in 0 .. Span : g[d] \in Nat
  BY <1>2, <1>3, <1>11, RecursionType, Zenon
<1>13. g \in Due
  BY <1>8, <1>12 DEF Due
<1> QED
  BY <1>9, <1>10, <1>13 DEF UpTo

LEMMA PendingType ==
  ASSUME NEW due \in Due
  PROVE  Pending(due) \in Nat
  BY PendingIsSum, ReplayAssumption DEF UpTo, Due

LEMMA NoTimers ==
  ASSUME NEW due \in Due, \A d \in 0 .. Span : due[d] = 0
  PROVE  Pending(due) = 0
<1>1. Span \in Nat
  BY ReplayAssumption
<1>2. PICK s : UpTo(due, s) /\ Pending(due) = s[Span]
  BY PendingIsSum
<1> DEFINE P == {d \in 0 .. Span : s[d] = 0}
<1>3. 0 \in P /\ \A d \in 0 .. Span : d # 0 /\ d - 1 \in P => d \in P
  BY <1>1, <1>2 DEF UpTo
<1> HIDE DEF P
<1>4. \A d \in 0 .. Span : d \in P
  BY <1>1, <1>3, IntervalInduction
<1> QED
  BY <1>1, <1>2, <1>4 DEF P

\* runAfter adds one timer.
LEMMA OneMore ==
  ASSUME NEW due \in Due, NEW k \in 0 .. Span
  PROVE  /\ [due EXCEPT ![k] = @ + 1] \in Due
         /\ Pending([due EXCEPT ![k] = @ + 1]) = Pending(due) + 1
<1> DEFINE more == [due EXCEPT ![k] = @ + 1]
<1>1. Span \in Nat
  BY ReplayAssumption
<1>2. more \in Due /\ \A d \in 0 .. Span : more[d] = IF d = k THEN due[d] + 1 ELSE due[d]
  BY DEF Due
<1> HIDE DEF more
<1>3. PICK s : UpTo(due, s) /\ Pending(due) = s[Span]
  BY PendingIsSum
<1>4. PICK t : UpTo(more, t) /\ Pending(more) = t[Span]
  BY <1>2, PendingIsSum
<1> DEFINE P == {d \in 0 .. Span : t[d] = IF d < k THEN s[d] ELSE s[d] + 1}
<1>5. /\ \A d \in 0 .. Span : s[d] \in Nat /\ t[d] \in Nat /\ due[d] \in Nat
      /\ \A d \in 0 .. Span : s[d] = IF d = 0 THEN due[0] ELSE due[d] + s[d - 1]
      /\ \A d \in 0 .. Span : t[d] = IF d = 0 THEN more[0] ELSE more[d] + t[d - 1]
  BY <1>3, <1>4 DEF UpTo, Due
<1>6. 0 \in P /\ \A d \in 0 .. Span : d # 0 /\ d - 1 \in P => d \in P
  BY <1>1, <1>2, <1>5
<1> HIDE DEF P
<1>7. \A d \in 0 .. Span : d \in P
  BY <1>1, <1>6, IntervalInduction
<1>8. t[Span] = s[Span] + 1
  BY <1>1, <1>7 DEF P
<1> QED
  BY <1>2, <1>3, <1>4, <1>8 DEF more

\* A timer that runs is taken out.
LEMMA OneLess ==
  ASSUME NEW due \in Due, due[0] > 0
  PROVE  /\ [due EXCEPT ![0] = @ - 1] \in Due
         /\ Pending([due EXCEPT ![0] = @ - 1]) = Pending(due) - 1
<1> DEFINE less == [due EXCEPT ![0] = @ - 1]
<1>1. Span \in Nat /\ 0 \in 0 .. Span
  BY ReplayAssumption
<1>2. less \in Due /\ less[0] = due[0] - 1
  BY <1>1 DEF Due
<1>3. due = [less EXCEPT ![0] = @ + 1]
  <2>1. \A d \in 0 .. Span : [less EXCEPT ![0] = @ + 1][d] = due[d]
    BY <1>1 DEF Due
  <2>2. [less EXCEPT ![0] = @ + 1] \in Due
    BY <1>1, <1>2 DEF Due
  <2> QED
    BY <2>1, <2>2, Zenon DEF Due
<1> HIDE DEF less
<1>4. Pending(due) = Pending(less) + 1
  BY <1>1, <1>2, <1>3, OneMore
<1>5. Pending(less) \in Nat
  BY <1>2, PendingType
<1> QED
  BY <1>2, <1>4, <1>5 DEF less

\* A tick brings every timer one closer and loses none; those due stay due.
Aged(due) ==
  [d \in 0 .. Span |-> (IF d = 0 THEN due[0] ELSE 0) + (IF d < Span THEN due[d + 1] ELSE 0)]

LEMMA NoneLostByTime ==
  ASSUME NEW due \in Due
  PROVE  Aged(due) \in Due /\ Pending(Aged(due)) = Pending(due)
<1> DEFINE aged == Aged(due)
<1>1. Span \in Nat
  BY ReplayAssumption
<1>2. \A d \in 0 .. Span : aged[d] = (IF d = 0 THEN due[0] ELSE 0) + (IF d < Span THEN due[d + 1] ELSE 0)
  BY DEF Aged
<1>3. aged \in Due
  BY <1>1 DEF Aged, Due
<1> HIDE DEF aged
<1>4. PICK s : UpTo(due, s) /\ Pending(due) = s[Span]
  BY PendingIsSum
<1>5. PICK t : UpTo(aged, t) /\ Pending(aged) = t[Span]
  BY <1>3, PendingIsSum
<1>6. /\ \A d \in 0 .. Span : s[d] \in Nat /\ t[d] \in Nat /\ due[d] \in Nat /\ aged[d] \in Nat
      /\ \A d \in 0 .. Span : s[d] = IF d = 0 THEN due[0] ELSE due[d] + s[d - 1]
      /\ \A d \in 0 .. Span : t[d] = IF d = 0 THEN aged[0] ELSE aged[d] + t[d - 1]
  BY <1>3, <1>4, <1>5 DEF UpTo, Due
<1> DEFINE P == {d \in 0 .. Span : t[d] = IF d < Span THEN s[d + 1] ELSE s[d]}
<1>7. 0 \in P
  BY <1>1, <1>2, <1>6
<1>8. ASSUME NEW d \in 0 .. Span, d # 0, d - 1 \in P PROVE d \in P
  <2>1. d - 1 \in 0 .. Span /\ d - 1 < Span /\ (d - 1) + 1 = d
    BY <1>1, <1>8
  <2>2. t[d - 1] = s[d]
    BY <1>8, <2>1
  <2>3. t[d] = aged[d] + s[d]
    BY <1>6, <1>8, <2>2
  <2>4. CASE d < Span
    <3>1. d + 1 \in 0 .. Span /\ d + 1 # 0 /\ (d + 1) - 1 = d
      BY <1>1, <2>4
    <3>2. aged[d] = due[d + 1] /\ s[d + 1] = due[d + 1] + s[d]
      BY <1>2, <1>6, <1>8, <2>4, <3>1
    <3> QED
      BY <2>3, <2>4, <3>2
  <2>5. CASE ~(d < Span)
    BY <1>2, <1>6, <1>8, <2>3, <2>5
  <2> QED
    BY <2>4, <2>5
<1> HIDE DEF P
<1>9. \A d \in 0 .. Span : d \in P
  BY <1>1, <1>7, <1>8, IntervalInduction
<1>10. t[Span] = s[Span]
  BY <1>1, <1>9 DEF P
<1> QED
  BY <1>3, <1>4, <1>5, <1>10 DEF aged

-----------------------------------------------------------------------------
(***************************************************************************)
(* Outside FLOOD mode a batch that goes on replaces itself: nothing but    *)
(* start() and step() adds to the number of batches.                       *)
(***************************************************************************)
ChainType ==
  /\ timers \in Due
  /\ tasks \in Seq({"batch", "flood"})
  /\ starts \in Nat
  /\ mode # "FLOOD" => run.fn # "floodFirst"

ChainInv == ChainType /\ OneChainPerStart /\ QuietWhenFinished

Running == IF run = Idle THEN 0 ELSE 1

LEMMA ChainsType ==
  ASSUME ChainType
  PROVE  /\ Chains = Pending(timers) + Len(tasks) + Running
         /\ Pending(timers) \in Nat /\ Len(tasks) \in Nat /\ Running \in Nat
         /\ Chains \in Nat
  BY PendingType DEF ChainType, Chains, Running

LEMMA ChainsInitially == Init => ChainInv
<1> SUFFICES ASSUME Init PROVE ChainInv
  OBVIOUS
<1>1. timers \in Due /\ \A d \in 0 .. Span : timers[d] = 0
  BY DEF Init, Due
<1>2. Pending(timers) = 0
  BY <1>1, NoTimers
<1>3. Chains = 0 /\ starts = 0 /\ ~finished
  BY <1>2 DEF Init, Chains
<1> QED
  BY <1>1, <1>3 DEF Init, ChainInv, ChainType, Idle, OneChainPerStart, QuietWhenFinished

\* runAfter adds at most one batch.
LEMMA RunAfterAdds ==
  ASSUME timers \in Due, NEW delay, RunAfter(delay)
  PROVE  timers' \in Due /\ Pending(timers') \in Nat /\ Pending(timers') <= Pending(timers) + 1
<1> DEFINE k == (delay \div TicksPerMs) * TicksPerMs
<1>1. timers' = [timers EXCEPT ![k] = @ + 1]
  BY DEF RunAfter
<1> HIDE DEF k
<1>2. Pending(timers) \in Nat
  BY PendingType
<1>3. CASE k \in 0 .. Span
  <2>1. timers' \in Due /\ Pending(timers') = Pending(timers) + 1
    BY <1>1, <1>3, OneMore, Zenon
  <2> QED
    BY <1>2, <2>1
<1>4. CASE k \notin 0 .. Span
  <2>1. timers' = timers
    BY <1>1, <1>4 DEF Due
  <2> QED
    BY <1>2, <2>1
<1> QED
  BY <1>3, <1>4

\* The arithmetic of a bound that grows at least as fast as what it bounds.
LEMMA CountsKept ==
  ASSUME NEW c \in Nat, NEW s \in Nat, NEW d \in Nat, NEW t \in Nat
  PROVE  /\ c <= s /\ d - c <= t - s => d <= t
         /\ c < s /\ d - c <= t - s => d < t
         /\ c <= s /\ d - c < t - s => d < t
  OBVIOUS

\* What a step has to satisfy.  A step that sets m_finished ends a batch.
LEMMA ChainsKept ==
  ASSUME ChainInv, ChainType', mode' = mode,
         mode # "FLOOD" => Chains' - Chains <= starts' - starts,
         mode # "FLOOD" /\ finished' => finished \/ Chains' - Chains < starts' - starts
  PROVE  ChainInv'
<1>1. Chains \in Nat /\ starts \in Nat
  BY ChainsType DEF ChainInv, ChainType
<1>2. Chains' \in Nat /\ starts' \in Nat
  BY PendingType DEF ChainType, Chains
<1>3. CASE mode = "FLOOD"
  BY <1>3 DEF ChainInv, OneChainPerStart, QuietWhenFinished
<1>4. CASE mode # "FLOOD"
  <2>1. Chains <= starts /\ Chains' - Chains <= starts' - starts
    BY <1>4 DEF ChainInv, OneChainPerStart
  <2>2. Chains' <= starts'
    BY <1>1, <1>2, <2>1, CountsKept, Zenon
  <2>3. ASSUME finished' PROVE Chains' < starts'
    <3>1. CASE finished
      <4>1. Chains < starts
        BY <1>4, <3>1 DEF ChainInv, QuietWhenFinished
      <4> QED
        BY <1>1, <1>2, <2>1, <4>1, CountsKept, Zenon
    <3>2. CASE ~finished
      <4>1. Chains' - Chains < starts' - starts
        BY <1>4, <2>3, <3>2
      <4> QED
        BY <1>1, <1>2, <2>1, <4>1, CountsKept, Zenon
    <3> QED
      BY <3>1, <3>2
  <2> QED
    BY <2>2, <2>3 DEF ChainInv, OneChainPerStart, QuietWhenFinished
<1> QED
  BY <1>3, <1>4

\* internalStep adds at most one batch, and none when it finds the end.
LEMMA StepAdds ==
  ASSUME ChainType, StepEof \/ StepWaits \/ StepPlays
  PROVE  /\ timers' \in Due /\ Pending(timers') \in Nat
         /\ Pending(timers') <= Pending(timers) + 1
         /\ StepPlays => timers' = timers
         /\ finished' => finished \/ timers' = timers
<1>1. Pending(timers) \in Nat /\ timers \in Due
  BY PendingType DEF ChainType
<1>2. CASE StepEof
  BY <1>1, <1>2 DEF StepEof, StepPlays
<1>3. CASE StepWaits
  <2>1. ~StepPlays /\ finished' = finished
    BY <1>3 DEF StepWaits, StepPlays
  <2> QED
    BY <1>1, <1>3, <2>1, RunAfterAdds DEF StepWaits
<1>4. CASE StepPlays
  BY <1>1, <1>4 DEF StepPlays
<1> QED
  BY <1>2, <1>3, <1>4

LEMMA CallKeepsChains ==
  ASSUME ChainInv, Start \/ Step
  PROVE  ChainInv'
<1>1. ChainType /\ timers \in Due /\ starts \in Nat /\ Pending(timers) \in Nat
  BY PendingType DEF ChainInv, ChainType
<1>2. starts' = starts + 1 /\ UNCHANGED <<mode, tasks, run>>
  BY DEF Start, Step
<1>3. /\ timers' \in Due /\ Pending(timers') \in Nat /\ Pending(timers') <= Pending(timers) + 1
      /\ finished' => finished \/ timers' = timers
  BY <1>1, StepAdds, RunAfterAdds DEF Start, Step
<1>4. ChainType'
  BY <1>1, <1>2, <1>3 DEF ChainType
<1>5. /\ Chains = Pending(timers) + Len(tasks) + Running /\ Len(tasks) \in Nat /\ Running \in Nat
      /\ Chains' = Pending(timers') + Len(tasks) + Running
  BY <1>1, <1>2, ChainsType DEF Chains, Running
<1>6. Chains' - Chains <= starts' - starts
  BY <1>1, <1>2, <1>3, <1>5, SMTT(30)
<1>7. ASSUME finished', ~finished PROVE Chains' - Chains < starts' - starts
  BY <1>1, <1>2, <1>3, <1>5, <1>7
<1> QED
  BY <1>2, <1>4, <1>6, <1>7, ChainsKept

\* A timer or a task is taken out, and at most one batch begins.
LEMMA BatchBegins ==
  ASSUME ChainInv, TimerRuns \/ TaskRuns
  PROVE  ChainInv'
<1>1. ChainType /\ timers \in Due /\ starts \in Nat /\ Pending(timers) \in Nat
      /\ tasks \in Seq({"batch", "flood"}) /\ Len(tasks) \in Nat
  BY PendingType DEF ChainInv, ChainType
<1>2. UNCHANGED <<mode, finished, starts>> /\ run = Idle
  BY DEF TimerRuns, TaskRuns
<1>3. mode # "FLOOD" => run'.fn # "floodFirst"
  BY DEF TimerRuns, TaskRuns, ProcessBatch, Idle
<1>4. /\ timers' \in Due /\ tasks' \in Seq({"batch", "flood"})
      /\ Pending(timers') + Len(tasks') = Pending(timers) + Len(tasks) - 1
      /\ Pending(timers') \in Int /\ Len(tasks') \in Int
  <2>1. CASE TimerRuns
    <3>1. timers' \in Due /\ Pending(timers') = Pending(timers) - 1 /\ tasks' = tasks
      BY <1>1, <2>1, OneLess, Zenon DEF TimerRuns
    <3> QED
      BY <1>1, <3>1
  <2>2. CASE TaskRuns
    <3>1. timers' = timers /\ tasks # << >> /\ tasks' = Tail(tasks)
      BY <2>2 DEF TaskRuns
    <3>2. Tail(tasks) \in Seq({"batch", "flood"}) /\ Len(Tail(tasks)) = Len(tasks) - 1
      BY <1>1, <3>1
    <3> QED
      BY <1>1, <3>1, <3>2
  <2> QED
    BY <2>1, <2>2
<1>5. ChainType'
  BY <1>1, <1>2, <1>3, <1>4 DEF ChainType
<1>6. Chains = Pending(timers) + Len(tasks) /\ Chains' <= Pending(timers') + Len(tasks') + 1
  BY <1>1, <1>2, <1>4 DEF Chains
<1>7. Chains' \in Int /\ Chains \in Int
  BY <1>1, <1>4, SMTT(30) DEF Chains
<1> QED
  BY <1>1, <1>2, <1>4, <1>5, <1>6, <1>7, ChainsKept, SMTT(30)

\* A batch goes on, or stops and leaves at most one timer behind.
LEMMA BatchKeepsChains ==
  ASSUME ChainInv, BatchPlays \/ BatchStops \/ BatchEnds
  PROVE  ChainInv'
<1>1. ChainType /\ timers \in Due /\ starts \in Nat /\ Pending(timers) \in Nat
      /\ tasks \in Seq({"batch", "flood"}) /\ Len(tasks) \in Nat
  BY PendingType DEF ChainInv, ChainType
<1>2. UNCHANGED <<mode, starts>> /\ run # Idle
  BY DEF BatchPlays, BatchStops, BatchEnds, BelowLimit, Idle
<1>3. CASE BatchPlays
  <2>1. timers' = timers /\ tasks' = tasks /\ finished' = finished /\ run'.fn = run.fn
    BY <1>3 DEF BatchPlays, StepPlays
  <2>2. ChainType'
    BY <1>1, <1>2, <2>1 DEF ChainType
  <2>3. Chains = Pending(timers) + Len(tasks) + 1 /\ Chains' <= Pending(timers) + Len(tasks) + 1
        /\ Chains \in Int /\ Chains' \in Int
    BY <1>1, <1>2, <2>1 DEF Chains
  <2> QED
    BY <1>1, <1>2, <2>1, <2>2, <2>3, ChainsKept
<1>4. CASE BatchStops \/ BatchEnds
  <2>1. Returns
    BY <1>4 DEF BatchStops, BatchEnds
  <2>2. /\ timers' \in Due /\ Pending(timers') \in Nat /\ Pending(timers') <= Pending(timers) + 1
        /\ finished' => finished \/ timers' = timers
        /\ tasks' \in Seq({"batch", "flood"}) /\ (mode # "FLOOD" => tasks' = tasks)
    <3>1. CASE BatchStops
      BY <1>1, <3>1, StepAdds DEF BatchStops
    <3>2. CASE BatchEnds
      <4>1. finished' = finished
        BY <3>2 DEF BatchEnds
      <4>2. CASE mode = "FLOOD"
        <5>1. timers' = timers /\ tasks' = Append(tasks, IF run.fn = "batch" THEN "batch" ELSE "flood")
          BY <3>2, <4>2 DEF BatchEnds
        <5> QED
          BY <1>1, <4>1, <4>2, <5>1
      <4>3. CASE mode # "FLOOD"
        <5>1. RunAfter(0) /\ tasks' = tasks
          BY <3>2, <4>3 DEF BatchEnds
        <5> QED
          BY <1>1, <4>1, <5>1, RunAfterAdds
      <4> QED
        BY <4>2, <4>3
    <3> QED
      BY <1>4, <3>1, <3>2
  <2>3. mode # "FLOOD" => run' = Idle
    BY <1>1, <2>1 DEF Returns, ChainType
  <2>4. ChainType'
    BY <1>1, <1>2, <2>2, <2>3 DEF ChainType, Idle
  <2>5. mode # "FLOOD" =>
          /\ Chains = Pending(timers) + Len(tasks) + 1
          /\ Chains' = Pending(timers') + Len(tasks)
    BY <1>1, <1>2, <2>2, <2>3 DEF Chains
  <2> QED
    BY <1>1, <1>2, <2>2, <2>4, <2>5, ChainsKept
<1> QED
  BY <1>3, <1>4

LEMMA TickKeepsChains == ASSUME ChainInv, Tick PROVE ChainInv'
<1>1. timers' = Aged(timers) /\ UNCHANGED <<mode, finished, starts, tasks, run>>
  BY DEF Tick, Aged
<1>2. timers \in Due
  BY DEF ChainInv, ChainType
<1>3. timers' \in Due /\ Pending(timers') = Pending(timers)
  BY <1>1, <1>2, NoneLostByTime
<1>4. Chains' = Chains
  BY <1>1, <1>3 DEF Chains
<1> QED
  BY <1>1, <1>3, <1>4 DEF ChainInv, ChainType, OneChainPerStart, QuietWhenFinished

LEMMA ChainInvHolds == Spec => []ChainInv
<1>1. ChainInv /\ [Next]_vars => ChainInv'
  <2> SUFFICES ASSUME ChainInv, [Next]_vars PROVE ChainInv'
    OBVIOUS
  <2>1. CASE Rewind
    BY <2>1 DEF Rewind, Rewound, ChainInv, ChainType, Chains, OneChainPerStart, QuietWhenFinished
  <2>2. CASE UNCHANGED vars
    BY <2>2 DEF vars, ChainInv, ChainType, Chains, OneChainPerStart, QuietWhenFinished
  <2> QED
    BY <2>1, <2>2, CallKeepsChains, BatchBegins, BatchKeepsChains, TickKeepsChains DEF Next, Loop
<1> QED
  BY <1>1, ChainsInitially, PTL DEF Spec

(***************************************************************************)
(* Except in FLOOD mode, there are never more batches running or pending   *)
(* than calls of start() and step(), however the calls, the batches and    *)
(* the passing of time interleave (processBatch, internalStep, runAfter).  *)
(***************************************************************************)
THEOREM OneChain == Spec => []OneChainPerStart
<1>1. ChainInv => OneChainPerStart
  BY DEF ChainInv
<1> QED
  BY <1>1, ChainInvHolds, PTL

(***************************************************************************)
(* Except in FLOOD mode, a finished replay has fewer batches pending than  *)
(* calls of start() and step() were made: after one start() there is none, *)
(* and no timer holds the receiver's this pointer.                         *)
(***************************************************************************)
THEOREM QuietAtEnd == Spec => []QuietWhenFinished
<1>1. ChainInv => QuietWhenFinished
  BY DEF ChainInv
<1> QED
  BY <1>1, ChainInvHolds, PTL
=============================================================================
