-------------------------- MODULE TimerQueueProofs --------------------------
(***************************************************************************)
(* Proofs about TimerQueue, for all delays, intervals, clocks and bounds.  *)
(* The safety properties are proved from one inductive invariant, IInv,    *)
(* whose parts beyond the properties say                                   *)
(*   - ids: every live or cancelled id has been handed out already, so a   *)
(*     new timer clashes with none (IdInv);                                *)
(*   - times: expirations are positive, so that 0 can mean "disarmed" to   *)
(*     the timerfd, and repeating timers move forward (TimeInv);           *)
(*   - the batch: the local state of handleTimerRead is empty outside it,  *)
(*     and the batch is older than its cut-off (BatchInv).                 *)
(* The second half shows that the timers implement TimerService, up to     *)
(* fairness, one lemma per kind of step.  What IInv says of the batch      *)
(* (sorted, without duplicates, at or below the cut-off) is what the steps *)
(* of the service ask for.  NoTimerLost follows from the same mapping.     *)
(***************************************************************************)
EXTENDS TimerRefinement, TLAPS

IdInv ==
  /\ \A t \in timers : t.id < nextTimerId
  /\ \A i \in DOMAIN expired : expired[i].id < nextTimerId
  /\ \A id \in cancelled : id < nextTimerId

TimeInv ==
  /\ \A t \in timers : t.expiration >= 1 /\ (t.repeat => t.interval >= 1)
  /\ \A i \in DOMAIN expired :
       expired[i].expiration >= 1 /\ (expired[i].repeat => expired[i].interval >= 1)

BatchInv ==
  /\ cutoff <= now
  /\ pc = "user" => expired = << >>
  /\ pc = "callback" => expired # << >>
  /\ \A i \in DOMAIN expired : expired[i].expiration <= cutoff
  /\ pc = "extract" => \A i \in DOMAIN expired, t \in timers : Before(expired[i], t)

\* The part of CancelledNeverFires that is easier to use in a proof.
CancelInv ==
  /\ \A t \in timers : t.id \notin cancelled
  /\ \A i \in DOMAIN expired : expired[i].id \notin cancelled

IInv ==
  /\ TypeOK
  /\ IndexConsistent
  /\ TimersDistinct
  /\ NoLostWakeup
  /\ FiresInOrder
  /\ IdInv
  /\ TimeInv
  /\ BatchInv
  /\ CancelInv

-----------------------------------------------------------------------------
(***************************************************************************)
(* resetTimerFd leaves the timerfd armed at or before every timer of the   *)
(* set it is called for: the delay it passes as an absolute time is never  *)
(* zero and never later than the expiration itself.                        *)
(***************************************************************************)
LEMMA ResetCovers ==
  ASSUME NEW ts \in SUBSET Timer, now \in Nat \ {0},
         \A t \in ts : t.expiration >= 1,
         ResetTimerFd(ts)
  PROVE  /\ deadline' \in Nat
         /\ ticks' = 0
         /\ \A t \in ts : deadline' # Disarmed /\ deadline' <= t.expiration
<1>1. CASE ts = {} /\ TimerFdSetTime(Disarmed)
  BY <1>1 DEF TimerFdSetTime, Disarmed
<1>2. CASE \E t \in ts :
             IsFirst(t, ts) /\ TimerFdSetTime(Delay(t))
  <2>1. PICK t \in ts :
             IsFirst(t, ts) /\ TimerFdSetTime(Delay(t))
    BY <1>2
  <2>2. t.expiration \in Int /\ t.expiration >= 1
    BY DEF Timer
  <2>3. deadline' \in Nat /\ deadline' >= 1 /\ deadline' <= t.expiration /\ ticks' = 0
    BY <2>1, <2>2 DEF TimerFdSetTime, Delay
  <2>4. \A u \in ts : u.expiration \in Int /\ t.expiration <= u.expiration
    BY <2>1, <2>2 DEF IsFirst, Before, Timer
  <2> QED
    BY <2>2, <2>3, <2>4 DEF Disarmed
<1> QED
  BY <1>1, <1>2 DEF ResetTimerFd

(***************************************************************************)
(* insertTimer keeps the index in step with the set, and keeps the timerfd *)
(* covering the set if it did before.                                      *)
(***************************************************************************)
LEMMA InsertCovers ==
  ASSUME TypeOK, IndexConsistent,
         \A u \in timers : u.expiration >= 1,
         NEW t \in Timer, t.expiration >= 1,
         \A u \in timers : u.id # t.id,
         InsertTimer(t)
  PROVE  /\ timers' = timers \cup {t}
         /\ timers' \subseteq Timer
         /\ activeTimers' \in [DOMAIN activeTimers' -> Timer]
         /\ DOMAIN activeTimers' \subseteq Nat
         /\ deadline' \in Nat
         /\ ticks' \in {0, 1}
         /\ IndexConsistent'
         /\ (\A u \in timers : ticks > 0 \/ (deadline # Disarmed /\ deadline <= u.expiration))
              => \A u \in timers' :
                   ticks' > 0 \/ (deadline' # Disarmed /\ deadline' <= u.expiration)
<1>1. timers' = timers \cup {t} /\ timers' \subseteq Timer
  BY DEF InsertTimer, TypeOK
<1>2. /\ activeTimers' \in [DOMAIN activeTimers' -> Timer]
      /\ DOMAIN activeTimers' \subseteq Nat
  BY DEF InsertTimer, TypeOK, Timer
<1>3. IndexConsistent'
  BY DEF InsertTimer, TypeOK, IndexConsistent, Timer
<1>4. CASE \A u \in timers : t.expiration < u.expiration
  <2>1. ResetTimerFd(timers \cup {t})
    BY <1>4 DEF InsertTimer
  <2>2. timers \cup {t} \in SUBSET Timer /\ now \in Nat \ {0}
    BY DEF TypeOK
  <2>3. \A u \in timers \cup {t} : u.expiration >= 1
    OBVIOUS
  <2>4. /\ deadline' \in Nat
        /\ ticks' = 0
        /\ \A u \in timers \cup {t} : deadline' # Disarmed /\ deadline' <= u.expiration
    BY <2>1, <2>2, <2>3, ResetCovers
  <2> QED
    BY <1>1, <1>2, <1>3, <2>4
<1>5. CASE ~(\A u \in timers : t.expiration < u.expiration)
  <2>1. deadline' = deadline /\ ticks' = ticks
    BY <1>5 DEF InsertTimer, fdVars
  <2>2. PICK u \in timers : ~(t.expiration < u.expiration)
    BY <1>5
  <2>3. u.expiration \in Int /\ t.expiration \in Int /\ u.expiration <= t.expiration
    BY <2>2 DEF TypeOK, Timer
  <2>4. deadline \in Nat /\ ticks \in {0, 1}
    BY DEF TypeOK
  <2> QED
    BY <1>1, <1>2, <1>3, <2>1, <2>2, <2>3, <2>4
<1> QED
  BY <1>4, <1>5

(***************************************************************************)
(* Erasing one element keeps the index in step with the set.               *)
(***************************************************************************)
LEMMA EraseConsistent ==
  ASSUME TypeOK, IndexConsistent, TimersDistinct, NEW t \in timers, Erase(t)
  PROVE  /\ timers' = timers \ {t}
         /\ timers' \subseteq Timer
         /\ activeTimers' \in [DOMAIN activeTimers' -> Timer]
         /\ DOMAIN activeTimers' \subseteq Nat
         /\ IndexConsistent'
  BY Zenon DEF Erase, TypeOK, IndexConsistent, TimersDistinct

-----------------------------------------------------------------------------
\* The fields of live timers, spelled out for the provers.
LEMMA LiveFields ==
  ASSUME TypeOK
  PROVE  /\ \A t \in timers :
              /\ t \in Timer /\ t.expiration \in Int /\ t.interval \in Int
              /\ t.id \in Nat \ {0} /\ t.repeat \in BOOLEAN
         /\ DOMAIN expired = 1 .. Len(expired) /\ Len(expired) \in Nat
         /\ \A i \in DOMAIN expired :
              /\ expired[i] \in Timer
              /\ expired[i].expiration \in Int /\ expired[i].interval \in Int
              /\ expired[i].id \in Nat \ {0} /\ expired[i].repeat \in BOOLEAN
<1>1. \A t \in Timer : /\ t.expiration \in Int /\ t.interval \in Int
                       /\ t.id \in Nat \ {0} /\ t.repeat \in BOOLEAN
  BY DEF Timer
<1>2. \A i \in DOMAIN expired : expired[i] \in Timer
  BY DEF TypeOK
<1>3. DOMAIN expired = 1 .. Len(expired) /\ Len(expired) \in Nat
  BY DEF TypeOK
<1> QED
  BY <1>1, <1>2, <1>3 DEF TypeOK

(***************************************************************************)
(* The constructor establishes the invariant: no timer, timerfd disarmed.  *)
(***************************************************************************)
LEMMA InitIInv == Init => IInv
<1> SUFFICES ASSUME Init PROVE IInv
  OBVIOUS
<1> USE DEF Init
<1>1. DOMAIN activeTimers = {} /\ DOMAIN expired = {}
  OBVIOUS
<1>2. TypeOK
  <2>1. << >> \in Seq(Timer)
    OBVIOUS
  <2>2. activeTimers \in [DOMAIN activeTimers -> Timer]
    <3>1. << >> \in [1 .. Len(<< >>) -> Timer]
      BY <2>1
    <3> QED
      BY <3>1
  <2>3. now \in Nat \ {0}
    BY TimerAssumption
  <2>4. timerEvent \in BOOLEAN
    BY Zenon
  <2>5. DOMAIN activeTimers \subseteq Nat
    BY <1>1
  <2>6. expired \in Seq(Timer)
    BY <2>1
  <2>7. /\ nextTimerId \in Nat \ {0} /\ deadline \in Nat /\ ticks \in {0, 1}
        /\ pc \in {"user", "extract", "fire", "callback"} /\ cutoff \in Nat
    BY DEF Disarmed
  <2>8. timers \subseteq Timer /\ cancelled \subseteq Nat
    OBVIOUS
  <2> QED
    BY <2>2, <2>3, <2>4, <2>5, <2>6, <2>7, <2>8 DEF TypeOK
<1>3. BatchInv
  BY <1>1, <1>2 DEF BatchInv, TypeOK
<1> QED
  BY <1>1, <1>2, <1>3
     DEF IInv, IndexConsistent, TimersDistinct, NoLostWakeup,
         FiresInOrder, IdInv, TimeInv, CancelInv

(***************************************************************************)
(* The kernel's steps touch only the clock and the timerfd.                *)
(***************************************************************************)
LEMMA KernelIInv == ASSUME IInv, Kernel PROVE IInv'
<1> USE DEF IInv
<1>1. CASE Tick
  <2> USE <1>1 DEF Tick, loopVars, fdVars, readVars
  <2>1. TypeOK'
    BY DEF TypeOK
  <2>2. BatchInv'
    BY DEF TypeOK, BatchInv, Before, Timer
  <2> QED
    BY <2>1, <2>2 DEF IndexConsistent, TimersDistinct, NoLostWakeup, FiresInOrder,
       Before, IdInv, TimeInv, CancelInv
<1>2. CASE TimerFdExpires
  <2> USE <1>2 DEF TimerFdExpires, loopVars, readVars
  <2>1. TypeOK'
    BY DEF TypeOK, Disarmed
  <2> QED
    BY <2>1 DEF IndexConsistent, TimersDistinct, NoLostWakeup, FiresInOrder,
       Before, IdInv, TimeInv, BatchInv, CancelInv
<1> QED
  BY <1>1, <1>2 DEF Kernel

(***************************************************************************)
(* runAfter and runEvery: the new timer has a fresh id and expires no      *)
(* earlier than now, so it comes after the whole batch being run.          *)
(***************************************************************************)
LEMMA ScheduleIInv ==
  ASSUME IInv, NEW d \in Nat, NEW interval \in Int, NEW cb \in BOOLEAN,
         NEW repeat \in BOOLEAN, repeat => interval >= 1,
         Schedule(d, interval, cb, repeat)
  PROVE  IInv'
<1> DEFINE t == [expiration |-> now + d, interval |-> interval,
                 callback |-> cb, id |-> nextTimerId, repeat |-> repeat]
<1> USE DEF IInv
<1>1. /\ InsertTimer(t) /\ UserCode
      /\ nextTimerId' = nextTimerId + 1
      /\ UNCHANGED <<now, timerEvent, pc, cutoff, expired, cancelled>>
  BY DEF Schedule, IdAfter, readVars
<1>2. /\ t \in Timer /\ t.expiration >= 1
      /\ t.expiration = now + d /\ t.interval = interval
      /\ t.id = nextTimerId /\ t.repeat = repeat
  BY DEF TypeOK, Timer
<1>3. \A u \in timers : u.id # t.id
  BY <1>2, SMTT(30) DEF IdInv, TypeOK, Timer
<1>4. /\ timers' = timers \cup {t}
      /\ timers' \subseteq Timer
      /\ activeTimers' \in [DOMAIN activeTimers' -> Timer]
      /\ DOMAIN activeTimers' \subseteq Nat
      /\ deadline' \in Nat
      /\ ticks' \in {0, 1}
      /\ IndexConsistent'
      /\ (\A u \in timers : ticks > 0 \/ (deadline # Disarmed /\ deadline <= u.expiration))
           => \A u \in timers' :
                ticks' > 0 \/ (deadline' # Disarmed /\ deadline' <= u.expiration)
  BY <1>1, <1>2, <1>3, InsertCovers DEF TimeInv
<1> HIDE DEF t
<1>5. TypeOK'
  BY <1>1, <1>4 DEF TypeOK
<1>6. TimersDistinct'
  BY <1>1, <1>2, <1>3, <1>4, LiveFields, SMTT(30) DEF TimersDistinct, IdInv, TypeOK
<1>7. NoLostWakeup'
  BY <1>1, <1>4 DEF NoLostWakeup
<1>8. \A i \in DOMAIN expired : Before(expired[i], t)
  <2> SUFFICES ASSUME NEW i \in DOMAIN expired PROVE Before(expired[i], t)
    OBVIOUS
  <2>1. expired[i] \in Timer
    BY DEF TypeOK
  <2>2. expired[i].expiration <= now /\ expired[i].id < nextTimerId
    BY <2>1, SMTT(30) DEF BatchInv, IdInv, TypeOK, Timer
  <2> QED
    BY <1>2, <2>1, <2>2, SMTT(30) DEF Before, Timer, TypeOK
<1>9. FiresInOrder'
  BY <1>1, <1>4, <1>8 DEF FiresInOrder, Before
<1>10. IdInv'
  BY <1>1, <1>2, <1>4, LiveFields, SMTT(30) DEF IdInv, TypeOK
<1>11. TimeInv'
  BY <1>1, <1>2, <1>4 DEF TimeInv
<1>12. BatchInv'
  BY <1>1, <1>4 DEF BatchInv, UserCode
<1>13. CancelInv'
  BY <1>1, <1>2, <1>4 DEF CancelInv, IdInv, TypeOK
<1> QED
  BY <1>4, <1>5, <1>6, <1>7, <1>9, <1>10, <1>11, <1>12, <1>13

(***************************************************************************)
(* cancelTimer: the timer leaves the set, so it can be marked cancelled,   *)
(* and the timerfd is re-armed for the ones that remain.                   *)
(***************************************************************************)
LEMMA CancelIInv ==
  ASSUME IInv, NEW id \in DOMAIN activeTimers, CancelTimer(id)
  PROVE  IInv'
<1> DEFINE t == activeTimers[id]
<1> USE DEF IInv
<1>1. /\ Erase(t) /\ ResetTimerFd(timers \ {t}) /\ UserCode
      /\ cancelled' = cancelled \cup {id}
      /\ UNCHANGED <<now, nextTimerId, timerEvent, pc, cutoff, expired>>
  BY DEF CancelTimer, readVars
<1>2. t \in timers /\ t.id = id
  BY DEF IndexConsistent
<1> HIDE DEF t
<1>3. /\ timers' = timers \ {t}
      /\ timers' \subseteq Timer
      /\ activeTimers' \in [DOMAIN activeTimers' -> Timer]
      /\ DOMAIN activeTimers' \subseteq Nat
      /\ IndexConsistent'
  BY <1>1, <1>2, EraseConsistent
<1>4. /\ deadline' \in Nat
      /\ ticks' = 0
      /\ \A u \in timers \ {t} : deadline' # Disarmed /\ deadline' <= u.expiration
  <2>1. timers \ {t} \in SUBSET Timer /\ now \in Nat \ {0}
    BY DEF TypeOK
  <2>2. \A u \in timers \ {t} : u.expiration >= 1
    BY DEF TimeInv
  <2> QED
    BY <1>1, <2>1, <2>2, ResetCovers
<1>5. TypeOK'
  BY <1>1, <1>3, <1>4 DEF TypeOK
<1>6. TimersDistinct' /\ IdInv' /\ TimeInv'
  BY <1>1, <1>2, <1>3, LiveFields DEF TimersDistinct, IdInv, TimeInv, TypeOK
<1>7. NoLostWakeup'
  BY <1>3, <1>4 DEF NoLostWakeup
<1>8. FiresInOrder' /\ BatchInv'
  BY <1>1, <1>3 DEF FiresInOrder, BatchInv, Before, UserCode
<1>9. CancelInv'
  BY <1>1, <1>2, <1>3 DEF CancelInv, TimersDistinct
<1> QED
  BY <1>3, <1>5, <1>6, <1>7, <1>8, <1>9

(***************************************************************************)
(* The steps of runOnce and handleTimerRead that move no timer.            *)
(***************************************************************************)
LEMMA PollIInv ==
  ASSUME IInv, EpollReportsTimer \/ TimerReadFails PROVE IInv'
<1> USE DEF IInv, EpollReportsTimer, TimerReadFails, loopVars, fdVars
<1>1. TypeOK'
  BY Zenon DEF TypeOK
<1> QED
  BY <1>1 DEF IndexConsistent, TimersDistinct, NoLostWakeup, FiresInOrder,
     Before, IdInv, TimeInv, BatchInv, CancelInv

(***************************************************************************)
(* read() consumes the expiration and the loop takes its cutoff time.      *)
(***************************************************************************)
LEMMA ReadIInv == ASSUME IInv, TimerRead PROVE IInv'
<1> USE DEF IInv, TimerRead, loopVars
<1>1. TypeOK'
  BY Zenon DEF TypeOK
<1>2. expired' = << >> /\ DOMAIN expired' = {}
  BY DEF BatchInv
<1>3. BatchInv'
  BY <1>2 DEF BatchInv, TypeOK
<1> QED
  BY <1>1, <1>2, <1>3 DEF IndexConsistent, TimersDistinct, NoLostWakeup,
     FiresInOrder, IdInv, TimeInv, CancelInv

(***************************************************************************)
(* When extraction ends, all that remains expires after the cutoff, hence  *)
(* after the whole batch.                                                  *)
(***************************************************************************)
LEMMA ExtractDoneIInv == ASSUME IInv, ExtractDone PROVE IInv'
<1> USE DEF IInv, ExtractDone, loopVars, fdVars
<1>1. TypeOK'
  BY DEF TypeOK
<1>2. FiresInOrder'
  BY DEF FiresInOrder, BatchInv, Before
<1> QED
  BY <1>1, <1>2 DEF IndexConsistent, TimersDistinct, NoLostWakeup,
     Before, IdInv, TimeInv, BatchInv, CancelInv

(***************************************************************************)
(* Entering a callback changes nothing but the place of the thread.        *)
(***************************************************************************)
LEMMA BeginIInv == ASSUME IInv, BeginCallback PROVE IInv'
<1> USE DEF IInv, BeginCallback, loopVars, fdVars
<1>1. TypeOK'
  BY Zenon DEF TypeOK
<1> QED
  BY <1>1 DEF IndexConsistent, TimersDistinct, NoLostWakeup, FiresInOrder,
     Before, IdInv, TimeInv, BatchInv, CancelInv

(***************************************************************************)
(* The end of handleTimerRead re-arms the timerfd for what is pending.     *)
(***************************************************************************)
LEMMA FinishIInv == ASSUME IInv, FinishTimerRead PROVE IInv'
<1> USE DEF IInv, FinishTimerRead, loopVars
<1>1. /\ deadline' \in Nat
      /\ ticks' = 0
      /\ \A u \in timers : deadline' # Disarmed /\ deadline' <= u.expiration
  BY ResetCovers DEF TypeOK, TimeInv
<1>2. TypeOK'
  BY <1>1 DEF TypeOK
<1>3. NoLostWakeup'
  BY <1>1 DEF NoLostWakeup
<1>4. DOMAIN expired = {}
  OBVIOUS
<1>5. BatchInv'
  BY <1>4 DEF BatchInv, TypeOK
<1> QED
  BY <1>2, <1>3, <1>4, <1>5 DEF IndexConsistent, TimersDistinct, FiresInOrder,
     IdInv, TimeInv, CancelInv

(***************************************************************************)
(* One round of the extraction loop: the earliest timer moves to the end   *)
(* of the batch, which therefore stays sorted and below what remains.      *)
(***************************************************************************)
LEMMA ExtractIInv == ASSUME IInv, ExtractExpired PROVE IInv'
<1> USE DEF IInv
<1>1. PICK t \in timers :
        IsFirst(t, timers) /\ t.expiration <= cutoff
        /\ Erase(t) /\ expired' = Append(expired, t)
  BY DEF ExtractExpired, Due
<1>2. /\ pc = "extract"
      /\ UNCHANGED <<now, nextTimerId, deadline, ticks, timerEvent, pc, cutoff, cancelled>>
  BY DEF ExtractExpired, Due, fdVars
<1>3. /\ timers' = timers \ {t}
      /\ timers' \subseteq Timer
      /\ activeTimers' \in [DOMAIN activeTimers' -> Timer]
      /\ DOMAIN activeTimers' \subseteq Nat
      /\ IndexConsistent'
  BY <1>1, EraseConsistent
<1> DEFINE n == Len(expired)
<1>4. /\ n \in Nat /\ DOMAIN expired = 1 .. n /\ DOMAIN expired' = 1 .. (n + 1)
      /\ expired' \in Seq(Timer)
      /\ expired'[n + 1] = t
      /\ \A i \in 1 .. n : expired'[i] = expired[i]
  BY <1>1 DEF TypeOK
<1> HIDE DEF n
<1>5. TypeOK'
  BY <1>2, <1>3, <1>4 DEF TypeOK
<1>6. TimersDistinct'
  <2>1. \A u, v \in timers' : u.id = v.id => u = v
    BY <1>3 DEF TimersDistinct
  <2>2. \A i \in 1 .. (n + 1) : i \in 1 .. n \/ i = n + 1
    BY <1>4
  <2>3. \A u \in timers' : t.id # u.id
    BY <1>1, <1>3 DEF TimersDistinct
  <2>4. \A i \in 1 .. n : expired[i].id # t.id
    BY <1>4 DEF TimersDistinct
  <2>5. \A i \in DOMAIN expired', u \in timers' : expired'[i].id # u.id
    BY <1>3, <1>4, <2>2, <2>3 DEF TimersDistinct
  <2>6. \A i, j \in DOMAIN expired' : expired'[i].id = expired'[j].id => i = j
    BY <1>4, <2>2, <2>4 DEF TimersDistinct
  <2> QED
    BY <2>1, <2>5, <2>6 DEF TimersDistinct
<1>7. NoLostWakeup'
  BY <1>2 DEF NoLostWakeup
<1>8. \A i \in DOMAIN expired : Before(expired[i], t)
  BY <1>2 DEF BatchInv
<1>9. FiresInOrder'
  BY <1>2, <1>4, <1>8 DEF FiresInOrder, Before
<1>10. \A u \in timers' : Before(t, u)
  BY <1>1, <1>3 DEF IsFirst
<1>11. BatchInv'
  BY <1>1, <1>2, <1>3, <1>4, <1>10 DEF BatchInv, Before
<1>12. IdInv' /\ TimeInv' /\ CancelInv'
  BY <1>2, <1>3, <1>4 DEF IdInv, TimeInv, CancelInv
<1> QED
  BY <1>3, <1>5, <1>6, <1>7, <1>9, <1>11, <1>12

(***************************************************************************)
(* The end of a callback: the head leaves the batch, and goes back to the  *)
(* set if it repeats.                                                      *)
(***************************************************************************)
LEMMA EndIInv == ASSUME IInv, EndCallback PROVE IInv'
<1> USE DEF IInv
<1> DEFINE h == Head(expired)
           n == Len(expired)
           r == [h EXCEPT !.expiration = h.expiration + h.interval]
<1>1. /\ expired # << >> /\ pc \in {"fire", "callback"} /\ pc' = "fire"
      /\ Requeue(h) /\ expired' = Tail(expired)
      /\ UNCHANGED <<now, nextTimerId, timerEvent, cutoff, cancelled>>
  BY DEF EndCallback, BatchInv
<1>2. /\ n \in Nat /\ n >= 1 /\ DOMAIN expired = 1 .. n
      /\ h = expired[1] /\ h \in Timer
      /\ expired' \in Seq(Timer) /\ DOMAIN expired' = 1 .. (n - 1)
      /\ \A i \in 1 .. (n - 1) : expired'[i] = expired[i + 1]
  BY <1>1 DEF TypeOK
<1>3. /\ h.expiration \in Int /\ h.interval \in Int /\ h.id \in Nat \ {0}
      /\ h.expiration >= 1 /\ (h.repeat => h.interval >= 1)
      /\ h.id < nextTimerId /\ h.id \notin cancelled
      /\ \A t \in timers : t.id # h.id
      /\ \A i \in 2 .. n : expired[i].id # h.id
  <2>1. 1 \in DOMAIN expired /\ \A i \in 2 .. n : i \in DOMAIN expired /\ i # 1
    BY <1>2
  <2> HIDE DEF h, n
  <2>2. h.expiration \in Int /\ h.interval \in Int /\ h.id \in Nat \ {0}
    BY <1>2 DEF Timer
  <2>3. \A t \in timers : t.id # h.id
    BY <1>2, <2>1 DEF TimersDistinct
  <2>4. \A i \in 2 .. n : expired[i].id # h.id
    BY <1>2, <2>1 DEF TimersDistinct
  <2> QED
    BY <1>2, <2>1, <2>2, <2>3, <2>4 DEF TimeInv, IdInv, CancelInv
<1>4. h.repeat => /\ r \in Timer /\ r.expiration = h.expiration + h.interval
                  /\ r.id = h.id /\ r.repeat = h.repeat /\ r.interval = h.interval
                  /\ r.expiration >= 1
  <2> HIDE DEF h
  <2>1. h.expiration + h.interval \in Int
    BY <1>3
  <2>2. r \in Timer
    BY <1>2, <2>1, Zenon DEF Timer
  <2>3. /\ r.expiration = h.expiration + h.interval
        /\ r.id = h.id /\ r.repeat = h.repeat /\ r.interval = h.interval
    BY <1>2 DEF Timer
  <2> HIDE DEF r
  <2> QED
    BY <1>3, <2>2, <2>3
<1>5. h.repeat => InsertTimer(r)
  BY <1>1 DEF Requeue, Repeats
<1>6. ~h.repeat => UNCHANGED <<timers, activeTimers, deadline, ticks>>
  BY <1>1 DEF Requeue, Repeats, fdVars
<1> HIDE DEF h, n, r
<1>7. /\ timers' = IF h.repeat THEN timers \cup {r} ELSE timers
      /\ timers' \subseteq Timer
      /\ activeTimers' \in [DOMAIN activeTimers' -> Timer]
      /\ DOMAIN activeTimers' \subseteq Nat
      /\ deadline' \in Nat
      /\ ticks' \in {0, 1}
      /\ IndexConsistent'
  <2>1. CASE h.repeat
    BY <2>1, <1>3, <1>4, <1>5, InsertCovers DEF TimeInv
  <2>2. CASE ~h.repeat
    BY <2>2, <1>6 DEF TypeOK, IndexConsistent
  <2> QED
    BY <2>1, <2>2
<1>8. TypeOK'
  BY <1>1, <1>2, <1>7 DEF TypeOK
<1>. \A i \in DOMAIN expired' :
        i + 1 \in DOMAIN expired /\ i + 1 \in 2 .. n /\ expired'[i] = expired[i + 1]
  BY <1>2
<1>9. TimersDistinct'
  <2>1. \A t, u \in timers' : t.id = u.id => t = u
    BY <1>3, <1>4, <1>7 DEF TimersDistinct
  <2>2. \A i \in DOMAIN expired', t \in timers' : expired'[i].id # t.id
    BY <1>2, <1>3, <1>4, <1>7 DEF TimersDistinct
  <2>3. \A i, j \in DOMAIN expired' : expired'[i].id = expired'[j].id => i = j
    BY <1>2 DEF TimersDistinct
  <2> QED
    BY <2>1, <2>2, <2>3 DEF TimersDistinct
<1>10. NoLostWakeup'
  BY <1>1 DEF NoLostWakeup
<1>11. FiresInOrder'
  <2>1. \A i, j \in DOMAIN expired' : i < j => Before(expired'[i], expired'[j])
    BY <1>2 DEF FiresInOrder
  <2>2. \A i \in DOMAIN expired', t \in timers' : t.repeat \/ Before(expired'[i], t)
    BY <1>1, <1>2, <1>4, <1>7 DEF FiresInOrder
  <2> QED
    BY <2>1, <2>2 DEF FiresInOrder, Before
<1>12. BatchInv'
  BY <1>1, <1>2 DEF BatchInv
<1>13. IdInv' /\ TimeInv' /\ CancelInv'
  BY <1>1, <1>2, <1>3, <1>4, <1>7, SMTT(30) DEF IdInv, TimeInv, CancelInv
<1> QED
  BY <1>7, <1>8, <1>9, <1>10, <1>11, <1>12, <1>13

(***************************************************************************)
(* Every step of the loop, of user code and of the kernel keeps IInv.      *)
(***************************************************************************)
LEMMA NextIInv == ASSUME IInv, [Next]_vars PROVE IInv'
<1>1. CASE Kernel
  BY <1>1, KernelIInv
<1>2. CASE User
  <2>1. ASSUME NEW d \in Delays, NEW cb \in Callbacks, RunAfter(d, cb) PROVE IInv'
    <3>1. d \in Nat /\ cb \in BOOLEAN
      BY <2>1, TimerAssumption DEF RunAfter
    <3>2. Schedule(d, 0, cb, FALSE)
      BY <2>1, Zenon DEF RunAfter
    <3>3. 0 \in Int /\ FALSE \in BOOLEAN /\ (FALSE => 0 >= 1)
      OBVIOUS
    <3> QED
      BY ONLY <3>1, <3>2, <3>3, IInv, ScheduleIInv, Zenon
  <2>2. ASSUME NEW d \in Intervals, NEW cb \in Callbacks, RunEvery(d, cb) PROVE IInv'
    <3>1. d \in Nat /\ d >= 1 /\ cb \in BOOLEAN
      BY <2>2, TimerAssumption DEF RunEvery
    <3>2. Schedule(d, d, cb, TRUE)
      BY <2>2, Zenon DEF RunEvery
    <3>3. d \in Int /\ TRUE \in BOOLEAN /\ (TRUE => d >= 1)
      BY <3>1
    <3> QED
      BY ONLY <3>1, <3>2, <3>3, IInv, ScheduleIInv, Zenon
  <2>3. ASSUME NEW id \in DOMAIN activeTimers, CancelTimer(id) PROVE IInv'
    BY <2>3, CancelIInv
  <2> QED
    BY <1>2, <2>1, <2>2, <2>3 DEF User
<1>3. CASE Loop
  BY <1>3, PollIInv, ReadIInv, ExtractIInv, ExtractDoneIInv, BeginIInv,
     EndIInv, FinishIInv DEF Loop
<1>4. CASE UNCHANGED vars
  BY <1>4 DEF IInv, vars, loopVars, fdVars, readVars, TypeOK, IndexConsistent,
     TimersDistinct, NoLostWakeup, FiresInOrder, Before, IdInv, TimeInv, BatchInv,
     CancelInv
<1> QED
  BY <1>1, <1>2, <1>3, <1>4 DEF Next

(***************************************************************************)
(* The state of the timers of EventLoop satisfies IInv at all times.       *)
(***************************************************************************)
THEOREM Invariance == Spec => []IInv
  BY InitIInv, NextIInv, PTL DEF Spec

(***************************************************************************)
(* Type correctness of every variable that models EventLoop's timers.      *)
(***************************************************************************)
THEOREM TypeCorrect == Spec => []TypeOK
<1>1. IInv => TypeOK
  BY DEF IInv
<1> QED
  BY <1>1, Invariance, PTL

(***************************************************************************)
(* The index of cancelTimer never holds a dangling iterator and never      *)
(* misses a timer of the set.                                              *)
(***************************************************************************)
THEOREM IndexSafe == Spec => []IndexConsistent
<1>1. IInv => IndexConsistent
  BY DEF IInv
<1> QED
  BY <1>1, Invariance, PTL

(***************************************************************************)
(* No timer is pending and extracted at once, or extracted twice, although *)
(* cancelTimer and the insertion of repeating timers run inside the batch. *)
(***************************************************************************)
THEOREM NoDuplicates == Spec => []TimersDistinct
<1>1. IInv => TimersDistinct
  BY DEF IInv
<1> QED
  BY <1>1, Invariance, PTL

(***************************************************************************)
(* The timerfd is readable or armed in time for every pending timer        *)
(* whenever the loop may go to sleep in epoll_wait.                        *)
(***************************************************************************)
THEOREM WakeupSafe == Spec => []NoLostWakeup
<1>1. IInv => NoLostWakeup
  BY DEF IInv
<1> QED
  BY <1>1, Invariance, PTL

(***************************************************************************)
(* No callback is run before its expiration.                               *)
(***************************************************************************)
THEOREM NotEarly == Spec => []NeverEarly
<1>1. IInv => NeverEarly
  <2> SUFFICES ASSUME IInv PROVE NeverEarly
    OBVIOUS
  <2> QED
    BY LiveFields DEF IInv, NeverEarly, BatchInv, TypeOK
<1> QED
  BY <1>1, Invariance, PTL

(***************************************************************************)
(* Callbacks run in the order of expiration and creation.                  *)
(***************************************************************************)
THEOREM InOrder == Spec => []FiresInOrder
<1>1. IInv => FiresInOrder
  BY DEF IInv
<1> QED
  BY <1>1, Invariance, PTL

(***************************************************************************)
(* A timer that cancelTimer accepted is gone for good.                     *)
(***************************************************************************)
THEOREM CancelSafe == Spec => []CancelledNeverFires
<1>1. IInv => CancelledNeverFires
  BY DEF IInv, CancelInv, CancelledNeverFires, LiveIds, LiveTimers
<1> QED
  BY <1>1, Invariance, PTL

-----------------------------------------------------------------------------
(* The refinement.                                                         *)

InBatch == {expired[i] : i \in DOMAIN expired}

\* Steps that change neither the timers nor what of the batch is left to run.
ServiceStutters == UNCHANGED <<now, timers, Committed, Running, nextTimerId>>

-----------------------------------------------------------------------------
\* Outside a callback all of the batch is committed; in one, all but its head.
LEMMA BatchMapping ==
  ASSUME IInv
  PROVE  /\ pc # "callback" => Running = {} /\ Committed = InBatch
         /\ pc = "callback" =>
              /\ expired # << >> /\ Running = {Head(expired)}
              /\ Committed = InBatch \ {Head(expired)}
<1>1. DOMAIN expired = 1 .. Len(expired) /\ Len(expired) \in Nat
  BY LiveFields DEF IInv
<1>2. CASE pc # "callback"
  BY <1>1, <1>2 DEF Running, Committed, InBatch
<1>3. CASE pc = "callback"
  <2>1. expired # << >> /\ Head(expired) = expired[1] /\ 1 \in DOMAIN expired
    BY <1>1, <1>3 DEF IInv, BatchInv, TypeOK
  <2>2. \A i \in 2 .. Len(expired) : i \in DOMAIN expired /\ expired[i] # expired[1]
    BY <1>1, <2>1 DEF IInv, TimersDistinct
  <2>3. Committed = {expired[i] : i \in 2 .. Len(expired)}
    BY <1>3 DEF Committed
  <2>4. \A i \in DOMAIN expired : i = 1 \/ i \in 2 .. Len(expired)
    BY <1>1
  <2>5. Committed = InBatch \ {expired[1]}
    BY <2>2, <2>3, <2>4, Zenon DEF InBatch
  <2> QED
    BY <1>3, <2>1, <2>5 DEF Running
<1> QED
  BY <1>2, <1>3

\* runAfter and runEvery add the timer to the service.
LEMMA ScheduleAdds ==
  ASSUME NEW d, NEW interval, NEW cb, NEW repeat, Schedule(d, interval, cb, repeat)
  PROVE  Service!Add(d, interval, cb, repeat)
<1>1. UNCHANGED <<Committed, Running>>
  BY DEF Schedule, readVars, Committed, Running
<1> QED
  BY <1>1 DEF Schedule, IdAfter, InsertTimer, Service!Add

\* cancelTimer takes a timer the service has not committed to.
LEMMA CancelCancels ==
  ASSUME IInv, NEW id \in DOMAIN activeTimers, CancelTimer(id)
  PROVE  \E t \in timers : Service!Cancel(t)
<1>1. activeTimers[id] \in timers
  BY DEF IInv, IndexConsistent
<1>2. UNCHANGED <<Committed, Running>>
  BY DEF CancelTimer, readVars, Committed, Running
<1>3. Service!Cancel(activeTimers[id])
  BY <1>2 DEF CancelTimer, Erase, Service!Cancel
<1> QED
  BY <1>1, <1>3

\* Extracting a timer commits to it.
LEMMA ExtractCommits ==
  ASSUME IInv, IInv', ExtractExpired
  PROVE  \E t \in timers : Service!Commit(t)
<1>1. PICK t \in timers :
        t.expiration <= cutoff /\ Erase(t) /\ expired' = Append(expired, t)
  BY DEF ExtractExpired, Due
<1>2. /\ pc = "extract" /\ pc' = pc /\ now' = now /\ nextTimerId' = nextTimerId
  BY DEF ExtractExpired
<1>3. /\ Running = {} /\ Running' = {}
      /\ Committed = InBatch /\ Committed' = InBatch'
  <2>1. Running = {} /\ Committed = InBatch
    BY <1>2, BatchMapping
  <2>2. DOMAIN expired' = 1 .. Len(expired')
    BY DEF IInv, TypeOK
  <2>3. Running' = {} /\ Committed' = {expired'[i] : i \in 1 .. Len(expired')}
    BY <1>2 DEF Running, Committed
  <2> QED
    BY <2>1, <2>2, <2>3 DEF InBatch
<1>4. InBatch' = InBatch \cup {t}
  <2>1. /\ DOMAIN expired = 1 .. Len(expired) /\ Len(expired) \in Nat
        /\ DOMAIN expired' = 1 .. (Len(expired) + 1)
        /\ \A i \in 1 .. Len(expired) : expired'[i] = expired[i]
        /\ expired'[Len(expired) + 1] = t
    BY <1>1, SMTT(30) DEF IInv, TypeOK
  <2> QED
    BY <2>1 DEF InBatch
<1>5. t.expiration <= now
  BY <1>1, LiveFields, SMTT(30) DEF IInv, BatchInv, TypeOK
<1>6. timers' = timers \ {t}
  BY <1>1 DEF Erase
<1> QED
  BY <1>2, <1>3, <1>4, <1>5, <1>6 DEF Service!Commit

\* The head of the batch has its turn.
LEMMA HeadHasTurn ==
  ASSUME IInv, pc = "fire", expired # << >>
  PROVE  /\ Head(expired) \in InBatch
         /\ Service!Turn(Head(expired))
<1>1. Head(expired) = expired[1] /\ 1 \in DOMAIN expired /\ DOMAIN expired = 1 .. Len(expired)
  BY DEF IInv, TypeOK
<1>2. Running = {} /\ Committed = InBatch
  BY BatchMapping
<1>3. \A u \in InBatch : u = expired[1] \/ Before(expired[1], u)
  <2>1. \A i \in DOMAIN expired : i = 1 \/ 1 < i
    BY <1>1
  <2> QED
    BY <1>1, <2>1 DEF InBatch, IInv, FiresInOrder
<1>4. \A u \in timers : u.repeat \/ Before(expired[1], u)
  BY <1>1 DEF IInv, FiresInOrder
<1> QED
  BY <1>1, <1>2, <1>3, <1>4 DEF InBatch, Service!Turn, Service!Earlier, Before

\* What goes on after the head of the batch is done.
LEMMA TailOfBatch ==
  ASSUME IInv, IInv', expired # << >>, expired' = Tail(expired), pc' = "fire"
  PROVE  Running' = {} /\ Committed' = InBatch \ {Head(expired)}
<1>1. /\ DOMAIN expired = 1 .. Len(expired) /\ Len(expired) \in Nat /\ Len(expired) >= 1
      /\ Head(expired) = expired[1]
      /\ DOMAIN expired' = 1 .. (Len(expired) - 1) /\ Len(expired') = Len(expired) - 1
      /\ \A i \in 1 .. (Len(expired) - 1) : expired'[i] = expired[i + 1]
  BY DEF IInv, TypeOK
<1>2. Running' = {} /\ Committed' = {expired'[i] : i \in 1 .. (Len(expired) - 1)}
  BY <1>1 DEF Running, Committed
<1>3. \A i \in 2 .. Len(expired) : expired[i] # expired[1]
  BY <1>1 DEF IInv, TimersDistinct
<1>4. \A i \in DOMAIN expired : i = 1 \/ (i \in 2 .. Len(expired) /\ i - 1 \in 1 .. (Len(expired) - 1))
  BY <1>1
<1>5. \A i \in 1 .. (Len(expired) - 1) :
        i + 1 \in 2 .. Len(expired) /\ i + 1 \in DOMAIN expired
  BY <1>1
<1>6. Committed' \subseteq InBatch \ {expired[1]}
  BY <1>1, <1>2, <1>3, <1>5 DEF InBatch
<1>7. InBatch \ {expired[1]} \subseteq Committed'
  <2> SUFFICES ASSUME NEW i \in DOMAIN expired, i # 1
               PROVE  expired[i] \in Committed'
    BY DEF InBatch
  <2>1. i - 1 \in 1 .. (Len(expired) - 1) /\ (i - 1) + 1 = i
    BY <1>1, <1>4
  <2>2. expired'[i - 1] = expired[i]
    BY <1>1, <2>1
  <2> QED
    BY <1>2, <2>1, <2>2
<1> QED
  BY <1>1, <1>2, <1>6, <1>7

LEMMA BeginStarts ==
  ASSUME IInv, IInv', BeginCallback
  PROVE  \E t \in Committed : Service!Start(t)
<1>1. /\ pc = "fire" /\ expired # << >> /\ pc' = "callback" /\ Head(expired).callback
      /\ UNCHANGED <<now, timers, nextTimerId, expired>>
  BY DEF BeginCallback, loopVars
<1>2. Head(expired) \in Committed /\ Service!Turn(Head(expired)) /\ Committed = InBatch
  BY <1>1, HeadHasTurn, BatchMapping
<1>3. Running' = {Head(expired)}
  BY <1>1 DEF Running
<1>4. Committed' = Committed \ {Head(expired)}
  <2>1. DOMAIN expired = 1 .. Len(expired) /\ Head(expired) = expired[1] /\ 1 \in DOMAIN expired
    BY <1>1 DEF IInv, TypeOK
  <2>2. \A i \in 2 .. Len(expired) : i \in DOMAIN expired /\ expired[i] # expired[1]
    BY <2>1 DEF IInv, TimersDistinct
  <2>3. Committed' = {expired[i] : i \in 2 .. Len(expired)}
    BY <1>1 DEF Committed
  <2>4. \A i \in DOMAIN expired : i = 1 \/ i \in 2 .. Len(expired)
    BY <2>1
  <2> QED
    BY <1>2, <2>1, <2>2, <2>3, <2>4 DEF InBatch
<1> QED
  BY <1>1, <1>2, <1>3, <1>4 DEF Service!Start

LEMMA EndServes ==
  ASSUME IInv, IInv', EndCallback
  PROVE  \/ \E t \in Running : Service!Finish(t)
         \/ \E t \in Committed : Service!Skip(t)
<1> DEFINE h == Head(expired)
<1>1. /\ expired # << >> /\ pc' = "fire" /\ Requeue(h) /\ expired' = Tail(expired)
      /\ UNCHANGED <<now, nextTimerId>>
  BY DEF EndCallback, IInv, BatchInv
<1>2. timers' = timers \cup Service!NextOccurrence(h)
  BY <1>1 DEF Requeue, Repeats, InsertTimer, Service!NextOccurrence
<1>3. Running' = {} /\ Committed' = InBatch \ {h}
  BY <1>1, TailOfBatch
<1>4. CASE pc = "callback"
  <2>1. Running = {h} /\ Committed = InBatch \ {h}
    BY <1>4, BatchMapping
  <2>2. Service!Finish(h)
    BY <1>1, <1>2, <1>3, <2>1 DEF Service!Finish
  <2> QED
    BY <2>1, <2>2
<1>5. CASE pc = "fire" /\ ~h.callback
  <2>1. h \in InBatch /\ Service!Turn(h)
    BY <1>1, <1>5, HeadHasTurn
  <2>2. Running = {} /\ Committed = InBatch
    BY <1>5, BatchMapping
  <2>3. Service!Skip(h)
    BY <1>1, <1>2, <1>3, <1>5, <2>1, <2>2 DEF Service!Skip
  <2> QED
    BY <2>1, <2>2, <2>3
<1> QED
  BY <1>4, <1>5 DEF EndCallback
-----------------------------------------------------------------------------
\* The remaining steps of the loop and of the kernel.
LEMMA QuietStutters ==
  ASSUME IInv, TimerFdExpires \/ EpollReportsTimer \/ TimerReadFails \/ TimerRead
               \/ ExtractDone \/ FinishTimerRead \/ UNCHANGED vars
  PROVE  ServiceStutters
<1>1. UNCHANGED <<now, timers, nextTimerId, expired>>
  BY DEF TimerFdExpires, EpollReportsTimer, TimerReadFails, TimerRead, ExtractDone,
         FinishTimerRead, vars, loopVars, readVars
<1>2. (pc = "callback") = (pc' = "callback")
  BY DEF TimerFdExpires, EpollReportsTimer, TimerReadFails, TimerRead, ExtractDone,
         FinishTimerRead, vars, readVars
<1> QED
  BY <1>1, <1>2 DEF ServiceStutters, Running, Committed

LEMMA TickAdvances == ASSUME Tick PROVE Service!Advance
<1>1. now < MaxTime /\ now' = now + 1 /\ UNCHANGED <<timers, nextTimerId, expired, pc>>
  BY DEF Tick, loopVars, readVars
<1> QED
  BY <1>1 DEF Service!Advance, Running, Committed

\* Every step of the loop, of its users and of the kernel is a step of the service.
LEMMA StepSimulates ==
  ASSUME IInv, IInv', [Next]_vars
  PROVE  [Service!ServiceNext]_(Service!svars)
<1>1. CASE Tick
  BY <1>1, TickAdvances DEF Service!ServiceNext
<1>2. CASE \E d \in Delays, cb \in Callbacks : RunAfter(d, cb)
  <2>1. PICK d \in Delays, cb \in Callbacks : d >= 0 /\ Schedule(d, 0, cb, FALSE)
    BY <1>2, Zenon DEF RunAfter
  <2>2. Service!Add(d, 0, cb, FALSE)
    BY <2>1, ScheduleAdds, Zenon
  <2> QED
    BY <2>1, <2>2, Zenon DEF Service!ServiceNext
<1>3. CASE \E d \in Intervals, cb \in Callbacks : RunEvery(d, cb)
  <2>1. PICK d \in Intervals, cb \in Callbacks : d > 0 /\ Schedule(d, d, cb, TRUE)
    BY <1>3, Zenon DEF RunEvery
  <2>2. Service!Add(d, d, cb, TRUE)
    BY <2>1, ScheduleAdds, Zenon
  <2> QED
    BY <2>1, <2>2, Zenon DEF Service!ServiceNext
<1>4. CASE \E id \in DOMAIN activeTimers : CancelTimer(id)
  BY <1>4, CancelCancels, Zenon DEF Service!ServiceNext
<1>5. CASE ExtractExpired
  BY <1>5, ExtractCommits, Zenon DEF Service!ServiceNext
<1>6. CASE BeginCallback
  BY <1>6, BeginStarts, Zenon DEF Service!ServiceNext, Service!Serve
<1>7. CASE EndCallback
  BY <1>7, EndServes, Zenon DEF Service!ServiceNext, Service!Serve
<1>8. CASE TimerFdExpires \/ EpollReportsTimer \/ TimerReadFails \/ TimerRead
           \/ ExtractDone \/ FinishTimerRead \/ UNCHANGED vars
  BY <1>8, QuietStutters DEF ServiceStutters, Service!svars
<1> QED
  BY <1>1, <1>2, <1>3, <1>4, <1>5, <1>6, <1>7, <1>8 DEF Next, Kernel, User, Loop

LEMMA InitSimulates == Init => Service!ServiceInit
  BY DEF Init, Service!ServiceInit, Running, Committed

(***************************************************************************)
(* The timers of EventLoop do nothing TimerService does not: the safety    *)
(* part of ImplementsService.  Its fairness stays with TLC.                *)
(***************************************************************************)
THEOREM Refines == Spec => Service!ServiceSpec
<1>1. Init => Service!ServiceInit
  BY InitSimulates
<1>2. IInv /\ IInv' /\ [Next]_vars => [Service!ServiceNext]_(Service!svars)
  BY StepSimulates
<1> QED
  BY <1>1, <1>2, Invariance, PTL DEF Spec, Service!ServiceSpec

-----------------------------------------------------------------------------
\* What NoTimerLost says of one step.
KeepsTimers ==
  \A t \in LiveTimers :
    t.id \notin LiveIds' =>
      \/ t.id \in cancelled'
      \/ ~t.repeat /\ expired # << >> /\ t = Head(expired)

\* In a step that loses neither a timer of the set nor one of the batch.
LEMMA KeptWhole ==
  ASSUME timers \subseteq timers', expired' = expired
  PROVE  KeepsTimers
  BY DEF KeepsTimers, LiveIds, LiveTimers

LEMMA CancelKeeps ==
  ASSUME IInv, NEW id \in DOMAIN activeTimers, CancelTimer(id)
  PROVE  KeepsTimers
<1>1. /\ timers' = timers \ {activeTimers[id]} /\ cancelled' = cancelled \cup {id}
      /\ expired' = expired
  BY DEF CancelTimer, Erase, readVars
<1>2. activeTimers[id].id = id
  BY DEF IInv, IndexConsistent
<1> QED
  BY <1>1, <1>2 DEF KeepsTimers, LiveIds, LiveTimers

LEMMA ExtractKeeps == ASSUME IInv, ExtractExpired PROVE KeepsTimers
<1>1. PICK t \in timers : timers' = timers \ {t} /\ expired' = Append(expired, t)
  BY DEF ExtractExpired, Erase
<1>2. /\ DOMAIN expired = 1 .. Len(expired) /\ Len(expired) \in Nat
      /\ DOMAIN expired' = 1 .. (Len(expired) + 1)
      /\ \A i \in 1 .. Len(expired) : expired'[i] = expired[i]
      /\ expired'[Len(expired) + 1] = t
  BY <1>1 DEF IInv, TypeOK
<1>3. LiveTimers \subseteq LiveTimers'
  BY <1>1, <1>2 DEF LiveTimers
<1> QED
  BY <1>3 DEF KeepsTimers, LiveIds

\* The head of the batch goes, or comes back to the set under its own id.
LEMMA EndKeeps == ASSUME IInv, EndCallback PROVE KeepsTimers
<1> DEFINE h == Head(expired)
<1>1. /\ expired # << >> /\ Requeue(h) /\ expired' = Tail(expired)
  BY DEF EndCallback, IInv, BatchInv
<1>2. /\ DOMAIN expired = 1 .. Len(expired) /\ Len(expired) \in Nat /\ Len(expired) >= 1
      /\ h = expired[1] /\ h \in Timer
      /\ DOMAIN expired' = 1 .. (Len(expired) - 1)
      /\ \A i \in 1 .. (Len(expired) - 1) : expired'[i] = expired[i + 1]
  BY <1>1 DEF IInv, TypeOK
<1>3. timers \subseteq timers'
  BY <1>1 DEF Requeue, InsertTimer
<1>4. \A i \in DOMAIN expired : i = 1 \/ expired[i] \in LiveTimers'
  <2> SUFFICES ASSUME NEW i \in DOMAIN expired, i # 1 PROVE expired[i] \in LiveTimers'
    OBVIOUS
  <2>1. i - 1 \in DOMAIN expired' /\ expired'[i - 1] = expired[i]
    BY <1>2
  <2> QED
    BY <2>1 DEF LiveTimers
<1>5. h.repeat => h.id \in LiveIds'
  <2> SUFFICES ASSUME h.repeat PROVE h.id \in LiveIds'
    OBVIOUS
  <2> DEFINE r == [h EXCEPT !.expiration = h.expiration + h.interval]
  <2>1. r \in timers'
    BY <1>1 DEF Requeue, Repeats, InsertTimer
  <2>2. r.id = h.id
    BY <1>2 DEF Timer
  <2> QED
    BY <2>1, <2>2, Zenon DEF LiveIds, LiveTimers
<1>6. \A t \in LiveTimers : t = h \/ t \in LiveTimers'
  BY <1>2, <1>3, <1>4 DEF LiveTimers
<1> QED
  BY <1>1, <1>5, <1>6 DEF KeepsTimers, LiveIds

LEMMA StepKeepsTimers == ASSUME IInv, [Next]_vars PROVE [KeepsTimers]_vars
<1>1. CASE Kernel
  BY <1>1, KeptWhole DEF Kernel, Tick, TimerFdExpires, loopVars, readVars
<1>2. CASE User
  <2>1. ASSUME NEW d, NEW interval, NEW cb, NEW repeat, Schedule(d, interval, cb, repeat)
        PROVE  KeepsTimers
    BY <2>1, KeptWhole DEF Schedule, InsertTimer, readVars
  <2> QED
    BY <1>2, <2>1, CancelKeeps, Zenon DEF User, RunAfter, RunEvery
<1>3. CASE EpollReportsTimer \/ TimerReadFails \/ TimerRead \/ ExtractDone
           \/ BeginCallback \/ FinishTimerRead
  BY <1>3, KeptWhole DEF EpollReportsTimer, TimerReadFails, TimerRead, ExtractDone,
                         BeginCallback, FinishTimerRead, loopVars
<1>4. CASE ExtractExpired \/ EndCallback
  BY <1>4, ExtractKeeps, EndKeeps
<1> QED
  BY <1>1, <1>2, <1>3, <1>4 DEF Next, Loop

(***************************************************************************)
(* NoTimerLost: a timer leaves EventLoop by cancelTimer, or, one-shot, by  *)
(* running; a repeating timer comes back from every batch.                 *)
(***************************************************************************)
THEOREM NoneLost == Spec => NoTimerLost
<1>1. IInv /\ [Next]_vars => [KeepsTimers]_vars
  BY StepKeepsTimers
<1>2. Spec => [][KeepsTimers]_vars
  BY <1>1, Invariance, PTL DEF Spec
<1> QED
  BY <1>2 DEF NoTimerLost, KeepsTimers
=============================================================================
