----------------------------- MODULE TimerQueue -----------------------------
(***************************************************************************)
(* The timers of EventLoop: m_timers (ordered by expiration, then id), the *)
(* cancellation index m_activeTimers, and the one kernel timerfd that      *)
(* wakes the loop for all of them.                                         *)
(*                                                                         *)
(* The loop is single threaded, so a call of the code is one action unless *)
(* user code runs in its middle.  User code runs in two places: anywhere   *)
(* outside handleTimerRead (pc = "user": between two runOnce calls, in a   *)
(* packet handler, in a deferred task), and inside a timer callback        *)
(* (pc = "callback").  handleTimerRead itself is cut at those points, and  *)
(* its extraction loop takes one step per timer.                           *)
(*                                                                         *)
(* steady_clock and the timerfd both read CLOCK_MONOTONIC: `now' is that   *)
(* clock, in its own unit, counted from boot.                              *)
(***************************************************************************)
EXTENDS Integers, Sequences

CONSTANTS
  Delays,      \* the delays callers pass to runAfter (negative ones included)
  Intervals,   \* the intervals callers pass to runEvery
  Callbacks,   \* {TRUE}, or {TRUE, FALSE} when empty std::functions are passed
  StartTimes,  \* values of the clock at which the loop may be constructed
  MaxTime,     \* bound: the clock stops there
  MaxTimers    \* bound: number of timers ever created

ASSUME TimerAssumption ==
  /\ Delays \subseteq Int
  /\ Intervals \subseteq Int
  /\ Callbacks \subseteq BOOLEAN
  /\ StartTimes \subseteq Nat \ {0}
  /\ MaxTime \in Nat
  /\ MaxTimers \in Nat

VARIABLES
  now,           \* CLOCK_MONOTONIC
  timers,        \* m_timers
  activeTimers,  \* m_activeTimers: id -> the element of m_timers it points to
  nextTimerId,   \* m_nextTimerId
  deadline,      \* timerfd: absolute expiry time, Disarmed if none is set
  ticks,         \* timerfd: expirations that read() has not consumed yet
  timerEvent,    \* the current epoll batch holds an undispatched timerfd event
  pc,            \* where the single thread is
  cutoff,        \* handleTimerRead: the local `now'
  expired,       \* handleTimerRead: the part of the local vector not yet run
  cancelled      \* history: ids for which cancelTimer returned success

loopVars  == <<timers, activeTimers, nextTimerId>>
fdVars    == <<deadline, ticks>>
readVars  == <<timerEvent, pc, cutoff, expired>>
vars == <<now, loopVars, fdVars, readVars, cancelled>>

Disarmed == 0

Timer == [expiration : Int, interval : Int, callback : BOOLEAN,
          id : Nat \ {0}, repeat : BOOLEAN]

(***************************************************************************)
(* Timer::operator<, and the element begin() of a non-empty set of timers. *)
(***************************************************************************)
Before(t, u) ==
  \/ t.expiration < u.expiration
  \/ t.expiration = u.expiration /\ t.id < u.id

\* Mutant: begin() is any timer of the set.
IsFirstAny(t, ts) == t \in ts

IsFirst(t, ts) == t \in ts /\ \A u \in ts : u = t \/ Before(t, u)

\* User code may call runAfter, runEvery and cancelTimer here.
UserCode == pc \in {"user", "callback"}

Init ==
  /\ now \in StartTimes
  /\ timers = {}
  /\ activeTimers = << >>
  /\ nextTimerId = 1
  /\ deadline = Disarmed
  /\ ticks = 0
  /\ timerEvent = FALSE
  /\ pc = "user"
  /\ cutoff = 0
  /\ expired = << >>
  /\ cancelled = {}

-----------------------------------------------------------------------------
(***************************************************************************)
(* The kernel: the clock advances, and an armed timerfd becomes readable   *)
(* once the clock has reached its absolute deadline.  timerfd_settime      *)
(* discards expirations that have not been read.                           *)
(***************************************************************************)
Tick ==
  /\ now < MaxTime
  /\ now' = now + 1
  /\ UNCHANGED <<loopVars, fdVars, readVars, cancelled>>

TimerFdExpires ==
  /\ deadline # Disarmed
  /\ deadline <= now
  /\ ticks' = 1
  /\ deadline' = Disarmed
  /\ UNCHANGED <<now, loopVars, readVars, cancelled>>

TimerFdSetTime(d) == deadline' = d /\ ticks' = 0

\* Mutants: an expired timer is not told from a pending one; a timer due now is
\* taken for a pending one, and its delay of zero disarms.
DelayNoClamp(t) == t.expiration - now
DelayStrict(t) == IF t.expiration < now THEN 1 ELSE t.expiration - now

Delay(t) == IF t.expiration <= now THEN 1 ELSE t.expiration - now

(***************************************************************************)
(* resetTimerFd, with ts the timers in the set when it is called.  The     *)
(* value computed is the delay until the earliest expiration (1 when that  *)
(* is past), and it is handed to the kernel as an absolute time.           *)
(***************************************************************************)
ResetTimerFd(ts) ==
  \/ ts = {} /\ TimerFdSetTime(Disarmed)
  \/ \E t \in ts : IsFirst(t, ts) /\ TimerFdSetTime(Delay(t))

InsertTimer(t) ==
  /\ timers' = timers \cup {t}
  /\ activeTimers' = [i \in DOMAIN activeTimers \cup {t.id} |->
                        IF i = t.id THEN t ELSE activeTimers[i]]
  /\ IF \A u \in timers : t.expiration < u.expiration
       THEN ResetTimerFd(timers \cup {t})
       ELSE UNCHANGED fdVars

\* Mutants: only one of the two containers forgets the timer.
EraseSetOnly(t) == timers' = timers \ {t} /\ UNCHANGED activeTimers
EraseIndexOnly(t) ==
  /\ activeTimers' = [i \in DOMAIN activeTimers \ {t.id} |-> activeTimers[i]]
  /\ UNCHANGED timers

\* Remove timer t from the set and its id from the index.
Erase(t) ==
  /\ timers' = timers \ {t}
  /\ activeTimers' = [i \in DOMAIN activeTimers \ {t.id} |-> activeTimers[i]]

\* Mutant: the id counter is not advanced for repeating timers.
IdAfterSame(repeat) == IF repeat THEN nextTimerId ELSE nextTimerId + 1

IdAfter(repeat) == nextTimerId + 1

Schedule(d, interval, cb, repeat) ==
  /\ UserCode
  /\ nextTimerId <= MaxTimers
  /\ InsertTimer([expiration |-> now + d, interval |-> interval,
                  callback |-> cb, id |-> nextTimerId, repeat |-> repeat])
  /\ nextTimerId' = IdAfter(repeat)
  /\ UNCHANGED <<now, readVars, cancelled>>

RunAfter(delay, cb) == delay >= 0 /\ Schedule(delay, 0, cb, FALSE)

RunEvery(interval, cb) == interval > 0 /\ Schedule(interval, interval, cb, TRUE)

\* For an id the index does not know, cancelTimer returns ENOENT and changes nothing.
CancelTimer(id) ==
  /\ UserCode
  /\ id \in DOMAIN activeTimers
  /\ Erase(activeTimers[id])
  /\ ResetTimerFd(timers \ {activeTimers[id]})
  /\ cancelled' = cancelled \cup {id}
  /\ UNCHANGED <<now, nextTimerId, readVars>>

-----------------------------------------------------------------------------
(***************************************************************************)
(* runOnce reports the timerfd, other handlers of the same batch may run,  *)
(* then handleTimerRead is called.                                         *)
(***************************************************************************)
EpollReportsTimer ==
  /\ pc = "user"
  /\ ~timerEvent
  /\ ticks > 0
  /\ timerEvent' = TRUE
  /\ UNCHANGED <<now, loopVars, fdVars, pc, cutoff, expired, cancelled>>

\* read() returns EAGAIN: the early return of handleTimerRead.
TimerReadFails ==
  /\ pc = "user"
  /\ timerEvent
  /\ ticks = 0
  /\ timerEvent' = FALSE
  /\ UNCHANGED <<now, loopVars, fdVars, pc, cutoff, expired, cancelled>>

TimerRead ==
  /\ pc = "user"
  /\ timerEvent
  /\ ticks > 0
  /\ ticks' = 0
  /\ timerEvent' = FALSE
  /\ pc' = "extract"
  /\ cutoff' = now
  /\ UNCHANGED <<now, loopVars, deadline, expired, cancelled>>

\* Mutant: a wake-up is taken to mean that the earliest timer has expired.
DueTrustWakeup(t) == expired = << >> \/ t.expiration <= cutoff

Due(t) == t.expiration <= cutoff

\* 1. Extract all expired timers from the set.
ExtractExpired ==
  /\ pc = "extract"
  /\ \E t \in timers :
       /\ IsFirst(t, timers) /\ Due(t)
       /\ Erase(t)
       /\ expired' = Append(expired, t)
  /\ UNCHANGED <<now, nextTimerId, fdVars, timerEvent, pc, cutoff, cancelled>>

ExtractDone ==
  /\ pc = "extract"
  /\ \A t \in timers : t.expiration > cutoff
  /\ pc' = "fire"
  /\ UNCHANGED <<now, loopVars, fdVars, timerEvent, cutoff, expired, cancelled>>

\* 2. Execute callbacks.
BeginCallback ==
  /\ pc = "fire"
  /\ expired # << >>
  /\ Head(expired).callback
  /\ pc' = "callback"
  /\ UNCHANGED <<now, loopVars, fdVars, timerEvent, cutoff, expired, cancelled>>

\* Mutant: a timer without a callback is skipped, and so not re-scheduled.
RepeatsCallable(t) == t.repeat /\ t.callback

Repeats(t) == t.repeat

\* 3. Re-schedule if repeating, and go on to the next expired timer.
Requeue(t) ==
  IF Repeats(t)
    THEN InsertTimer([t EXCEPT !.expiration = t.expiration + t.interval])
    ELSE UNCHANGED <<timers, activeTimers, fdVars>>

EndCallback ==
  /\ \/ pc = "callback"
     \/ pc = "fire" /\ expired # << >> /\ ~Head(expired).callback
  /\ Requeue(Head(expired))
  /\ expired' = Tail(expired)
  /\ pc' = "fire"
  /\ UNCHANGED <<now, nextTimerId, timerEvent, cutoff, cancelled>>

\* Mutant: the timerfd is left as it is, since insertTimer has armed it.
FinishTimerReadNoReset ==
  /\ pc = "fire"
  /\ expired = << >>
  /\ pc' = "user"
  /\ cutoff' = 0
  /\ UNCHANGED <<now, loopVars, fdVars, timerEvent, expired, cancelled>>

\* 4. Ensure hardware timer waits for the next valid event.
FinishTimerRead ==
  /\ pc = "fire"
  /\ expired = << >>
  /\ ResetTimerFd(timers)
  /\ pc' = "user"
  /\ cutoff' = 0
  /\ UNCHANGED <<now, loopVars, timerEvent, expired, cancelled>>

-----------------------------------------------------------------------------
Kernel == Tick \/ TimerFdExpires

User ==
  \/ \E d \in Delays, cb \in Callbacks : RunAfter(d, cb)
  \/ \E d \in Intervals, cb \in Callbacks : RunEvery(d, cb)
  \/ \E id \in DOMAIN activeTimers : CancelTimer(id)

Loop ==
  \/ EpollReportsTimer
  \/ TimerReadFails
  \/ TimerRead
  \/ ExtractExpired
  \/ ExtractDone
  \/ BeginCallback
  \/ EndCallback
  \/ FinishTimerRead

Next == Kernel \/ User \/ Loop

Spec == Init /\ [][Next]_vars

(***************************************************************************)
(* The clock advances, an armed timerfd expires, and the application keeps *)
(* calling runOnce (every example and test is such a loop) with callbacks  *)
(* that return.  Nothing is assumed of user calls.                         *)
(***************************************************************************)
Fairness == WF_vars(Tick) /\ WF_vars(TimerFdExpires) /\ WF_vars(Loop)

FairSpec == Spec /\ Fairness
-----------------------------------------------------------------------------
LiveTimers == timers \cup {expired[i] : i \in DOMAIN expired}

LiveIds == {t.id : t \in LiveTimers}

(***************************************************************************)
(* The types of m_timers, m_activeTimers, the timerfd and the locals of    *)
(* handleTimerRead.  In particular resetTimerFd never hands the kernel a   *)
(* negative time, which timerfd_settime would refuse.                      *)
(***************************************************************************)
TypeOK ==
  /\ now \in Nat \ {0}
  /\ timers \subseteq Timer
  /\ activeTimers \in [DOMAIN activeTimers -> Timer]
  /\ DOMAIN activeTimers \subseteq Nat
  /\ nextTimerId \in Nat \ {0}
  /\ deadline \in Nat
  /\ ticks \in {0, 1}
  /\ timerEvent \in BOOLEAN
  /\ pc \in {"user", "extract", "fire", "callback"}
  /\ cutoff \in Nat
  /\ expired \in Seq(Timer)
  /\ cancelled \subseteq Nat

(***************************************************************************)
(* The cancellation index and the ordered set describe the same timers:    *)
(* every iterator stored in m_activeTimers points to an element that is    *)
(* still in m_timers, under its own id, and no element is missing.  A      *)
(* stale entry would make cancelTimer erase through a dangling iterator.   *)
(***************************************************************************)
IndexConsistent ==
  /\ \A id \in DOMAIN activeTimers :
       activeTimers[id] \in timers /\ activeTimers[id].id = id
  /\ \A t \in timers : t.id \in DOMAIN activeTimers /\ activeTimers[t.id] = t

(***************************************************************************)
(* A timer is in m_timers or in the batch of expired timers, never in both *)
(* and never twice, whatever callbacks add, cancel or repeat: a callback   *)
(* cannot be run twice for one expiration.                                 *)
(***************************************************************************)
TimersDistinct ==
  /\ \A t, u \in timers : t.id = u.id => t = u
  /\ \A i \in DOMAIN expired, t \in timers : expired[i].id # t.id
  /\ \A i, j \in DOMAIN expired : expired[i].id = expired[j].id => i = j

(***************************************************************************)
(* No lost wake-up.  Outside handleTimerRead, whenever a timer is pending  *)
(* the timerfd is readable or armed to fire no later than that timer       *)
(* expires, although insertTimer re-arms it only for a new earliest timer  *)
(* and the early return of handleTimerRead does not re-arm it at all.      *)
(***************************************************************************)
NoLostWakeup ==
  pc = "user" =>
    \A t \in timers : ticks > 0 \/ (deadline # Disarmed /\ deadline <= t.expiration)

(***************************************************************************)
(* A timer about to run, or running, has expired: early wake-ups of the    *)
(* timerfd never run a callback before its time (the one-shot delay of     *)
(* TimerTest.OneShotExecutesAfterDelay).                                   *)
(***************************************************************************)
NeverEarly == \A i \in DOMAIN expired : expired[i].expiration <= now

(***************************************************************************)
(* Timers run in the order of their expiration, equal ones in the order of *)
(* their creation (TimerTest.OutOfOrderTimers): the rest of the batch      *)
(* comes later than the timer being run, and so does every one-shot timer  *)
(* still in m_timers, the ones callbacks of this batch have added          *)
(* included.  Repeating timers that catch up are the exception.            *)
(***************************************************************************)
FiresInOrder ==
  /\ \A i, j \in DOMAIN expired : i < j => Before(expired[i], expired[j])
  /\ pc \in {"fire", "callback"} =>
       \A i \in DOMAIN expired, t \in timers : t.repeat \/ Before(expired[i], t)

(***************************************************************************)
(* Once cancelTimer(id) has returned success the callback of id never runs *)
(* again, also when it was called while other callbacks of a batch were    *)
(* being run (TimerTest.CancelledTimerNeverFires).  A timer of that batch  *)
(* cannot be cancelled: the call fails.                                    *)
(***************************************************************************)
CancelledNeverFires == cancelled \cap LiveIds = {}

(***************************************************************************)
(* A timer goes away in two ways only: a successful cancelTimer, or, for a *)
(* one-shot timer, the end of its own callback.  In particular a repeating *)
(* timer survives every batch until it is cancelled.                       *)
(***************************************************************************)
NoTimerLost ==
  [][\A t \in LiveTimers :
        t.id \notin LiveIds' =>
          \/ t.id \in cancelled'
          \/ ~t.repeat /\ expired # << >> /\ t = Head(expired)]_vars

(***************************************************************************)
(* Every timer that expires within the bound of the clock is eventually at *)
(* the head of an expired batch, where its callback runs, or is cancelled. *)
(***************************************************************************)
EventuallyRuns ==
  \A id \in 1 .. MaxTimers :
    (\E t \in timers : t.id = id /\ t.expiration <= MaxTime)
      ~> \/ expired # << >> /\ Head(expired).id = id
         \/ id \in cancelled

(***************************************************************************)
(* "Ensure hardware timer waits for the next valid event"                  *)
(* (EventLoop.cc:298): an armed timerfd does not fire before the earliest  *)
(* pending expiration.                                                     *)
(***************************************************************************)
HardwareTimerWaits ==
  pc = "user" /\ deadline # Disarmed =>
    \E t \in timers : IsFirst(t, timers)
                      /\ (t.expiration <= now \/ t.expiration <= deadline)
=============================================================================
