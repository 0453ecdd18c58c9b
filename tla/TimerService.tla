---------------------------- MODULE TimerService ----------------------------
(***************************************************************************)
(* What EventLoop's timers promise to the code that uses them, without the *)
(* timerfd, the cancellation index and the control flow of                 *)
(* handleTimerRead.  A timer is scheduled, then committed to run (it can   *)
(* no longer be cancelled), then running.  One timer runs at a time, never *)
(* before it is due, and never before an earlier one that is due.          *)
(***************************************************************************)
EXTENDS Integers

CONSTANTS Delays, Intervals, Callbacks, StartTimes, MaxTime, MaxTimers

VARIABLES
  now,        \* the clock
  scheduled,  \* timers that wait for their time, and can be cancelled
  committed,  \* timers that are due and will run
  running,    \* the timer whose callback runs, if any
  nextId      \* ids are handed out in increasing order

svars == <<now, scheduled, committed, running, nextId>>

Earlier(t, u) ==
  \/ t.expiration < u.expiration
  \/ t.expiration = u.expiration /\ t.id < u.id

ServiceInit ==
  /\ now \in StartTimes
  /\ scheduled = {}
  /\ committed = {}
  /\ running = {}
  /\ nextId = 1

Advance ==
  /\ now < MaxTime
  /\ now' = now + 1
  /\ UNCHANGED <<scheduled, committed, running, nextId>>

Add(delay, interval, cb, repeat) ==
  /\ nextId <= MaxTimers
  /\ scheduled' = scheduled \cup
       {[expiration |-> now + delay, interval |-> interval, callback |-> cb,
         id |-> nextId, repeat |-> repeat]}
  /\ nextId' = nextId + 1
  /\ UNCHANGED <<now, committed, running>>

Cancel(t) ==
  /\ scheduled' = scheduled \ {t}
  /\ UNCHANGED <<now, committed, running, nextId>>

\* A due timer is chosen to run; a batch being run is not added to.
Commit(t) ==
  /\ running = {}
  /\ t.expiration <= now
  /\ scheduled' = scheduled \ {t}
  /\ committed' = committed \cup {t}
  /\ UNCHANGED <<now, running, nextId>>

\* The turn of t: nothing due before it is left to run.
Turn(t) ==
  /\ running = {}
  /\ \A u \in committed : u = t \/ Earlier(t, u)
  /\ \A u \in scheduled : u.repeat \/ Earlier(t, u)

Start(t) ==
  /\ Turn(t)
  /\ t.callback
  /\ committed' = committed \ {t}
  /\ running' = {t}
  /\ UNCHANGED <<now, scheduled, nextId>>

\* The next occurrence of t: one interval after the time it was due.
NextOccurrence(t) ==
  IF t.repeat THEN {[t EXCEPT !.expiration = t.expiration + t.interval]} ELSE {}

Finish(t) ==
  /\ running' = {}
  /\ scheduled' = scheduled \cup NextOccurrence(t)
  /\ UNCHANGED <<now, committed, nextId>>

\* A timer without a callback takes its turn without running.
Skip(t) ==
  /\ Turn(t)
  /\ ~t.callback
  /\ committed' = committed \ {t}
  /\ scheduled' = scheduled \cup NextOccurrence(t)
  /\ UNCHANGED <<now, running, nextId>>

Serve ==
  \/ \E t \in committed : Start(t) \/ Skip(t)
  \/ \E t \in running : Finish(t)

CommitId(i) == \E t \in scheduled : t.id = i /\ Commit(t)

ServiceNext ==
  \/ Advance
  \/ \E d \in Delays, cb \in Callbacks : d >= 0 /\ Add(d, 0, cb, FALSE)
  \/ \E d \in Intervals, cb \in Callbacks : d > 0 /\ Add(d, d, cb, TRUE)
  \/ \E t \in scheduled : Cancel(t) \/ Commit(t)
  \/ Serve

ServiceSpec == ServiceInit /\ [][ServiceNext]_svars

\* Every due timer is committed, and every committed timer is served.
ServiceFairness ==
  /\ WF_svars(Serve)
  /\ \A i \in 1 .. MaxTimers : WF_svars(CommitId(i))

FairServiceSpec == ServiceSpec /\ ServiceFairness
=============================================================================
