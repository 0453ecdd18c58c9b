----------------------------- MODULE TaskQueue ------------------------------
(***************************************************************************)
(* What runInLoop promises: every function submitted runs exactly once,    *)
(* one at a time, in the order of submission, and runs eventually.         *)
(***************************************************************************)
EXTENDS Sequences

CONSTANT Tasks

VARIABLES
  queue,    \* tasks submitted and not started
  running   \* the task being run, as a sequence of length 0 or 1

qvars == <<queue, running>>

QueueInit == queue = << >> /\ running = << >>

Submit(t) == queue' = Append(queue, t) /\ UNCHANGED running

Start ==
  /\ running = << >>
  /\ queue # << >>
  /\ running' = <<Head(queue)>>
  /\ queue' = Tail(queue)

Finish ==
  /\ running # << >>
  /\ running' = << >>
  /\ UNCHANGED queue

QueueNext == (\E t \in Tasks : Submit(t)) \/ Start \/ Finish

FifoSpec == QueueInit /\ [][QueueNext]_qvars

QueueSpec == FifoSpec /\ WF_qvars(Start) /\ WF_qvars(Finish)
=============================================================================
