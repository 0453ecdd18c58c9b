---------------------------- MODULE MCEventLoop -----------------------------
(***************************************************************************)
(* Instances of EventLoop for TLC, and the mapping to TaskQueue: what the  *)
(* queue holds is the rest of the vector being run and, behind it, what    *)
(* has been submitted since the swap.                                      *)
(***************************************************************************)
EXTENDS EventLoop

CONSTANTS f0, f1, s1, n1, n2, timerTag, h1, a, b, none, freed

MCTimeouts == {-1, 0}

Queue == INSTANCE TaskQueue WITH queue <- tasks \o pendingTasks

(***************************************************************************)
(* The deferred tasks of EventLoop form a first-in first-out queue: the    *)
(* swap into a local vector loses, repeats and reorders nothing, and every *)
(* task runs although runOnce may be called without a timeout.             *)
(***************************************************************************)
TasksAreFifo == Queue!QueueSpec
=============================================================================
