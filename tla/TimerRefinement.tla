-------------------------- MODULE TimerRefinement ---------------------------
(***************************************************************************)
(* TimerQueue implements TimerService: the extracted batch, without the    *)
(* timer whose callback is running, is what the service has committed to.  *)
(***************************************************************************)
EXTENDS TimerQueue

Running == IF pc = "callback" THEN {Head(expired)} ELSE {}

Committed ==
  {expired[i] : i \in (IF pc = "callback" THEN 2 ELSE 1) .. Len(expired)}

Service == INSTANCE TimerService
             WITH scheduled <- timers, committed <- Committed,
                  running <- Running, nextId <- nextTimerId

(***************************************************************************)
(* EventLoop's timers keep the promises of TimerService: what runs, when,  *)
(* in which order, how often, and that every due timer does run.           *)
(***************************************************************************)
ImplementsService == Service!FairServiceSpec
=============================================================================
