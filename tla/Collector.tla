----------------------------- MODULE Collector ------------------------------
(***************************************************************************)
(* What tms-collector does, in one specification: the process and its lock *)
(* (CollectorLoop), the polls of one coordinator through its breaker       *)
(* (Polling), the verdicts drawn from what was polled (HealthWatch), and   *)
(* what all of it means for an operator who waits to complete a restart    *)
(* (RestartReturn).                                                        *)
(*                                                                         *)
(* The modules meet only in snapshots, and each of them takes the          *)
(* snapshots of another as anything that one may leave there, at any age.  *)
(* Their interleavings therefore show nothing that one of them alone does  *)
(* not, and a behaviour here is a behaviour of one part while the others   *)
(* rest: the states of the parts add up instead of multiplying.            *)
(***************************************************************************)
EXTENDS HealthWatch, RestartReturn, Polling, CollectorLoop

VARIABLE part  \* the part that works

collectorVars == <<part, healthVars, returnVars, pollVars, loopVars>>

Parts == {"health", "return", "polling", "loop"}

CollectorInit ==
    /\ part \in Parts
    /\ HealthInit /\ ReturnInit /\ PollInit /\ LoopInit

-----------------------------------------------------------------------------
\* The parts other than p rest.
Rest(p) ==
    /\ IF p = "health" THEN TRUE ELSE UNCHANGED healthVars
    /\ IF p = "return" THEN TRUE ELSE UNCHANGED returnVars
    /\ IF p = "polling" THEN TRUE ELSE UNCHANGED pollVars
    /\ IF p = "loop" THEN TRUE ELSE UNCHANGED loopVars
    /\ UNCHANGED part

CollectorNext ==
    \/ part = "health" /\ HealthNext /\ Rest("health")
    \/ part = "return" /\ ReturnNext /\ Rest("return")
    \/ part = "polling" /\ PollNext /\ Rest("polling")
    \/ part = "loop" /\ LoopNext /\ Rest("loop")

\* The fairness of the parts: a collector that was started runs, its snapshots
\* are taken, and an operator keeps pressing complete.
CollectorFairness ==
    /\ WF_returnVars(part = "return" /\ PollRouting)
    /\ WF_returnVars(part = "return" /\ PollLoad)
    /\ WF_returnVars(part = "return" /\ EvaluateReturn)
    /\ SF_returnVars(part = "return" /\ CompleteReturn)
    /\ WF_pollVars(part = "polling" /\ PollerRuns)
    /\ \A p \in Collectors : WF_loopVars(part = "loop" /\ Runs(p))

CollectorSpec == CollectorInit /\ [][CollectorNext]_collectorVars /\ CollectorFairness

-----------------------------------------------------------------------------
(* Properties.  Those of a part are in its module; one that a part at rest *)
(* need not have is asked of the part at work only.                        *)

\* Every variable of the part at work has a value the code could give it; one
\* at rest keeps a value of its initial states.
CollectorTypeOK ==
    /\ part \in Parts
    /\ part = "health" => HealthTypeOK
    /\ part = "return" => ReturnTypeOK
    /\ part = "polling" => PollTypeOK
    /\ part = "loop" => LoopTypeOK

\* The breaker keeps nobody in the dark who need not be: a permanent failure
\* does not open it, and after its cooldown the coordinator is seen again
\* (record_failure, allows_request).  Only a poller at work sees anything.
BreakerServes == [][DeniedIsNotDown']_pollVars /\ (part = "polling" => SightReturns)
=============================================================================
