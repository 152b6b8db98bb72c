-------------------------- MODULE RestartSequence --------------------------
(***************************************************************************)
(* The in-memory restart sequence of src/tms/ops/sequence.py: the object a *)
(* request loads, feeds observations to, asks for a transition and saves.  *)
(* The class does no I/O, so it is a set of functions on records here; the *)
(* requests that call them are in RestartService.                          *)
(*                                                                         *)
(* The history list is left out: no transition reads it.                   *)
(***************************************************************************)
EXTENDS Integers

\* None, for a running-query count that TMS has not been told.
NoCount == -1

Terminal == {"COMPLETED", "ABORTED"}
InFlight == {"PENDING", "DRAINING", "DRAINED", "RESTARTING", "VERIFYING", "ABORTING"}
States == InFlight \union Terminal

\* The states a cluster is in between being taken out of rotation and being
\* restarted, the ones from which the restart itself is reached.
Exposed == {"DRAINING", "DRAINED", "RESTARTING"}

HealthSeen == {"GOOD", "BAD", "none"}
StoreSeen == {"ready", "broken", "none"}

Sequences(Counts) ==
    [state : States, running : Counts, health : HealthSeen, store : StoreSeen]

NewSequence ==
    [state |-> "PENDING", running |-> NoCount, health |-> "none", store |-> "none"]

Begin(s) == [s EXCEPT !.state = "DRAINING"]

\* observe: a count of zero is what turns a drain into a drained cluster.
Observe(s, n, h) ==
    [s EXCEPT !.running = n,
              !.health = IF h = "none" THEN s.health ELSE h,
              !.state = IF s.state = "DRAINING" /\ n = 0 THEN "DRAINED" ELSE s.state]

ObserveConfigStore(s, answer) == [s EXCEPT !.store = answer]

\* Mutated form of DrainConfirmed: the state is not required.
DrainConfirmedAnywhere(s) == s.running = 0

\* confirm_drained: refuses a count TMS has not seen as well as a positive one.
DrainConfirmed(s) == s.state \in {"DRAINING", "DRAINED"} /\ s.running = 0

MayForce(s) == s.state \in {"DRAINING", "DRAINED"}
ForceDrained(s) == [s EXCEPT !.state = "DRAINED"]

\* mark_restarting: "broken" blocks, an unanswered probe does not.
WouldStartAgain(s) == s.store # "broken"
MarkRestarting(s) == [s EXCEPT !.state = "RESTARTING"]

MayMarkRestarted(s) == s.state = "RESTARTING"
MarkRestarted(s) == [s EXCEPT !.state = "VERIFYING"]

\* confirm_healthy, and the identical check complete repeats.
HealthConfirmed(s) == s.state = "VERIFYING" /\ s.health = "GOOD"
Complete(s) == [s EXCEPT !.state = "COMPLETED"]

\* Mutated form of MayAbort: an abort that failed half way cannot be repeated.
MayAbortOnce(s) == s.state \notin Terminal \union {"ABORTING"}

\* Mutated form of MayAbort: a finished sequence can be aborted again.
MayAbortAlways(s) == s.state \in States

MayAbort(s) == s.state \notin Terminal
BeginAbort(s) == [s EXCEPT !.state = "ABORTING"]
FinishAbort(s) == [s EXCEPT !.state = "ABORTED"]
=============================================================================
