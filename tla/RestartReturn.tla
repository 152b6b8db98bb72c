--------------------------- MODULE RestartReturn ---------------------------
(***************************************************************************)
(* One safe restart of a healthy cluster, with the health verdict the last *)
(* gate waits for computed as the collector computes it: RestartSequence   *)
(* composed with HealthTests over the snapshots between them.              *)
(*                                                                         *)
(* RestartService takes any health report.  Here a report is what the nine *)
(* tests make of a cluster that is out of rotation: H-08 reads the list of *)
(* backends the restart itself changed, and H-05 the queries completed in  *)
(* the last five minutes, of which a cluster without traffic soon has      *)
(* none.  One operator works alone, calls do not fail, each poll of the    *)
(* collector is a step.                                                    *)
(***************************************************************************)
EXTENDS RestartSequence, HealthTests

CONSTANTS
    ReturnQueries, \* bound on the queries running
    Excusable      \* the tests an operator may switch off

ASSUME ReturnAssumption ==
    /\ ReturnQueries \in Nat
    /\ Excusable \subseteq AllTests

VARIABLES
    restart,     \* the sequence, as last saved
    routed,      \* the Gateway's own record: the backend is active
    running,     \* queries running on the cluster
    finished,    \* whether a query finished in the last five minutes
    excused,     \* health_test_override: tests switched off
    gatewaySnap, \* the snapshots the collector stores
    jmxSnap,
    querySnap,
    rollupSnap,
    dated        \* history: the snapshots that date from before the restart,
                 \* and the tests the last verdict left out

returnVars == <<restart, routed, running, finished, excused, gatewaySnap, jmxSnap,
                querySnap, rollupSnap, dated>>

-----------------------------------------------------------------------------
Routing(active) == [read |-> TRUE, list |-> <<[cluster |-> "c", active |-> active]>>]

Beans(some) ==
    [active |-> 1, planned |-> 0, heap |-> 0, completed |-> some, failed |-> 0,
     internal |-> 0, kills |-> 0]

ReturnTypeOK ==
    /\ restart \in Sequences({NoCount} \union 0..ReturnQueries)
    /\ routed \in BOOLEAN
    /\ running \in 0..ReturnQueries
    /\ finished \in {0, 1}
    /\ excused \subseteq Excusable
    /\ gatewaySnap \in BOOLEAN
    /\ jmxSnap \in {0, 1}
    /\ querySnap \in 0..ReturnQueries
    /\ rollupSnap \in HealthStates
    /\ dated \in [routing : BOOLEAN, rollup : BOOLEAN, excused : SUBSET Excusable]

\* The cluster has been in service, and every poll has seen it.
ReturnInit ==
    /\ restart = NewSequence
    /\ routed = TRUE
    /\ running = 0
    /\ finished = 1
    /\ excused = {}
    /\ gatewaySnap = TRUE
    /\ jmxSnap = 1
    /\ querySnap = 0
    /\ rollupSnap = "GOOD"
    /\ dated = [routing |-> FALSE, rollup |-> FALSE, excused |-> {}]

-----------------------------------------------------------------------------
(* The operator and the live view.                                         *)

\* _observe, on the last query and health snapshots.
Observed(s) == Observe(s, querySnap, IF rollupSnap = "GOOD" THEN "GOOD" ELSE "BAD")

Operator(s, active) ==
    /\ restart' = s
    /\ routed' = active
    /\ UNCHANGED <<running, finished, excused, gatewaySnap, jmxSnap, querySnap, rollupSnap>>

\* start: deactivate, drain, observe.
BeginReturn ==
    /\ restart.state = "PENDING"
    /\ Operator(Observed(Begin(restart)), FALSE)
    /\ dated' = [dated EXCEPT !.routing = TRUE, !.rollup = TRUE]

RefreshReturn ==
    /\ restart.state \in InFlight \ {"PENDING"}
    /\ Observed(restart) # restart
    /\ Operator(Observed(restart), routed)
    /\ UNCHANGED dated

\* restart, carried out by the operator, who then presses "Done".
RestartReturned ==
    /\ DrainConfirmed(Observed(restart))
    /\ restart' = Observed(MarkRestarted(MarkRestarting(Observed(restart))))
    /\ running' = 0
    /\ UNCHANGED <<routed, finished, excused, gatewaySnap, jmxSnap, querySnap, rollupSnap, dated>>

\* complete: reads the collector's last verdict, and demands GOOD of it.
MayReturn(s) == HealthConfirmed(Observed(s))

CompleteReturn ==
    /\ MayReturn(restart)
    /\ Operator(Complete(Observed(restart)), TRUE)
    /\ UNCHANGED dated

AbortReturn ==
    /\ MayAbort(restart)
    /\ restart.state # "PENDING"
    /\ Operator(FinishAbort(BeginAbort(restart)), TRUE)
    /\ UNCHANGED dated

ExcuseTest(t) ==
    /\ excused' = IF t \in excused THEN excused \ {t} ELSE excused \union {t}
    /\ UNCHANGED <<restart, routed, running, finished, gatewaySnap, jmxSnap, querySnap,
                   rollupSnap, dated>>

-----------------------------------------------------------------------------
(* The cluster.                                                            *)

QueryRuns ==
    /\ routed
    /\ running < ReturnQueries
    /\ running' = running + 1
    /\ UNCHANGED <<restart, routed, finished, excused, gatewaySnap, jmxSnap, querySnap,
                   rollupSnap, dated>>

QueryFinishes ==
    /\ running > 0
    /\ running' = running - 1
    /\ finished' = 1
    /\ UNCHANGED <<restart, routed, excused, gatewaySnap, jmxSnap, querySnap, rollupSnap, dated>>

\* Five minutes without a query finishing, or a coordinator that starts again.
WindowEmpties ==
    /\ running = 0
    /\ finished = 1
    /\ finished' = 0
    /\ UNCHANGED <<restart, routed, running, excused, gatewaySnap, jmxSnap, querySnap,
                   rollupSnap, dated>>

-----------------------------------------------------------------------------
(* The collector.                                                          *)

PollRouting ==
    /\ gatewaySnap' = routed
    /\ dated' = [dated EXCEPT !.routing = FALSE]
    /\ UNCHANGED <<restart, routed, running, finished, excused, jmxSnap, querySnap,
                   rollupSnap>>

PollLoad ==
    /\ jmxSnap' = finished
    /\ querySnap' = running
    /\ UNCHANGED <<restart, routed, running, finished, excused, gatewaySnap, rollupSnap, dated>>

\* Mutated form of RolledUp: a test switched off is run all the same.
RolledUpAll(off) ==
    RollUp(Results(ActiveTests(AllTests, {}, TRUE),
                   [info |-> "started", jmx |-> Beans(jmxSnap), queries |-> "trusted",
                    gateway |-> Routing(gatewaySnap), cluster |-> "c", expected |-> 0,
                    kills |-> 0], FALSE), TRUE)

\* The verdict on a cluster whose snapshots are all fresh and all well, but
\* for what the restart does to it.
RolledUp(off) ==
    RollUp(Results(ActiveTests(AllTests, off, TRUE),
                   [info |-> "started", jmx |-> Beans(jmxSnap), queries |-> "trusted",
                    gateway |-> Routing(gatewaySnap), cluster |-> "c", expected |-> 0,
                    kills |-> 0], FALSE), TRUE)

EvaluateReturn ==
    /\ rollupSnap' = RolledUp(excused)
    /\ dated' = [dated EXCEPT !.rollup = dated.routing, !.excused = excused]
    /\ UNCHANGED <<restart, routed, running, finished, excused, gatewaySnap, jmxSnap,
                   querySnap>>

Collecting == PollRouting \/ PollLoad \/ EvaluateReturn

ReturnNext ==
    \/ BeginReturn \/ RefreshReturn \/ RestartReturned \/ CompleteReturn \/ AbortReturn
    \/ \E t \in Excusable : ExcuseTest(t)
    \/ QueryRuns \/ QueryFinishes \/ WindowEmpties
    \/ Collecting

\* The collector polls on its schedule; an operator who has verified the
\* cluster keeps pressing complete.
ReturnFairness ==
    /\ WF_returnVars(PollRouting)
    /\ WF_returnVars(PollLoad)
    /\ WF_returnVars(EvaluateReturn)
    /\ SF_returnVars(CompleteReturn)

ReturnSpec == ReturnInit /\ [][ReturnNext]_returnVars /\ ReturnFairness

-----------------------------------------------------------------------------
(* Properties.                                                             *)

\* What the sources say: "traffic does not come back until health does", and a
\* step that depends on the cluster re-reads it, since what was cached is no
\* evidence.  So the verdict that gives traffic back is younger than the first
\* step of the restart.  complete reads the verdict that is stored, of any age.
HealthIsSeenAgain ==
    [][restart.state = "VERIFYING" /\ restart'.state = "COMPLETED" => ~dated.rollup]_returnVars

\* The way through: with both tests that see the restart switched off for
\* good, a verified restart gives its traffic back (engine.active_test_ids,
\* service.complete).
ExcusedRestartCompletes ==
    <>[](excused = Excusable) =>
        (restart.state = "VERIFYING" ~> restart.state \in Terminal /\ routed)
=============================================================================
