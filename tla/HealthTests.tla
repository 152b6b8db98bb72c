---------------------------- MODULE HealthTests ----------------------------
(***************************************************************************)
(* The health catalogue of src/tms/health/tests.py, the roll-up of         *)
(* states.py and the evaluation of engine.py, as functions of what the     *)
(* collector stored.  They keep nothing: the engine's memory is in         *)
(* HealthWatch.                                                            *)
(*                                                                         *)
(* A context is a record                                                   *)
(*   info      what /v1/info last said                                     *)
(*   jmx       the numbers of the MBeans, each may be Missing              *)
(*   queries   the query snapshot: none, trusted or not                    *)
(*   gateway   the Gateway's list as joined to clusters, if it was read    *)
(*   cluster   the cluster evaluated                                       *)
(*   expected  the workers the configuration promises                      *)
(*   kills     the kill counter of the evaluation before, or Missing       *)
(* Texts, observed values and advice are left out.                         *)
(***************************************************************************)
EXTENDS Integers, Sequences

Missing == -1

HealthStates == {"GOOD", "UNKNOWN", "CONCERNING", "BAD"}
AllTests == {"H-01", "H-02", "H-03", "H-04", "H-05", "H-06", "H-07", "H-08", "H-09"}
GatewayTests == {"H-08"}

\* The default of each threshold the configuration may override.
MissingWorkersPctBad == 20
HeapPct == [concerning |-> 80, bad |-> 90]
FailurePct == [concerning |-> 5, bad |-> 20]
InternalCount == [concerning |-> 1, bad |-> 5]
KillCount == [concerning |-> 1, bad |-> 3]

Largest(a, b) == IF a > b THEN a ELSE b

\* Reached at the threshold itself, not past it.
Grade(value, limit) ==
    IF value >= limit.bad THEN "BAD"
    ELSE IF value >= limit.concerning THEN "CONCERNING" ELSE "GOOD"

-----------------------------------------------------------------------------
\* A coordinator that does not answer is the one thing H-01 calls BAD.
CoordinatorResponsive(info) ==
    IF info = "none" THEN "UNKNOWN" ELSE IF info = "failed" THEN "BAD" ELSE "GOOD"

\* "odd" is an answer without the `starting` field.
StartupComplete(info) ==
    CASE info = "started" -> "GOOD"
      [] info = "starting" -> "CONCERNING"
      [] OTHER -> "UNKNOWN"

\* ActiveNodeCount counts the coordinator; a planned absence is none.
UnplannedMissing(active, planned, expected) ==
    Largest(0, expected - (active - 1) - planned)

\* One worker is BAD already when a fifth of the fleet is below two workers.
WorkerRegistration(jmx, expected) ==
    LET missing == UnplannedMissing(jmx.active, Largest(0, jmx.planned), expected)
    IN IF jmx.active = Missing THEN "UNKNOWN"
       ELSE IF missing = 0 THEN "GOOD"
       ELSE IF missing >= Largest(1, (expected * MissingWorkersPctBad) \div 100) THEN "BAD"
       ELSE "CONCERNING"

HeapUsage(jmx) == IF jmx.heap = Missing THEN "UNKNOWN" ELSE Grade(jmx.heap, HeapPct)

\* The share of the queries completed in five minutes that failed.
FailureRate(jmx) ==
    IF Missing \in {jmx.failed, jmx.completed} \/ jmx.completed = 0 THEN "UNKNOWN"
    ELSE Grade((100 * jmx.failed) \div jmx.completed, FailurePct)

InternalFailures(jmx) ==
    IF jmx.internal = Missing THEN "UNKNOWN" ELSE Grade(jmx.internal, InternalCount)

\* Mutated form of OomKills: the total is judged in place of what was added.
OomKillsTotal(jmx, before) ==
    IF jmx.kills = Missing THEN "UNKNOWN"
    ELSE IF before = Missing THEN "GOOD"
    ELSE Grade(jmx.kills, KillCount)

\* A cumulative counter, judged on what it gained since the last evaluation.
\* The first sight of it is a baseline, and a counter that fell was reset.
OomKills(jmx, before) ==
    IF jmx.kills = Missing THEN "UNKNOWN"
    ELSE IF before = Missing THEN "GOOD"
    ELSE Grade(Largest(0, jmx.kills - before), KillCount)

\* The first backend joined to the cluster decides.
GatewayRegistration(gateway, cluster) ==
    IF ~gateway.read THEN "UNKNOWN"
    ELSE LET mine == {i \in DOMAIN gateway.list : gateway.list[i].cluster = cluster}
             first == CHOOSE i \in mine : \A j \in mine : i <= j
         IN IF mine = {} THEN "BAD"
            ELSE IF gateway.list[first].active THEN "GOOD" ELSE "CONCERNING"

\* An untrusted list is UNKNOWN whatever made it so.
PermissionSelfCheck(queries) == IF queries = "trusted" THEN "GOOD" ELSE "UNKNOWN"

Verdict(test, ctx) ==
    CASE test = "H-01" -> CoordinatorResponsive(ctx.info)
      [] test = "H-02" -> StartupComplete(ctx.info)
      [] test = "H-03" -> WorkerRegistration(ctx.jmx, ctx.expected)
      [] test = "H-04" -> HeapUsage(ctx.jmx)
      [] test = "H-05" -> FailureRate(ctx.jmx)
      [] test = "H-06" -> InternalFailures(ctx.jmx)
      [] test = "H-07" -> OomKills(ctx.jmx, ctx.kills)
      [] test = "H-08" -> GatewayRegistration(ctx.gateway, ctx.cluster)
      [] test = "H-09" -> PermissionSelfCheck(ctx.queries)

-----------------------------------------------------------------------------
\* active_test_ids: the Gateway's test is not in the catalogue without it.
ActiveTests(catalogue, disabled, gatewayEnabled) ==
    (catalogue \ disabled) \ (IF gatewayEnabled THEN {} ELSE GatewayTests)

Severity(state) ==
    CASE state = "GOOD" -> 0
      [] state = "UNKNOWN" -> 1
      [] state = "CONCERNING" -> 2
      [] state = "BAD" -> 3

\* The worst state, and UNKNOWN of no tests at all.
Worst(states) ==
    IF states = {} THEN "UNKNOWN"
    ELSE CHOOSE s \in states : \A t \in states : Severity(t) <= Severity(s)

\* Mutated form of Results: the readings are judged whatever their age.
ResultsAnyAge(tests, ctx, stale) == [t \in tests |-> Verdict(t, ctx)]

\* evaluate: a stale input makes every verdict UNKNOWN.
Results(tests, ctx, stale) ==
    [t \in tests |-> IF stale THEN "UNKNOWN" ELSE Verdict(t, ctx)]

RollUp(results, enabled) ==
    IF enabled THEN Worst({results[t] : t \in DOMAIN results}) ELSE "UNKNOWN"
=============================================================================
