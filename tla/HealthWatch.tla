---------------------------- MODULE HealthWatch ----------------------------
(***************************************************************************)
(* The health of one cluster as tms-collector keeps it: HealthWriter over  *)
(* HealthEngine (src/tms/collector/health_writer.py, health/engine.py),    *)
(* driven by the collector's ticks and tuned by an operator's overrides    *)
(* (src/tms/api/services.py).                                              *)
(*                                                                         *)
(* A tick reads the query list; JMX is read on every TicksPerReading-th    *)
(* tick only (15 s against 5 s), and every tick evaluates what is stored.  *)
(* The engine lives in the collector's memory, the rest in the database.   *)
(***************************************************************************)
EXTENDS HealthTests, FiniteSets

CONSTANTS
    Catalogue,       \* the tests of AllTests this instance keeps
    Tunable,         \* the tests an operator switches off and on
    Heaps,           \* what the heap may read, in percent
    KillBursts,      \* how many queries are killed at a time
    MaxKills,        \* bound on the coordinator's kill counter
    TicksPerReading, \* ticks to one JMX reading
    Stabilization,   \* health.stabilization_polls
    MaxHealthFaults  \* bound on failed statements and collector restarts

ASSUME HealthAssumption ==
    /\ Catalogue \subseteq AllTests
    /\ Tunable \subseteq Catalogue
    /\ Heaps \subseteq 0..100
    /\ KillBursts \subseteq Nat
    /\ MaxKills \in Nat
    /\ TicksPerReading \in Nat \ {0}
    /\ Stabilization \in Nat
    /\ MaxHealthFaults \in Nat

VARIABLES
    reading,     \* the jmx snapshot, and whether an input has gone stale
    readFor,     \* ticks the stored JMX reading has been evaluated on
    kills,       \* the coordinator's own kill counter
    disabled,    \* health_test_override: tests switched off
    rollupOn,    \* health_test_override: the roll-up's own switch
    engine,      \* HealthEngine: confirmed, pending, kill counter
    healthRow,   \* the health snapshot's roll-up
    lastEvent,   \* health_event: the state each test's last row leads to
    healthFaults,
    gap          \* history: tests whose events may have a hole since the last

healthVars == <<reading, readFor, kills, disabled, rollupOn, engine, healthRow,
                lastEvent, healthFaults, gap>>

-----------------------------------------------------------------------------
NoPending == [state |-> "none", count |-> 0]
Known == HealthStates \union {"none"}

\* At least one poll, whatever the configuration says.
Polls == Largest(1, Stabilization)

FreshEngine ==
    [confirmed |-> [t \in Catalogue |-> "none"],
     pending |-> [t \in Catalogue |-> NoPending],
     kills |-> Missing]

HealthTypeOK ==
    /\ reading \in [heap : Heaps \union {Missing}, kills : (0..MaxKills) \union {Missing},
                   stale : BOOLEAN]
    /\ readFor \in 0..TicksPerReading
    /\ kills \in 0..MaxKills
    /\ disabled \subseteq Catalogue
    /\ rollupOn \in BOOLEAN
    /\ engine \in [confirmed : [Catalogue -> Known],
                   pending : [Catalogue -> [state : Known, count : 0..Polls]],
                   kills : (0..MaxKills) \union {Missing}]
    /\ healthRow \in Known
    /\ lastEvent \in [Catalogue -> Known]
    /\ healthFaults \in 0..MaxHealthFaults
    /\ gap \subseteq Catalogue

HealthInit ==
    /\ reading = [heap |-> Missing, kills |-> Missing, stale |-> TRUE]
    /\ readFor = TicksPerReading
    /\ kills = 0
    /\ disabled = {}
    /\ rollupOn = TRUE
    /\ engine = FreshEngine
    /\ healthRow = "none"
    /\ lastEvent = [t \in Catalogue |-> "none"]
    /\ healthFaults = 0
    /\ gap = {}

-----------------------------------------------------------------------------
HealthFault == healthFaults < MaxHealthFaults /\ healthFaults' = healthFaults + 1

\* The tests of the instance read the JMX numbers; the other inputs are good.
Context(input, e) ==
    [info |-> "started", queries |-> "trusted", expected |-> 0, cluster |-> "c",
     gateway |-> [read |-> TRUE, list |-> <<[cluster |-> "c", active |-> TRUE]>>],
     jmx |-> [active |-> 1, planned |-> 0, heap |-> input.heap, completed |-> 1,
              failed |-> 0, internal |-> 0, kills |-> input.kills],
     kills |-> e.kills]

\* The counter is carried forward only by an evaluation that ran H-07 and
\* read it.
CarriedKills(e, input, tests) ==
    IF "H-07" \in tests /\ input.kills # Missing THEN input.kills ELSE e.kills

\* A state seen for the first time starts a streak of one, whatever the
\* number of polls required; only the same state again lengthens it.
Pend(p, s) ==
    IF p.state # s THEN [state |-> s, count |-> 1]
    ELSE [state |-> s, count |-> p.count + 1]

Confirms(p, s) == p.state = s /\ p.count + 1 >= Polls

\* confirm_transitions, the states: a test that is off keeps both its
\* confirmed state and its streak.
Confirmed(e, results) ==
    [t \in Catalogue |->
        IF t \in DOMAIN results /\ results[t] # e.confirmed[t]
           /\ Confirms(e.pending[t], results[t])
        THEN results[t] ELSE e.confirmed[t]]

Pending(e, results) ==
    [t \in Catalogue |->
        IF t \notin DOMAIN results THEN e.pending[t]
        ELSE IF results[t] = e.confirmed[t] \/ Confirms(e.pending[t], results[t])
        THEN NoPending
        ELSE Pend(e.pending[t], results[t])]

\* Mutated form of Transitions: an event for a verdict nothing confirmed yet.
TransitionsAtOnce(e, results) ==
    {t \in DOMAIN results : e.confirmed[t] # "none" /\ results[t] # e.confirmed[t]}

\* The first state confirmed is a baseline and makes no event.
Transitions(e, results) ==
    {t \in DOMAIN results : /\ e.confirmed[t] # "none"
                            /\ Confirmed(e, results)[t] # e.confirmed[t]}

\* load_health_overrides: a test without a row is on; "*" is the roll-up.
LoadedOverrides == [off |-> disabled, rollup |-> rollupOn]

\* Overrides that cannot be loaded are none: every test runs, roll-up and all.
Overrides(loaded) == IF loaded THEN LoadedOverrides ELSE [off |-> {}, rollup |-> TRUE]

\* record_health_events: one INSERT after another, each committed by itself.
RecordEvents(moved, results, written) ==
    /\ lastEvent' = [t \in Catalogue |-> IF t \in written THEN results[t] ELSE lastEvent[t]]
    /\ gap' = (gap \ written) \union (moved \ written)

\* HealthWriter.evaluate.  An INSERT that fails loses the rest of the events
\* for good, since the engine has already moved on.
Evaluate(input, overrides) ==
    LET tests == ActiveTests(Catalogue, overrides.off, TRUE)
        results == Results(tests, Context(input, engine), input.stale)
        moved == Transitions(engine, results)
    IN /\ engine' = [confirmed |-> Confirmed(engine, results),
                     pending |-> Pending(engine, results),
                     kills |-> CarriedKills(engine, input, tests)]
       /\ \E written \in SUBSET moved, saved \in BOOLEAN :
             /\ RecordEvents(moved, results, written)
             /\ healthRow' = IF saved THEN RollUp(results, overrides.rollup) ELSE healthRow
             /\ IF overrides = LoadedOverrides /\ written = moved /\ saved /\ ~input.stale
                THEN UNCHANGED healthFaults
                ELSE HealthFault

\* What a tick finds stored.  Most ticks do not read JMX; one that does may
\* fail, and stores an empty reading.  A reading that could not be replaced in
\* stale_threshold_seconds is stale.
Inputs ==
    IF readFor < TicksPerReading
    THEN [heap : {reading.heap}, kills : {reading.kills}, stale : BOOLEAN]
    ELSE [heap : Heaps, kills : {kills}, stale : {FALSE}]
         \union [heap : {Missing}, kills : {Missing}, stale : {FALSE}]

\* A tick of the collector, once something was polled.
Tick ==
    /\ \E input \in Inputs, loaded \in BOOLEAN :
          /\ reading' = input
          /\ Evaluate(input, Overrides(loaded))
    /\ readFor' = IF readFor < TicksPerReading THEN readFor + 1 ELSE 1
    /\ UNCHANGED <<kills, disabled, rollupOn>>

\* The collector restarts: the engine's memory is gone, the rows stay.
CollectorRestarts ==
    /\ HealthFault
    /\ engine' = FreshEngine
    /\ gap' = Catalogue
    /\ readFor' = TicksPerReading
    /\ UNCHANGED <<reading, kills, disabled, rollupOn, healthRow, lastEvent>>

-----------------------------------------------------------------------------
(* Around the collector.                                                   *)

\* Queries are killed; the coordinator restarts and counts from zero.
Kill(n) ==
    /\ kills + n <= MaxKills
    /\ kills' = kills + n
    /\ UNCHANGED <<reading, readFor, disabled, rollupOn, engine, healthRow, lastEvent,
                   healthFaults, gap>>

CounterResets ==
    /\ kills # 0
    /\ kills' = 0
    /\ UNCHANGED <<reading, readFor, disabled, rollupOn, engine, healthRow, lastEvent,
                   healthFaults, gap>>

\* save_health_override: an upsert that leaves the half it is not given alone.
SaveOverride(t, enabled) ==
    disabled' = IF enabled THEN disabled \ {t} ELSE disabled \union {t}

\* update_health_test, by an operator.
UpdateHealthTest(t) ==
    /\ \E enabled \in BOOLEAN : SaveOverride(t, enabled)
    /\ UNCHANGED <<reading, readFor, kills, rollupOn, engine, healthRow, lastEvent,
                   healthFaults, gap>>

\* update_health_rollup.
UpdateHealthRollup ==
    /\ rollupOn' = ~rollupOn
    /\ UNCHANGED <<reading, readFor, kills, disabled, engine, healthRow, lastEvent,
                   healthFaults, gap>>

HealthNext ==
    \/ Tick \/ CollectorRestarts
    \/ \E n \in KillBursts : Kill(n)
    \/ CounterResets
    \/ \E t \in Tunable : UpdateHealthTest(t)
    \/ UpdateHealthRollup

HealthSpec == HealthInit /\ [][HealthNext]_healthVars

-----------------------------------------------------------------------------
(* Properties.                                                             *)

\* A burst of killed queries never becomes a confirmed state, whatever the
\* counter does and whoever restarts, as long as a JMX reading is evaluated
\* twice and H-07 is not switched off in between: the evaluation after the one
\* that saw it has the counter as its baseline, and a streak of two is never
\* reached (evaluate's kill counter against confirm_transitions; one JMX reading
\* is compared with itself on the ticks in between).
KillsStayUnreported ==
    "H-07" \in Catalogue \ Tunable /\ Stabilization >= 2 /\ TicksPerReading >= 2
        => engine.confirmed["H-07"] \notin {"CONCERNING", "BAD"}

\* The event list is a chain: unless an insert was lost or the collector
\* restarted in between, each event of a test starts from the state the one
\* before it led to, through overrides and missing readings
\* (HealthWriter.evaluate over confirm_transitions).
EventsChain ==
    [][\A t \in Catalogue :
          lastEvent'[t] # lastEvent[t] /\ t \notin gap /\ lastEvent[t] # "none"
              => engine.confirmed[t] = lastEvent[t]]_healthVars

\* The roll-up a restart waits for turns GOOD only on readings that are fresh
\* and present; a reading that is missing or has aged never reads as health
\* (evaluate, worst, the severity of UNKNOWN).
GoodIsEarned ==
    [][healthRow' = "GOOD" /\ healthRow # "GOOD" =>
          /\ ~reading'.stale
          /\ reading'.kills # Missing \/ "H-07" \notin Catalogue \ disabled
          /\ reading'.heap \in 0..79 \/ "H-04" \notin Catalogue \ disabled]_healthVars

\* What the health page shows can be accounted for: the event list is a chain,
\* the roll-up turns GOOD on fresh readings only, and a burst of kills is never
\* confirmed (HealthWriter.evaluate).
HealthAccounted == EventsChain /\ GoodIsEarned /\ [][KillsStayUnreported']_healthVars
=============================================================================
