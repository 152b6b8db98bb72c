------------------------------ MODULE JobRuns ------------------------------
(***************************************************************************)
(* Work that outlives the request that started it: fleet jobs              *)
(* (src/tms/fleet/jobs.py, a playbook) and benchmark runs                  *)
(* (src/tms/bench/runner.py, a query set), and the schedules that start    *)
(* benchmark runs with nobody present (src/tms/bench/service.py).          *)
(*                                                                         *)
(* A run is a row and a thread.  The row is inserted before the thread     *)
(* exists and updated by its last step; a partial unique index on the      *)
(* RUNNING rows is all that keeps two runs off one cluster.  A failed      *)
(* update is logged and forgotten, and a restart of tms-api ends every     *)
(* thread and reconciles the rows they leave behind.                       *)
(***************************************************************************)
EXTENDS Integers, FiniteSets

CONSTANTS
    Jobs,          \* ids of fleet_job_run rows, a bound on the jobs started
    Benchmarks,    \* ids of benchmark_run rows, likewise
    Schedules,     \* ids of benchmark_schedule rows
    Clusters,
    MaxQueries,    \* bound on the executions of a run (repetitions x queries)
    FailureLimit,  \* scheduling.FAILURE_LIMIT
    MaxFaults,     \* bound on failed statements and restarts of tms-api
    None           \* a row not made yet, or no schedule being fired

ASSUME ConstantsAssumption ==
    /\ Jobs \intersect Benchmarks = {}
    /\ None \notin Schedules
    /\ None \notin [cluster : Clusters, state : {"RUNNING"}]
    /\ MaxQueries \in Nat
    /\ MaxFaults \in Nat
    /\ FailureLimit \in Nat \ {0}

VARIABLES
    row,       \* the fleet_job_run and benchmark_run rows
    thread,    \* the thread of each run: the request's up to the launch
    aborting,  \* the benchmark runner's _aborting
    setHere,   \* the query set the schedules name is in the store
    schedule,  \* the benchmark_schedule rows
    tick,      \* the ticker thread: the turns it has claimed and is taking
    faults,
    lost,      \* history: runs and schedules a statement about has failed
    streak     \* history: turns of each schedule that broke, in a row

vars == <<row, thread, aborting, setHere, schedule, tick, faults, lost, streak>>
runVars == <<row, thread, aborting>>
scheduleVars == <<schedule, tick, streak>>

-----------------------------------------------------------------------------
Runs == Jobs \union Benchmarks
Kind(i) == IF i \in Jobs THEN Jobs ELSE Benchmarks
Verdicts == {"SUCCEEDED", "FAILED", "ABORTED"}
Terminal == Verdicts \union {"UNKNOWN"}

Idle == [pc |-> "idle"]
Threads == [pc : {"launch", "work", "query", "finish"}, left : 0..MaxQueries,
            good : BOOLEAN, verdict : Verdicts \union {None}]
Alive(i) == thread[i].pc # "idle"
Running(i) == row[i] # None /\ row[i].state = "RUNNING"

Waiting == [at |-> None, todo |-> {}, left |-> {}, started |-> FALSE,
            broke |-> FALSE, counts |-> [s \in Schedules |-> 0]]

TypeOK ==
    /\ row \in [Runs -> {None} \union
          [cluster : Clusters, state : Terminal \union {"RUNNING"}]]
    /\ thread \in [Runs -> Threads \union {Idle}]
    /\ aborting \subseteq Benchmarks
    /\ setHere \in BOOLEAN
    /\ schedule \in [Schedules -> {None} \union
          [enabled : BOOLEAN, paused : BOOLEAN, failures : 0..FailureLimit,
           due : BOOLEAN, clusters : SUBSET Clusters]]
    /\ tick \in [at : Schedules \union {None}, todo : SUBSET Schedules,
                 left : SUBSET Clusters, started : BOOLEAN, broke : BOOLEAN,
                 counts : [Schedules -> 0..FailureLimit]]
    /\ faults \in 0..MaxFaults
    /\ lost \subseteq Runs \union Schedules
    /\ streak \in [Schedules -> Nat]

\* Schedules are made and the query set is there; nothing has run yet.
Init ==
    /\ row = [i \in Runs |-> None]
    /\ thread = [i \in Runs |-> Idle]
    /\ aborting = {}
    /\ setHere = TRUE
    /\ schedule \in [Schedules ->
          [enabled : {TRUE}, paused : {FALSE}, failures : {0}, due : {TRUE},
           clusters : SUBSET Clusters \ {{}}]]
    /\ tick = Waiting
    /\ faults = 0
    /\ lost = {}
    /\ streak = [s \in Schedules |-> 0]

Fault == faults < MaxFaults /\ faults' = faults + 1
Loses(what) == lost' = lost \union what

-----------------------------------------------------------------------------
(* Starting a run.                                                         *)

\* Mutated form of IndexAdmits: only a run of the same id is in the way.
IndexAdmitsAny(i, c) == ~Running(i)

\* fleet_job_run_one_active_per_cluster, benchmark_run_one_active_per_cluster.
IndexAdmits(i, c) ==
    \A j \in Kind(i) : Running(j) => row[j].cluster # c

\* create: the RUNNING row comes before the thread.  The set's queries are
\* copied here, so a later edit of the set changes nothing.  An empty set has
\* no query that failed, and counts as good.
Create(i, c) ==
    /\ row[i] = None
    /\ IndexAdmits(i, c)
    /\ row' = [row EXCEPT ![i] = [cluster |-> c, state |-> "RUNNING"]]
    /\ \E n \in IF i \in Jobs THEN {0} ELSE 0..MaxQueries :
          thread' = [thread EXCEPT ![i] =
              [pc |-> "launch", left |-> n, good |-> n = 0, verdict |-> None]]

\* start_job and start, by an operator.  A refused one leaves no trace.
Start(i, c) ==
    /\ i \in Benchmarks => setHere
    /\ Create(i, c)
    /\ UNCHANGED <<aborting, setHere, scheduleVars, faults, lost>>

To(i, pc) == thread' = [thread EXCEPT ![i].pc = pc]
Ends(i, verdict) ==
    thread' = [thread EXCEPT ![i].pc = "finish", ![i].verdict = verdict]

\* The playbook is launched, or build_command refuses the cluster; the SQL
\* client is opened, or it cannot be.
Launch(i) ==
    /\ thread[i].pc = "launch"
    /\ To(i, "work") \/ Ends(i, "FAILED")
    /\ UNCHANGED <<row, aborting, setHere, scheduleVars, faults, lost>>

-----------------------------------------------------------------------------
(* Working.                                                                *)

\* The playbook exits with zero, or with anything else, or outlives its limit.
PlaybookEnds(i) ==
    /\ i \in Jobs
    /\ thread[i].pc = "work"
    /\ Ends(i, "SUCCEEDED") \/ Ends(i, "FAILED")
    /\ UNCHANGED <<row, aborting, setHere, scheduleVars, faults, lost>>

\* The benchmark's loop: a stop is looked for before every query, and not
\* after the last one.
Asked(i) == i \in aborting /\ thread[i].left > 0

Loop(i) ==
    /\ i \in Benchmarks
    /\ thread[i].pc = "work"
    /\ IF Asked(i) THEN Ends(i, "ABORTED")
       ELSE IF thread[i].left > 0
            THEN thread' = [thread EXCEPT ![i].pc = "query", ![i].left = @ - 1]
            ELSE Ends(i, IF thread[i].good THEN "SUCCEEDED" ELSE "FAILED")
    /\ UNCHANGED <<row, aborting, setHere, scheduleVars, faults, lost>>

\* A failed query is a result like any other.
QueryEnds(i) ==
    /\ thread[i].pc = "query"
    /\ \E succeeded \in BOOLEAN :
          thread' = [thread EXCEPT ![i].pc = "work", ![i].good = @ \/ succeeded]
    /\ UNCHANGED <<row, aborting, setHere, scheduleVars, faults, lost>>

\* abort: the row must say RUNNING, whatever has become of the thread.
Abort(i) ==
    /\ i \in Benchmarks
    /\ Running(i)
    /\ aborting' = aborting \union {i}
    /\ UNCHANGED <<row, thread, setHere, scheduleVars, faults, lost>>

\* Mutated form of AfterVerdict: the loop goes on after an abort is recorded.
AfterVerdictGoOn(t) == IF t.verdict = "ABORTED" THEN [t EXCEPT !.pc = "work"] ELSE Idle

AfterVerdict(t) == Idle

Ended(i) ==
    /\ thread' = [thread EXCEPT ![i] = AfterVerdict(thread[i])]
    /\ aborting' = aborting \ {i}

\* finish: the UPDATE is by id, and a failed one is only logged.
Finish(i) ==
    /\ thread[i].pc = "finish"
    /\ row' = [row EXCEPT ![i].state = thread[i].verdict]
    /\ Ended(i)
    /\ UNCHANGED <<setHere, scheduleVars, faults, lost>>

FinishFails(i) ==
    /\ thread[i].pc = "finish"
    /\ Fault
    /\ Loses({i})
    /\ Ended(i)
    /\ UNCHANGED <<row, setHere, scheduleVars>>

-----------------------------------------------------------------------------
(* The query set.                                                          *)

\* delete_set and create_set.  _not_while_running reads the runs before the write
\* and lets it pass when the store does not answer, so a set may go during a run.
DeleteSet ==
    /\ setHere
    /\ setHere' = FALSE
    /\ UNCHANGED <<runVars, scheduleVars, faults, lost>>

CreateSet ==
    /\ ~setHere
    /\ setHere' = TRUE
    /\ UNCHANGED <<runVars, scheduleVars, faults, lost>>

-----------------------------------------------------------------------------
(* Schedules.                                                              *)

\* next_run_at passes.
TimePasses(s) ==
    /\ schedule[s] # None
    /\ ~schedule[s].due
    /\ schedule' = [schedule EXCEPT ![s].due = TRUE]
    /\ UNCHANGED <<runVars, setHere, tick, faults, lost, streak>>

Due == {s \in Schedules : schedule[s] # None /\ schedule[s].enabled /\ schedule[s].due}

\* claim_due: one UPDATE moves every due row on, past every interval missed,
\* and returns copies of them.
Claim ==
    /\ tick.at = None
    /\ tick.todo = {}
    /\ Due # {}
    /\ schedule' = [s \in Schedules |->
          IF s \in Due THEN [schedule[s] EXCEPT !.due = FALSE] ELSE schedule[s]]
    /\ tick' = [tick EXCEPT !.todo = Due, !.counts =
          [s \in Schedules |-> IF s \in Due THEN schedule[s].failures ELSE 0]]
    /\ UNCHANGED <<runVars, setHere, faults, lost, streak>>

\* _fire begins with the copy; the row may have been deleted since.
Turn(s) ==
    /\ tick.at = None
    /\ s \in tick.todo
    /\ \E left \in IF schedule[s] = None THEN SUBSET Clusters \ {{}}
                   ELSE {schedule[s].clusters} :
          tick' = [tick EXCEPT !.at = s, !.todo = @ \ {s}, !.left = left]
    /\ UNCHANGED <<runVars, setHere, schedule, faults, lost, streak>>

Tried(c, started, broke) ==
    tick' = [tick EXCEPT !.left = @ \ {c}, !.started = @ \/ started,
                         !.broke = @ \/ broke]

Taken(c) == \E i \in Benchmarks : ~IndexAdmits(i, c)

\* One cluster of a turn.  A deleted schedule starts nothing more: its id is a
\* foreign key of the run.
Starts(c) ==
    /\ setHere
    /\ schedule[tick.at] # None
    /\ \E i \in Benchmarks : Create(i, c)
    /\ Tried(c, TRUE, FALSE)
    /\ UNCHANGED <<aborting, faults, lost>>

\* BenchmarkAlreadyRunning is a skip and not a failure.
Skips(c) ==
    /\ setHere
    /\ Taken(c)
    /\ Tried(c, FALSE, FALSE)
    /\ UNCHANGED <<runVars, faults, lost>>

Breaks(c) ==
    /\ \/ ~setHere /\ UNCHANGED faults
       \/ schedule[tick.at] = None /\ ~Taken(c) /\ UNCHANGED faults
       \/ Fault
    /\ Tried(c, FALSE, TRUE)
    /\ UNCHANGED <<runVars, lost>>

Try(c) ==
    /\ c \in tick.left
    /\ Starts(c) \/ Skips(c) \/ Breaks(c)
    /\ UNCHANGED <<setHere, schedule, streak>>

Failed(old, failures, pauses) ==
    [old EXCEPT !.failures = failures, !.enabled = @ /\ ~pauses, !.paused = @ \/ pauses]

\* Mutated form of Outcome: a turn that started nothing has failed.
OutcomeSkipped(old, count) ==
    IF tick.started THEN [old EXCEPT !.failures = 0]
    ELSE Failed(old, count + 1, count + 1 >= FailureLimit)

\* Mutated form of Outcome: one failure too many before the pause.
OutcomeLate(old, count) ==
    IF tick.started THEN [old EXCEPT !.failures = 0]
    ELSE IF tick.broke THEN Failed(old, count + 1, count + 1 > FailureLimit)
    ELSE old

\* What a turn leaves on the row: one start clears the count, a turn that only
\* broke adds to the count that was claimed, one that only skipped is nothing.
Outcome(old, count) ==
    IF tick.started THEN [old EXCEPT !.failures = 0]
    ELSE IF tick.broke THEN Failed(old, count + 1, count + 1 >= FailureLimit)
    ELSE old

\* The same turn, as it went.
Counted(s) ==
    streak' = [streak EXCEPT ![s] =
        IF tick.started THEN 0 ELSE IF tick.broke THEN @ + 1 ELSE @]

RecordTurn ==
    LET s == tick.at IN
    /\ s # None
    /\ tick.left = {}
    /\ \/ /\ schedule' = IF schedule[s] = None THEN schedule
                         ELSE [schedule EXCEPT ![s] = Outcome(@, tick.counts[s])]
          /\ UNCHANGED <<faults, lost>>
       \/ /\ Fault
          /\ Loses({s})
          /\ UNCHANGED schedule
    /\ Counted(s)
    /\ tick' = [tick EXCEPT !.at = None, !.started = FALSE, !.broke = FALSE,
                            !.counts = [@ EXCEPT ![s] = 0]]
    /\ UNCHANGED <<runVars, setHere>>

BeingFired(s) == s \in tick.todo \union {tick.at}

\* set_schedule_enabled: enabling clears the count and moves the row on.
Enable(s) ==
    /\ schedule[s] # None
    /\ ~BeingFired(s)                     \* bound: see PausedByFailures
    /\ schedule' = [schedule EXCEPT ![s] =
          [@ EXCEPT !.enabled = TRUE, !.failures = 0, !.paused = FALSE, !.due = FALSE]]
    /\ streak' = [streak EXCEPT ![s] = 0]
    /\ UNCHANGED <<runVars, setHere, tick, faults, lost>>

Disable(s) ==
    /\ schedule[s] # None
    /\ schedule[s].enabled
    /\ schedule' = [schedule EXCEPT ![s].enabled = FALSE]
    /\ UNCHANGED <<runVars, setHere, tick, faults, lost, streak>>

DeleteSchedule(s) ==
    /\ schedule[s] # None
    /\ schedule' = [schedule EXCEPT ![s] = None]
    /\ UNCHANGED <<runVars, setHere, tick, faults, lost, streak>>

-----------------------------------------------------------------------------
\* Mutated form of Reconciled: what the last process left is left alone.
ReconciledNothing(r) == r

\* reconcile_orphans: the outcome of a run nobody watched is not known.
Reconciled(r) ==
    IF r # None /\ r.state = "RUNNING" THEN [r EXCEPT !.state = "UNKNOWN"] ELSE r

\* tms-api restarts: the threads and what they ran are gone, and each store
\* reconciles its own rows, once, or fails to.
Restart ==
    \E failed \in SUBSET {Jobs, Benchmarks} :
        /\ faults + 1 + Cardinality(failed) <= MaxFaults
        /\ faults' = faults + 1 + Cardinality(failed)
        /\ row' = [i \in Runs |->
              IF Kind(i) \in failed THEN row[i] ELSE Reconciled(row[i])]
        /\ Loses({i \in Runs : Kind(i) \in failed /\ Running(i)})
        /\ thread' = [i \in Runs |-> Idle]
        /\ aborting' = {}
        /\ tick' = Waiting
        /\ UNCHANGED <<setHere, schedule, streak>>

Next ==
    \/ \E i \in Runs :
        \/ \E c \in Clusters : Start(i, c)
        \/ Launch(i) \/ PlaybookEnds(i) \/ Loop(i) \/ QueryEnds(i) \/ Abort(i)
        \/ Finish(i) \/ FinishFails(i)
    \/ DeleteSet \/ CreateSet
    \/ \E s \in Schedules :
        \/ TimePasses(s) \/ Turn(s) \/ Enable(s) \/ Disable(s) \/ DeleteSchedule(s)
    \/ Claim \/ RecordTurn
    \/ \E c \in Clusters : Try(c)
    \/ Restart

Spec == Init /\ [][Next]_vars

-----------------------------------------------------------------------------
(* Properties.                                                             *)

\* Two playbooks never write to one cluster's inventory together, and two
\* benchmarks never measure each other: what the index says of rows holds of
\* the threads, which nothing but the order of a run's steps ties to them.
OneAtATime ==
    \A i, j \in Runs :
        Alive(i) /\ Alive(j) /\ Kind(i) = Kind(j) /\ row[i].cluster = row[j].cluster
            => i = j

\* No row keeps its cluster blocked without something running under it, unless
\* a statement about it failed: whatever ended the thread, a verdict, a
\* refused launch or a restart of tms-api, the row was moved on.
NoOrphans == \A i \in Runs : Running(i) => Alive(i) \/ i \in lost

\* A verdict stands: no late thread writes over it, UNKNOWN included.
VerdictsStand ==
    [][\A i \in Runs : row[i] # None /\ ~Running(i) => row'[i] = row[i]]_vars

\* TMS switches a schedule off after FailureLimit turns in a row that broke,
\* and for no other reason: a turn that found a run already going is not one of
\* them.  The exceptions are a turn that could not be recorded, and an operator
\* who enables a schedule while it is being fired.
PausedByFailures ==
    \A s \in Schedules \ lost :
        schedule[s] # None =>
            (schedule[s].paused <=> streak[s] >= FailureLimit)
=============================================================================
