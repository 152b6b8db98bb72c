--------------------------- MODULE RestartService ---------------------------
(***************************************************************************)
(* Requests driving the restart sequences of one cluster (src/tms/ops/     *)
(* service.py) over the restart_sequence table, the Gateway, the executor  *)
(* and the collector's snapshots.                                          *)
(*                                                                         *)
(* FastAPI runs each request on a thread of its own, and a request holds a *)
(* private copy of the sequence from its load to its save.  Every call it  *)
(* makes to the outside is a step, so two requests interleave between any  *)
(* two of them.  A fault is a failed database statement, a failed Gateway  *)
(* or executor call, or a restart of tms-api; MaxFaults bounds them.       *)
(***************************************************************************)
EXTENDS RestartSequence

CONSTANTS
    Requests,      \* request threads of tms-api
    SeqIds,        \* restart_sequence ids, a bound on the restarts started
    MaxQueries,    \* bound on the queries running on the cluster
    MaxFaults,     \* bound on the faults of a behaviour
    Automated,     \* TRUE: AnsibleRestartExecutor, FALSE: ManualExecutor
    LostReplies,   \* TRUE: a failed Gateway call may have taken effect
    StoreAnswers,  \* what the resource group store probe may answer
    HealthReports, \* what a health snapshot may say
    Pressed        \* bound: the operations an operator or a browser calls

Buttons == {"refresh", "force", "restart", "restarted", "complete", "abort"}

ASSUME ConstantsAssumption ==
    /\ MaxQueries \in Nat
    /\ MaxFaults \in Nat
    /\ Automated \in BOOLEAN
    /\ LostReplies \in BOOLEAN
    /\ StoreAnswers \subseteq StoreSeen
    /\ HealthReports \subseteq HealthSeen
    /\ Pressed \subseteq Buttons

VARIABLES
    rows,           \* the restart_sequence table
    req,            \* what each request thread is doing
    gatewayActive,  \* the Gateway routes new queries to the cluster
    runs,           \* the executor's _runs, in the memory of tms-api
    queries,        \* queries running on the cluster
    snapQ, snapH,   \* the collector's latest query and health snapshots
    faults,         \* faults so far
    fact,           \* history: what has really happened under each sequence
    freshH          \* history: snapH was collected since the last restart

vars == <<rows, req, gatewayActive, runs, queries, snapQ, snapH, faults, fact, freshH>>
world == <<gatewayActive, runs, queries, snapQ, snapH, fact, freshH>>

-----------------------------------------------------------------------------
Counts == {NoCount} \union 0..MaxQueries
RunStates == {"none", "running", "succeeded", "failed"}
Facts == {"forced", "launched", "succeeded", "confirmed"}

Rows == [state : States \union {"ABSENT"}, running : Counts, health : HealthSeen]
Absent == [state |-> "ABSENT", running |-> NoCount, health |-> "none"]
Row(s) == [state |-> s.state, running |-> s.running, health |-> s.health]

\* Mutated form of Rebuild: nothing stands for the answer not yet asked for.
RebuildColumns(row) == row

\* _rebuild: the probe's answer is not a column, so a loaded copy has none.
Rebuild(row) == [state |-> row.state, running |-> row.running,
                 health |-> row.health, store |-> "none"]

SavingPCs == {"touch", "mark", "save"}
PCs == SavingPCs \union {"observe", "poll", "audit", "act"}
Idle == [pc |-> "idle"]
Handling == [pc : PCs, op : Buttons \union {"start"}, id : SeqIds,
             seq : Sequences(Counts), dirty : BOOLEAN]

TypeOK ==
    /\ rows \in [SeqIds -> Rows]
    /\ req \in [Requests -> Handling \union {Idle}]
    /\ gatewayActive \in BOOLEAN
    /\ runs \in [SeqIds -> RunStates]
    /\ queries \in 0..MaxQueries
    /\ snapQ \in Counts
    /\ snapH \in HealthSeen
    /\ faults \in 0..MaxFaults
    /\ fact \in [SeqIds -> SUBSET Facts]
    /\ freshH \in BOOLEAN

Init ==
    /\ rows = [i \in SeqIds |-> Absent]
    /\ req = [r \in Requests |-> Idle]
    /\ gatewayActive = TRUE
    /\ runs = [i \in SeqIds |-> "none"]
    /\ queries \in 0..MaxQueries
    /\ snapQ = NoCount
    /\ snapH = "none"
    /\ faults = 0
    /\ fact = [i \in SeqIds |-> {}]
    /\ freshH = TRUE

-----------------------------------------------------------------------------
Fault == faults < MaxFaults /\ faults' = faults + 1

Active(i) == rows[i].state \in InFlight

\* Mutated form of UniqueIndexAdmits: an index over inserted rows only.
InsertOnlyIndex(i, state) ==
    state = "PENDING" => \A j \in SeqIds \ {i} : ~Active(j)

\* The partial unique index restart_sequence_one_active_per_cluster.
UniqueIndexAdmits(i, state) ==
    state \in InFlight => \A j \in SeqIds \ {i} : ~Active(j)

Goto(r, pc) == req' = [req EXCEPT ![r].pc = pc]
Finish(r) == req' = [req EXCEPT ![r] = Idle]
Happened(i, what) == fact' = [fact EXCEPT ![i] = @ \union {what}]

-----------------------------------------------------------------------------
(* Opening a request.                                                      *)

\* start, up to the INSERT of repository.create: preflight has passed.  A
\* refused start leaves no trace, so it is no step.
Start(r) ==
    /\ req[r].pc = "idle"
    /\ \E i \in SeqIds :
        /\ rows[i].state = "ABSENT"
        /\ UniqueIndexAdmits(i, "PENDING")
        /\ rows' = [rows EXCEPT ![i] = Row(NewSequence)]
        /\ req' = [req EXCEPT ![r] =
              [pc |-> "touch", op |-> "start", id |-> i, seq |-> NewSequence,
               dirty |-> FALSE]]
    /\ UNCHANGED <<world, faults>>

\* repository.load, then whatever the handler does before its next call out.
\* A handler that refuses the loaded state leaves no trace either.
Press(r, op, i) ==
    LET loaded == Rebuild(rows[i])
        open(pc, s) == req' = [req EXCEPT ![r] =
            [pc |-> pc, op |-> op, id |-> i, seq |-> s,
             dirty |-> FALSE]]
    IN /\ req[r].pc = "idle"
       /\ rows[i].state # "ABSENT"
       /\ \/ /\ op \in {"refresh", "force", "restart", "complete"}
             /\ open("observe", loaded)
             /\ UNCHANGED fact
          \/ /\ op = "restarted"
             /\ MayMarkRestarted(loaded)
             /\ open("observe", MarkRestarted(loaded))
             /\ Happened(i, "confirmed")
          \/ /\ op = "abort"
             /\ MayAbort(loaded)
             /\ open("mark", BeginAbort(loaded))
             /\ UNCHANGED fact
       /\ UNCHANGED <<rows, gatewayActive, runs, queries, snapQ, snapH, faults, freshH>>

-----------------------------------------------------------------------------
(* Observing.                                                              *)

\* _observe: an untrustworthy query snapshot leaves the stored count alone.
\* The store is probed only while the answer can still stop the restart.
Look(s, answer) ==
    LET seen == IF snapQ # NoCount
                THEN Observe(s, snapQ, snapH)
                ELSE [s EXCEPT !.health = IF snapH = "none" THEN s.health ELSE snapH]
    IN IF seen.state \in {"DRAINING", "DRAINED"}
       THEN ObserveConfigStore(seen, answer)
       ELSE seen

\* Mutated form of AfterRefresh: what changed is compared before the poll.
AfterRefreshQuiet(before, s) ==
    IF s = before THEN <<"idle", s>>
    ELSE IF s.state = "RESTARTING" /\ Automated THEN <<"poll", s>> ELSE <<"save", s>>

\* refresh polls the executor of a restart under way, and saves what changed.
AfterRefresh(before, s) ==
    IF s.state = "RESTARTING" /\ Automated THEN <<"poll", s>>
    ELSE IF s # before THEN <<"save", s>> ELSE <<"idle", s>>

\* The handler's decision on what it saw: <<next pc, sequence>>, "idle" when
\* it answers with a refusal and saves nothing.
Decide(op, before, s) ==
    CASE op \in {"start", "restarted"} -> <<"save", s>>
      [] op = "refresh" -> AfterRefresh(before, s)
      [] op = "force" ->
           IF MayForce(s) THEN <<"audit", ForceDrained(s)>> ELSE <<"idle", s>>
      [] op = "restart" ->
           IF DrainConfirmed(s) /\ WouldStartAgain(s)
           THEN <<"audit", MarkRestarting(s)>> ELSE <<"idle", s>>
      [] op = "complete" ->
           IF s.state # "VERIFYING" THEN <<"idle", s>>
           ELSE IF HealthConfirmed(s) THEN <<"audit", s>> ELSE <<"save", s>>

ObserveStep(r) ==
    /\ req[r].pc = "observe"
    /\ \E answer \in StoreAnswers :
        LET h == req[r]
            s == Look(h.seq, answer)
            d == Decide(h.op, h.seq, s)
        IN req' = [req EXCEPT ![r] =
               IF d[1] = "idle" THEN Idle
               ELSE [h EXCEPT !.pc = d[1], !.seq = d[2],
                              !.dirty = (s # h.seq)]]
    /\ UNCHANGED <<rows, world, faults>>

\* Mutated form of PollAdvances: a run that is not running is taken as done.
PollAdvancesEnded(i) == runs[i] # "running"

\* _poll_executor: only a playbook seen to succeed advances the sequence.
\* Failure and loss of sight are logged on every poll, output when there is any.
PollAdvances(i) == runs[i] = "succeeded"

PollStep(r) ==
    LET i == req[r].id
        s == req[r].seq
    IN /\ req[r].pc = "poll"
       /\ \/ /\ PollAdvances(i)
             /\ req' = [req EXCEPT ![r].pc = "save", ![r].seq = MarkRestarted(s)]
          \/ /\ ~PollAdvances(i)
             /\ \/ Goto(r, "save")
                \/ runs[i] = "running" /\ ~req[r].dirty /\ Finish(r)
       /\ UNCHANGED <<rows, world, faults>>

-----------------------------------------------------------------------------
(* The audited call.                                                       *)

\* Mutated form of GiveUp: a failed reactivation closes the sequence as well.
GiveUpClosing(r) ==
    IF req[r].op \in {"start", "abort"}
    THEN req' = [req EXCEPT ![r].pc = "save",
                            ![r].seq = FinishAbort(BeginAbort(req[r].seq))]
    ELSE Finish(r)

\* Mutated form of GiveUp: start carries on with traffic still flowing.
GiveUpOpening(r) ==
    LET op == req[r].op IN
    IF op = "start"
    THEN req' = [req EXCEPT ![r].pc = "observe", ![r].seq = Begin(req[r].seq)]
    ELSE IF op = "abort" THEN Goto(r, "save") ELSE Finish(r)

\* What a handler does when the guard or the call refuses: start closes its
\* row out, abort keeps its row in ABORTING, the others save nothing.
GiveUp(r) ==
    LET op == req[r].op IN
    IF op = "start"
    THEN req' = [req EXCEPT ![r].pc = "save",
                            ![r].seq = FinishAbort(BeginAbort(req[r].seq))]
    ELSE IF op = "abort" THEN Goto(r, "save") ELSE Finish(r)

\* AuditGuard.action: nothing is called unless the audit store answers.
\* force_drain's audited block is the save itself.
AuditStep(r) ==
    /\ req[r].pc = "audit"
    /\ \/ /\ Goto(r, IF req[r].op = "force" THEN "save" ELSE "act")
          /\ UNCHANGED faults
       \/ Fault /\ GiveUp(r)
    /\ UNCHANGED <<rows, world>>

\* _set_gateway_active, and the sequence's own transition after it.
Target(op) == op # "start"

AfterGateway(h) ==
    CASE h.op = "start" -> [h EXCEPT !.pc = "observe", !.seq = Begin(h.seq)]
      [] h.op = "complete" -> [h EXCEPT !.pc = "save", !.seq = Complete(h.seq)]
      [] h.op = "abort" -> [h EXCEPT !.pc = "save", !.seq = FinishAbort(h.seq)]

GatewayStep(r) ==
    /\ req[r].pc = "act"
    /\ req[r].op \in {"start", "complete", "abort"}
    /\ gatewayActive' = Target(req[r].op)
    /\ req' = [req EXCEPT ![r] = AfterGateway(req[r])]
    /\ UNCHANGED <<rows, runs, queries, snapQ, snapH, faults, fact, freshH>>

\* A refused call, no backend matched, a circuit that is open; with
\* LostReplies also a call that was applied and whose answer never came.
GatewayFails(r) ==
    /\ req[r].pc = "act"
    /\ req[r].op \in {"start", "complete", "abort"}
    /\ Fault
    /\ \/ UNCHANGED gatewayActive
       \/ LostReplies /\ gatewayActive' = Target(req[r].op)
    /\ GiveUp(r)
    /\ UNCHANGED <<rows, runs, queries, snapQ, snapH, fact, freshH>>

\* executor.start: idempotent for a sequence whose playbook runs or succeeded.
LaunchStep(r) ==
    LET i == req[r].id IN
    /\ req[r].pc = "act"
    /\ req[r].op = "restart"
    /\ runs' = IF Automated /\ runs[i] \notin {"running", "succeeded"}
               THEN [runs EXCEPT ![i] = "running"] ELSE runs
    /\ Happened(i, "launched")
    /\ Goto(r, "save")
    /\ UNCHANGED <<rows, gatewayActive, queries, snapQ, snapH, faults, freshH>>

\* build_command refuses: the inventory went away after start's preflight.
LaunchFails(r) ==
    /\ Automated
    /\ req[r].pc = "act"
    /\ req[r].op = "restart"
    /\ Fault
    /\ GiveUp(r)
    /\ UNCHANGED <<rows, world>>

-----------------------------------------------------------------------------
(* Saving: the UPDATE writes the copy over whatever the row holds by now.  *)

Stored(h) ==
    /\ UniqueIndexAdmits(h.id, h.seq.state)
    /\ rows' = [rows EXCEPT ![h.id] = Row(h.seq)]
    /\ IF h.op = "force" THEN Happened(h.id, "forced") ELSE UNCHANGED fact

SaveStep(r) ==
    LET h == req[r] IN
    /\ h.pc \in SavingPCs
    /\ Stored(h)
    /\ IF h.pc = "save" THEN Finish(r) ELSE Goto(r, "audit")
    /\ UNCHANGED <<gatewayActive, runs, queries, snapQ, snapH, faults, freshH>>

\* The UPDATE fails, or it is refused by the index, or it is committed and an
\* INSERT of an event after it fails (the connection is in autocommit).
SaveFails(r) ==
    LET h == req[r] IN
    /\ h.pc \in SavingPCs
    /\ \/ Fault /\ UNCHANGED <<rows, fact>>
       \/ Fault /\ Stored(h)
       \/ ~UniqueIndexAdmits(h.id, h.seq.state) /\ UNCHANGED <<rows, fact, faults>>
    /\ Finish(r)
    /\ UNCHANGED <<gatewayActive, runs, queries, snapQ, snapH, freshH>>

\* A snapshot read fails: the exception ends the request where it stands.
ObserveFails(r) ==
    /\ req[r].pc = "observe"
    /\ Fault
    /\ Finish(r)
    /\ UNCHANGED <<rows, world>>

-----------------------------------------------------------------------------
(* Everything around tms-api.                                              *)

\* tms-api restarts: its requests and the executor's memory are gone, and the
\* playbook's process with them (the unit leaves KillMode at control-group).
Crash ==
    /\ Fault
    /\ req' = [r \in Requests |-> Idle]
    /\ runs' = [i \in SeqIds |-> "none"]
    /\ UNCHANGED <<rows, gatewayActive, queries, snapQ, snapH, fact, freshH>>

UnderWay(i) == IF Automated THEN runs[i] = "running" ELSE rows[i].state = "RESTARTING"

\* The coordinator goes down and comes back, taking its queries with it.
Bounce(i) ==
    /\ UnderWay(i)
    /\ queries' = 0
    /\ freshH' = FALSE
    /\ UNCHANGED <<rows, req, gatewayActive, runs, snapQ, snapH, faults, fact>>

\* The playbook's worker thread reports: exit 0, non-zero, or the watchdog.
PlaybookEnds(i) ==
    /\ runs[i] = "running"
    /\ \/ runs' = [runs EXCEPT ![i] = "succeeded"] /\ Happened(i, "succeeded")
       \/ runs' = [runs EXCEPT ![i] = "failed"] /\ UNCHANGED fact
    /\ UNCHANGED <<rows, req, gatewayActive, queries, snapQ, snapH, faults, freshH>>

QueryArrives ==
    /\ gatewayActive
    /\ queries < MaxQueries
    /\ queries' = queries + 1
    /\ UNCHANGED <<rows, req, gatewayActive, runs, snapQ, snapH, faults, fact, freshH>>

QueryEnds ==
    /\ queries > 0
    /\ queries' = queries - 1
    /\ UNCHANGED <<rows, req, gatewayActive, runs, snapQ, snapH, faults, fact, freshH>>

\* The collector replaces a snapshot, trustworthy or not.
CollectQueries ==
    /\ snapQ' \in {queries, NoCount}
    /\ UNCHANGED <<rows, req, gatewayActive, runs, queries, snapH, faults, fact, freshH>>

CollectHealth ==
    /\ snapH' \in HealthReports
    /\ freshH' = TRUE
    /\ UNCHANGED <<rows, req, gatewayActive, runs, queries, snapQ, faults, fact>>

-----------------------------------------------------------------------------
Work(r) ==
    \/ ObserveStep(r) \/ ObserveFails(r) \/ PollStep(r) \/ AuditStep(r)
    \/ GatewayStep(r) \/ GatewayFails(r) \/ LaunchStep(r) \/ LaunchFails(r)
    \/ SaveStep(r) \/ SaveFails(r)

Environment ==
    \/ Crash
    \/ \E i \in SeqIds : Bounce(i) \/ PlaybookEnds(i)
    \/ QueryArrives \/ QueryEnds \/ CollectQueries \/ CollectHealth

Next ==
    \/ \E r \in Requests :
        \/ Start(r)
        \/ \E op \in Pressed, i \in SeqIds : Press(r, op, i)
        \/ Work(r)
    \/ Environment

Spec == Init /\ [][Next]_vars

\* A thread that has work left is scheduled and the live view keeps polling.
\* An operator who wants a restart over keeps pressing abort.
Handled == \A r \in Requests : WF_vars(Work(r))
Polled == \A r \in Requests, i \in SeqIds : SF_vars(Press(r, "refresh", i))
Abandoned == \A r \in Requests, i \in SeqIds : SF_vars(Press(r, "abort", i))

WatchedSpec == Spec /\ Handled /\ Polled
=============================================================================
