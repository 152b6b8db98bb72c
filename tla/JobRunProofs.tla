---------------------------- MODULE JobRunProofs ----------------------------
(***************************************************************************)
(* Proofs about JobRuns: what ties a run's thread to its row, for any      *)
(* number of runs, schedules, clusters and faults.                         *)
(***************************************************************************)
EXTENDS JobRuns, FiniteSetTheorems, TLAPS

Rows == [cluster : Clusters, state : Terminal \union {"RUNNING"}]

\* What the index keeps of the rows.
OneRunning ==
    \A i, j \in Runs :
        Running(i) /\ Running(j) /\ Kind(i) = Kind(j) /\ row[i].cluster = row[j].cluster
            => i = j

\* OneAtATime speaks of threads and the index of rows: a thread has its row say
\* RUNNING from before its launch to its last step.
RunInv ==
    /\ row \in [Runs -> {None} \union Rows]
    /\ thread \in [Runs -> Threads \union {Idle}]
    /\ \A i \in Runs : Alive(i) => Running(i)
    /\ \A i \in Runs : thread[i].pc = "finish" => thread[i].verdict \in Verdicts
    /\ OneRunning

\* A step that leaves the rows alone and wakes no thread.
Quiet ==
    /\ UNCHANGED row
    /\ thread' \in [Runs -> Threads \union {Idle}]
    /\ \A i \in Runs : Alive(i)' => Alive(i)
    /\ \A i \in Runs : thread'[i].pc = "finish" => thread'[i].verdict \in Verdicts

LEMMA QuietKeeps == ASSUME RunInv, Quiet PROVE RunInv'
BY DEF RunInv, Quiet, OneRunning, Running

-----------------------------------------------------------------------------
(* Each step.                                                              *)

LEMMA CreateKeeps ==
    ASSUME RunInv, NEW i \in Runs, NEW c \in Clusters, Create(i, c)
    PROVE  RunInv'
<1>1. PICK n \in IF i \in Jobs THEN {0} ELSE 0..MaxQueries :
          thread' = [thread EXCEPT ![i] =
              [pc |-> "launch", left |-> n, good |-> n = 0, verdict |-> None]]
  BY DEF Create
<1>2. n \in 0..MaxQueries
  BY <1>1, ConstantsAssumption
<1>3. [pc |-> "launch", left |-> n, good |-> n = 0, verdict |-> None] \in Threads
  BY <1>2 DEF Threads
<1>4. thread' \in [Runs -> Threads \union {Idle}]
  BY <1>1, <1>3 DEF RunInv
<1>5. /\ row' = [row EXCEPT ![i] = [cluster |-> c, state |-> "RUNNING"]]
      /\ [cluster |-> c, state |-> "RUNNING"] \in Rows
      /\ [cluster |-> c, state |-> "RUNNING"] # None
  BY ConstantsAssumption DEF Create, Rows
<1>6. row' \in [Runs -> {None} \union Rows]
  BY <1>5 DEF RunInv
<1>7. Running(i)' /\ row'[i].cluster = c
  BY <1>5 DEF Running, RunInv
<1>8. \A j \in Runs : j # i => row'[j] = row[j] /\ thread'[j] = thread[j]
  BY <1>1, <1>5 DEF RunInv
<1>9. \A j \in Runs : j # i => (Running(j)' <=> Running(j)) /\ (Alive(j)' <=> Alive(j))
  BY <1>8 DEF Running, Alive
<1>10. \A j \in Runs : Alive(j)' => Running(j)'
  BY <1>7, <1>9 DEF RunInv
<1>11. \A j \in Runs : thread'[j].pc = "finish" => thread'[j].verdict \in Verdicts
  BY <1>1, <1>8 DEF RunInv
<1>12. \A j \in Runs : Running(j) /\ Kind(j) = Kind(i) => row[j].cluster # c
  BY DEF Create, IndexAdmits, Kind, Runs
<1>13. OneRunning'
  <2> SUFFICES ASSUME NEW j \in Runs, NEW k \in Runs, Running(j)', Running(k)',
                      Kind(j) = Kind(k), row'[j].cluster = row'[k].cluster, j # k
               PROVE  FALSE
    BY DEF OneRunning, Kind
  <2>1. CASE j = i
    BY <1>7, <1>8, <1>9, <1>12, <2>1
  <2>2. CASE k = i
    BY <1>7, <1>8, <1>9, <1>12, <2>2
  <2>3. CASE j # i /\ k # i
    BY <1>8, <1>9, <2>3 DEF RunInv, OneRunning
  <2> QED BY <2>1, <2>2, <2>3
<1> QED BY <1>4, <1>6, <1>10, <1>11, <1>13 DEF RunInv

LEMMA ToKeeps ==
    ASSUME RunInv, NEW i \in Runs, thread[i] \in Threads, UNCHANGED row,
           NEW t \in Threads, t.pc # "idle", t.pc = "finish" => t.verdict \in Verdicts,
           thread[i].pc # "idle", thread' = [thread EXCEPT ![i] = t]
    PROVE  RunInv'
<1>1. Quiet
  BY DEF Quiet, RunInv, Alive
<1> QED BY <1>1, QuietKeeps

\* Every step of a thread that is neither its first nor its last.
LEMMA WorkKeeps ==
    ASSUME RunInv, NEW i \in Runs,
           Launch(i) \/ PlaybookEnds(i) \/ Loop(i) \/ QueryEnds(i)
    PROVE  RunInv'
<1>1. /\ thread[i].pc \in {"launch", "work", "query"}
      /\ thread[i] \in Threads
      /\ UNCHANGED row
  BY DEF Launch, PlaybookEnds, Loop, QueryEnds, RunInv, Idle
<1>2. /\ thread[i].left \in 0..MaxQueries
      /\ thread[i].left > 0 => thread[i].left - 1 \in 0..MaxQueries
  BY <1>1, ConstantsAssumption DEF Threads
<1>3. CASE To(i, "work")
  <2>1. [thread[i] EXCEPT !.pc = "work"] \in Threads
    BY <1>1 DEF Threads
  <2> QED BY <1>1, <1>3, <2>1, ToKeeps DEF To, Threads
<1>4. ASSUME NEW v \in Verdicts, Ends(i, v) PROVE RunInv'
  <2>1. [thread[i] EXCEPT !.pc = "finish", !.verdict = v] \in Threads
    BY <1>1 DEF Threads
  <2>2. [thread[i] EXCEPT !.pc = "finish", !.verdict = v].verdict = v
    BY <1>1 DEF Threads
  <2>3. [thread[i] EXCEPT !.pc = "finish", !.verdict = v].pc = "finish"
    BY <1>1 DEF Threads
  <2> QED BY <1>1, <1>4, <2>1, <2>2, <2>3, ToKeeps DEF Ends
<1>5. CASE /\ thread[i].left > 0
           /\ thread' = [thread EXCEPT ![i].pc = "query", ![i].left = @ - 1]
  <2>1. [thread[i] EXCEPT !.pc = "query", !.left = @ - 1] \in Threads
    BY <1>1, <1>2, <1>5 DEF Threads
  <2>2. [thread[i] EXCEPT !.pc = "query", !.left = @ - 1].pc = "query"
    BY <1>1 DEF Threads
  <2> QED BY <1>1, <1>5, <2>1, <2>2, ToKeeps
<1>6. ASSUME NEW succeeded \in BOOLEAN,
             thread' = [thread EXCEPT ![i].pc = "work", ![i].good = @ \/ succeeded]
      PROVE  RunInv'
  <2>1. [thread[i] EXCEPT !.pc = "work", !.good = @ \/ succeeded] \in Threads
    BY <1>1 DEF Threads
  <2>2. [thread[i] EXCEPT !.pc = "work", !.good = @ \/ succeeded].pc = "work"
    BY <1>1 DEF Threads
  <2> QED BY <1>1, <1>6, <2>1, <2>2, ToKeeps
<1>7. CASE Launch(i)
  BY <1>3, <1>4, <1>7 DEF Launch, Verdicts
<1>8. CASE PlaybookEnds(i)
  BY <1>4, <1>8 DEF PlaybookEnds, Verdicts
<1>9. CASE Loop(i)
  BY <1>4, <1>5, <1>9 DEF Loop, Verdicts
<1>10. CASE QueryEnds(i)
  BY <1>6, <1>10 DEF QueryEnds
<1> QED BY <1>7, <1>8, <1>9, <1>10

\* A thread's last step: its row moves on, or stays and is lost.
LEMMA EndKeeps ==
    ASSUME RunInv, NEW i \in Runs, Finish(i) \/ FinishFails(i)
    PROVE  RunInv' /\ ~Alive(i)'
<1>1. /\ thread[i].pc = "finish"
      /\ thread' = [thread EXCEPT ![i] = Idle]
  BY DEF Finish, FinishFails, Ended, AfterVerdict
<1>2. ~Alive(i)' /\ thread'[i].pc = "idle"
  BY <1>1 DEF Alive, Idle, RunInv
<1>3. CASE FinishFails(i)
  <2>1. Quiet
    BY <1>1, <1>2, <1>3 DEF Quiet, FinishFails, RunInv, Alive
  <2> QED BY <1>2, <2>1, QuietKeeps
<1>4. CASE Finish(i)
  <2>1. /\ thread[i].verdict \in Verdicts
        /\ row[i] \in Rows
        /\ row' = [row EXCEPT ![i].state = thread[i].verdict]
    BY <1>1, <1>4 DEF Finish, RunInv, Alive, Running
  <2>2. [row[i] EXCEPT !.state = thread[i].verdict] \in Rows
    BY <2>1 DEF Rows, Terminal
  <2>3. row' \in [Runs -> {None} \union Rows]
    BY <2>1, <2>2 DEF RunInv
  <2>4. ~Running(i)'
    BY <2>1 DEF Running, RunInv, Verdicts, Rows
  <2>5. \A j \in Runs : j # i => row'[j] = row[j] /\ thread'[j] = thread[j]
    BY <1>1, <2>1 DEF RunInv
  <2>6. \A j \in Runs : j # i => (Running(j)' <=> Running(j)) /\ (Alive(j)' <=> Alive(j))
    BY <2>5 DEF Running, Alive
  <2>7. OneRunning'
    BY <2>4, <2>5, <2>6 DEF RunInv, OneRunning, Kind
  <2>8. /\ thread' \in [Runs -> Threads \union {Idle}]
        /\ \A j \in Runs : Alive(j)' => Running(j)'
        /\ \A j \in Runs : thread'[j].pc = "finish" => thread'[j].verdict \in Verdicts
    BY <1>1, <1>2, <2>5, <2>6 DEF RunInv
  <2> QED BY <1>2, <2>3, <2>7, <2>8 DEF RunInv
<1> QED BY <1>3, <1>4

LEMMA RestartKeeps ==
    ASSUME RunInv, Restart
    PROVE  /\ RunInv'
           /\ \A i \in Runs : Running(i)' => i \in lost'
           /\ \A i \in Runs : ~Running(i) => row'[i] = row[i]
<1>1. PICK failed \in SUBSET {Jobs, Benchmarks} :
          /\ row' = [i \in Runs |->
                IF Kind(i) \in failed THEN row[i] ELSE Reconciled(row[i])]
          /\ lost' = lost \union {i \in Runs : Kind(i) \in failed /\ Running(i)}
  BY DEF Restart, Loses
<1>2. /\ thread' = [i \in Runs |-> Idle]
      /\ \A i \in Runs : ~Alive(i)' /\ thread'[i].pc = "idle"
  BY DEF Restart, Alive, Idle
<1>3. \A i \in Runs : ~Running(i) => row'[i] = row[i]
  BY <1>1 DEF Reconciled, Running
<1>4. \A i \in Runs : Running(i)' => Kind(i) \in failed /\ row'[i] = row[i] /\ Running(i)
  <2> SUFFICES ASSUME NEW i \in Runs, Running(i)'
               PROVE  Kind(i) \in failed /\ row'[i] = row[i] /\ Running(i)
    OBVIOUS
  <2>1. CASE Kind(i) \in failed
    BY <1>1, <2>1 DEF Running
  <2>2. CASE Kind(i) \notin failed
    <3>1. row'[i] = Reconciled(row[i])
      BY <1>1, <2>2
    <3>2. row[i] # None /\ row[i].state = "RUNNING" => row[i] \in Rows
      BY DEF RunInv
    <3>3. row[i] # None /\ row[i].state = "RUNNING" => Reconciled(row[i]).state = "UNKNOWN"
      BY <3>2 DEF Reconciled, Rows
    <3> QED BY <3>1, <3>3 DEF Reconciled, Running
  <2> QED BY <2>1, <2>2
<1>5. \A i \in Runs : row'[i] \in {None} \union Rows
  <2> SUFFICES ASSUME NEW i \in Runs, row'[i] # row[i]
               PROVE  row'[i] \in Rows
    BY DEF RunInv
  <2>1. Running(i) /\ row'[i] = Reconciled(row[i])
    BY <1>1, <1>3
  <2>2. row[i] \in Rows
    BY <2>1 DEF Running, RunInv
  <2> QED BY <2>1, <2>2 DEF Reconciled, Rows, Running, Terminal
<1>6. row' \in [Runs -> {None} \union Rows]
  BY <1>1, <1>5
<1>7. OneRunning'
  BY <1>4 DEF RunInv, OneRunning, Kind
<1>8. RunInv'
  BY <1>2, <1>6, <1>7 DEF RunInv
<1>9. \A i \in Runs : Running(i)' => i \in lost'
  BY <1>1, <1>4
<1> QED BY <1>3, <1>8, <1>9

\* Everything else: editing sets and schedules, stops, and the ticker's steps
\* that start nothing.
Elsewhere ==
    \/ \E i \in Runs : Abort(i)
    \/ DeleteSet \/ CreateSet \/ Claim \/ RecordTurn
    \/ \E s \in Schedules :
        TimePasses(s) \/ Turn(s) \/ Enable(s) \/ Disable(s) \/ DeleteSchedule(s)
    \/ \E c \in Clusters : Try(c) /\ ~Starts(c)

LEMMA ElsewhereQuiet == Elsewhere => UNCHANGED <<row, thread>>
BY DEF Elsewhere, Abort, DeleteSet, CreateSet, Claim, RecordTurn, TimePasses, Turn,
       Enable, Disable, DeleteSchedule, Try, Skips, Breaks, runVars

LEMMA LostGrows == [Next]_vars => lost \subseteq lost'
BY DEF Next, vars, Start, Launch, PlaybookEnds, Loop, QueryEnds, Abort, Finish,
       FinishFails, DeleteSet, CreateSet, TimePasses, Turn, Enable, Disable,
       DeleteSchedule, Claim, RecordTurn, Try, Starts, Skips, Breaks, Restart, Loses

\* Next, grouped by what it does to the runs.
LEMMA NextCases ==
    ASSUME [Next]_vars
    PROVE  \/ \E i \in Runs, c \in Clusters : Create(i, c)
           \/ \E i \in Runs : Launch(i) \/ PlaybookEnds(i) \/ Loop(i) \/ QueryEnds(i)
           \/ \E i \in Runs : Finish(i) \/ FinishFails(i)
           \/ Restart
           \/ UNCHANGED <<row, thread>>
<1>1. ASSUME NEW c \in Clusters, Starts(c) PROVE \E i \in Runs : Create(i, c)
  BY <1>1 DEF Starts, Runs
<1>2. CASE UNCHANGED vars
  BY <1>2 DEF vars
<1>3. CASE Next
  <2>1. \/ \E i \in Runs, c \in Clusters : Start(i, c)
        \/ \E c \in Clusters : Try(c) /\ Starts(c)
        \/ \E i \in Runs : Launch(i) \/ PlaybookEnds(i) \/ Loop(i) \/ QueryEnds(i)
        \/ \E i \in Runs : Finish(i) \/ FinishFails(i)
        \/ Restart
        \/ Elsewhere
    BY <1>3 DEF Next, Elsewhere
  <2> QED BY <1>1, <2>1, ElsewhereQuiet DEF Start
<1> QED BY <1>2, <1>3

-----------------------------------------------------------------------------
(* The theorems.                                                           *)

LEMMA RunInit == Init => RunInv
<1> SUFFICES ASSUME Init PROVE RunInv
  OBVIOUS
<1>1. /\ row = [i \in Runs |-> None]
      /\ thread = [i \in Runs |-> Idle]
      /\ \A i \in Runs : thread[i].pc = "idle"
  BY DEF Init, Idle
<1> QED BY <1>1 DEF RunInv, OneRunning, Running, Alive

LEMMA RunStep == RunInv /\ [Next]_vars => RunInv'
<1> SUFFICES ASSUME RunInv, [Next]_vars PROVE RunInv'
  OBVIOUS
<1>1. CASE UNCHANGED <<row, thread>>
  <2>1. Quiet
    BY <1>1 DEF Quiet, RunInv, Alive
  <2> QED BY <2>1, QuietKeeps
<1> QED BY <1>1, NextCases, CreateKeeps, WorkKeeps, EndKeeps, RestartKeeps

LEMMA RunInvariant == Spec => []RunInv
BY RunInit, RunStep, PTL DEF Spec

\* No two playbooks of the fleet jobs, and no two benchmark runs, are under way
\* on one cluster: what the partial unique indexes say of rows holds of threads.
THEOREM OneThread == Spec => []OneAtATime
<1>1. RunInv => OneAtATime
  BY DEF RunInv, OneRunning, OneAtATime
<1> QED BY <1>1, RunInvariant, PTL

\* A RUNNING row has its thread, unless the UPDATE that was to end it, or the
\* reconciliation after a restart of tms-api, failed.
THEOREM RowsAreTended == Spec => []NoOrphans
<1>1. Init => NoOrphans
  BY DEF Init, NoOrphans, Running
<1>2. RunInv /\ RunInv' /\ NoOrphans /\ [Next]_vars => NoOrphans'
  <2> SUFFICES ASSUME RunInv, RunInv', NoOrphans, [Next]_vars,
                      NEW j \in Runs, Running(j)', ~Alive(j)'
               PROVE  j \in lost'
    BY DEF NoOrphans
  <2>1. ASSUME Running(j), ~Alive(j) PROVE j \in lost'
    BY <2>1, LostGrows DEF NoOrphans
  <2>2. ASSUME NEW i \in Runs, NEW c \in Clusters, Create(i, c) PROVE j \in lost'
    <3>1. j # i
      BY <2>2 DEF Create, Alive, RunInv
    <3>2. row'[j] = row[j] /\ thread'[j] = thread[j]
      BY <2>2, <3>1 DEF Create, RunInv
    <3> QED BY <2>1, <3>2 DEF Running, Alive
  <2>3. ASSUME NEW i \in Runs,
               Launch(i) \/ PlaybookEnds(i) \/ Loop(i) \/ QueryEnds(i)
        PROVE  j \in lost'
    <3>1. /\ UNCHANGED row
          /\ Alive(i)'
          /\ \A k \in Runs : k # i => thread'[k] = thread[k]
      <4>1. thread[i] \in Threads
        BY <2>3 DEF Launch, PlaybookEnds, Loop, QueryEnds, RunInv, Idle
      <4> QED BY <2>3, <4>1 DEF Launch, PlaybookEnds, Loop, QueryEnds, To, Ends, RunInv,
                          Alive, Threads
    <3> QED BY <2>1, <3>1 DEF Running, Alive
  <2>4. ASSUME NEW i \in Runs, Finish(i) PROVE j \in lost'
    <3>1. /\ row[i] \in Rows
          /\ thread[i].verdict \in Verdicts
      BY <2>4 DEF Finish, RunInv, Alive, Running
    <3>2. ~Running(i)'
      BY <2>4, <3>1 DEF Finish, Running, RunInv, Verdicts, Rows
    <3>3. j # i => row'[j] = row[j] /\ thread'[j] = thread[j]
      BY <2>4 DEF Finish, Ended, RunInv
    <3> QED BY <2>1, <3>2, <3>3 DEF Running, Alive
  <2>5. ASSUME NEW i \in Runs, FinishFails(i) PROVE j \in lost'
    <3>1. j # i => row'[j] = row[j] /\ thread'[j] = thread[j]
      BY <2>5 DEF FinishFails, Ended, RunInv
    <3>2. i \in lost'
      BY <2>5 DEF FinishFails, Loses
    <3> QED BY <2>1, <3>1, <3>2 DEF Running, Alive
  <2>6. CASE Restart
    BY <2>6, RestartKeeps
  <2>7. CASE UNCHANGED <<row, thread>>
    BY <2>1, <2>7 DEF Running, Alive
  <2> QED BY <2>2, <2>3, <2>4, <2>5, <2>6, <2>7, NextCases
<1> QED BY <1>1, <1>2, RunInvariant, PTL DEF Spec

\* What a run came to is never written over, by a thread that ends late or by
\* the reconciliation.
THEOREM VerdictsAreFinal == Spec => VerdictsStand
<1> DEFINE Stand == \A i \in Runs : row[i] # None /\ ~Running(i) => row'[i] = row[i]
<1>1. RunInv /\ [Next]_vars => Stand
  <2> SUFFICES ASSUME RunInv, [Next]_vars, NEW j \in Runs, row[j] # None, ~Running(j)
               PROVE  row'[j] = row[j]
    OBVIOUS
  <2>1. ASSUME NEW i \in Runs, NEW c \in Clusters, Create(i, c) PROVE row'[j] = row[j]
    BY <2>1 DEF Create, RunInv
  <2>2. ASSUME NEW i \in Runs,
               Launch(i) \/ PlaybookEnds(i) \/ Loop(i) \/ QueryEnds(i)
        PROVE  row'[j] = row[j]
    BY <2>2 DEF Launch, PlaybookEnds, Loop, QueryEnds
  <2>3. ASSUME NEW i \in Runs, Finish(i) \/ FinishFails(i) PROVE row'[j] = row[j]
    <3>1. Running(i)
      BY <2>3 DEF Finish, FinishFails, RunInv, Alive
    <3> QED BY <2>3, <3>1 DEF Finish, FinishFails, RunInv
  <2> QED BY <2>1, <2>2, <2>3, NextCases, RestartKeeps
<1>2. RunInv /\ [Next]_vars => [Stand]_vars
  BY <1>1
<1> QED BY <1>2, RunInvariant, PTL DEF Spec, VerdictsStand

-----------------------------------------------------------------------------
(* Schedules: what ties the row of a schedule to the turns it has taken.   *)

Schedule == [enabled : BOOLEAN, paused : BOOLEAN, failures : 0..FailureLimit,
             due : BOOLEAN, clusters : SUBSET Clusters]
Ticks == [at : Schedules \union {None}, todo : SUBSET Schedules,
          left : SUBSET Clusters, started : BOOLEAN, broke : BOOLEAN,
          counts : [Schedules -> 0..FailureLimit]]

ScheduleTypes ==
    /\ schedule \in [Schedules -> {None} \union Schedule]
    /\ tick \in Ticks
    /\ streak \in [Schedules -> Nat]

\* Only a schedule short of the limit is on, and so only such a one is claimed:
\* the count goes up by one at a time and never past the limit.
PauseMeansLimit ==
    \A s \in Schedules : schedule[s] # None =>
        /\ schedule[s].enabled => schedule[s].failures < FailureLimit
        /\ schedule[s].paused <=> schedule[s].failures >= FailureLimit

\* The count a turn writes from is a copy.  It is still the row's: no other step
\* writes the row's count between the claim and the end of the turn.
CopyIsCurrent ==
    /\ tick.at \notin tick.todo
    /\ \A s \in Schedules : BeingFired(s) =>
        /\ tick.counts[s] < FailureLimit
        /\ schedule[s] # None => tick.counts[s] = schedule[s].failures

CountIsStreak ==
    \A s \in Schedules \ lost : schedule[s] # None => schedule[s].failures = streak[s]

ScheduleInv == ScheduleTypes /\ PauseMeansLimit /\ CopyIsCurrent /\ CountIsStreak

LEMMA ScheduleInit == Init => ScheduleInv
<1> SUFFICES ASSUME Init PROVE ScheduleInv
  OBVIOUS
<1>1. /\ schedule \in [Schedules -> Schedule]
      /\ \A s \in Schedules : /\ schedule[s].enabled /\ ~schedule[s].paused
                              /\ schedule[s].failures = 0
  <2> DEFINE New == [enabled : {TRUE}, paused : {FALSE}, failures : {0}, due : {TRUE},
                     clusters : SUBSET Clusters \ {{}}]
  <2>1. 0 \in 0..FailureLimit
    BY ConstantsAssumption
  <2>2. \A x \in New : x \in Schedule /\ x.enabled /\ ~x.paused /\ x.failures = 0
    BY <2>1 DEF Schedule
  <2>3. schedule \in [Schedules -> New]
    BY DEF Init
  <2> HIDE DEF New
  <2> QED BY <2>2, <2>3
<1>2. tick = Waiting /\ Waiting \in Ticks /\ streak = [s \in Schedules |-> 0]
  BY ConstantsAssumption DEF Init, Waiting, Ticks
<1>3. ScheduleTypes
  BY <1>1, <1>2 DEF ScheduleTypes
<1>4. PauseMeansLimit /\ CountIsStreak
  BY <1>1, <1>2, ConstantsAssumption DEF PauseMeansLimit, CountIsStreak
<1>5. CopyIsCurrent
  BY <1>2, ConstantsAssumption DEF CopyIsCurrent, BeingFired, Waiting
<1> QED BY <1>3, <1>4, <1>5 DEF ScheduleInv

\* A step that leaves the schedules and the ticker alone.
LEMMA AsideKeeps ==
    ASSUME ScheduleInv, UNCHANGED scheduleVars, lost \subseteq lost'
    PROVE  ScheduleInv'
BY DEF ScheduleInv, ScheduleTypes, PauseMeansLimit, CopyIsCurrent, CountIsStreak,
       BeingFired, scheduleVars

\* The ticker's steps before the end of a turn, but for the claim.
LEMMA TickKeeps ==
    ASSUME ScheduleInv, UNCHANGED <<schedule, streak>>, lost \subseteq lost',
           tick' \in Ticks, tick'.at \notin tick'.todo,
           tick'.counts = tick.counts,
           \A s \in Schedules : BeingFired(s)' => BeingFired(s)
    PROVE  ScheduleInv'
BY DEF ScheduleInv, ScheduleTypes, PauseMeansLimit, CopyIsCurrent, CountIsStreak

LEMMA TurnKeeps ==
    ASSUME ScheduleInv, NEW s \in Schedules, Turn(s)
    PROVE  ScheduleInv'
<1>1. PICK left \in SUBSET Clusters :
          tick' = [tick EXCEPT !.at = s, !.todo = @ \ {s}, !.left = left]
  <2>1. schedule[s] # None => schedule[s].clusters \in SUBSET Clusters
    BY DEF ScheduleInv, ScheduleTypes, Schedule
  <2> QED BY <2>1 DEF Turn
<1>2. tick \in Ticks /\ tick.at = None /\ s \in tick.todo
  BY DEF Turn, ScheduleInv, ScheduleTypes
<1>3. tick' \in Ticks /\ tick'.at = s /\ tick'.todo = tick.todo \ {s}
      /\ tick'.counts = tick.counts
  BY <1>1, <1>2 DEF Ticks
<1>4. \A t \in Schedules : BeingFired(t)' => BeingFired(t)
  BY <1>2, <1>3 DEF BeingFired
<1> QED BY <1>3, <1>4, TickKeeps DEF Turn

LEMMA TryKeeps ==
    ASSUME ScheduleInv, NEW c \in Clusters, Try(c)
    PROVE  ScheduleInv'
<1>1. \E started, broke \in BOOLEAN : Tried(c, started, broke)
  BY DEF Try, Starts, Skips, Breaks
<1>2. /\ tick' \in Ticks
      /\ tick'.at = tick.at /\ tick'.todo = tick.todo /\ tick'.counts = tick.counts
  BY <1>1 DEF Tried, Ticks, ScheduleInv, ScheduleTypes
<1>3. \A t \in Schedules : BeingFired(t)' => BeingFired(t)
  BY <1>2 DEF BeingFired
<1>4. lost' = lost
  BY DEF Try, Starts, Skips, Breaks
<1> QED BY <1>2, <1>3, <1>4, TickKeeps DEF Try, ScheduleInv, CopyIsCurrent

LEMMA ClaimKeeps ==
    ASSUME ScheduleInv, Claim
    PROVE  ScheduleInv'
<1>1. /\ tick \in Ticks
      /\ tick.at = None /\ tick.todo = {}
      /\ Due \subseteq Schedules
      /\ \A s \in Due : schedule[s] # None /\ schedule[s].enabled
  BY DEF Claim, Due, ScheduleInv, ScheduleTypes
<1>2. \A s \in Due : /\ schedule[s] \in Schedule
                     /\ schedule[s].failures \in 0..FailureLimit
                     /\ schedule[s].failures < FailureLimit
  BY <1>1 DEF ScheduleInv, ScheduleTypes, PauseMeansLimit, Schedule
<1>3. schedule' = [s \in Schedules |->
          IF s \in Due THEN [schedule[s] EXCEPT !.due = FALSE] ELSE schedule[s]]
  BY DEF Claim
<1>4. \A s \in Schedules \ Due : schedule'[s] = schedule[s]
  BY <1>3
<1>5. \A s \in Due : /\ schedule'[s] \in Schedule
                     /\ schedule'[s].failures = schedule[s].failures
                     /\ schedule'[s].paused = schedule[s].paused
                     /\ schedule'[s].enabled = schedule[s].enabled
  BY <1>1, <1>2, <1>3 DEF Schedule
<1> DEFINE counts == [s \in Schedules |-> IF s \in Due THEN schedule[s].failures ELSE 0]
<1>6. counts \in [Schedules -> 0..FailureLimit]
  BY <1>2, ConstantsAssumption
<1>7. \A s \in Due : counts[s] = schedule[s].failures
  BY <1>1
<1>8. tick' = [tick EXCEPT !.todo = Due, !.counts = counts]
  BY DEF Claim
<1> HIDE DEF counts
<1>9. tick' \in Ticks /\ tick'.at = None /\ tick'.todo = Due /\ tick'.counts = counts
  BY <1>1, <1>6, <1>8 DEF Ticks
<1>10. ScheduleTypes'
  <2>1. schedule' \in [Schedules -> {None} \union Schedule]
    BY <1>3, <1>4, <1>5 DEF ScheduleInv, ScheduleTypes
  <2> QED BY <1>9, <2>1 DEF Claim, ScheduleInv, ScheduleTypes
<1>11. PauseMeansLimit'
  BY <1>1, <1>4, <1>5 DEF ScheduleInv, PauseMeansLimit
<1>12. CopyIsCurrent'
  BY <1>1, <1>2, <1>5, <1>7, <1>9, ConstantsAssumption DEF CopyIsCurrent, BeingFired
<1>13. CountIsStreak'
  BY <1>1, <1>4, <1>5 DEF ScheduleInv, CountIsStreak, Claim
<1> QED BY <1>10, <1>11, <1>12, <1>13 DEF ScheduleInv

\* One schedule's row is written, and the ticker is left as it is.
LEMMA RowKeeps ==
    ASSUME ScheduleInv, NEW s \in Schedules, NEW new,
           new # None => /\ new \in Schedule
                         /\ new.enabled => new.failures < FailureLimit
                         /\ new.paused <=> new.failures >= FailureLimit
                         /\ BeingFired(s) => new.failures = tick.counts[s]
                         /\ s \notin lost => new.failures = streak'[s],
           schedule' = [schedule EXCEPT ![s] = new],
           streak' \in [Schedules -> Nat],
           \A t \in Schedules \ {s} : streak'[t] = streak[t],
           UNCHANGED <<tick, lost>>
    PROVE  ScheduleInv'
<1>1. /\ schedule'[s] = new
      /\ \A t \in Schedules \ {s} : schedule'[t] = schedule[t]
  BY DEF ScheduleInv, ScheduleTypes
<1>2. ScheduleTypes'
  BY DEF ScheduleInv, ScheduleTypes
<1>3. PauseMeansLimit'
  BY <1>1 DEF ScheduleInv, PauseMeansLimit
<1>4. CopyIsCurrent'
  BY <1>1 DEF ScheduleInv, CopyIsCurrent, BeingFired
<1>5. CountIsStreak'
  BY <1>1 DEF ScheduleInv, CountIsStreak
<1> QED BY <1>2, <1>3, <1>4, <1>5 DEF ScheduleInv

LEMMA EditsKeep ==
    ASSUME ScheduleInv, NEW s \in Schedules,
           TimePasses(s) \/ Enable(s) \/ Disable(s) \/ DeleteSchedule(s)
    PROVE  ScheduleInv'
<1>1. /\ schedule[s] \in Schedule
      /\ schedule[s].enabled => schedule[s].failures < FailureLimit
      /\ schedule[s].paused <=> schedule[s].failures >= FailureLimit
      /\ BeingFired(s) => schedule[s].failures = tick.counts[s]
      /\ s \notin lost => schedule[s].failures = streak[s]
  BY DEF TimePasses, Enable, Disable, DeleteSchedule, ScheduleInv, ScheduleTypes,
         PauseMeansLimit, CopyIsCurrent, CountIsStreak
<1>2. streak \in [Schedules -> Nat]
  BY DEF ScheduleInv, ScheduleTypes
<1>3. CASE TimePasses(s)
  <2> DEFINE new == [schedule[s] EXCEPT !.due = TRUE]
  <2>1. /\ new \in Schedule /\ new.enabled = schedule[s].enabled
        /\ new.paused = schedule[s].paused /\ new.failures = schedule[s].failures
    BY <1>1 DEF Schedule
  <2>2. schedule' = [schedule EXCEPT ![s] = new] /\ UNCHANGED <<tick, lost, streak>>
    BY <1>3 DEF TimePasses
  <2> HIDE DEF new
  <2> QED BY <1>1, <1>2, <2>1, <2>2, RowKeeps
<1>4. CASE Disable(s)
  <2> DEFINE new == [schedule[s] EXCEPT !.enabled = FALSE]
  <2>1. /\ new \in Schedule /\ ~new.enabled
        /\ new.paused = schedule[s].paused /\ new.failures = schedule[s].failures
    BY <1>1 DEF Schedule
  <2>2. schedule' = [schedule EXCEPT ![s] = new] /\ UNCHANGED <<tick, lost, streak>>
    BY <1>4 DEF Disable
  <2> HIDE DEF new
  <2> QED BY <1>1, <1>2, <2>1, <2>2, RowKeeps
<1>5. CASE Enable(s)
  <2> DEFINE new == [schedule[s] EXCEPT !.enabled = TRUE, !.failures = 0,
                                        !.paused = FALSE, !.due = FALSE]
  <2>1. new \in Schedule /\ new.paused = FALSE /\ new.failures = 0
    <3>1. 0 \in 0..FailureLimit
      BY ConstantsAssumption
    <3> QED BY <1>1, <3>1 DEF Schedule
  <2>2. /\ schedule' = [schedule EXCEPT ![s] = new] /\ UNCHANGED <<tick, lost>>
        /\ streak' = [streak EXCEPT ![s] = 0]
        /\ ~BeingFired(s)
    BY <1>5 DEF Enable
  <2>3. /\ streak' \in [Schedules -> Nat] /\ streak'[s] = 0
        /\ \A t \in Schedules \ {s} : streak'[t] = streak[t]
    BY <1>2, <2>2
  <2> HIDE DEF new
  <2>4. /\ new.failures < FailureLimit
        /\ new.paused <=> new.failures >= FailureLimit
    BY <2>1, ConstantsAssumption
  <2> QED BY <2>1, <2>2, <2>3, <2>4, RowKeeps
<1>6. CASE DeleteSchedule(s)
  BY <1>2, <1>6, RowKeeps DEF DeleteSchedule
<1> QED BY <1>3, <1>4, <1>5, <1>6

\* The last step of a turn.  The row and the history move together, by the
\* count that was claimed, or the schedule is lost.
LEMMA RecordKeeps ==
    ASSUME ScheduleInv, RecordTurn
    PROVE  ScheduleInv'
<1> DEFINE s == tick.at
           n == streak[s]
           m == IF tick.started THEN 0 ELSE IF tick.broke THEN n + 1 ELSE n
<1>1. /\ s \in Schedules /\ BeingFired(s) /\ s \notin tick.todo
      /\ tick \in Ticks
      /\ tick.counts[s] \in 0..FailureLimit /\ tick.counts[s] < FailureLimit
      /\ schedule[s] # None => /\ schedule[s] \in Schedule
                               /\ schedule[s].failures = tick.counts[s]
                               /\ ~schedule[s].paused
                               /\ s \notin lost => schedule[s].failures = n
      /\ n \in Nat
  <2>1. /\ s \in Schedules /\ BeingFired(s) /\ s \notin tick.todo /\ tick \in Ticks
    BY DEF RecordTurn, ScheduleInv, ScheduleTypes, Ticks, CopyIsCurrent, BeingFired
  <2>2. /\ tick.counts[s] \in 0..FailureLimit /\ tick.counts[s] < FailureLimit
        /\ n \in Nat
    BY <2>1 DEF ScheduleInv, ScheduleTypes, Ticks, CopyIsCurrent
  <2>3. ASSUME schedule[s] # None
        PROVE  /\ schedule[s] \in Schedule
               /\ schedule[s].failures = tick.counts[s]
               /\ ~schedule[s].paused
               /\ s \notin lost => schedule[s].failures = n
    <3>1. schedule[s] \in Schedule /\ schedule[s].failures = tick.counts[s]
      BY <2>1, <2>3 DEF ScheduleInv, ScheduleTypes, CopyIsCurrent
    <3>2. schedule[s].paused <=> schedule[s].failures >= FailureLimit
      BY <2>1, <2>3 DEF ScheduleInv, PauseMeansLimit
    <3>3. ~schedule[s].paused
      BY <2>2, <3>1, <3>2, ConstantsAssumption
    <3>4. s \notin lost => schedule[s].failures = n
      BY <2>1, <2>3 DEF ScheduleInv, CountIsStreak
    <3> QED BY <3>1, <3>3, <3>4
  <2> QED BY <2>1, <2>2, <2>3
<1>2. /\ streak' \in [Schedules -> Nat]
      /\ streak'[s] = m
      /\ \A t \in Schedules \ {s} : streak'[t] = streak[t]
  BY <1>1 DEF RecordTurn, Counted, ScheduleInv, ScheduleTypes
<1>3. /\ tick' \in Ticks
      /\ tick'.at = None /\ tick'.todo = tick.todo
      /\ \A t \in Schedules \ {s} : tick'.counts[t] = tick.counts[t]
  <2>1. [tick.counts EXCEPT ![s] = 0] \in [Schedules -> 0..FailureLimit]
    BY <1>1, ConstantsAssumption DEF Ticks
  <2>2. tick' = [tick EXCEPT !.at = None, !.started = FALSE, !.broke = FALSE,
                             !.counts = [tick.counts EXCEPT ![s] = 0]]
    BY <1>1 DEF RecordTurn, Ticks
  <2> QED BY <1>1, <2>1, <2>2 DEF Ticks
<1>4. \A t \in Schedules : BeingFired(t)' => t # s /\ BeingFired(t)
  BY <1>1, <1>3, ConstantsAssumption DEF BeingFired
<1>5. tick'.at \notin tick'.todo
  BY <1>1, <1>3, ConstantsAssumption DEF Ticks
<1>6. \A t \in Schedules \ {s} : schedule'[t] = schedule[t]
  BY <1>1 DEF RecordTurn, ScheduleInv, ScheduleTypes
<1>7. schedule[s] = None => schedule'[s] = None
  BY <1>1 DEF RecordTurn
<1>8. schedule[s] # None =>
          \/ schedule'[s] = schedule[s] /\ s \in lost'
          \/ schedule'[s] = Outcome(schedule[s], tick.counts[s]) /\ lost' = lost
  BY <1>1 DEF RecordTurn, Loses, ScheduleInv, ScheduleTypes
<1>9. schedule[s] # None =>
          LET new == Outcome(schedule[s], tick.counts[s]) IN
          /\ new \in Schedule
          /\ new.enabled => schedule[s].enabled /\ new.failures < FailureLimit
          /\ new.paused <=> new.failures >= FailureLimit
          /\ s \notin lost => new.failures = m
  <2> SUFFICES ASSUME schedule[s] # None
               PROVE  LET new == Outcome(schedule[s], tick.counts[s]) IN
                      /\ new \in Schedule
                      /\ new.enabled => schedule[s].enabled /\ new.failures < FailureLimit
                      /\ new.paused <=> new.failures >= FailureLimit
                      /\ s \notin lost => new.failures = m
    OBVIOUS
  <2> DEFINE count == tick.counts[s]
             old == schedule[s]
  <2>1. /\ old \in Schedule /\ old.failures = count /\ ~old.paused
        /\ count \in Nat /\ count < FailureLimit /\ FailureLimit \in Nat \ {0}
        /\ s \notin lost => count = n
    BY <1>1, ConstantsAssumption
  <2> HIDE DEF count, old
  <2>2. CASE tick.started
    <3>1. Outcome(old, count) = [old EXCEPT !.failures = 0]
      BY <2>2 DEF Outcome
    <3>2. Outcome(old, count) \in Schedule
      BY <2>1, <3>1 DEF Schedule
    <3>3. /\ Outcome(old, count).failures = 0
          /\ Outcome(old, count).paused = old.paused
          /\ Outcome(old, count).enabled = old.enabled
      BY <2>1, <3>1 DEF Schedule
    <3> QED BY <2>1, <2>2, <3>2, <3>3 DEF count, old
  <2>3. CASE ~tick.started /\ tick.broke
    <3>1. Outcome(old, count) = Failed(old, count + 1, count + 1 >= FailureLimit)
      BY <2>3 DEF Outcome
    <3>2. /\ count + 1 \in 0..FailureLimit
          /\ (old.enabled /\ ~(count + 1 >= FailureLimit)) \in BOOLEAN
          /\ (old.paused \/ count + 1 >= FailureLimit) \in BOOLEAN
      BY <2>1
    <3>3. Outcome(old, count) =
              [old EXCEPT !.failures = count + 1,
                          !.enabled = old.enabled /\ ~(count + 1 >= FailureLimit),
                          !.paused = old.paused \/ count + 1 >= FailureLimit]
      BY <3>1 DEF Failed
    <3>4. Outcome(old, count) \in Schedule
      BY <2>1, <3>2, <3>3 DEF Schedule
    <3>5. /\ Outcome(old, count).failures = count + 1
          /\ Outcome(old, count).paused = (old.paused \/ count + 1 >= FailureLimit)
          /\ Outcome(old, count).enabled = (old.enabled /\ ~(count + 1 >= FailureLimit))
      BY <2>1, <3>2, <3>3 DEF Schedule
    <3> HIDE DEF m
    <3>6. m = n + 1
      BY <2>3 DEF m
    <3>7. s \notin lost => Outcome(old, count).failures = m
      BY <2>1, <3>5, <3>6
    <3> DEFINE pauses == count + 1 >= FailureLimit
    <3>8. pauses <=> ~(count + 1 < FailureLimit)
      BY <2>1
    <3>9. /\ Outcome(old, count).paused = (old.paused \/ pauses)
          /\ Outcome(old, count).enabled = (old.enabled /\ ~pauses)
      BY <3>5
    <3> HIDE DEF pauses
    <3>10. /\ Outcome(old, count).paused <=> pauses
           /\ Outcome(old, count).enabled => old.enabled /\ ~pauses
      BY <2>1, <3>9, Zenon
    <3>11. /\ Outcome(old, count).enabled => old.enabled /\ count + 1 < FailureLimit
           /\ Outcome(old, count).paused <=> count + 1 >= FailureLimit
      BY <3>8, <3>10 DEF pauses
    <3> QED BY <3>4, <3>5, <3>7, <3>11 DEF count, old
  <2>4. CASE ~tick.started /\ ~tick.broke
    <3>1. Outcome(old, count) = old
      BY <2>4 DEF Outcome
    <3> QED BY <2>1, <2>4, <3>1 DEF count, old
  <2> QED BY <2>2, <2>3, <2>4
<1>10. lost \subseteq lost'
  BY DEF RecordTurn, Loses
<1>11. schedule' \in [Schedules -> {None} \union Schedule]
  <2>1. schedule' = schedule \/ schedule' = [schedule EXCEPT ![s] =
                                   Outcome(schedule[s], tick.counts[s])]
    BY <1>1 DEF RecordTurn, ScheduleInv, ScheduleTypes
  <2> HIDE DEF s
  <2> QED BY <1>1, <1>6, <1>7, <1>8, <1>9, <2>1 DEF ScheduleInv, ScheduleTypes
<1> HIDE DEF s, m, n
<1>12. ScheduleTypes'
  BY <1>2, <1>3, <1>11 DEF ScheduleTypes
<1>13. PauseMeansLimit'
  BY <1>1, <1>6, <1>7, <1>8, <1>9 DEF ScheduleInv, PauseMeansLimit
<1>14. CopyIsCurrent'
  BY <1>3, <1>4, <1>5, <1>6 DEF ScheduleInv, CopyIsCurrent
<1>15. CountIsStreak'
  BY <1>2, <1>6, <1>7, <1>8, <1>9, <1>10 DEF ScheduleInv, CountIsStreak
<1> QED BY <1>12, <1>13, <1>14, <1>15 DEF ScheduleInv

LEMMA RestartKeepsSchedules ==
    ASSUME ScheduleInv, Restart
    PROVE  ScheduleInv'
<1>1. tick' = Waiting /\ UNCHANGED <<schedule, streak>> /\ lost \subseteq lost'
  BY DEF Restart, Loses
<1>2. Waiting \in Ticks
  BY ConstantsAssumption DEF Waiting, Ticks
<1>3. CopyIsCurrent'
  BY <1>1, ConstantsAssumption DEF CopyIsCurrent, BeingFired, Waiting
<1> QED BY <1>1, <1>2, <1>3 DEF ScheduleInv, ScheduleTypes, PauseMeansLimit, CountIsStreak

LEMMA ScheduleStep == ScheduleInv /\ [Next]_vars => ScheduleInv'
<1> SUFFICES ASSUME ScheduleInv, [Next]_vars PROVE ScheduleInv'
  OBVIOUS
<1>1. CASE UNCHANGED scheduleVars
  BY <1>1, AsideKeeps, LostGrows
<1>2. CASE UNCHANGED vars
  BY <1>1, <1>2 DEF vars, scheduleVars
<1>3. ASSUME NEW i \in Runs,
             \/ \E c \in Clusters : Start(i, c)
             \/ Launch(i) \/ PlaybookEnds(i) \/ Loop(i) \/ QueryEnds(i) \/ Abort(i)
             \/ Finish(i) \/ FinishFails(i)
      PROVE  UNCHANGED scheduleVars
  BY <1>3 DEF Start, Launch, PlaybookEnds, Loop, QueryEnds, Abort, Finish, FinishFails
<1>4. CASE DeleteSet \/ CreateSet
  BY <1>1, <1>4 DEF DeleteSet, CreateSet
<1> QED BY <1>1, <1>2, <1>3, <1>4, TurnKeeps, EditsKeep, ClaimKeeps, RecordKeeps, TryKeeps,
           RestartKeepsSchedules DEF Next

LEMMA ScheduleInvariant == Spec => []ScheduleInv
BY ScheduleInit, ScheduleStep, PTL DEF Spec

\* A schedule is paused after FailureLimit turns in a row that broke and for
\* nothing else, whatever the ticker, the operators and a restart do in between,
\* as long as no turn of it went unrecorded.
THEOREM PausedForFailures == Spec => []PausedByFailures
<1>1. ScheduleInv => PausedByFailures
  BY DEF ScheduleInv, PauseMeansLimit, CountIsStreak, PausedByFailures
<1> QED BY <1>1, ScheduleInvariant, PTL

\* Every variable keeps its type: the count of failures stays within the limit
\* though nothing in _fire says so.
THEOREM JobTypeCorrect == Spec => []TypeOK
<1> DEFINE Rest == /\ aborting \subseteq Benchmarks
                   /\ setHere \in BOOLEAN
                   /\ faults \in 0..MaxFaults
                   /\ lost \subseteq Runs \union Schedules
<1>1. Init => Rest
  BY ConstantsAssumption DEF Init
<1>2. ScheduleInv /\ Rest /\ [Next]_vars => Rest'
  <2> SUFFICES ASSUME ScheduleInv, Rest, [Next]_vars PROVE Rest'
    OBVIOUS
  <2>1. Fault => faults' \in 0..MaxFaults
    BY ConstantsAssumption DEF Fault
  <2>2. CASE UNCHANGED vars
    BY <2>2 DEF vars
  <2>3. ASSUME NEW i \in Runs,
             \/ \E c \in Clusters : Start(i, c)
             \/ Launch(i) \/ PlaybookEnds(i) \/ Loop(i) \/ QueryEnds(i) \/ Abort(i)
             \/ Finish(i) \/ FinishFails(i)
        PROVE  Rest'
    BY <2>1, <2>3 DEF Start, Launch, PlaybookEnds, Loop, QueryEnds, Abort, Finish,
                      FinishFails, Ended, Loses
  <2>4. CASE DeleteSet \/ CreateSet \/ Claim
    BY <2>4 DEF DeleteSet, CreateSet, Claim, runVars
  <2>5. ASSUME NEW s \in Schedules,
               TimePasses(s) \/ Turn(s) \/ Enable(s) \/ Disable(s) \/ DeleteSchedule(s)
        PROVE  Rest'
    BY <2>5 DEF TimePasses, Turn, Enable, Disable, DeleteSchedule, runVars
  <2>6. CASE RecordTurn
    <3>1. tick.at \in Schedules
      BY <2>6 DEF RecordTurn, ScheduleInv, ScheduleTypes, Ticks
    <3> QED BY <2>1, <2>6, <3>1 DEF RecordTurn, Loses, runVars
  <2>7. ASSUME NEW c \in Clusters, Try(c) PROVE Rest'
    BY <2>1, <2>7 DEF Try, Starts, Skips, Breaks, runVars
  <2>8. CASE Restart
    <3>1. PICK failed \in SUBSET {Jobs, Benchmarks} :
              /\ faults + 1 + Cardinality(failed) <= MaxFaults
              /\ faults' = faults + 1 + Cardinality(failed)
      BY <2>8 DEF Restart
    <3>2. Cardinality(failed) \in Nat
      <4>1. IsFiniteSet({Jobs}) /\ IsFiniteSet({Jobs} \union {Benchmarks})
        BY FS_Singleton, FS_AddElement
      <4>2. {Jobs} \union {Benchmarks} = {Jobs, Benchmarks}
        OBVIOUS
      <4>3. IsFiniteSet({Jobs, Benchmarks})
        BY <4>1, <4>2
      <4>4. IsFiniteSet(failed)
        BY <4>3, FS_Subset
      <4> QED BY <4>4, FS_CardinalityType
    <3>3. faults' \in 0..MaxFaults
      BY <3>1, <3>2, ConstantsAssumption
    <3> QED BY <2>8, <3>3 DEF Restart, Loses
  <2> QED BY <2>2, <2>3, <2>4, <2>5, <2>6, <2>7, <2>8 DEF Next
<1>3. RunInv /\ ScheduleInv /\ Rest => TypeOK
  BY DEF RunInv, ScheduleInv, ScheduleTypes, TypeOK, Rows, Schedule, Ticks
<1> QED BY <1>1, <1>2, <1>3, RunInvariant, ScheduleInvariant, PTL DEF Spec
=============================================================================
