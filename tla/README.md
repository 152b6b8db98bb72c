# TLA+ verification of trino-management-service

trino-management-service (TMS) operates a fleet of Trino clusters behind a Trino
Gateway: it collects what the coordinators report, restarts a cluster without
killing queries, deploys catalogs and configuration, runs playbooks and
benchmarks. This directory models the parts of it that write to production and the
parts they decide by, checks the models with TLC on small instances, and proves all of the
safety properties the passing runs check with TLAPS, for every instance: of the restart service (with the
refinement of its protocol), the deployments, the job runner and its schedules, the four parts of the
collector and the eleven of the console.

Contents: 1 inventory; 2 how the pieces run; 3 the modules; 4 the runs and their bounds; 5 fairness;
6 what is proved; 7 disagreements between code and documentation; 8 what is not modelled; 9 plan.

## 1. Inventory

Two processes share one PostgreSQL database. **tms-collector** polls the coordinators and
replaces snapshots in the database. **tms-api** serves requests (FastAPI, one thread per
request), holds the write operations, and has one background thread that ticks
benchmark schedules and one thread per playbook or benchmark it has launched.

| component | state | operations | interacts with | what makes it correct |
|---|---|---|---|---|
| Safe restart (`ops/sequence.py`, `service.py`, `repository.py`, `ansible.py`, `executor.py`) | `restart_sequence` rows; the executor's `_runs` in memory | start, refresh, force, restart, restarted, complete, abort | Gateway (activate, deactivate), collector's snapshots, audit, Ansible | one sequence per cluster; traffic held from drain to restart and back on every exit; no step skipped; always abortable |
| Catalogs and config changes (`ops/catalogservice.py`, `configeditservice.py`) | draft and deployment rows; `_busy` in memory | create, edit, delete, deploy, remove; the deploy thread | Ansible, audit, the config scan | only content proved on a development cluster reaches another; one playbook per cluster |
| Fleet jobs (`fleet/jobs.py`, `jobstore.py`) | `fleet_job_run` rows; threads | start, finish, reconcile at startup | Ansible, audit | one per cluster; no orphaned row; verdicts final |
| Benchmarks (`bench/runner.py`, `store.py`, `service.py`) | `benchmark_run` rows; threads; `_aborting` | start, abort, finish, reconcile | Trino SQL, audit | as jobs; a stop is honoured before the next query |
| Schedules (`bench/schedules.py`, `ticker.py`) | `benchmark_schedule` rows | claim, fire, pause, enable, disable, delete | benchmarks | one turn per due time, none made up for, at its hour; paused by its own failures and nothing else |
| Collector (`collector/`) | snapshots; poll clocks; a breaker per cluster; advisory lock | start, lock, tick; polls on three schedules, back-off, H-09; Gateway and fleet polls | Trino, Gateway, nodes, database, health engine | one collector writes; a race is not taken for a filtered query list; a cluster in trouble does not starve the next |
| Health engine (`health/`, `health_writer.py`) | confirmed state, streak and kill counter per test; events, roll-up, overrides in the database | evaluate, confirm, roll up, override | collector, restart | GOOD is earned by fresh readings; events form a chain; a restarted cluster can return to GOOD |
| Clients (`clients/`) | circuit breaker per cluster | admit, record, retry | everything upstream | permanent errors do not open the breaker; a coordinator that is back is seen again |
| Audit guard (`core/audit.py`) | append-only `audit_log`; one connection | probe, act, record | every write action | nothing unaudited is attempted |
| Node list (`fleet/nodeservice.py`) | node rows; inventory files | add, remove, scan, import, startup | playbooks read the files | the file says what the rows say; a machine stands in it once |
| Fleet (`fleet_poller.py`, `fleet/service.py`) | the inventory parsed at start; fleet snapshot | tick, identify, shut down | coordinator and workers | what the lookup answers explains the gap it is offered over |
| Gateway routing (`gateway_poller.py`, `clients/gateway.py`) | the Gateway's registry; joined rows | join, look up, (de)activate | restart, benchmarks | the backend that is stopped is the cluster's own |
| Config store, resource groups (`ops/config_store.py`) | groups and selectors in Trino's own tables; revisions | create, edit, delete, revert | Trino | history without gaps; a catch-all selector always |
| Groups as they run (`collector/resourcegroups.py`, `get_resource_group_config`) | the poll's snapshot | list and read MBeans; line them up with the store | Trino, the configuration store | what was read is shown, once, and what was not is told from it |
| Config scan (`ops/configservice.py`) | `_running`; a snapshot per cluster | scan, time out, compare | playbook; deployments ask it what is known | "agree" means that they agree |
| Sessions and accounts (`core/sessions.py`, `localauth.py`) | signed cookie; account and failures in memory | login, slide, change password, log out | every request | an absolute lifetime; a changed password stays changed |
| Query sets (`bench/setstore.py`, `compare.py`) | set, queries, marks; copies in runs | edit, rename, delete, run, compare | benchmarks | no percentage across two different statements |
| Work board (`work/`) | items, moves | raise, move | – | the moves of an item form a chain |
| Configuration and checker, UI, packaging | – | – | – | not behaviour a model adds to |

Behaviours that are hard: requests that hold a private copy of a row while others
save theirs; threads that outlive their request; calls to the Gateway or a playbook whose
result is lost; a restart of tms-api between any two statements; snapshots that are old
when they are used. `PROJECT.json` lists these hazards line by line.

## 2. How the pieces run, and what a step is

A step is what happens between two calls to the outside: a database statement, a Gateway
call, a launch, a read of a snapshot. Two requests interleave between any two of those.
Connections are in autocommit, so each statement is a transaction, and "the UPDATE committed
and the next INSERT failed" is a step of its own.

A *fault* is a failed statement, a failed call to the Gateway or to the executor, or a
restart of tms-api. `MaxFaults` bounds their number. A refused request (wrong state, no
permission, no reason given) leaves no trace and is no step.

## 3. Modules

### Safe restart

- **RestartSequence** – `ops/sequence.py`: the sequence object as functions on a record
  `[state, running, health, store]`. `DrainConfirmed`, `WouldStartAgain`, `HealthConfirmed`
  are the gates of its transitions. The history list is left out: nothing reads it.
- **RestartService** – the requests. A request is `[pc, op, id, seq, dirty]`: `seq` is the
  private copy it loaded and `pc` the call it is about to make:

  | pc | call | action | operations |
  |---|---|---|---|
  | – | INSERT / load | `Start`, `Press` | all |
  | touch, mark | first save | `SaveStep`, `SaveFails` | start; abort |
  | audit | `AuditGuard.action` | `AuditStep` | start, force, restart, complete, abort |
  | act | Gateway, executor | `GatewayStep`, `GatewayFails`, `LaunchStep`, `LaunchFails` | start, complete, abort; restart |
  | observe | snapshots, store probe | `ObserveStep`, `ObserveFails` | all but abort |
  | poll | `_poll_executor` | `PollStep` | refresh |
  | save | last save | `SaveStep`, `SaveFails` | all |

  `UniqueIndexAdmits` is the partial unique index of migration 004, checked by INSERT and
  UPDATE alike. The world around it: `Bounce` (the coordinator goes down), `PlaybookEnds`,
  `QueryArrives`, `QueryEnds`, `CollectQueries`, `CollectHealth`, `Crash`. Two history
  variables decide no step: `fact` (what has really happened under a sequence) and `freshH`.
- **RestartProtocol** – the abstract specification: the stage of each sequence and whether
  the Gateway routes to the cluster, one action per transition of the diagram in
  `sequence.py`, with traffic as a condition of each.
- **RestartProperties** – the properties, and `Protocol`, the refinement mapping (a row's
  state is its stage).
- **RestartProofs**, **RestartProtocolProofs** – section 6. **MCRestart** – instances.

### Catalog and configuration deployment

- **ProvedDeploy** – both services in one module: they have the same shape, and each has its
  own drafts and flags. A *slot* is a service with a cluster. `Edit`/`Save` is a save with its
  load; `Deploy`, `Claim`, `Record` are the request, `Play`, `FinishDeployment`, `MarkProved`,
  `Free` the thread it starts. `landed` is history: what a playbook has really placed on a
  development cluster. **DeployProofs** – section 6. **MCProvedDeploy** – instances.

### Runs and schedules

- **JobRuns** – fleet jobs and benchmark runs: `Create` inserts the RUNNING row, `Launch`
  makes the thread, `PlaybookEnds` or `Loop`/`QueryEnds` is its work, `Finish`/`FinishFails` its last
  UPDATE. `Restart` ends every thread and reconciles each store, or fails to. The
  ticker claims what is due (`Claim`), takes a schedule's turn (`Turn`), tries its clusters
  (`Starts`, `Skips`, `Breaks`) and records the outcome (`RecordTurn`). `streak` and `lost` are
  history: turns that broke in a row, and rows a statement about which has failed. A run's flag
  left in `_aborting` by an abort that overtakes the run's end is not kept: ids never repeat
  and nothing reads it. **JobRunProofs** – section 6. **MCJobRuns** – instances.

### The collector

- **Upstream** – `clients/errors.py`, `circuit.py` and the retry loop: functions on a breaker record whose clock runs
  down. `AllowsRequest` admits whoever asks once the cooldown is over, as the code does.
- **Polling** – one `ClusterPoller` and its coordinator: `StartTick` decides what is due, `PollInfo`, `PollJmx`,
  `PollQueries` each go through the breaker, store or fail, and set their timer again; `todo` is the set of polls the tick has left, and
  `IsNext` takes them in the order of `_POLL_ORDER`. `ServerChanges` alters what the
  coordinator answers, what it lets TMS see and its load. Every poll takes a unit of time, so that the
  age of a JMX reading, which H-09 depends on, is what the intervals make it. `past` is history: how often the load fell since
  the last list, and whether a list was filtered.
- **HealthTests** – the nine tests, `ActiveTests`, `Results`, `RollUp`, as functions of a context of snapshots.
- **HealthWatch** – the engine's memory over ticks: one reading is evaluated several times, transitions are
  confirmed after `Stabilization` evaluations, events are inserted (or lost), overrides are loaded (or not).
- **RestartReturn** – *RestartSequence composed with HealthTests*: RestartService takes any verdict; here a verdict is computed
  from a Gateway list the restart itself changed and from queries that no longer come.
- **CollectorLoop** – the process: start, session, advisory lock, the loop over clusters, signals, kills, lost sessions, outages.
- **Collector** – all four behaviours in one specification; **CollectorProofs** – section 6; **MCCollector** instantiates it.

### The rest of tms-api

- **NodeList** – rows committed one by one, then the inventory written byte-wise in effect (opened and truncated, written,
  renamed) through one shared temporary path; callers and scans overlap; `behind` and `doubled` are history: the
  reasons for which the list and the file may differ. A start of tms-api writes the file, or fails to and serves with what there is.
- **Fleet** – inventory as parsed at the collector's start, join with the coordinator's rows, `IdentifyUnjoined`, shutdown. A machine has
  a process, as `/v1/info` tells of it, and a row in `system.runtime.nodes`, of which the coordinator counts the active ones.
- **Routing** – the join of backends to clusters by URL, the lookup by cluster, and the Gateway's write by name.
- **GroupStore** – a change is `lock, read, mutate, read, validate, record`; two administrators, two environments in the same tables.
- **Audit** – probe, action, record on a shared connection; `unaccounted` collects the actions without a record that no
  stated circumstance explains.
- **Sessions** – an answer is made in one step and reaches the browser in another: cookies are overtaken by others.
- **Workload** – the poll of resource groups, one MBean after the other while Trino makes and drops them, and the screen that reads the
  store first and the snapshot then.
- **ScheduleClock** – minutes, the claim's arithmetic and presses that write what they computed earlier: the time JobRuns abstracts
  to due or not due. `first`, `claimed` and `tardy` are history.
- **QuerySets** – the edits of a set, its runs with the copies of statements they keep, and the two screens that compare them. A run may be
  from before the migration that added the copy.
- **ConfigScan**, **Board** – as their headers say.
- **Console** – the eleven in one specification; **GroupProofs**, **ClusterProofs**, **ConsoleProofs** – section 6; **MCConsole** instantiates it.

Collector and Console have a variable `part`. The modules they compose share no variable: where one needs what another writes
(a snapshot, an inventory, a principal) it takes anything the other could have left there, of any age. Interleaving
them would multiply states and show nothing, so a behaviour is one of a single part, all parts are initial, and states
add up. Where two components do interact, a module of its own composes them: RestartReturn, Fleet, Routing, JobRuns.

## 4. Runs

| run | question | bounds, and why they are enough |
|---|---|---|
| MCRestartRace | Can requests that overwrite each other's rows put two sequences in flight, or a row past a step that did not happen? | 2 requests, 2 sequences, no faults, buttons refresh, restart, abort: a late save needs one stale copy and one newer row, and reopening a closed row beside a new one needs two sequences |
| MCRestartTurns | One request at a time: do rows and traffic follow the protocol through every failure? Does a watched success get noticed, and does pressing abort end any sequence? | 1 request, 2 sequences (a second start after the first ended), 2 faults: a fault and a second one while getting out of the first, all buttons; the collected health is none or GOOD, since BAD is refused where none is (MCRestartManual has both) |
| MCRestartManual | Is the coordinator bounced only out of rotation, with the manual executor, an objecting store and lost Gateway replies? | 1 request, 1 sequence, 2 faults, 1 query |
| MCRestartForced, MCRestartAbortRace, MCRestartTwoPlaybooks | violations, section 7 | smallest instance that shows each |
| MCProvedDeployGate | Is only proved content shipped, by one writer, and is every claim given up? | 1 request, a catalog and a change (both mark rules), 2 contents, a development and a production cluster whose scan knows one content, 2 deployments (prove, then ship), 1 fault. Threads of different slots overlap each other and the request. `Patient`: nobody edits a draft being deployed, see section 7 |
| MCProvedDeployEditRace | violation, section 7 | one change, no faults, not patient |
| MCJobRuns | Is there one thread of a kind per cluster, no orphaned row, no overwritten verdict, and is a schedule paused for the right reason? | 2 jobs, 2 benchmarks (one in the way of another), 1 query, 1 schedule, 1 cluster, a failure limit of 2 in place of 3 (one short of it and at it), 2 faults (a restart and the failure of its reconciliation) |
| MCCollector | Four questions. Loop: is there one collector, and does it come to each cluster? Polling: is an open breaker ever mistaken for the truth about a cluster, or one race counted twice by H-09? Health: what can a confirmed verdict rest on? Return: can the last gate of a restart open at all? | Loop: 2 processes, 2 clusters (one that raises before one that must be reached), 2 faults (a lost session and an outage). Polling: threshold 3, 1 retry; query and JMX intervals 2 and 6 and back-off 4 for 5, 15 and 10 s, in proportion; the info interval (6) and the cooldown (3) are shortened, which only makes their polls more frequent; 3 changes of the server and 1 failed save. Health: H-04 and H-07 (a threshold and a counter; the other tests differ only in HealthTests), 3 kills, 2 ticks per reading, 1 fault. Return: all nine tests, 1 query |
| MCReturnStale | violation, section 7 | 1 query, both tests that see the restart may be switched off |
| MCConsole | Per part the property of the same subject: ListHolds, GapExplained, OutMeansOut, GroupTreeKept, EveryActionAccounted, SessionHolds, ScanTellsTruth, UnmarkedIsOneStatement, BoardRemembers, WorkloadTold, SlotsKept | Two actors everywhere, since each hazard is an overlap of two; 1 machine with a name and an address; 2 environments with a group each, 2 revisions, values right and wrong; 2 clusters, 2 backends and 1 alias; 2 machines and 3 inventory texts, one of which is a cycle of groups and one a machine under two roles, 2 changes of processes, rows or texts; 2 tabs and times up to 3 against an idle window of 1 and a lifetime of 2; 2 calls and 2 store faults; 3 nodes and 2 events during a scan; 2 editors, 2 queries, 2 texts, 2 runs, of which the first may have no copy; 2 items and 3 moves; a group and one in it, 2 events of edits, restarts and failures; an interval of 3 over 9 minutes (two missed intervals and a third), 2 operators with 2 presses |

What each property says is in the comment above it. Every property of a passing run has a
mutant in `PROJECT.json`: a plausible bug in one definition under which TLC finds the
property violated. The mutated forms stand in the modules, before the definition they replace.

Symmetry is used where ids are interchangeable and no liveness is checked. `VIEW` folds states that
differ only in history variables no property of that run reads.

## 5. Fairness

- `Handled`, `WF(Work(r))`: a request thread with work left is scheduled and each of its calls
  returns or fails (each has a timeout).
- `Polled`, `SF(Press(r, "refresh", i))`: the live view polls every few seconds while it is open. Strong,
  because other requests may occupy the thread in between. It is what SuccessNoticed means by *watched*.
- `Abandoned`, `SF(Press(r, "abort", i))` is the premise of AbortGetsOut, never an assumption of a
  specification: an operator who does not press abort has no such promise.
- `ProvedDeploy!FairSpec`: request and deploy threads are scheduled. `Play` always ends because
  `stream_command` kills a playbook at its time limit.
- `CollectorFairness`: a collector that runs takes its next step (`Runs`, `PollerRuns`: the loop has no condition but `_stopping`, and each
  call has a time limit), and so do its polls in RestartReturn. `SF(CompleteReturn)`: an operator keeps pressing complete. All of it is
  asked of the part at work only. ExcusedRestartCompletes and BreakerServes have a further premise of their own, that the
  overrides stay as they are and that the coordinator stays up and visible: neither is in the fairness.
- Console has none: its properties are safety.
- RestartService assumes nothing of the collector, of queries or of a playbook's outcome.

## 6. What is proved

With TLAPS, for any sets of requests, sequences, runs, clusters, hosts, queries and processes, any bounds and either
executor. `PROJECT.json` lists each theorem with the property it states. TLC checked every inductive invariant below on the
instances of section 4 (or smaller ones of the same module) before it was proved.

**`RestartProofs`** (of `RestartService!Spec`, any number of requests that overlap):

- **TypeCorrect** – `[]TypeOK`.
- **OneActive** – `[]OneActivePerCluster`. Inductive with TypeOK alone: every write
  of a row passes `UniqueIndexAdmits`, whatever copy it writes.
- **StepsInOrder** – `[]NoStepSkipped`. Not inductive as it stands: a save replaces a row by a copy
  loaded long before. The invariant is strengthened to the copies:
  every row *and every request's copy* is honest about `fact`, which only grows; a copy on its way to
  the executor has passed the gate, and a copy past `restarted` or a successful poll has its
  confirmation. A save then moves honesty from a copy to a row.

**`RestartProofs`**, second half (of the same `Spec`, under `Turns`: there is at most one request at a time, which is what the runs
MCRestartTurns and MCRestartManual look at; MCRestartAbortRace shows that it is needed). All five rest on `TurnInv`: for
each operation and each call it is about to make, what the copy says, what the row says and whether the Gateway routes to the cluster. The saves
a request may make are then steps of the protocol (`MaySave`).

- **TrafficIsHeld** – `[]TrafficHeld`, lost replies included.
- **NoOutageUnseen** – `[]NoSilentOutage`, unless a Gateway reply was lost (`~LostReplies`; section 7 says what happens with one).
- **LaunchesAreGated** – `LaunchGated`; **BouncesAreGated** – `BouncedOutOfRotation`, for the manual executor (`~Automated`).
- **ServiceImplementsProtocol** – `ImplementsProtocol`, the refinement of `RestartProtocol`, under `~LostReplies`: initial
  states map to initial states and every step to a step of the protocol or to a stutter, calls, failures and restarts of tms-api included.

**`RestartProtocolProofs`** (of `RestartProtocol!Spec`): **ProtocolSafe** – one sequence in flight, traffic withheld while the
cluster is exposed, and never withheld with no sequence in flight to say so.

**`DeployProofs`** (of `ProvedDeploy!Spec`):

- **DeployTypeCorrect** – `[]TypeOK`; **OnePlaybookWrites** – `[]OneWriter`: the claim passes from a request to its thread and is
  given up by one of them alone. `WriterInv` adds that a thread has a row to finish.
- **MarksHold**, **ProvedFirst** – `[]MarkIsAboutContent` and `[]ShippedWasProved`, under `Patient` (nobody edits a draft while it is being
  deployed; MCProvedDeployEditRace shows that it is needed). `ProofInv`: the copies of requests and threads agree with the draft,
  an edit under way compares with content the mark is about, what a thread will mark has landed, and what a request
  brings past the gate has landed too.

**`JobRunProofs`** (of `JobRuns!Spec`). `RunInv` ties threads to rows: a thread has its row say RUNNING from before its launch
to its last step, a thread about to finish holds a verdict, and the index keeps the RUNNING rows apart. `ScheduleInv` ties a schedule to its
turns: the count the ticker claimed is the row's and the row's is the streak, until a statement about the schedule fails.

- **OneThread** – `[]OneAtATime`; **RowsAreTended** – `[]NoOrphans`; **VerdictsAreFinal** – `VerdictsStand`.
- **PausedForFailures** – `[]PausedByFailures`; **JobTypeCorrect** – `[]TypeOK`.

**`CollectorProofs`** (of `Collector!CollectorSpec`, every part included; a step of another part leaves a part alone):

- **CollectorTyped** – `[]CollectorTypeOK`: all four parts, the breaker included. A JMX poll calls once per MBean, so what it leaves of the
  breaker is a recursive function; the invariant goes through it by induction on the calls that are left (see below).
- **DeniedIsNeverDown** – `[][DeniedIsNotDown']_pollVars`, the safety half of BreakerServes, under `PublicInfo` (`/v1/info` itself is not what answers 401, 403
  or 404; it needs no credentials): until a call meets a transient failure the breaker is closed and every info poll is stored as a node that is up, however many
  permanent failures the guarded endpoints produce (`BreakerInv`).

- **OneCollectorAlways** – `OneCollector`. What it says is not inductive: that two in the loop have not both an open session does not
  exclude that the lock is free meanwhile. `LoopInv` ties each process to the lock: whoever is in its loop with an open session owns it, and
  nobody is in its loop without a session. A process that gets the lock then finds only lost sessions in the loop.
- **RacesCountOnce** – `[]RaceCountsOnce`, for all intervals at which a reading of the age that counts is within one query interval
  (`ReadingsAge`). `RaceInv`: while no list was filtered, a count that the next query poll may still be compared with was positive before a fall that
  no suspicion has been raised by yet.
- **SuspicionNeedsAFailure** – `[]H09OutOfReach`, the proof of a disagreement of section 7 and no property of a run: for all intervals that are `Spaced`
  like the defaults (a reading counts for at most a query interval, a JMX poll is due later than the query poll that follows the next, and one suspicion is not
  enough) H-09 reports nothing while every call succeeds. `PollInv`: while one query poll has suspected, the next comes before any JMX poll and finds
  its reading too old.

- **GoodIsOldNews** – `CompletedOnOldNews`, another: what MCReturnStale shows once is so always. `ReturnInv`: between begin and end the cluster is out of
  rotation, a stored list of backends that shows it in dates from before the restart, and a stored verdict GOOD that left no test out does too. It rests
  on what the roll-up makes of the nine verdicts (`ResultsStates`, `RolledUpState`): GOOD of all of them means that H-08 saw the cluster routed.
- **HealthIsAccountedFor** – `HealthAccounted`, for any catalogue and any number of polls to confirm. `HealthInv`: the last event of a test without a hole is what the
  engine has confirmed; and, where a JMX reading is evaluated twice and nobody switches H-07 off, a reading once evaluated is its own baseline and a streak of alarms
  is one evaluation old and belongs to the reading at hand, so that the next one ends it.

**`ConsoleProofs`** (of `Console!ConsoleSpec`; each part takes its own steps or rests, so an invariant of one part is one of the console):

- **ActionsAccounted** – `[]EveryActionAccounted`: a store as good as the probe found it takes the record (`AuditInv`).
- **SlotsAreKept** – `[]SlotsKept`: the times presses hold on their way to the row are slots too (`ClockInv`).
- **SessionsHold** – `[]SessionHolds`: no answer under way, and no cookie, was issued after the last proof of a password (`SessionInv`).
- **ScansTellTruth** – `[]ScanTellsTruth`: each line of a scan is that of a host it has visited, and which hosts are missing shows (`ScanInv`).
- **WorkloadIsTold** – `[]WorkloadTold`: over any tree of groups (`WorkloadInv`). Of a poll without an error; section 7 says what the screen makes of the others.
- **MarksTellStatements** – `[]UnmarkedIsOneStatement`: a name stands for one statement in the set and in each copy of it (`SetInv`),
  and a run that has no copy began without one. Of such a run nothing is said.
- **MovesAreRemembered** – `[]BoardRemembers`: a number that was read and not given is the next one still, and the status an item is
  moved from is the one its events lead to (`BoardInv`).

- **TreesAreKept** – `[]GroupTreeKept`, from the invariant of GroupProofs; what the other parts do leaves it alone.
- **ConsoleTyped** – `[]ConsoleTypeOK`, from the conjunction of the parts' invariants (`PartsTyped`), of which each had to be strengthened: a clerk's id is one that
  was given; the times held by presses lie below what so many presses can reach (`Reach`); tokens under way were issued; what waits to be written was
  allowed; whatever a call of the node list plans, reads or writes passed `validate` (`NodeEntered`), the rows of the gateway snapshot are a list, so that there is
  a first candidate (`RouteTyped`).

**`GroupProofs`** (of `GroupStore!GroupSpec`):

- **GroupTreesAreKept** – `[](GroupTypeOK /\ GroupTreeKept)`. The environments keep their rows in the same tables, under ids of one
  sequence, and nothing but the code keeps them apart. `GroupInv`: rows are numbered apart and below the sequence, and a parent is older than its child, so that
  paths and cascades end (`RowsFit`, `Rooted`); a change under way holds the lock of its environment (`EnvironmentLocked`) and has read what is
  there; every revision begins where the one before it ended and the last ends in the current rows, which have a catch-all (`Apart`,
  `EndsInCurrent`). The last two hold until a change names a row of another environment (`crossed`), which section 7 says the code allows.

**`ClusterProofs`** (of the same specification as ConsoleProofs):

- **StoppedIsOut** – `[]OutMeansOut`: backends of a current list that join one cluster are those of one name, so the write by name stops what
  the lookup by cluster found (`RouteInv`).
- **LookupExplainsGap** – `GapExplained`, an action property: the nodes listed are those not joined, those joined and not active, and those that count;
  the machines that count are these, one to one, and the unexpected ones.
- **ListIsKept** – `[]ListHolds`. The conditions of the property are about the past (`behind`, `doubled`); the invariant says what a call that works alone has
  read and written at each of its five steps (`FileInv`), and that what a call plans to add is not listed, is known at its address, and is planned by
  no other call, or is excused (`TwiceInv`).

Induction over data. What a deletion dooms, the path of a group, the order in which a revert restores rows, the slots a clock can reach, the first
candidate of a list and the calls a JMX poll makes are recursive or chosen by least element. The library's induction theorems take an operator as a
parameter, which the provers cannot instantiate. The proofs use instead the two facts that need none: a well-founded relation gives every set that is
not empty a minimal element (`WFMin`), and strict inclusion of finite subsets is well-founded. A lemma about all subsets or all numbers is then
stated about the set of its counterexamples (`NumberInduction` in GroupProofs is the form for numbers).

Assumptions. Each module's named `ASSUME`: bounds are naturals, flags are Boolean, ids of different
tables differ, and the values that stand for "no row", for a free lock, for a backend elsewhere or for a refused statement are not a row, a process, a cluster or a
version. Fleet assumes that the machines of a cluster are finite in number, since the code counts them, and that the texts of an inventory name some of
them; QuerySets that there is a name and a version to write. GroupStore assumes that the environments are finite in number, that there is a name and a value its initial
rows can have, and ids enough for these; Routing and ScheduleClock that their bounds leave room for the backend and the slot they begin with; Polling
that its intervals and the number of polls to confirm are positive and that a healthy coordinator is among those it may meet.
`Turns`, `Patient`, `~LostReplies`, `~Automated`, `PublicInfo`, `ReadingsAge` and `Spaced` are hypotheses of the theorems that need them; the instances of the runs satisfy them.

Model-checked only:

- liveness, which is out of the prover's reach: SuccessNoticed, AbortGetsOut, ClaimsEnd, EveryClusterKept, ExcusedRestartCompletes, and BreakerServes,
  which has a liveness part;
- the violations of section 7.

## 7. Disagreements between code and documentation

Shown by a run:

1. **A forced drain goes nowhere** (MCRestartForced). `force_drain` sets DRAINED with queries running;
   `restart` calls `confirm_drained`, which refuses any count but zero.
   `sequence.py:260` "Proceed with queries still running."
2. **Abort overtaking start blocks traffic** (MCRestartAbortRace). Abort between start's INSERT and its
   deactivation reactivates first and is deactivated after.
   `docs/usage/safe-restart.md:85` "Abort restores traffic."
3. **Two playbooks on one cluster** (MCRestartTwoPlaybooks). Abort does not stop the playbook; a new
   sequence launches another. `migrations/004_restart_sequence.sql:15-17`.
4. **An edit during a deploy gets its proof** (MCProvedDeployEditRace). The thread marks the draft by id.
   `docs/usage/cluster-config.md:185-187`.
5. **Traffic comes back without health having been seen again** (MCReturnStale). `complete` reads the verdict that is stored
   (`service.py:124-127, 405-416`) and nothing looks at its age, so a GOOD from before the restart gives the traffic back.
   `docs/usage/safe-restart.md:16-17` "traffic does not come back until health does", `service.py:8-10` "Every step that depends on the
   cluster's state re-reads it first."

Met while modelling, without a run:

- `service.py:320-327`: start's deactivation fails, the row is closed because "traffic was never
  stopped". With a lost reply it was. This is why MCRestartTurns has `LostReplies = FALSE`.
- `repository.py:264-271` saves a copy over any newer row; `docs/usage/safe-restart.md:106` relies on the
  row being the truth. The properties of MCRestartRace hold in spite of it.
- `service.py:118-132`: a stale snapshot leaves the stored count, which then passes the gate, where
  `service.py:8-10` promises a fresh look.
- `service.py:194-215`: a failed or lost playbook is logged again on every poll.
- `catalogservice.py:300` and `configeditservice.py` leave a deployment RUNNING for good
  when tms-api restarts under it: unlike runs, deployments have no reconciliation.
- `catalogservice.py:207`: the comparison that keeps a catalog's mark is made with the copy that was loaded.
- `bench/service.py:538-556`: only a failure to *start* is counted, so a set whose every query fails is never
  paused. `docs/usage/benchmark.md:195` "A broken set running every night forever is load with nobody reading it".
- `bench/service.py:543-553`: enabling a schedule while it is being fired is overwritten by the count of the
  claimed copy. `bench/service.py:453-458` "Enabling clears the failure count".
- `bench/store.py:187-197`, `fleet/jobstore.py:151-164`: a failed last UPDATE leaves a RUNNING row with no thread; it blocks
  its cluster, and an abort of it is accepted and does nothing, until tms-api restarts.
- `clients/circuit.py:50-51`: "HALF_OPEN admits exactly one trial"; it admits every caller until one reports. And an info poll
  is refused while the breaker is open for what other endpoints did, so that H-01 says *down* of a coordinator that answers.

Restart and health (RestartReturn, HealthWatch):

- Out of rotation a cluster is CONCERNING by H-08 and, once idle for five minutes, UNKNOWN by H-05. So `complete`'s GOOD is
  either a verdict from before the restart's own first step or one with both tests switched off (theorem GoodIsOldNews, and
  ExcusedRestartCompletes for the second). `docs/usage/safe-restart.md:79` "There is no override for that one."; the override of the tests is one,
  and an honest sequence of the steps in `:6-12` needs it.
- `health/engine.py:8-9`, `docs/usage/observing.md:98` "A single bad reading does not flip the state": a JMX reading is evaluated on
  three ticks, so one bad reading confirms itself. A burst of kills, on the other hand, is compared with the reading before for one
  evaluation only and is never confirmed (KillsStayUnreported, part of HealthAccounted) unless H-07 was switched off in between: a streak
  survives that, and a second burst would lengthen it. The instance keeps H-07 on, and the property says so.
- `stabilization_polls = 1` still takes two evaluations; a test that is switched off keeps its streak; a collector that restarts forgets
  confirmed states; an event whose insert failed is lost; overrides that cannot be loaded count as none, which switches tests on again.
- `core/config.py:896` checks the stale threshold against the query interval only, and JMX is read a third as often.

Collector (Polling, CollectorLoop, Fleet, Routing):

- `collector/main.py:10-11` "Only losing the database … stops the service": once in its loop a collector whose session is lost neither exits nor
  connects again; it polls for ever and saves nothing, beside the next one that takes the lock (OneCollector says what is left).
- H-09 cannot trip at the default intervals while calls succeed, however long a list is filtered (theorem SuspicionNeedsAFailure): of two query
  polls in a row only one has a JMX reading that is young enough, and the other clears the count. `docs/HEALTH_TESTS.md:57-59` says that a denied
  rule is seen one poll interval later and persistence tells it from a race, `docs/usage/observing.md:71-74` that H-09 reports UNKNOWN when list and count
  disagree, `poller.py:317-319` that a race clears and a denied rule never does; `tests/test_collector_poller.py:294-312` shows it with a reading made young by
  hand. What H-09 does keep is that a race counts once (RaceCountsOnce). `docs/HEALTH_TESTS.md:56` counts on "two in a row"; a failed poll between them is needed. `poller.py:16, :428` say that queries
  are polled before JMX, `_POLL_ORDER` (`:193`) polls JMX first.
- `gateway_poller.py:115-122`: a failed Gateway poll replaces the list with an empty payload, so start, complete and abort
  find no backend until the next poll that succeeds. `ops/service.py:236` takes the first joined row of a cluster.
- The inventory is parsed once per collector; edits show after its restart, and the role `fleet/service.py:355` refuses a shutdown by is the stored one.
  Equal counts hide one missing and one unexpected node.
- `fleet/discovery.py:48-87` takes every row of `system.runtime.nodes` for joined, whatever its `state`, and the count it is offered over is of active nodes
  (`fleet_poller.py:25-27`, `docs/TRINO_VERIFIED.md:148-149`): after a shutdown by TMS's own button the lookup is offered and names nobody. GapExplained
  says that this is the one cause of it.
- A statement sent to a coordinator (`clients/sql.py`) goes on running when TMS gives up waiting for it.

tms-api (Console):

- `resource_group_rules.py:310-314`: V10 is said not to "make the very first group impossible to create", and does: the first group
  comes before any selector can point to it.
- `config_store.py:518, :557`: a group's parent and a selector's target may be a row of another environment, and the
  cascade of a deletion then takes rows of that environment without its lock, validation or revision; `:370` lists what will go by name prefix.
- `nodeservice.py:16`: rows are committed one by one before the file is written, and `:144` is one path for all callers: two of
  them publish an empty, torn or old inventory. `:167-171` serves with the file there was when the one of the startup cannot be written, though `:156-158`
  calls that file what the executor's constructors depend on: with a call cut short before, the list and the file then differ (`behind`). A scan does not catch `DuplicateNode`; an import does not write the file.
- `core/audit_postgres.py:59` probes with a read, which a read-only database answers. A write does not connect again. `fleet/service.py:314`
  (shutdown) and RestartService do not convert `AuditUnavailable`, which `:170` of the same file calls a defect.
- `api/main.py:446`: an answer that was under way when the password was changed or the session ended puts the old claims back.
- `configscan.py:97-99`: a host ansible cannot reach prints no line and is not compared. The scan's error says so; `agree` alone does not.
- `bench/service.py:682` compares with a count read earlier; an edit of a query renamed meanwhile inserts it anew; `:127` passes when the store does not
  answer, and is read before the write: a set may be deleted under a run.
- `bench/compare.py:167-168`, `bench/service.py:282`: of a run without a copy of its statements nobody can tell what it measured, and neither screen
  marks it; `tests/test_benchmark_sets.py:303-312` wants it so, while `compare.py:114-115` keeps the mark so that no table shows "a
  confident percentage for two different statements".
- `bench/guard.py:137` reads which backends are a cluster's from the snapshot, and whether they are active live.
- `resourcegroups.py:262-263`, `services.py:643-646`: `reconcile` says that "no MBean" is only evidence of idleness if someone was looking (`:247`). A
  group whose MBean could not be read, or every group after a poll that failed, is shown as `idle`, "configured and exported, but never
  used", and the answer of that screen leaves the poll's error out (`tests/test_resource_group_config.py:176-177`). WorkloadTold says what a poll without an
  error shows, and of the others that a screen with no snapshot calls nothing idle.
- `resourcegroups.py:88`: a hard concurrency limit of 0 is read as no limit, so a group that admits nothing is never called capped.
- `bench/service.py:469`: enabling advances by a step also when the next time is still to come, so each press drops a turn. A press written after
  the time it had computed (the audit store was slow) sets the schedule back to a time that was claimed, and it fires twice (`tardy` in SlotsKept).
- `work/store.py:196`: status, item and event are three statements: moves that overlap, or an event that fails, break the chain `:220` promises.

## 8. Not modelled

The event log, wording and layout; the content of statements and properties files; statistics of
comparisons and trends; password hashing and signatures; parsing of the configuration. Time is abstracted to due or not
due and the age of a snapshot to trusted or not, except in Polling, RestartReturn and Sessions, where it is counted. The components with
status `not_modelled` in `PROJECT.json` carry their reasons: the configuration and its checker are sequential validation of one file,
the user interface keeps no state of its own, and packaging is scripts. Of the parts marked `partly` their notes say what is missing:
mostly reads, numbers and text. Two limits of the models matter:

- one breaker serves one caller in Polling; what concurrent trials of a half-open breaker do is section 7, not a property;
- RestartReturn has one operator and no failing calls; those are RestartService's, with any verdict in place of a computed one.

## 9. Plan

Every safety property of a passing run is a theorem. What is left to prove is about models to come; the safety half of BreakerServes is
DeniedIsNeverDown.

Models to come: an edit of a node's fields (`fleet/nodeservice.py`); concurrent trials of one half-open breaker; runs for the disagreements
of section 7 that a comment promises in so many words, where the number of runs allows.
