--------------------------- MODULE CollectorLoop ---------------------------
(***************************************************************************)
(* tms-collector as a process (src/tms/collector/main.py): its start, the  *)
(* advisory lock that is to keep it alone, the loop over the clusters, and *)
(* the database session both depend on (collector/postgres.py).            *)
(*                                                                         *)
(* The lock belongs to the session, and a session that is lost is not      *)
(* opened again.  What a tick polls and what the verdicts are is in        *)
(* Polling and HealthWatch; here a tick asks, and saves or does not.       *)
(***************************************************************************)
EXTENDS Integers

CONSTANTS
    Collectors,    \* processes that may be started, by systemd or by hand
    LastCluster,   \* clusters are 1..LastCluster, in configuration order
    MaxLoopFaults  \* bound on lost sessions, outages, kills and bad files

ASSUME CollectorAssumption ==
    /\ LastCluster \in Nat \ {0}
    /\ MaxLoopFaults \in Nat
    /\ "free" \notin Collectors

VARIABLES
    at,         \* where each process is
    cluster,    \* the cluster its loop is at
    dbSession,  \* its database session
    stopping,   \* _stopping: a signal has asked it to stop
    lockOwner,  \* whose session holds the advisory lock, on the server
    databaseUp,
    writer,     \* who saved each cluster's snapshots last
    loopFaults

loopVars == <<at, cluster, dbSession, stopping, lockOwner, databaseUp, writer, loopFaults>>

-----------------------------------------------------------------------------
ClusterIds == 1..LastCluster
Looping == {"clusters", "gateway", "fleet", "sleep"}
InLoop(p) == at[p] \in Looping

LoopTypeOK ==
    /\ at \in [Collectors -> Looping \union {"off", "killed", "connect", "lock"}]
    /\ cluster \in [Collectors -> ClusterIds]
    /\ dbSession \in [Collectors -> {"none", "open", "lost"}]
    /\ stopping \in [Collectors -> BOOLEAN]
    /\ lockOwner \in Collectors \union {"free"}
    /\ databaseUp \in BOOLEAN
    /\ writer \in [ClusterIds -> Collectors \union {"nobody"}]
    /\ loopFaults \in 0..MaxLoopFaults

LoopInit ==
    /\ at = [p \in Collectors |-> "off"]
    /\ cluster = [p \in Collectors |-> 1]
    /\ dbSession = [p \in Collectors |-> "none"]
    /\ stopping = [p \in Collectors |-> FALSE]
    /\ lockOwner = "free"
    /\ databaseUp = TRUE
    /\ writer = [c \in ClusterIds |-> "nobody"]
    /\ loopFaults = 0

-----------------------------------------------------------------------------
LoopFault == loopFaults < MaxLoopFaults /\ loopFaults' = loopFaults + 1

Move(p, where) == at' = [at EXCEPT ![p] = where]

\* The process ends, and its session with it.
Released(p) == IF lockOwner = p THEN "free" ELSE lockOwner

Exit(p) ==
    /\ Move(p, "off")
    /\ dbSession' = [dbSession EXCEPT ![p] = "none"]
    /\ stopping' = [stopping EXCEPT ![p] = FALSE]
    /\ lockOwner' = Released(p)
    /\ UNCHANGED <<cluster, databaseUp, writer>>

-----------------------------------------------------------------------------
(* run: the start.                                                         *)

\* load_config: a file that does not load ends the start with 2.
LoadConfig(p) ==
    /\ at[p] \in {"off", "killed"}
    /\ Move(p, "connect")
    /\ UNCHANGED <<cluster, dbSession, stopping, lockOwner, databaseUp, writer, loopFaults>>

\* The repository connects, or the start ends with 3.
Connect(p) ==
    /\ at[p] = "connect"
    /\ \/ /\ databaseUp
          /\ dbSession' = [dbSession EXCEPT ![p] = "open"]
          /\ Move(p, "lock")
          /\ UNCHANGED <<cluster, stopping, lockOwner, databaseUp, writer>>
       \/ ~databaseUp /\ Exit(p)
    /\ UNCHANGED loopFaults

\* Mutated form of LockIsFree: the answer of pg_try_advisory_lock is dropped.
LockIsFreeIgnored(p) == TRUE

LockIsFree(p) == lockOwner = "free"

\* acquire_singleton_lock; exit 4 when another session holds it, and an
\* exception of the connection ends the process as well.
AcquireLock(p) ==
    /\ at[p] = "lock"
    /\ \/ /\ dbSession[p] = "open"
          /\ LockIsFree(p)
          /\ lockOwner' = p
          /\ Move(p, "clusters")
          /\ cluster' = [cluster EXCEPT ![p] = 1]
          /\ UNCHANGED <<dbSession, stopping, databaseUp, writer>>
       \/ ~(dbSession[p] = "open" /\ LockIsFree(p)) /\ Exit(p)
    /\ UNCHANGED loopFaults

-----------------------------------------------------------------------------
(* CollectorService.run.                                                   *)

\* What a tick or a poll leaves in the database: nothing once the session is
\* lost, since saves are refused and loads raise; and nothing when no kind was
\* due, or the first one raised.
MaySave(p, c) ==
    \/ UNCHANGED writer
    \/ dbSession[p] = "open" /\ writer' = [writer EXCEPT ![c] = p]

\* Mutated form of AfterTick: an exception of one cluster's tick ends the loop.
AfterTickRaising(p, raised) ==
    IF raised THEN "off" ELSE IF cluster[p] = LastCluster THEN "gateway" ELSE "clusters"

\* Whatever a tick or its evaluation raises is logged, and the loop goes on.
AfterTick(p, raised) == IF cluster[p] = LastCluster THEN "gateway" ELSE "clusters"

\* Mutated form of NextCluster: the position is not set back.
NextClusterPast(p) == cluster[p] + 1

NextCluster(p) == IF cluster[p] = LastCluster THEN 1 ELSE cluster[p] + 1

\* A tick always raises on a lost session: the cross-check loads the JMX
\* snapshot before the query list is asked for.
TickCluster(p) ==
    /\ at[p] = "clusters"
    /\ ~stopping[p]
    /\ \E raised \in BOOLEAN :
          /\ dbSession[p] = "lost" => raised
          /\ MaySave(p, cluster[p])
          /\ Move(p, AfterTick(p, raised))
    /\ cluster' = [cluster EXCEPT ![p] = NextCluster(p)]
    /\ UNCHANGED <<dbSession, stopping, lockOwner, databaseUp, loopFaults>>

\* The Gateway's poll, the fleet's, and the sleep: each only if not stopping.
PollAround(p) ==
    /\ ~stopping[p]
    /\ \/ at[p] = "gateway" /\ Move(p, "fleet")
       \/ at[p] = "fleet" /\ Move(p, "sleep")
       \/ at[p] = "sleep" /\ Move(p, "clusters")
    /\ UNCHANGED <<cluster, dbSession, stopping, lockOwner, databaseUp, writer, loopFaults>>

\* A signal is seen between two polls; the repository is closed on the way out.
StopLoop(p) == InLoop(p) /\ stopping[p] /\ Exit(p) /\ UNCHANGED loopFaults

RequestStop(p) ==
    /\ InLoop(p)
    /\ ~stopping[p]
    /\ stopping' = [stopping EXCEPT ![p] = TRUE]
    /\ UNCHANGED <<at, cluster, dbSession, lockOwner, databaseUp, writer, loopFaults>>

-----------------------------------------------------------------------------
(* What happens to it.                                                     *)

\* The process is killed; the server drops the session and its lock.
KillProcess(p) ==
    /\ at[p] \notin {"off", "killed"}
    /\ LoopFault
    /\ Move(p, "killed")
    /\ dbSession' = [dbSession EXCEPT ![p] = "none"]
    /\ stopping' = [stopping EXCEPT ![p] = FALSE]
    /\ lockOwner' = Released(p)
    /\ UNCHANGED <<cluster, databaseUp, writer>>

\* The connection breaks; the server may keep the session a while.
LoseSession(p) ==
    /\ dbSession[p] = "open"
    /\ LoopFault
    /\ dbSession' = [dbSession EXCEPT ![p] = "lost"]
    /\ UNCHANGED <<at, cluster, stopping, lockOwner, databaseUp, writer>>

ServerNotices(p) ==
    /\ dbSession[p] = "lost"
    /\ lockOwner = p
    /\ lockOwner' = "free"
    /\ UNCHANGED <<at, cluster, dbSession, stopping, databaseUp, writer, loopFaults>>

DatabaseStops ==
    /\ databaseUp
    /\ LoopFault
    /\ databaseUp' = FALSE
    /\ lockOwner' = "free"
    /\ dbSession' = [p \in Collectors |-> IF dbSession[p] = "open" THEN "lost" ELSE dbSession[p]]
    /\ UNCHANGED <<at, cluster, stopping, writer>>

DatabaseStarts ==
    /\ ~databaseUp
    /\ databaseUp' = TRUE
    /\ UNCHANGED <<at, cluster, dbSession, stopping, lockOwner, writer, loopFaults>>

-----------------------------------------------------------------------------
Runs(p) == Connect(p) \/ AcquireLock(p) \/ TickCluster(p) \/ PollAround(p) \/ StopLoop(p)

LoopNext ==
    \/ \E p \in Collectors :
        \/ LoadConfig(p) \/ Runs(p)
        \/ RequestStop(p) \/ KillProcess(p) \/ LoseSession(p) \/ ServerNotices(p)
    \/ DatabaseStops \/ DatabaseStarts

\* A process that has been started is scheduled.
LoopFairness == \A p \in Collectors : WF_loopVars(Runs(p))

LoopSpec == LoopInit /\ [][LoopNext]_loopVars /\ LoopFairness

-----------------------------------------------------------------------------
(* Properties.                                                             *)

\* Of two collectors that poll the coordinators at once, one has lost its session.
PollersShareOnlyAfterLoss ==
    \A p, q \in Collectors :
        p # q /\ InLoop(p) /\ InLoop(q) => "lost" \in {dbSession[p], dbSession[q]}

\* One collector at a time.  Two poll the coordinators at once only while one of
\* them has lost its session and, with it, the lock: it goes on asking although
\* it can save nothing.  And what the screens read comes from the holder of the
\* lock: an overlap of two collectors never mixes their snapshots (run,
\* acquire_singleton_lock, PostgresSnapshotRepository.save).
OneCollector ==
    [][/\ PollersShareOnlyAfterLoss'
       /\ \A c \in ClusterIds : writer'[c] # writer[c] => writer'[c] = lockOwner]_loopVars

\* A collector in its loop comes to the last of its clusters again, and so to
\* each of them in turn, whatever the others' ticks raise and whatever becomes of
\* its session, until somebody stops or kills it (the exception handlers of
\* CollectorService.run).  The processes are alike: it is asked of any one.
EveryClusterKept ==
    LET p == CHOOSE p \in Collectors : TRUE
    IN InLoop(p) ~> \/ at[p] = "clusters" /\ cluster[p] = LastCluster
                    \/ stopping[p]
                    \/ at[p] = "killed"
=============================================================================
