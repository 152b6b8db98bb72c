-------------------------- MODULE CollectorProofs --------------------------
(***************************************************************************)
(* Proofs about Collector, for any number of processes, clusters, tests,   *)
(* queries and faults: what the advisory lock keeps of the collectors that *)
(* run, why the intervals of the polls keep H-09 from tripping, on which   *)
(* verdict a restart is completed, and what the health page can be held to.*)
(***************************************************************************)
EXTENDS Collector, FiniteSetTheorems, WellFoundedInduction, TLAPS

\* The lock lives in a session: a process in its loop whose session is open is
\* the one the server knows as the owner, and one without a session is not in
\* its loop.
LoopInv ==
    /\ LoopTypeOK
    /\ \A p \in Collectors : InLoop(p) /\ dbSession[p] = "open" => lockOwner = p
    /\ \A p \in Collectors : InLoop(p) => dbSession[p] # "none"

-----------------------------------------------------------------------------
(* Each step.                                                              *)

\* A process that ends, whatever ends it.
LEMMA EndKeeps ==
    ASSUME LoopInv, NEW p \in Collectors, NEW where \in {"off", "killed"},
           Move(p, where),
           dbSession' = [dbSession EXCEPT ![p] = "none"],
           stopping' = [stopping EXCEPT ![p] = FALSE],
           lockOwner' = Released(p),
           UNCHANGED <<cluster, databaseUp, writer>>,
           loopFaults' \in 0..MaxLoopFaults
    PROVE  LoopInv'
<1>1. LoopTypeOK'
  BY DEF LoopInv, LoopTypeOK, Move, Released
<1>2. ~InLoop(p)'
  BY DEF LoopInv, LoopTypeOK, Move, InLoop, Looping
<1>3. \A q \in Collectors \ {p} : at'[q] = at[q] /\ dbSession'[q] = dbSession[q]
  BY DEF LoopInv, LoopTypeOK, Move
<1>4. \A q \in Collectors \ {p} : lockOwner = q => lockOwner' = q
  BY DEF Released
<1> QED BY <1>1, <1>2, <1>3, <1>4 DEF LoopInv, InLoop

LEMMA ConnectKeeps ==
    ASSUME LoopInv, NEW p \in Collectors, Connect(p)
    PROVE  LoopInv'
<1>1. CASE databaseUp
  <2>1. /\ dbSession' = [dbSession EXCEPT ![p] = "open"]
        /\ Move(p, "lock")
        /\ UNCHANGED <<cluster, stopping, lockOwner, databaseUp, writer, loopFaults>>
    BY <1>1 DEF Connect
  <2>2. LoopTypeOK'
    BY <2>1 DEF LoopInv, LoopTypeOK, Move
  <2>3. \A q \in Collectors : InLoop(q)' => InLoop(q) /\ q # p
    BY <2>1 DEF LoopInv, LoopTypeOK, Move, InLoop, Looping
  <2> QED BY <2>1, <2>2, <2>3 DEF LoopInv, LoopTypeOK, InLoop
<1>2. CASE ~databaseUp
  BY <1>2, EndKeeps DEF Connect, Exit, LoopInv, LoopTypeOK
<1> QED BY <1>1, <1>2

\* Who gets the lock finds nobody else in the loop with an open session.
LEMMA AcquireLockKeeps ==
    ASSUME LoopInv, NEW p \in Collectors, AcquireLock(p)
    PROVE  LoopInv'
<1>1. CASE dbSession[p] = "open" /\ LockIsFree(p)
  <2>1. /\ lockOwner = "free"
        /\ lockOwner' = p
        /\ Move(p, "clusters")
        /\ cluster' = [cluster EXCEPT ![p] = 1]
        /\ UNCHANGED <<dbSession, stopping, databaseUp, writer, loopFaults>>
    BY <1>1 DEF AcquireLock, LockIsFree
  <2>2. LoopTypeOK'
    BY <2>1, CollectorAssumption DEF LoopInv, LoopTypeOK, Move, Looping, ClusterIds
  <2>3. \A q \in Collectors : InLoop(q) => dbSession[q] = "lost"
    BY <2>1, CollectorAssumption DEF LoopInv, LoopTypeOK
  <2>4. \A q \in Collectors \ {p} : at'[q] = at[q]
    BY <2>1 DEF LoopInv, LoopTypeOK, Move
  <2> QED BY <1>1, <2>1, <2>2, <2>3, <2>4 DEF LoopInv, InLoop
<1>2. CASE ~(dbSession[p] = "open" /\ LockIsFree(p))
  BY <1>2, EndKeeps DEF AcquireLock, Exit, LoopInv, LoopTypeOK
<1> QED BY <1>1, <1>2

\* A process that stays where it was, in its loop or out of it, with its
\* session: the invariant does not look at the rest.
LEMMA LoopKeeps ==
    ASSUME LoopInv, LoopTypeOK', UNCHANGED <<dbSession, lockOwner>>,
           \A q \in Collectors : InLoop(q)' => InLoop(q)
    PROVE  LoopInv'
BY DEF LoopInv

LEMMA TickKeeps ==
    ASSUME LoopInv, NEW p \in Collectors, TickCluster(p)
    PROVE  LoopInv' /\ \A c \in ClusterIds : writer'[c] # writer[c] => writer'[c] = lockOwner
<1>1. PICK raised \in BOOLEAN : MaySave(p, cluster[p]) /\ Move(p, AfterTick(p, raised))
  BY DEF TickCluster
<1>2. AfterTick(p, raised) \in Looping
  BY DEF AfterTick, Looping
<1>3. InLoop(p)
  BY DEF TickCluster, InLoop, Looping
<1>4. cluster[p] \in ClusterIds /\ NextCluster(p) \in ClusterIds
  BY CollectorAssumption DEF LoopInv, LoopTypeOK, NextCluster, ClusterIds
<1>5. LoopTypeOK'
  BY <1>1, <1>2, <1>4 DEF LoopInv, LoopTypeOK, TickCluster, MaySave, Move
<1>6. \A q \in Collectors : InLoop(q)' => InLoop(q)
  BY <1>1, <1>3 DEF LoopInv, LoopTypeOK, Move, InLoop
<1>7. LoopInv'
  BY <1>5, <1>6, LoopKeeps DEF TickCluster
<1>8. \A c \in ClusterIds : writer'[c] # writer[c] => writer'[c] = p /\ dbSession[p] = "open"
  BY <1>1, <1>4 DEF MaySave, LoopInv, LoopTypeOK
<1> QED BY <1>3, <1>7, <1>8 DEF LoopInv

LEMMA AroundKeeps ==
    ASSUME LoopInv, NEW p \in Collectors,
           LoadConfig(p) \/ PollAround(p) \/ RequestStop(p)
    PROVE  LoopInv'
<1>1. LoopTypeOK'
  BY DEF LoopInv, LoopTypeOK, LoadConfig, PollAround, RequestStop, Move, Looping
<1>2. \A q \in Collectors : InLoop(q)' => InLoop(q)
  BY DEF LoopInv, LoopTypeOK, LoadConfig, PollAround, RequestStop, Move, InLoop, Looping
<1> QED BY <1>1, <1>2, LoopKeeps DEF LoadConfig, PollAround, RequestStop

LEMMA LossKeeps ==
    ASSUME LoopInv, NEW p \in Collectors, LoseSession(p) \/ ServerNotices(p)
    PROVE  LoopInv'
<1>1. CASE LoseSession(p)
  <2>1. LoopTypeOK'
    BY <1>1, CollectorAssumption DEF LoopInv, LoopTypeOK, LoseSession, LoopFault
  <2> QED BY <1>1, <2>1 DEF LoopInv, LoopTypeOK, LoseSession, InLoop
<1>2. CASE ServerNotices(p)
  <2>1. LoopTypeOK'
    BY <1>2 DEF LoopInv, LoopTypeOK, ServerNotices
  <2> QED BY <1>2, <2>1 DEF LoopInv, ServerNotices, InLoop
<1> QED BY <1>1, <1>2

LEMMA OutageKeeps ==
    ASSUME LoopInv, DatabaseStops \/ DatabaseStarts
    PROVE  LoopInv'
<1>1. CASE DatabaseStops
  <2>1. dbSession' \in [Collectors -> {"none", "open", "lost"}]
    BY <1>1 DEF LoopInv, LoopTypeOK, DatabaseStops
  <2>2. loopFaults' \in 0..MaxLoopFaults
    BY <1>1, CollectorAssumption DEF LoopInv, LoopTypeOK, DatabaseStops, LoopFault
  <2>3. LoopTypeOK'
    BY <1>1, <2>1, <2>2 DEF LoopInv, LoopTypeOK, DatabaseStops
  <2>4. \A q \in Collectors : dbSession'[q] # "open" /\ (dbSession'[q] = "none" => dbSession[q] = "none")
    BY <1>1 DEF LoopInv, LoopTypeOK, DatabaseStops
  <2> QED BY <1>1, <2>3, <2>4 DEF LoopInv, DatabaseStops, InLoop
<1>2. CASE DatabaseStarts
  <2>1. LoopTypeOK'
    BY <1>2 DEF LoopInv, LoopTypeOK, DatabaseStarts
  <2> QED BY <1>2, <2>1 DEF LoopInv, DatabaseStarts, InLoop
<1> QED BY <1>1, <1>2

-----------------------------------------------------------------------------
(* The specification.                                                      *)

LEMMA LoopStep ==
    ASSUME LoopInv, [LoopNext]_loopVars
    PROVE  /\ LoopInv'
           /\ \A c \in ClusterIds : writer'[c] # writer[c] => writer'[c] = lockOwner
<1>1. CASE UNCHANGED loopVars
  <2>1. LoopTypeOK'
    BY <1>1 DEF LoopInv, LoopTypeOK, loopVars
  <2> QED BY <1>1, <2>1, LoopKeeps DEF loopVars, InLoop
<1>2. CASE DatabaseStops \/ DatabaseStarts
  BY <1>2, OutageKeeps DEF DatabaseStops, DatabaseStarts
<1>3. ASSUME NEW p \in Collectors, TickCluster(p)
      PROVE  /\ LoopInv'
             /\ \A c \in ClusterIds : writer'[c] # writer[c] => writer'[c] = lockOwner
  BY <1>3, TickKeeps
<1>4. ASSUME NEW p \in Collectors, LoadConfig(p) \/ PollAround(p) \/ RequestStop(p)
      PROVE  LoopInv' /\ UNCHANGED writer
  BY <1>4, AroundKeeps DEF LoadConfig, PollAround, RequestStop
<1>5. ASSUME NEW p \in Collectors, LoseSession(p) \/ ServerNotices(p)
      PROVE  LoopInv' /\ UNCHANGED writer
  BY <1>5, LossKeeps DEF LoseSession, ServerNotices
<1>6. ASSUME NEW p \in Collectors, Connect(p)
      PROVE  LoopInv' /\ UNCHANGED writer
  BY <1>6, ConnectKeeps DEF Connect, Exit
<1>7. ASSUME NEW p \in Collectors, AcquireLock(p)
      PROVE  LoopInv' /\ UNCHANGED writer
  BY <1>7, AcquireLockKeeps DEF AcquireLock, Exit
<1>8. ASSUME NEW p \in Collectors, StopLoop(p) \/ KillProcess(p)
      PROVE  LoopInv' /\ UNCHANGED writer
  <2>1. UNCHANGED loopFaults \/ LoopFault
    BY <1>8 DEF StopLoop, KillProcess
  <2>2. loopFaults' \in 0..MaxLoopFaults
    BY <2>1, CollectorAssumption DEF LoopInv, LoopTypeOK, LoopFault
  <2>3. CASE StopLoop(p)
    BY <2>2, <2>3, EndKeeps DEF StopLoop, Exit
  <2>4. CASE KillProcess(p)
    BY <2>2, <2>4, EndKeeps DEF KillProcess
  <2> QED BY <1>8, <2>3, <2>4
<1> QED BY <1>1, <1>2, <1>3, <1>4, <1>5, <1>6, <1>7, <1>8 DEF LoopNext, Runs

LEMMA LoopStarts == ASSUME LoopInit PROVE LoopInv
BY CollectorAssumption
   DEF LoopInit, LoopInv, LoopTypeOK, InLoop, Looping, ClusterIds

\* Whatever part works, the loop takes a step of its own or none.
LEMMA PartStep == ASSUME [CollectorNext]_collectorVars PROVE [LoopNext]_loopVars
BY DEF CollectorNext, Rest, collectorVars

\* One collector at a time (acquire_singleton_lock, CollectorService.run): two
\* poll at once only after one of them has lost its session, and only the owner
\* of the lock replaces a snapshot.
THEOREM OneCollectorAlways == CollectorSpec => OneCollector
<1>1. CollectorInit => LoopInv
  BY LoopStarts DEF CollectorInit
<1>2. LoopInv /\ [CollectorNext]_collectorVars => LoopInv'
  BY PartStep, LoopStep
<1>3. LoopInv /\ LoopInv' /\ [CollectorNext]_collectorVars =>
          [/\ PollersShareOnlyAfterLoss'
           /\ \A c \in ClusterIds : writer'[c] # writer[c] => writer'[c] = lockOwner]_loopVars
  <2> SUFFICES ASSUME LoopInv, LoopInv', [CollectorNext]_collectorVars
               PROVE  /\ PollersShareOnlyAfterLoss'
                      /\ \A c \in ClusterIds : writer'[c] # writer[c] => writer'[c] = lockOwner
    OBVIOUS
  \* Of two in the loop with open sessions, each would own the lock.
  <2>1. PollersShareOnlyAfterLoss'
    BY DEF LoopInv, LoopTypeOK, PollersShareOnlyAfterLoss
  <2> QED BY <2>1, PartStep, LoopStep
<1> QED BY <1>1, <1>2, <1>3, PTL DEF CollectorSpec, OneCollector

-----------------------------------------------------------------------------
(* The polls: a filtered list and the interval of its polls.               *)

\* The intervals leave a JMX reading young at one query poll in a row, as the
\* defaults do: a reading counts for the length of one query interval, the next
\* JMX poll is due after the query poll that follows, and one suspicion is not
\* enough.
Spaced ==
    /\ CrossCheckAge <= QueryInterval
    /\ QueryInterval + CrossCheckAge + 1 < JmxInterval
    /\ ConfirmPolls >= 2

\* While one query poll has suspected, the next one comes before any JMX poll
\* and finds the reading it has too old.
Alone ==
    /\ "jmx" \notin todo
    /\ "queries" \in todo => jmxAge = AgeBound
    /\ "queries" \notin todo => dueIn["queries"] < dueIn["jmx"]
                                /\ jmxAge + dueIn["queries"] >= AgeBound
    /\ todo # {} /\ "queries" \notin todo => dueIn["queries"] >= 1

PollInv ==
    /\ todo \subseteq Kinds
    /\ \A k \in Kinds : dueIn[k] \in Nat
    /\ jmxAge \in 0..AgeBound
    /\ suspicion \in Nat /\ queryInterval \in Nat
    /\ DOMAIN snaps = Kinds
    \* The next JMX poll is an interval after the one that was read.
    /\ jmxAge <= CrossCheckAge => dueIn["jmx"] + jmxAge >= JmxInterval
    /\ "jmx" \in todo => dueIn["jmx"] = 0
    /\ met = {} => /\ suspicion \in {0, 1}
                   /\ suspicion = 1 => Alone
                   /\ snaps.queries # "suspect"

\* A call ends well or adds to what the calls have met.
LEMMA CallAnswers ==
    ASSUME NEW b, NEW answers, NEW mbean
    PROVE  Call(b, answers, mbean).result \in CallFailures \union {"ok"}
<1>1. \A a : ClassifyStatus(a, mbean) \in CallFailures \union {"ok"}
  BY DEF ClassifyStatus, CallFailures
<1>2. Answer(answers, mbean) \in CallFailures \union {"ok"}
  BY <1>1 DEF Answer, CallFailures
<1> HIDE DEF CallFailures
<1>3. "circuitOpen" \in CallFailures
  BY DEF CallFailures
<1> QED BY <1>2, <1>3 DEF Call

LEMMA TheOrder ==
    /\ DOMAIN PollOrder = 1..3
    /\ PollOrder[1] = "jmx" /\ PollOrder[2] = "queries" /\ PollOrder[3] = "info"
BY DEF PollOrder

LEMMA QueriesAfterJmx == ASSUME IsNext("queries") PROVE "jmx" \notin todo
<1>1. 1 \in DOMAIN PollOrder /\ 2 \in DOMAIN PollOrder /\ 1 < 2
  BY TheOrder
<1> QED BY <1>1, TheOrder DEF IsNext

LEMMA InfoIsLast == ASSUME IsNext("info") PROVE "jmx" \notin todo /\ "queries" \notin todo
<1>1. /\ 1 \in DOMAIN PollOrder /\ 2 \in DOMAIN PollOrder /\ 3 \in DOMAIN PollOrder
      /\ 1 < 3 /\ 2 < 3
  BY TheOrder
<1> QED BY <1>1, TheOrder DEF IsNext

LEMMA PollConstants ==
    /\ QueryInterval \in Nat /\ QueryInterval >= 1 /\ JmxInterval \in Nat /\ JmxInterval >= 1
    /\ InfoInterval \in Nat /\ BackoffInterval \in Nat /\ CrossCheckAge \in Nat
    /\ ConfirmPolls \in Nat /\ ConfirmPolls >= 1 /\ AgeBound = CrossCheckAge + 1
BY PollingAssumption DEF AgeBound

\* An age that is capped.
LEMMA Capped ==
    ASSUME NEW n \in Nat
    PROVE  /\ Cap(n) \in 0..AgeBound
           /\ n <= CrossCheckAge => Cap(n) = n
           /\ n > CrossCheckAge => Cap(n) = AgeBound
           /\ Cap(n) <= CrossCheckAge => Cap(n) = n
BY PollConstants DEF Cap

LEMMA SavedElsewhere ==
    ASSUME DOMAIN snaps = Kinds, NEW kind \in Kinds \ {"queries"}, NEW snap, Save(kind, snap)
    PROVE  DOMAIN snaps' = Kinds /\ snaps'["queries"] = snaps["queries"]
BY DEF Save, Kinds

\* What a poll does to the timers and to what is left of the tick.
LEMMA PolledTimers ==
    ASSUME NEW kind \in Kinds, NEW interval \in Nat, NEW b, Polled(kind, interval, b),
           PollInv
    PROVE  /\ todo' = todo \ {kind} /\ kind \in todo
           /\ dueIn'[kind] = interval
           /\ \A k \in Kinds \ {kind} : dueIn'[k] = Later(dueIn[k], 1)
           /\ \A k \in Kinds : dueIn'[k] \in Nat
<1>1. \A k \in Kinds \ {kind} : dueIn'[k] = Later(dueIn[k], 1)
  BY DEF Polled
<1>2. dueIn'[kind] = interval /\ todo' = todo \ {kind} /\ kind \in todo
  BY DEF Polled, IsNext
<1>3. \A k \in Kinds \ {kind} : dueIn'[k] \in Nat
  BY <1>1 DEF Later, PollInv
<1> QED BY <1>1, <1>2, <1>3

LEMMA MeetsMore ==
    ASSUME NEW b, NEW answers, NEW mbean, Meets({Call(b, answers, mbean).result})
    PROVE  met' = {} => met = {} /\ Call(b, answers, mbean).result = "ok"
BY CallAnswers DEF Meets

LEMMA InfoKeeps == ASSUME PollInv, PollInfo PROVE PollInv'
<1> DEFINE queriesDue == dueIn["queries"]
           jmxDue == dueIn["jmx"]
<1>1. PICK answers \in InfoAnswers :
          LET call == Call(breaker, answers, FALSE) IN
          /\ Polled("info", InfoInterval, call.breaker)
          /\ Meets({call.result})
          /\ Save("info", IF call.result = "ok" THEN "up" ELSE "failed")
  BY DEF PollInfo
<1>2. jmxAge' = Cap(jmxAge + 1) /\ UNCHANGED <<suspicion, queryInterval>>
  BY DEF PollInfo
<1>3. /\ todo' = todo \ {"info"} /\ "info" \in todo
      /\ dueIn'["jmx"] = Later(jmxDue, 1) /\ dueIn'["queries"] = Later(queriesDue, 1)
      /\ \A k \in Kinds : dueIn'[k] \in Nat
  BY <1>1, PolledTimers, PollConstants DEF Kinds
<1>4. "jmx" \notin todo /\ "queries" \notin todo
  BY <1>1, InfoIsLast DEF Polled
<1>5. /\ jmxDue \in Nat /\ queriesDue \in Nat /\ jmxAge \in 0..AgeBound
      /\ jmxAge <= CrossCheckAge => jmxDue + jmxAge >= JmxInterval
  BY DEF PollInv, Kinds
<1>6. /\ DOMAIN snaps' = Kinds
      /\ met' = {} => met = {} /\ snaps'.queries = snaps.queries
  <2>1. DOMAIN snaps' = Kinds /\ snaps'.queries = snaps.queries
    BY <1>1, SavedElsewhere DEF PollInv, Kinds
  <2> QED BY <1>1, <2>1, MeetsMore
<1>7. jmxAge' \in 0..AgeBound /\ (jmxAge' <= CrossCheckAge => jmxAge' = jmxAge + 1)
  BY <1>2, <1>5, Capped, PollConstants
<1>8. jmxAge' <= CrossCheckAge => dueIn'["jmx"] + jmxAge' >= JmxInterval
  BY <1>3, <1>5, <1>7, PollConstants DEF Later
<1>9. ASSUME met = {}, suspicion = 1 PROVE Alone'
  <2>1. queriesDue < jmxDue /\ jmxAge + queriesDue >= AgeBound /\ queriesDue >= 1
    BY <1>3, <1>4, <1>9 DEF PollInv, Alone
  <2>2. "jmx" \notin todo' /\ "queries" \notin todo'
    BY <1>3, <1>4
  <2>3. dueIn'["queries"] < dueIn'["jmx"] /\ jmxAge' + dueIn'["queries"] >= AgeBound
    BY <1>2, <1>3, <1>5, <2>1, <1>7, Capped, PollConstants DEF Later
  <2>4. todo' = {}
    BY <1>3, <1>4 DEF PollInv, Kinds
  <2> QED BY <2>2, <2>3, <2>4 DEF Alone
<1>10. todo' \subseteq Kinds /\ "jmx" \notin todo'
  BY <1>3, <1>4 DEF PollInv
<1> QED BY <1>2, <1>3, <1>6, <1>7, <1>8, <1>9, <1>10 DEF PollInv

\* A JMX poll that was called for ends what might be compared with the one
\* before; it does not come between two query polls that suspect.
LEMMA JmxKeeps == ASSUME PollInv, PollJmx PROVE PollInv'
<1>1. PICK b, results, snap :
          /\ Polled("jmx", JmxInterval, b)
          /\ Meets(results)
          /\ Save("jmx", snap)
          /\ jmxAge' = IF saveFaults' # saveFaults THEN Cap(jmxAge + 1) ELSE 0
          /\ UNCHANGED <<suspicion, queryInterval>>
  BY DEF PollJmx
<1>2. /\ todo' = todo \ {"jmx"} /\ "jmx" \in todo
      /\ dueIn'["jmx"] = JmxInterval
      /\ \A k \in Kinds : dueIn'[k] \in Nat
  BY <1>1, PolledTimers, PollConstants DEF Kinds
<1>3. jmxAge \in 0..AgeBound
  BY DEF PollInv
<1>4. jmxAge' \in 0..AgeBound
  BY <1>1, <1>3, Capped, PollConstants
<1>5. jmxAge' <= CrossCheckAge => dueIn'["jmx"] + jmxAge' >= JmxInterval
  <2>1. jmxAge' \in Nat /\ JmxInterval \in Nat
    BY <1>4, PollConstants
  <2>2. \A m, n \in Nat : m + n >= m
    OBVIOUS
  <2> QED BY <1>2, <2>1, <2>2, Zenon
<1>6. /\ DOMAIN snaps' = Kinds
      /\ met' = {} => met = {} /\ snaps'.queries = snaps.queries
  <2>1. DOMAIN snaps' = Kinds /\ snaps'.queries = snaps.queries
    BY <1>1, SavedElsewhere DEF PollInv, Kinds
  <2> QED BY <1>1, <2>1 DEF Meets
<1>7. met = {} => suspicion = 0
  BY <1>2 DEF PollInv, Alone
<1>8. todo' \subseteq Kinds /\ "jmx" \notin todo'
  BY <1>2 DEF PollInv
<1> QED BY <1>1, <1>2, <1>4, <1>5, <1>6, <1>7, <1>8 DEF PollInv

\* A suspicion is the first, and the next query poll finds its reading too old.
LEMMA QueriesKeep == ASSUME Spaced, PollInv, PollQueries PROVE PollInv'
<1> DEFINE listed == server.load # "idle" /\ server.grant # "filtered"
<1>1. PICK answers \in GuardedAnswers :
        LET call == Call(breaker, answers, FALSE)
            snap == IF call.result # "ok" THEN "failed"
                    ELSE IF listed THEN "listed"
                    ELSE IF Suspicion(listed) = ConfirmPolls THEN "suspect" ELSE "empty"
        IN /\ IF call.result = "ok"
              THEN /\ suspicion' = Suspicion(listed) /\ queryInterval' = Adapted(listed)
                   /\ past' = IF listed THEN [past EXCEPT !.falls = 0] ELSE past
              ELSE UNCHANGED <<suspicion, queryInterval, past>>
           /\ Polled("queries", queryInterval', call.breaker)
           /\ Meets({call.result})
           /\ Save("queries", snap)
           /\ jmxAge' = Cap(jmxAge + 1)
  BY DEF PollQueries
<1> DEFINE result == Call(breaker, answers, FALSE).result
<1>2. /\ jmxAge' = Cap(jmxAge + 1) /\ Meets({result})
      /\ result = "ok" => suspicion' = Suspicion(listed) /\ queryInterval' = Adapted(listed)
      /\ result # "ok" => UNCHANGED <<suspicion, queryInterval>>
  BY <1>1
<1>3. /\ queryInterval' \in Nat
      /\ result = "ok" /\ ~listed => queryInterval' = QueryInterval
  BY <1>2, PollConstants DEF Adapted, PollInv
<1>4. /\ todo' = todo \ {"queries"} /\ "queries" \in todo
      /\ dueIn'["queries"] = queryInterval' /\ dueIn'["jmx"] = Later(dueIn["jmx"], 1)
      /\ \A k \in Kinds : dueIn'[k] \in Nat
  BY <1>1, <1>3, PolledTimers DEF Kinds
<1>5. "jmx" \notin todo
  BY <1>1, QueriesAfterJmx DEF Polled
<1>6. /\ dueIn["jmx"] \in Nat /\ jmxAge \in 0..AgeBound
      /\ jmxAge <= CrossCheckAge => dueIn["jmx"] + jmxAge >= JmxInterval
  BY DEF PollInv, Kinds
<1>7. jmxAge' \in 0..AgeBound /\ (jmxAge' <= CrossCheckAge => jmxAge' = jmxAge + 1)
  BY <1>2, <1>6, Capped, PollConstants
<1>8. jmxAge' <= CrossCheckAge => dueIn'["jmx"] + jmxAge' >= JmxInterval
  BY <1>4, <1>6, <1>7, PollConstants DEF Later
<1>9. met' = {} => met = {} /\ result = "ok"
  BY <1>2, MeetsMore
\* Of the polls that may suspect, the first alone has a reading to compare with.
<1>10. met = {} /\ suspicion = 1 => ~CrossChecked
  BY <1>4, <1>6, PollConstants DEF PollInv, Alone, CrossChecked
<1>11. ASSUME met = {}, result = "ok"
       PROVE  /\ suspicion' \in {0, 1}
              /\ suspicion' = 1 => ~listed /\ CrossChecked
              /\ Suspicion(listed) # ConfirmPolls
  <2>1. suspicion \in {0, 1}
    BY <1>11 DEF PollInv
  <2>2. suspicion' = Suspicion(listed)
    BY <1>2, <1>11
  <2>3. CASE listed \/ ~CrossChecked
    BY <2>2, <2>3, PollConstants DEF Suspicion, Spaced
  <2>4. CASE ~listed /\ CrossChecked
    <3>1. suspicion = 0
      BY <1>10, <1>11, <2>1, <2>4
    <3>2. suspicion # ConfirmPolls
      BY <3>1, PollConstants
    <3>3. Suspicion(listed) = 1
      BY <2>4, <3>1, <3>2 DEF Suspicion
    <3> QED BY <2>2, <2>4, <3>3, PollConstants DEF Spaced
  <2> QED BY <2>3, <2>4
<1>12. suspicion' \in Nat
  <2>1. Suspicion(listed) \in Nat
    BY PollConstants DEF Suspicion, PollInv
  <2> QED BY <1>2, <2>1 DEF PollInv
<1>13. ASSUME met = {}, result = "ok", suspicion' = 1 PROVE Alone'
  <2>1. jmxAge <= CrossCheckAge /\ queryInterval' = QueryInterval
    BY <1>3, <1>11, <1>13 DEF CrossChecked
  <2>2. dueIn["jmx"] > QueryInterval + 1
    BY <1>6, <2>1, PollConstants DEF Spaced
  <2>3. dueIn'["queries"] < dueIn'["jmx"] /\ dueIn'["queries"] >= 1
    BY <1>4, <1>6, <2>1, <2>2, PollConstants DEF Later
  <2>4. jmxAge' + dueIn'["queries"] >= AgeBound
    <3>1. jmxAge' = jmxAge + 1 \/ jmxAge' = AgeBound
      BY <1>2, <1>6, Capped, PollConstants
    <3> QED BY <1>4, <1>6, <2>1, <3>1, PollConstants DEF Spaced
  <2>5. "jmx" \notin todo' /\ "queries" \notin todo'
    BY <1>4, <1>5
  <2> QED BY <2>3, <2>4, <2>5 DEF Alone
<1>14. /\ DOMAIN snaps' = Kinds
       /\ met' = {} => snaps'.queries # "suspect"
  <2>1. PICK snap : /\ Save("queries", snap)
                    /\ snap = "suspect" => result = "ok" /\ Suspicion(listed) = ConfirmPolls
    <3> DEFINE found == IF result # "ok" THEN "failed"
                        ELSE IF listed THEN "listed"
                        ELSE IF Suspicion(listed) = ConfirmPolls THEN "suspect" ELSE "empty"
    <3>1. Save("queries", found)
      BY <1>1
    <3>2. found = "suspect" => result = "ok" /\ Suspicion(listed) = ConfirmPolls
      <4> HIDE DEF result, listed
      <4> QED OBVIOUS
    <3> HIDE DEF found
    <3> QED BY <3>1, <3>2
  <2>2. DOMAIN snaps = Kinds /\ (met = {} => snaps["queries"] # "suspect")
    BY DEF PollInv
  <2>3. /\ DOMAIN snaps' = Kinds
        /\ snaps'["queries"] = snap \/ snaps'["queries"] = snaps["queries"]
    BY <2>1, <2>2 DEF Save, Kinds
  <2>4. met' = {} => snap # "suspect"
    BY <1>9, <1>11, <2>1
  <2> QED BY <1>9, <2>2, <2>3, <2>4
<1>15. todo' \subseteq Kinds /\ "jmx" \notin todo'
  BY <1>4, <1>5 DEF PollInv
<1> QED BY <1>3, <1>4, <1>7, <1>8, <1>9, <1>11, <1>12, <1>13, <1>14, <1>15 DEF PollInv

\* Sleeping until something is due: queries that come next come alone.
LEMMA StartTickKeeps == ASSUME PollInv, StartTick PROVE PollInv'
<1> DEFINE dues == {dueIn[k] : k \in Kinds}
           wait == CHOOSE d \in dues : \A k \in Kinds : d <= dueIn[k]
<1>1. /\ dueIn["jmx"] \in Nat /\ dueIn["queries"] \in Nat /\ dueIn["info"] \in Nat
      /\ \A k \in Kinds : k = "jmx" \/ k = "queries" \/ k = "info"
  BY DEF PollInv, Kinds
<1>2. \E d \in dues : \A k \in Kinds : d <= dueIn[k]
  <2>1. dueIn["jmx"] \in dues /\ dueIn["queries"] \in dues /\ dueIn["info"] \in dues
    BY DEF Kinds
  <2> HIDE DEF dues
  <2>2. CASE dueIn["jmx"] <= dueIn["queries"] /\ dueIn["jmx"] <= dueIn["info"]
    BY <1>1, <2>1, <2>2
  <2>3. CASE dueIn["queries"] <= dueIn["jmx"] /\ dueIn["queries"] <= dueIn["info"]
    BY <1>1, <2>1, <2>3
  <2>4. CASE dueIn["info"] <= dueIn["jmx"] /\ dueIn["info"] <= dueIn["queries"]
    BY <1>1, <2>1, <2>4
  <2> QED BY <1>1, <2>2, <2>3, <2>4
<1>3. wait \in dues /\ \A k \in Kinds : wait <= dueIn[k]
  <2> HIDE DEF dues
  <2> QED BY <1>2
<1>4. wait \in Nat
  BY <1>3 DEF PollInv
<1>5. /\ todo = {}
      /\ dueIn' = [k \in Kinds |-> dueIn[k] - wait]
      /\ todo' = {k \in Kinds : dueIn'[k] = 0}
      /\ jmxAge' = Cap(jmxAge + wait)
      /\ UNCHANGED <<queryInterval, suspicion, snaps, met>>
  BY DEF StartTick
<1> HIDE DEF wait, dues
<1>6. /\ \A k \in Kinds : dueIn'[k] = dueIn[k] - wait /\ dueIn'[k] \in Nat
      /\ dueIn'["jmx"] = dueIn["jmx"] - wait /\ wait <= dueIn["jmx"]
      /\ dueIn'["queries"] = dueIn["queries"] - wait /\ wait <= dueIn["queries"]
  BY <1>3, <1>4, <1>5 DEF PollInv, Kinds
<1>7. todo' \subseteq Kinds /\ ("jmx" \in todo' => dueIn'["jmx"] = 0)
  BY <1>5
<1>8. jmxAge \in 0..AgeBound /\ (jmxAge <= CrossCheckAge => dueIn["jmx"] + jmxAge >= JmxInterval)
  BY DEF PollInv
<1>9. /\ jmxAge' \in 0..AgeBound
      /\ jmxAge' <= CrossCheckAge => jmxAge' = jmxAge + wait
      /\ jmxAge' = AgeBound \/ jmxAge' = jmxAge + wait
  BY <1>4, <1>5, <1>8, Capped, PollConstants
<1>10. jmxAge' <= CrossCheckAge => dueIn'["jmx"] + jmxAge' >= JmxInterval
  BY <1>1, <1>4, <1>6, <1>8, <1>9, PollConstants
<1>11. ASSUME met = {}, suspicion = 1 PROVE Alone'
  <2>1. dueIn["queries"] < dueIn["jmx"] /\ jmxAge + dueIn["queries"] >= AgeBound
    BY <1>5, <1>11 DEF PollInv, Alone
  <2>2. dueIn'["queries"] < dueIn'["jmx"]
    BY <1>1, <1>4, <1>6, <2>1
  <2>3. jmxAge' + dueIn'["queries"] >= AgeBound
    BY <1>1, <1>4, <1>6, <1>8, <1>9, <2>1, PollConstants
  <2>4. dueIn'["queries"] \in Nat /\ dueIn'["jmx"] \in Nat
    BY <1>6 DEF Kinds
  <2>5. "jmx" \notin todo'
    BY <1>5, <2>2, <2>4
  <2>6. "queries" \in todo' <=> dueIn'["queries"] = 0
    BY <1>5 DEF Kinds
  <2>7. "queries" \in todo' => jmxAge' = AgeBound
    BY <1>9, <2>3, <2>6, PollConstants
  <2>8. "queries" \notin todo' => dueIn'["queries"] >= 1
    BY <2>4, <2>6
  <2> QED BY <2>2, <2>3, <2>5, <2>7, <2>8 DEF Alone
<1> QED BY <1>5, <1>6, <1>7, <1>9, <1>10, <1>11 DEF PollInv

LEMMA PollStep == ASSUME Spaced, PollInv, [PollNext]_pollVars PROVE PollInv'
<1>1. CASE ServerChanges \/ UNCHANGED pollVars
  <2>1. UNCHANGED <<todo, dueIn, jmxAge, suspicion, queryInterval, snaps, met>>
    BY <1>1 DEF ServerChanges, pollVars
  <2> QED BY <2>1 DEF PollInv, Alone
<1> QED BY <1>1, InfoKeeps, JmxKeeps, QueriesKeep, StartTickKeeps DEF PollNext, PollerRuns

LEMMA PollStarts == ASSUME PollInit PROVE PollInv
<1>1. dueIn = [k \in Kinds |-> 0] /\ jmxAge = AgeBound
  BY DEF PollInit
<1>2. \A k \in Kinds : dueIn[k] = 0
  BY <1>1
<1>3. DOMAIN snaps = Kinds /\ snaps.queries = "none"
  BY DEF PollInit, Kinds
<1> QED BY <1>1, <1>2, <1>3, PollConstants DEF PollInit, PollInv

LEMMA PollPart == ASSUME [CollectorNext]_collectorVars PROVE [PollNext]_pollVars
BY DEF CollectorNext, Rest, collectorVars

\* No poll has said that the query list is filtered, or some call has failed.
H09OutOfReach == met = {} => snaps.queries # "suspect"

\* While every call succeeds H-09 never says that the query list is filtered,
\* whatever the access control hides and whichever snapshots cannot be saved:
\* with readings that count for no longer than a query interval and JMX polls
\* further apart than two query polls, as by default (poll_queries,
\* _last_jmx_running_queries).  docs/HEALTH_TESTS.md and the comment in
\* poll_queries say that a filtered list is caught one poll late; this is the
\* proof that with the defaults it is not.
THEOREM SuspicionNeedsAFailure == Spaced => (CollectorSpec => []H09OutOfReach)
<1> SUFFICES ASSUME Spaced PROVE CollectorSpec => []H09OutOfReach
  OBVIOUS
<1>1. CollectorInit => PollInv
  BY PollStarts DEF CollectorInit
<1>2. PollInv /\ [CollectorNext]_collectorVars => PollInv'
  BY PollPart, PollStep
<1>3. PollInv => H09OutOfReach
  BY DEF PollInv, H09OutOfReach
<1> QED BY <1>1, <1>2, <1>3, PTL DEF CollectorSpec

-----------------------------------------------------------------------------
(* The way back: what the last gate's verdict rests on.                    *)

\* While a restart has the cluster out of rotation, a list of backends that
\* still shows it in is from before the restart, and so is a verdict GOOD that
\* left no test out.
ReturnInv ==
    /\ ReturnTypeOK
    /\ restart.state \in InFlight \ {"PENDING"} =>
          /\ ~routed
          /\ gatewaySnap => dated.routing
          /\ rollupSnap = "GOOD" => dated.rollup \/ dated.excused # {}

\* Whatever a test is given, its verdict is one of the states.
LEMMA VerdictStates == ASSUME NEW t \in AllTests, NEW ctx PROVE Verdict(t, ctx) \in HealthStates
<1>1. \A value, limit : Grade(value, limit) \in HealthStates
  BY DEF Grade, HealthStates
<1>2. CASE t \in {"H-01", "H-02", "H-08", "H-09"}
  BY <1>2 DEF Verdict, CoordinatorResponsive, StartupComplete, GatewayRegistration,
              PermissionSelfCheck, HealthStates
<1>3. CASE t = "H-03"
  BY <1>3 DEF Verdict, WorkerRegistration, HealthStates
<1>4. CASE t \in {"H-04", "H-05", "H-06", "H-07"}
  BY <1>1, <1>4 DEF Verdict, HeapUsage, FailureRate, InternalFailures, OomKills, HealthStates
<1> QED BY <1>2, <1>3, <1>4 DEF AllTests

\* A list of one backend: it is the first of the cluster.
LEMMA OneBackend ==
    ASSUME NEW active \in BOOLEAN, GatewayRegistration(Routing(active), "c") = "GOOD"
    PROVE  active
<1> DEFINE list == <<[cluster |-> "c", active |-> active]>>
           mine == {i \in DOMAIN list : list[i].cluster = "c"}
           first == CHOOSE i \in mine : \A j \in mine : i <= j
<1>1. DOMAIN list = {1} /\ list[1].cluster = "c" /\ list[1].active = active
  OBVIOUS
<1>2. mine = {1}
  BY <1>1
<1>3. first = 1
  BY <1>2
<1>4. Routing(active).read /\ Routing(active).list = list
  BY DEF Routing
<1>5. IF mine = {} THEN FALSE ELSE list[first].active
  BY <1>4 DEF GatewayRegistration
<1> QED BY <1>1, <1>2, <1>3, <1>5

\* The worst of some states is one of the states there are, and GOOD only if
\* there is nothing else.
LEMMA WorstOfSome ==
    ASSUME NEW states \in SUBSET HealthStates
    PROVE  /\ Worst(states) \in HealthStates
           /\ Worst(states) = "GOOD" => states = {"GOOD"}
<1>1. \A s \in HealthStates : Severity(s) \in Nat /\ (Severity(s) = 0 <=> s = "GOOD")
  BY DEF Severity, HealthStates
<1>2. ASSUME states # {} PROVE \E s \in states : \A t \in states : Severity(t) <= Severity(s)
  <2>1. CASE "BAD" \in states
    BY <2>1 DEF Severity, HealthStates
  <2>2. CASE "BAD" \notin states /\ "CONCERNING" \in states
    BY <2>2 DEF Severity, HealthStates
  <2>3. CASE states \subseteq {"GOOD", "UNKNOWN"} /\ "UNKNOWN" \in states
    BY <2>3 DEF Severity
  <2>4. CASE states \subseteq {"GOOD"}
    BY <1>2, <2>4 DEF Severity
  <2> QED BY <2>1, <2>2, <2>3, <2>4 DEF HealthStates
<1>3. CASE states = {}
  BY <1>3 DEF Worst, HealthStates
<1>4. CASE states # {}
  <2>1. Worst(states) \in states /\ \A t \in states : Severity(t) <= Severity(Worst(states))
    BY <1>2, <1>4 DEF Worst
  <2> QED BY <1>1, <1>4, <2>1
<1> QED BY <1>3, <1>4

\* What the roll-up makes of the verdicts: GOOD only of fresh input on which every
\* test is GOOD.
LEMMA ResultsStates ==
    ASSUME NEW tests \in SUBSET AllTests, NEW ctx, NEW stale
    PROVE  /\ DOMAIN Results(tests, ctx, stale) = tests
           /\ \A t \in tests : Results(tests, ctx, stale)[t] \in HealthStates
           /\ RollUp(Results(tests, ctx, stale), TRUE) \in HealthStates
           /\ RollUp(Results(tests, ctx, stale), TRUE) = "GOOD" =>
                 \A t \in tests : Results(tests, ctx, stale)[t] = "GOOD"
           /\ RollUp(Results({}, ctx, stale), TRUE) # "GOOD"
<1> DEFINE results == Results(tests, ctx, stale)
           states == {results[t] : t \in DOMAIN results}
<1>1. /\ DOMAIN results = tests
      /\ \A t \in tests : results[t] = IF stale THEN "UNKNOWN" ELSE Verdict(t, ctx)
  BY DEF Results
<1>2. \A t \in tests : results[t] \in HealthStates
  BY <1>1, VerdictStates DEF HealthStates
<1>3. RollUp(results, TRUE) = Worst(states)
  BY DEF RollUp
<1> HIDE DEF results
<1>4. states \in SUBSET HealthStates /\ \A t \in tests : results[t] \in states
  BY <1>1, <1>2
<1> HIDE DEF states
<1>5. /\ Worst(states) \in HealthStates
      /\ Worst(states) = "GOOD" => \A t \in tests : results[t] = "GOOD"
  BY <1>4, WorstOfSome
<1>6. RollUp(Results({}, ctx, stale), TRUE) = "UNKNOWN"
  BY DEF Results, RollUp, Worst
<1> QED BY <1>1, <1>2, <1>3, <1>5, <1>6 DEF results

\* With no test left out, H-08 sees the cluster out of rotation.
LEMMA RolledUpState ==
    ASSUME NEW off, gatewaySnap \in BOOLEAN
    PROVE  /\ RolledUp(off) \in HealthStates
           /\ RolledUp(off) = "GOOD" /\ off = {} => gatewaySnap
<1> DEFINE ctx == [info |-> "started", jmx |-> Beans(jmxSnap), queries |-> "trusted",
                   gateway |-> Routing(gatewaySnap), cluster |-> "c", expected |-> 0,
                   kills |-> 0]
           tests == ActiveTests(AllTests, off, TRUE)
<1>1. tests \in SUBSET AllTests /\ (off = {} => "H-08" \in tests)
  BY DEF ActiveTests, AllTests
<1>2. RolledUp(off) = RollUp(Results(tests, ctx, FALSE), TRUE)
  BY DEF RolledUp
<1>3. ctx.gateway = Routing(gatewaySnap) /\ ctx.cluster = "c"
  OBVIOUS
<1> HIDE DEF ctx, tests
<1>4. /\ RolledUp(off) \in HealthStates
      /\ RolledUp(off) = "GOOD" /\ off = {} => Verdict("H-08", ctx) = "GOOD"
  <2> DEFINE aged == FALSE
             rolled == RollUp(Results(tests, ctx, aged), TRUE)
  <2> HIDE DEF aged
  <2>1. rolled \in HealthStates
    BY <1>1, ResultsStates
  <2>2. rolled = "GOOD" => \A t \in tests : Results(tests, ctx, aged)[t] = "GOOD"
    BY <1>1, ResultsStates
  <2>3. rolled = "GOOD" => \A t \in tests : Verdict(t, ctx) = "GOOD"
    BY <2>2 DEF Results, aged
  <2> HIDE DEF rolled
  <2>4. RolledUp(off) = rolled
    BY <1>2 DEF rolled, aged
  <2> QED BY <1>1, <2>1, <2>3, <2>4
<1>5. Verdict("H-08", ctx) = "GOOD" => GatewayRegistration(Routing(gatewaySnap), "c") = "GOOD"
  BY <1>3 DEF Verdict
<1> QED BY <1>4, <1>5, OneBackend

-----------------------------------------------------------------------------
ReturnSequences == Sequences({NoCount} \union 0..ReturnQueries)

\* What a look may change of a sequence.
LEMMA ObservedState ==
    ASSUME ReturnTypeOK, NEW s \in ReturnSequences
    PROVE  /\ Observed(s) \in ReturnSequences
           /\ s.state # "DRAINING" => Observed(s).state = s.state
           /\ s.state = "DRAINING" => Observed(s).state \in {"DRAINING", "DRAINED"}
BY DEF ReturnTypeOK, ReturnSequences, Observed, Observe, Sequences, States, InFlight, Terminal,
       HealthSeen

\* The sequence moves on, out of rotation, or comes to its end.
LEMMA OperatorKeeps ==
    ASSUME ReturnInv, NEW s \in ReturnSequences, NEW active \in BOOLEAN,
           Operator(s, active), dated' = dated,
           s.state \notin Terminal =>
               restart.state \in InFlight \ {"PENDING"} /\ active = routed
    PROVE  ReturnInv'
<1>1. /\ restart' = s /\ routed' = active
      /\ UNCHANGED <<running, finished, excused, gatewaySnap, jmxSnap, querySnap, rollupSnap, dated>>
  BY DEF Operator
<1>2. ReturnTypeOK'
  BY <1>1 DEF ReturnInv, ReturnTypeOK, ReturnSequences
<1> QED BY <1>1, <1>2 DEF ReturnInv, InFlight, Terminal

LEMMA BeginKeeps == ASSUME ReturnInv, BeginReturn PROVE ReturnInv'
<1>1. Begin(restart) \in ReturnSequences
  BY DEF ReturnInv, ReturnTypeOK, ReturnSequences, Begin, Sequences, States, InFlight
<1>2. restart' \in ReturnSequences /\ routed' = FALSE
  BY <1>1, ObservedState DEF ReturnInv, BeginReturn, Operator
<1>3. UNCHANGED <<running, finished, excused, gatewaySnap, jmxSnap, querySnap, rollupSnap>>
  BY DEF BeginReturn, Operator
<1>4. /\ dated' \in [routing : BOOLEAN, rollup : BOOLEAN, excused : SUBSET Excusable]
      /\ dated'.routing /\ dated'.rollup
  BY DEF ReturnInv, ReturnTypeOK, BeginReturn
<1>5. ReturnTypeOK'
  BY <1>2, <1>3, <1>4 DEF ReturnInv, ReturnTypeOK, ReturnSequences
<1> QED BY <1>2, <1>3, <1>4, <1>5 DEF ReturnInv

LEMMA RefreshKeeps == ASSUME ReturnInv, RefreshReturn PROVE ReturnInv'
<1>1. Observed(restart) \in ReturnSequences /\ routed \in BOOLEAN
  BY ObservedState DEF ReturnInv, ReturnTypeOK, ReturnSequences
<1> QED BY <1>1, OperatorKeeps DEF RefreshReturn

LEMMA RestartedKeeps == ASSUME ReturnInv, RestartReturned PROVE ReturnInv'
<1> DEFINE marked == MarkRestarted(MarkRestarting(Observed(restart)))
<1>1. restart \in ReturnSequences /\ ReturnTypeOK
  BY DEF ReturnInv, ReturnTypeOK, ReturnSequences
<1>2. Observed(restart) \in ReturnSequences
  BY <1>1, ObservedState
<1>3. marked \in ReturnSequences
  BY <1>2 DEF MarkRestarted, MarkRestarting, ReturnSequences, Sequences, States, InFlight
<1>4. restart.state \in InFlight \ {"PENDING"}
  BY <1>1, ObservedState
     DEF RestartReturned, DrainConfirmed, ReturnSequences, Sequences, States, InFlight
<1>5. restart' \in ReturnSequences
  BY <1>1, <1>3, ObservedState DEF RestartReturned
<1>6. /\ running' = 0
      /\ UNCHANGED <<routed, finished, excused, gatewaySnap, jmxSnap, querySnap, rollupSnap, dated>>
  BY DEF RestartReturned
<1>7. ReturnTypeOK'
  BY <1>1, <1>5, <1>6, ReturnAssumption DEF ReturnTypeOK, ReturnSequences
<1> QED BY <1>4, <1>6, <1>7 DEF ReturnInv

LEMMA EndReturnKeeps == ASSUME ReturnInv, CompleteReturn \/ AbortReturn PROVE ReturnInv'
<1>1. restart \in ReturnSequences /\ Observed(restart) \in ReturnSequences
  BY ObservedState DEF ReturnInv, ReturnTypeOK, ReturnSequences
<1>2. CASE CompleteReturn
  <2>1. /\ Complete(Observed(restart)) \in ReturnSequences
        /\ Complete(Observed(restart)).state \in Terminal
    BY <1>1 DEF ReturnSequences, Complete, Sequences, States, Terminal
  <2> QED BY <1>2, <2>1, OperatorKeeps DEF CompleteReturn
<1>3. CASE AbortReturn
  <2> DEFINE ended == FinishAbort(BeginAbort(restart))
  <2>1. ended \in ReturnSequences /\ ended.state \in Terminal
    BY <1>1 DEF ReturnSequences, FinishAbort, BeginAbort, Sequences, States, Terminal
  <2> QED BY <1>3, <2>1, OperatorKeeps DEF AbortReturn
<1> QED BY <1>2, <1>3

\* Queries run only where they are routed; a test is switched off without a new
\* verdict.
LEMMA AroundReturnKeeps ==
    ASSUME ReturnInv, QueryRuns \/ QueryFinishes \/ WindowEmpties
                      \/ \E t \in Excusable : ExcuseTest(t)
    PROVE  ReturnInv'
<1>1. UNCHANGED <<restart, routed, gatewaySnap, jmxSnap, querySnap, rollupSnap, dated>>
  BY DEF QueryRuns, QueryFinishes, WindowEmpties, ExcuseTest
<1>2. running' \in 0..ReturnQueries /\ finished' \in {0, 1} /\ excused' \subseteq Excusable
  BY ReturnAssumption
     DEF ReturnInv, ReturnTypeOK, QueryRuns, QueryFinishes, WindowEmpties, ExcuseTest
<1>3. ReturnTypeOK'
  BY <1>1, <1>2 DEF ReturnInv, ReturnTypeOK
<1> QED BY <1>1, <1>3 DEF ReturnInv

LEMMA CollectingKeeps == ASSUME ReturnInv, Collecting PROVE ReturnInv'
<1>1. CASE PollRouting
  <2>1. /\ gatewaySnap' = routed
        /\ UNCHANGED <<restart, routed, running, finished, excused, jmxSnap, querySnap, rollupSnap>>
    BY <1>1 DEF PollRouting
  <2>2. /\ dated' \in [routing : BOOLEAN, rollup : BOOLEAN, excused : SUBSET Excusable]
        /\ dated'.rollup = dated.rollup /\ dated'.excused = dated.excused
    BY <1>1 DEF ReturnInv, ReturnTypeOK, PollRouting
  <2> QED BY <2>1, <2>2 DEF ReturnInv, ReturnTypeOK
<1>2. CASE PollLoad
  BY <1>2 DEF ReturnInv, ReturnTypeOK, PollLoad
<1>3. CASE EvaluateReturn
  <2>1. /\ rollupSnap' = RolledUp(excused)
        /\ UNCHANGED <<restart, routed, running, finished, excused, gatewaySnap, jmxSnap, querySnap>>
    BY <1>3 DEF EvaluateReturn
  <2>2. /\ dated' \in [routing : BOOLEAN, rollup : BOOLEAN, excused : SUBSET Excusable]
        /\ dated'.routing = dated.routing /\ dated'.rollup = dated.routing
        /\ dated'.excused = excused
    BY <1>3 DEF ReturnInv, ReturnTypeOK, EvaluateReturn
  <2>3. /\ rollupSnap' \in HealthStates
        /\ rollupSnap' = "GOOD" /\ excused = {} => gatewaySnap
    BY <2>1, RolledUpState DEF ReturnInv, ReturnTypeOK
  <2>5. ReturnTypeOK'
    BY <2>1, <2>2, <2>3 DEF ReturnInv, ReturnTypeOK
  <2> QED BY <2>1, <2>2, <2>3, <2>5 DEF ReturnInv
<1> QED BY <1>1, <1>2, <1>3 DEF Collecting

LEMMA ReturnStep == ASSUME ReturnInv, [ReturnNext]_returnVars PROVE ReturnInv'
<1>1. CASE UNCHANGED returnVars
  BY <1>1 DEF returnVars, ReturnInv, ReturnTypeOK
<1> QED BY <1>1, BeginKeeps, RefreshKeeps, RestartedKeeps, EndReturnKeeps, AroundReturnKeeps,
           CollectingKeeps DEF ReturnNext

LEMMA ReturnStarts == ASSUME ReturnInit PROVE ReturnInv
BY ReturnAssumption
   DEF ReturnInit, ReturnInv, ReturnTypeOK, NewSequence, Sequences, States, InFlight, HealthSeen,
       StoreSeen, HealthStates

LEMMA ReturnPart == ASSUME [CollectorNext]_collectorVars PROVE [ReturnNext]_returnVars
BY DEF CollectorNext, Rest, collectorVars

\* A completion rests on a verdict GOOD: its look saw one, or an older look did.
LEMMA CompletionIsOld ==
    ASSUME ReturnInv, ReturnNext, restart.state = "VERIFYING", restart'.state = "COMPLETED"
    PROVE  dated.rollup \/ dated.excused # {}
<1>1. restart \in ReturnSequences
  BY DEF ReturnInv, ReturnTypeOK, ReturnSequences
<1>2. CompleteReturn
  <2>1. ~BeginReturn /\ ~RestartReturned
    BY <1>1, ObservedState DEF ReturnInv, BeginReturn, RestartReturned, DrainConfirmed
  <2>2. ~RefreshReturn
    BY <1>1, ObservedState DEF ReturnInv, RefreshReturn, Operator
  <2>3. ~AbortReturn
    BY <1>1 DEF ReturnSequences, Sequences, AbortReturn, Operator, FinishAbort, BeginAbort
  <2>4. restart' # restart
    OBVIOUS
  <2> QED BY <2>1, <2>2, <2>3, <2>4
      DEF ReturnNext, Collecting, PollRouting, PollLoad, EvaluateReturn, ExcuseTest, QueryRuns,
          QueryFinishes, WindowEmpties
<1>3. rollupSnap = "GOOD"
  BY <1>1, <1>2
     DEF CompleteReturn, MayReturn, HealthConfirmed, Observed, Observe, ReturnSequences, Sequences
<1> QED BY <1>3 DEF ReturnInv, InFlight

\* A restart was completed with a test switched off, or on an old verdict.
CompletedOnOldNews ==
    [][restart.state = "VERIFYING" /\ restart'.state = "COMPLETED" =>
          dated.rollup \/ dated.excused # {}]_returnVars

\* A restart completed with no test switched off rests on a list of backends from
\* before its own first step (service.complete, HealthWriter.evaluate): for any
\* number of queries and any tests that may be switched off.
THEOREM GoodIsOldNews == CollectorSpec => CompletedOnOldNews
<1>1. CollectorInit => ReturnInv
  BY ReturnStarts DEF CollectorInit
<1>2. ReturnInv /\ [CollectorNext]_collectorVars => ReturnInv'
  BY ReturnPart, ReturnStep
<1>3. ReturnInv /\ [CollectorNext]_collectorVars =>
          [restart.state = "VERIFYING" /\ restart'.state = "COMPLETED" =>
              dated.rollup \/ dated.excused # {}]_returnVars
  BY ReturnPart, CompletionIsOld
<1> QED BY <1>1, <1>2, <1>3, PTL DEF CollectorSpec, CompletedOnOldNews

-----------------------------------------------------------------------------
(* The health page: the engine's memory against the rows it leaves.        *)

EngineType ==
    [confirmed : [Catalogue -> Known],
     pending : [Catalogue -> [state : Known, count : 0..Polls]],
     kills : (0..MaxKills) \union {Missing}]

\* The instances the promise about kills is for.
KillsJudgedTwice == "H-07" \in Catalogue \ Tunable /\ Stabilization >= 2 /\ TicksPerReading >= 2

Alarms == {"CONCERNING", "BAD"}

\* The last event of a test without a hole is what the engine has confirmed.
Chained ==
    \A t \in Catalogue :
        t \notin gap /\ lastEvent[t] # "none" => engine.confirmed[t] = lastEvent[t]

\* A reading that was evaluated is its own baseline, and a streak of alarms is
\* of this very reading.
KillsInv ==
    KillsJudgedTwice =>
        /\ readFor < TicksPerReading /\ reading.kills # Missing => engine.kills = reading.kills
        /\ engine.confirmed["H-07"] \notin Alarms
        /\ engine.pending["H-07"].state \in Alarms =>
              readFor = 1 /\ engine.pending["H-07"].count = 1

HealthInv == HealthTypeOK /\ disabled \subseteq Tunable /\ Chained /\ KillsInv

LEMMA PollsPositive ==
    Polls \in Nat /\ Polls >= 1 /\ (Stabilization >= 2 => Polls >= 2)
BY HealthAssumption DEF Polls, Largest

LEMMA EngineTyped == ASSUME HealthTypeOK PROVE engine \in EngineType
BY DEF HealthTypeOK, EngineType

\* What an evaluation does to the memory of one test.
LEMMA Confirming ==
    ASSUME NEW e \in EngineType, NEW results, DOMAIN results \subseteq Catalogue,
           \A t \in DOMAIN results : results[t] \in HealthStates
    PROVE  /\ Confirmed(e, results) \in [Catalogue -> Known]
           /\ Pending(e, results) \in [Catalogue -> [state : Known, count : 0..Polls]]
           /\ \A t \in Catalogue :
                 \/ Confirmed(e, results)[t] = e.confirmed[t]
                 \/ /\ t \in DOMAIN results /\ Confirmed(e, results)[t] = results[t]
                    /\ Confirms(e.pending[t], results[t])
           /\ \A t \in Catalogue :
                 \/ Pending(e, results)[t] = e.pending[t] /\ t \notin DOMAIN results
                 \/ Pending(e, results)[t] = NoPending
                 \/ /\ t \in DOMAIN results /\ Pending(e, results)[t].state = results[t]
                    /\ e.pending[t].state # results[t] => Pending(e, results)[t].count = 1
<1>1. /\ e.confirmed \in [Catalogue -> Known]
      /\ e.pending \in [Catalogue -> [state : Known, count : 0..Polls]]
      /\ HealthStates \subseteq Known
  BY DEF EngineType, Known
<1>2. Confirmed(e, results) \in [Catalogue -> Known]
  BY <1>1 DEF Confirmed
<1>3. \A t \in Catalogue :
          \/ Confirmed(e, results)[t] = e.confirmed[t]
          \/ /\ t \in DOMAIN results /\ Confirmed(e, results)[t] = results[t]
             /\ Confirms(e.pending[t], results[t])
  BY DEF Confirmed
<1>4. NoPending \in [state : Known, count : 0..Polls]
  BY PollsPositive DEF NoPending, Known
<1>5. ASSUME NEW p \in [state : Known, count : 0..Polls], NEW s \in HealthStates, ~Confirms(p, s)
      PROVE  /\ Pend(p, s) \in [state : Known, count : 0..Polls]
             /\ Pend(p, s).state = s
             /\ p.state # s => Pend(p, s).count = 1
  BY <1>1, <1>5, PollsPositive DEF Pend, Confirms
<1>6. ASSUME NEW t \in Catalogue
      PROVE  /\ Pending(e, results)[t] \in [state : Known, count : 0..Polls]
             /\ \/ Pending(e, results)[t] = e.pending[t] /\ t \notin DOMAIN results
                \/ Pending(e, results)[t] = NoPending
                \/ /\ t \in DOMAIN results /\ Pending(e, results)[t].state = results[t]
                   /\ e.pending[t].state # results[t] => Pending(e, results)[t].count = 1
  <2>1. CASE t \notin DOMAIN results
    BY <1>1, <2>1 DEF Pending
  <2>2. CASE t \in DOMAIN results /\ (results[t] = e.confirmed[t] \/ Confirms(e.pending[t], results[t]))
    BY <1>4, <2>2 DEF Pending
  <2>3. CASE t \in DOMAIN results /\ ~(results[t] = e.confirmed[t] \/ Confirms(e.pending[t], results[t]))
    <3>1. Pending(e, results)[t] = Pend(e.pending[t], results[t])
      BY <2>3 DEF Pending
    <3> QED BY <1>1, <1>5, <2>3, <3>1
  <2> QED BY <2>1, <2>2, <2>3
<1>7. Pending(e, results) \in [Catalogue -> [state : Known, count : 0..Polls]]
  <2>1. Pending(e, results) = [t \in Catalogue |-> Pending(e, results)[t]]
    BY DEF Pending
  <2> QED BY <1>6, <2>1
<1> QED BY <1>2, <1>3, <1>6, <1>7

-----------------------------------------------------------------------------
(* A tick.                                                                 *)

Readings == [heap : Heaps \union {Missing}, kills : (0..MaxKills) \union {Missing}, stale : BOOLEAN]

TestsOf(overrides) == ActiveTests(Catalogue, overrides.off, TRUE)
ResultsOf(input, overrides) == Results(TestsOf(overrides), Context(input, engine), input.stale)

LEMMA ResultsTyped ==
    ASSUME NEW input, NEW overrides
    PROVE  /\ DOMAIN ResultsOf(input, overrides) = TestsOf(overrides)
           /\ TestsOf(overrides) \subseteq Catalogue
           /\ \A t \in TestsOf(overrides) : ResultsOf(input, overrides)[t] \in HealthStates
           /\ RollUp(ResultsOf(input, overrides), TRUE) \in HealthStates
           /\ RollUp(ResultsOf(input, overrides), TRUE) = "GOOD" =>
                 /\ TestsOf(overrides) # {}
                 /\ \A t \in TestsOf(overrides) : ResultsOf(input, overrides)[t] = "GOOD"
<1>1. TestsOf(overrides) \subseteq Catalogue /\ TestsOf(overrides) \in SUBSET AllTests
  BY HealthAssumption DEF TestsOf, ActiveTests
<1> DEFINE tests == TestsOf(overrides)
           ctx == Context(input, engine)
           aged == input.stale
<1> HIDE DEF tests, ctx, aged
<1>2. tests \in SUBSET AllTests
  BY <1>1 DEF tests
<1>3. /\ DOMAIN Results(tests, ctx, aged) = tests
      /\ \A t \in tests : Results(tests, ctx, aged)[t] \in HealthStates
      /\ RollUp(Results(tests, ctx, aged), TRUE) \in HealthStates
  BY <1>2, ResultsStates
<1>4. RollUp(Results(tests, ctx, aged), TRUE) = "GOOD" =>
          \A t \in tests : Results(tests, ctx, aged)[t] = "GOOD"
  BY <1>2, ResultsStates
<1>5. RollUp(Results({}, ctx, aged), TRUE) # "GOOD"
  BY <1>2, ResultsStates
<1>6. RollUp(Results(tests, ctx, aged), TRUE) = "GOOD" => tests # {}
  BY <1>5
<1> QED BY <1>1, <1>3, <1>4, <1>6 DEF ResultsOf, tests, ctx, aged

\* What one evaluation leaves, in the engine and in the rows.
LEMMA Evaluated ==
    ASSUME HealthInv, NEW input \in Readings, NEW overrides, Evaluate(input, overrides)
    PROVE  /\ engine' \in EngineType
           /\ engine'.confirmed = Confirmed(engine, ResultsOf(input, overrides))
           /\ engine'.pending = Pending(engine, ResultsOf(input, overrides))
           /\ engine'.kills = CarriedKills(engine, input, TestsOf(overrides))
           /\ lastEvent' \in [Catalogue -> Known] /\ gap' \subseteq Catalogue
           /\ healthRow' \in Known /\ healthFaults' \in 0..MaxHealthFaults
           /\ Chained'
<1> DEFINE results == ResultsOf(input, overrides)
           moved == Transitions(engine, results)
           confirmed == Confirmed(engine, results)
           pending == Pending(engine, results)
<1>1. PICK written \in SUBSET moved, saved \in BOOLEAN :
          /\ RecordEvents(moved, results, written)
          /\ healthRow' = IF saved THEN RollUp(results, overrides.rollup) ELSE healthRow
          /\ healthFaults' = healthFaults \/ HealthFault
  BY DEF Evaluate, ResultsOf, TestsOf
<1>2. engine' = [confirmed |-> confirmed, pending |-> pending,
                 kills |-> CarriedKills(engine, input, TestsOf(overrides))]
  BY DEF Evaluate, ResultsOf, TestsOf
<1>3. /\ DOMAIN results \subseteq Catalogue
      /\ \A t \in DOMAIN results : results[t] \in HealthStates
      /\ RollUp(results, TRUE) \in HealthStates
  BY ResultsTyped
<1>4. engine \in EngineType /\ HealthTypeOK /\ Chained
  BY EngineTyped DEF HealthInv
<1>5. RollUp(results, overrides.rollup) \in Known
  BY <1>3 DEF RollUp, Known, HealthStates
<1> HIDE DEF results
<1>6. /\ confirmed \in [Catalogue -> Known]
      /\ pending \in [Catalogue -> [state : Known, count : 0..Polls]]
      /\ \A t \in Catalogue :
            \/ confirmed[t] = engine.confirmed[t]
            \/ t \in DOMAIN results /\ confirmed[t] = results[t]
  BY <1>3, <1>4, Confirming
<1>7. moved = {t \in DOMAIN results : engine.confirmed[t] # "none"
                                      /\ confirmed[t] # engine.confirmed[t]}
  BY DEF Transitions
<1> HIDE DEF moved, confirmed, pending
<1>8. CarriedKills(engine, input, TestsOf(overrides)) \in (0..MaxKills) \union {Missing}
  BY <1>4 DEF CarriedKills, Readings, EngineType
<1>9. engine' \in EngineType
  BY <1>2, <1>6, <1>8 DEF EngineType
<1>10. /\ lastEvent' = [t \in Catalogue |-> IF t \in written THEN results[t] ELSE lastEvent[t]]
       /\ gap' = (gap \ written) \union (moved \ written)
  BY <1>1 DEF RecordEvents
<1>11. lastEvent' \in [Catalogue -> Known] /\ gap' \subseteq Catalogue
  BY <1>3, <1>4, <1>7, <1>10 DEF HealthTypeOK, Known
<1>12. healthRow' \in Known /\ healthFaults' \in 0..MaxHealthFaults
  BY <1>1, <1>4, <1>5, HealthAssumption DEF HealthTypeOK, HealthFault
<1>13. ASSUME NEW t \in Catalogue, t \notin gap', lastEvent'[t] # "none"
       PROVE  engine'.confirmed[t] = lastEvent'[t]
  <2>1. CASE t \in written
    BY <1>2, <1>6, <1>7, <1>10, <2>1
  <2>2. CASE t \notin written
    <3>1. t \notin gap /\ t \notin moved /\ lastEvent'[t] = lastEvent[t]
      BY <1>10, <1>13, <2>2
    <3>2. engine.confirmed[t] = lastEvent[t] /\ engine.confirmed[t] # "none"
      BY <1>4, <1>13, <3>1 DEF Chained
    <3> QED BY <1>2, <1>6, <1>7, <3>1, <3>2
  <2> QED BY <2>1, <2>2
<1> QED BY <1>2, <1>9, <1>11, <1>12, <1>13 DEF Chained, confirmed, pending, results

\* What H-07 makes of a reading: an alarm needs a baseline the counter has left.
LEMMA AlarmNeedsKills ==
    ASSUME HealthTypeOK, NEW input \in Readings, NEW overrides, "H-07" \in TestsOf(overrides),
           ResultsOf(input, overrides)["H-07"] \in Alarms
    PROVE  input.kills # Missing /\ engine.kills # Missing /\ input.kills # engine.kills
<1>1. ResultsOf(input, overrides)["H-07"] = Verdict("H-07", Context(input, engine))
  BY DEF ResultsOf, Results, Alarms
<1>2. OomKills(Context(input, engine).jmx, Context(input, engine).kills) \in Alarms
  BY <1>1 DEF Verdict
<1>3. Context(input, engine).jmx.kills = input.kills /\ Context(input, engine).kills = engine.kills
  BY DEF Context
<1>4. input.kills \in Int /\ engine.kills \in Int
  BY HealthAssumption DEF Readings, HealthTypeOK, Missing
<1> HIDE DEF Context
<1> QED BY <1>2, <1>3, <1>4 DEF OomKills, Grade, KillCount, Largest, Alarms

\* What a tick evaluates, and with which overrides.
LEMMA TickReads ==
    ASSUME HealthInv, Tick
    PROVE  \E input \in Readings, loaded \in BOOLEAN :
              /\ input \in Inputs /\ reading' = input
              /\ Overrides(loaded).off = disabled \/ Overrides(loaded).off = {}
              /\ Evaluate(input, Overrides(loaded))
              /\ readFor' = IF readFor < TicksPerReading THEN readFor + 1 ELSE 1
              /\ UNCHANGED <<kills, disabled, rollupOn>>
<1>1. PICK input \in Inputs, loaded \in BOOLEAN :
          reading' = input /\ Evaluate(input, Overrides(loaded))
  BY DEF Tick
<1>2. input \in Readings
  BY HealthAssumption DEF HealthInv, HealthTypeOK, Inputs, Readings
<1>3. Overrides(loaded).off = disabled \/ Overrides(loaded).off = {}
  BY DEF Overrides, LoadedOverrides
<1> QED BY <1>1, <1>2, <1>3 DEF Tick

LEMMA TickHealth == ASSUME HealthInv, Tick PROVE HealthInv'
<1>1. PICK input \in Readings, loaded \in BOOLEAN :
          /\ input \in Inputs /\ reading' = input
          /\ Overrides(loaded).off = disabled \/ Overrides(loaded).off = {}
          /\ Evaluate(input, Overrides(loaded))
          /\ readFor' = IF readFor < TicksPerReading THEN readFor + 1 ELSE 1
          /\ UNCHANGED <<kills, disabled, rollupOn>>
  BY TickReads
<1> DEFINE overrides == Overrides(loaded)
           results == ResultsOf(input, overrides)
<1>2. /\ engine' \in EngineType /\ Chained'
      /\ engine'.confirmed = Confirmed(engine, results)
      /\ engine'.pending = Pending(engine, results)
      /\ engine'.kills = CarriedKills(engine, input, TestsOf(overrides))
      /\ lastEvent' \in [Catalogue -> Known] /\ gap' \subseteq Catalogue
      /\ healthRow' \in Known /\ healthFaults' \in 0..MaxHealthFaults
  BY <1>1, Evaluated
<1>3. HealthTypeOK'
  BY <1>1, <1>2, HealthAssumption DEF HealthInv, HealthTypeOK, EngineType, Readings
<1>4. ASSUME KillsJudgedTwice
      PROVE  /\ readFor' < TicksPerReading /\ reading'.kills # Missing =>
                    engine'.kills = reading'.kills
             /\ engine'.confirmed["H-07"] \notin Alarms
             /\ engine'.pending["H-07"].state \in Alarms =>
                    readFor' = 1 /\ engine'.pending["H-07"].count = 1
  <2>1. "H-07" \in TestsOf(overrides) /\ "H-07" \in Catalogue
    BY <1>1, <1>4 DEF HealthInv, KillsJudgedTwice, TestsOf, ActiveTests, GatewayTests
  <2>2. input.kills # Missing => engine'.kills = input.kills
    BY <1>2, <2>1 DEF CarriedKills
  <2>3. engine \in EngineType /\ readFor \in 0..TicksPerReading
    BY EngineTyped DEF HealthInv, HealthTypeOK
  <2>4. /\ DOMAIN results \subseteq Catalogue /\ "H-07" \in DOMAIN results
        /\ \A t \in DOMAIN results : results[t] \in HealthStates
    BY <2>1, ResultsTyped
  \* Only a reading not evaluated before can differ from the baseline.
  <2>5. results["H-07"] \in Alarms => readFor = TicksPerReading
    <3>1. CASE readFor < TicksPerReading
      <4>1. input.kills = reading.kills
        BY <1>1, <3>1 DEF Inputs
      <4>2. results["H-07"] \in Alarms => input.kills # Missing /\ input.kills # engine.kills
        BY <2>1, AlarmNeedsKills DEF HealthInv
      <4> QED BY <1>4, <3>1, <4>1, <4>2 DEF HealthInv, KillsInv
    <3>2. CASE readFor = TicksPerReading
      BY <3>2
    <3> QED BY <2>3, <3>1, <3>2, HealthAssumption
  <2>6. /\ engine.confirmed["H-07"] \notin Alarms
        /\ engine.pending["H-07"].state \in Alarms => readFor = 1
    BY <1>4 DEF HealthInv, KillsInv
  <2>7. TicksPerReading >= 2 /\ TicksPerReading \in Nat
    BY <1>4, HealthAssumption DEF KillsJudgedTwice
  <2>8. results["H-07"] \in Alarms => engine.pending["H-07"].state # results["H-07"] /\ readFor' = 1
    BY <1>1, <2>5, <2>6, <2>7
  <2> HIDE DEF results
  <2>9. engine'.confirmed["H-07"] \notin Alarms
    <3>1. \/ Confirmed(engine, results)["H-07"] = engine.confirmed["H-07"]
          \/ /\ Confirmed(engine, results)["H-07"] = results["H-07"]
             /\ Confirms(engine.pending["H-07"], results["H-07"])
      BY <2>1, <2>3, <2>4, Confirming
    <3> QED BY <1>2, <2>6, <2>8, <3>1 DEF Confirms
  <2>10. engine'.pending["H-07"].state \in Alarms =>
             readFor' = 1 /\ engine'.pending["H-07"].count = 1
    <3>1. \/ Pending(engine, results)["H-07"] = NoPending
          \/ /\ Pending(engine, results)["H-07"].state = results["H-07"]
             /\ engine.pending["H-07"].state # results["H-07"] =>
                    Pending(engine, results)["H-07"].count = 1
      BY <2>1, <2>3, <2>4, Confirming
    <3>2. NoPending.state \notin Alarms
      BY DEF NoPending, Alarms
    <3> QED BY <1>2, <2>8, <3>1, <3>2
  <2> QED BY <1>1, <2>2, <2>9, <2>10
<1> QED BY <1>1, <1>2, <1>3, <1>4 DEF HealthInv, KillsInv

\* A collector that restarts knows nothing: it has no baseline and no streak.
LEMMA RestartHealth == ASSUME HealthInv, CollectorRestarts PROVE HealthInv'
<1>1. /\ engine' = FreshEngine /\ gap' = Catalogue /\ readFor' = TicksPerReading
      /\ UNCHANGED <<reading, kills, disabled, rollupOn, healthRow, lastEvent>>
      /\ HealthFault
  BY DEF CollectorRestarts
<1>2. FreshEngine \in EngineType
  BY PollsPositive DEF FreshEngine, EngineType, NoPending, Known
<1>3. /\ \A t \in Catalogue : FreshEngine.confirmed[t] = "none"
      /\ \A t \in Catalogue : FreshEngine.pending[t].state = "none"
  BY DEF FreshEngine, NoPending
<1>4. healthFaults' \in 0..MaxHealthFaults
  BY <1>1, HealthAssumption DEF HealthInv, HealthTypeOK, HealthFault
<1>5. HealthTypeOK'
  BY <1>1, <1>2, <1>4, HealthAssumption DEF HealthInv, HealthTypeOK, EngineType
<1>6. Chained' /\ KillsInv'
  BY <1>1, <1>3, HealthAssumption DEF Chained, KillsInv, KillsJudgedTwice, Alarms
<1> QED BY <1>1, <1>5, <1>6 DEF HealthInv

\* The counter moves and the operator tunes; the engine sees it with a tick.
LEMMA AroundHealth ==
    ASSUME HealthInv,
           \/ \E n \in KillBursts : Kill(n)
           \/ CounterResets
           \/ \E t \in Tunable : UpdateHealthTest(t)
           \/ UpdateHealthRollup
    PROVE  HealthInv'
<1>1. UNCHANGED <<reading, readFor, engine, healthRow, lastEvent, healthFaults, gap>>
  BY DEF Kill, CounterResets, UpdateHealthTest, UpdateHealthRollup
<1>2. disabled' \subseteq Tunable /\ disabled' \subseteq Catalogue
  <2>1. disabled \subseteq Tunable /\ Tunable \subseteq Catalogue
    BY HealthAssumption DEF HealthInv
  <2>2. CASE \E t \in Tunable : UpdateHealthTest(t)
    <3>1. PICK t \in Tunable : disabled' = disabled \ {t} \/ disabled' = disabled \union {t}
      BY <2>2 DEF UpdateHealthTest, SaveOverride
    <3> QED BY <2>1, <3>1
  <2>3. CASE disabled' = disabled
    BY <2>1, <2>3
  <2> QED BY <2>2, <2>3 DEF Kill, CounterResets, UpdateHealthRollup
<1>3. kills' \in 0..MaxKills /\ rollupOn' \in BOOLEAN
  <2>1. kills \in 0..MaxKills /\ rollupOn \in BOOLEAN
    BY DEF HealthInv, HealthTypeOK
  <2>2. ASSUME NEW n \in KillBursts, Kill(n) PROVE kills' \in 0..MaxKills /\ rollupOn' = rollupOn
    BY <2>1, <2>2, HealthAssumption DEF Kill
  <2>3. CASE CounterResets
    BY <2>1, <2>3, HealthAssumption DEF CounterResets
  <2>4. ASSUME NEW t \in Tunable, UpdateHealthTest(t) PROVE UNCHANGED <<kills, rollupOn>>
    BY <2>4 DEF UpdateHealthTest
  <2>5. CASE UpdateHealthRollup
    BY <2>1, <2>5 DEF UpdateHealthRollup
  <2> QED BY <2>1, <2>2, <2>3, <2>4, <2>5
<1>4. HealthTypeOK'
  BY <1>1, <1>2, <1>3 DEF HealthInv, HealthTypeOK
<1> QED BY <1>1, <1>2, <1>4 DEF HealthInv, Chained, KillsInv

LEMMA HealthStep == ASSUME HealthInv, [HealthNext]_healthVars PROVE HealthInv'
<1>1. CASE UNCHANGED healthVars
  BY <1>1 DEF healthVars, HealthInv, HealthTypeOK, Chained, KillsInv
<1> QED BY <1>1, TickHealth, RestartHealth, AroundHealth DEF HealthNext

LEMMA HealthStarts == ASSUME HealthInit PROVE HealthInv
<1>1. FreshEngine \in EngineType
  BY PollsPositive DEF FreshEngine, EngineType, NoPending, Known
<1>2. /\ \A t \in Catalogue : FreshEngine.confirmed[t] = "none"
      /\ \A t \in Catalogue : FreshEngine.pending[t].state = "none"
  BY DEF FreshEngine, NoPending
<1>3. HealthTypeOK
  BY <1>1, HealthAssumption DEF HealthInit, HealthTypeOK, EngineType, Known
<1> QED BY <1>2, <1>3, HealthAssumption
    DEF HealthInit, HealthInv, Chained, KillsInv, KillsJudgedTwice, Alarms

LEMMA HealthPart == ASSUME [CollectorNext]_collectorVars PROVE [HealthNext]_healthVars
BY DEF CollectorNext, Rest, collectorVars

\* A verdict GOOD has seen what it needed to see.
LEMMA GoodReadings ==
    ASSUME HealthInv, HealthNext, healthRow' = "GOOD", healthRow # "GOOD"
    PROVE  /\ ~reading'.stale
           /\ reading'.kills # Missing \/ "H-07" \notin Catalogue \ disabled
           /\ reading'.heap \in 0..79 \/ "H-04" \notin Catalogue \ disabled
<1>1. Tick
  BY DEF HealthNext, CollectorRestarts, Kill, CounterResets, UpdateHealthTest, UpdateHealthRollup
<1>2. PICK input \in Readings, loaded \in BOOLEAN :
          /\ input \in Inputs /\ reading' = input
          /\ Overrides(loaded).off = disabled \/ Overrides(loaded).off = {}
          /\ Evaluate(input, Overrides(loaded))
  BY <1>1, TickReads
<1> DEFINE overrides == Overrides(loaded)
           results == ResultsOf(input, overrides)
           tests == TestsOf(overrides)
           ctx == Context(input, engine)
<1>3. RollUp(results, TRUE) = "GOOD"
  <2>1. PICK saved \in BOOLEAN :
            healthRow' = IF saved THEN RollUp(results, overrides.rollup) ELSE healthRow
    BY <1>2 DEF Evaluate, ResultsOf, TestsOf
  <2>2. RollUp(results, overrides.rollup) = "GOOD"
    BY <2>1
  <2> QED BY <2>2 DEF RollUp
<1>4. tests # {} /\ \A t \in tests : results[t] = "GOOD"
  BY <1>3, ResultsTyped
<1>5. ~input.stale /\ \A t \in tests : Verdict(t, ctx) = "GOOD"
  <2>1. \A t \in tests : results[t] = IF input.stale THEN "UNKNOWN" ELSE Verdict(t, ctx)
    BY DEF ResultsOf, Results
  <2> HIDE DEF tests, results, ctx
  <2> QED BY <1>4, <2>1
<1>6. \A t \in (Catalogue \ disabled) \ GatewayTests : t \in tests
  BY <1>2 DEF TestsOf, ActiveTests
<1>7. "H-04" \notin GatewayTests /\ "H-07" \notin GatewayTests
  BY DEF GatewayTests
<1>8. "H-07" \in tests => input.kills # Missing
  <2>1. "H-07" \in tests => OomKills(ctx.jmx, ctx.kills) = "GOOD"
    BY <1>5 DEF Verdict
  <2>2. ctx.jmx.kills = input.kills
    BY DEF Context
  <2> QED BY <2>1, <2>2 DEF OomKills
<1>9. "H-04" \in tests => input.heap \in 0..79
  <2>1. "H-04" \in tests => HeapUsage(ctx.jmx) = "GOOD"
    BY <1>5 DEF Verdict
  <2>2. ctx.jmx.heap = input.heap
    BY DEF Context
  <2>3. input.heap \in 0..100 \union {Missing}
    BY HealthAssumption DEF Readings
  <2> HIDE DEF ctx, tests
  <2> QED BY <2>1, <2>2, <2>3 DEF HeapUsage, Grade, HeapPct, Missing
<1> QED BY <1>2, <1>5, <1>6, <1>7, <1>8, <1>9

\* What the health page shows can be accounted for (HealthWriter.evaluate): the
\* event list is a chain, the roll-up turns GOOD on fresh readings only, and a
\* burst of kills is never confirmed, for any catalogue, any heap and any bursts,
\* any number of polls to confirm and of failures.
THEOREM HealthIsAccountedFor == CollectorSpec => HealthAccounted
<1>1. CollectorInit => HealthInv
  BY HealthStarts DEF CollectorInit
<1>2. HealthInv /\ [CollectorNext]_collectorVars => HealthInv'
  BY HealthPart, HealthStep
<1>3. HealthInv => [\A t \in Catalogue :
          lastEvent'[t] # lastEvent[t] /\ t \notin gap /\ lastEvent[t] # "none"
              => engine.confirmed[t] = lastEvent[t]]_healthVars
  BY DEF HealthInv, Chained
<1>4. HealthInv /\ [CollectorNext]_collectorVars =>
          [healthRow' = "GOOD" /\ healthRow # "GOOD" =>
              /\ ~reading'.stale
              /\ reading'.kills # Missing \/ "H-07" \notin Catalogue \ disabled
              /\ reading'.heap \in 0..79 \/ "H-04" \notin Catalogue \ disabled]_healthVars
  BY HealthPart, GoodReadings
<1>5. HealthInv' => [KillsStayUnreported']_healthVars
  BY DEF HealthInv, KillsInv, KillsJudgedTwice, Alarms, KillsStayUnreported
<1> QED BY <1>1, <1>2, <1>3, <1>4, <1>5, PTL
    DEF CollectorSpec, HealthAccounted, EventsChain, GoodIsEarned

-----------------------------------------------------------------------------
(* The breaker, through the calls of a poll.                               *)

\* A set of numbers that is not empty has a least one: the order of inclusion on
\* finite sets is well founded, and so is that of the intervals up to a number.
LEMMA LeastNatural ==
    ASSUME NEW T \in SUBSET Nat, T # {}
    PROVE  \E n \in T : \A m \in T : n <= m
<1> DEFINE upTo == {0..n : n \in T}
<1>1. upTo \subseteq FiniteSubsetsOf(Nat) /\ upTo # {}
  <2>1. \A n \in T : 0..n \subseteq Nat /\ IsFiniteSet(0..n)
    BY FS_Interval
  <2> QED BY <2>1 DEF FiniteSubsetsOf
<1>2. PICK x \in upTo : \A y \in upTo : ~(<<y, x>> \in StrictSubsetOrdering(Nat))
  <2> HIDE DEF upTo
  <2> QED BY <1>1, FS_StrictSubsetOrderingWellFounded, WFMin
<1>3. PICK n \in T : x = 0..n
  BY <1>2
<1>4. ASSUME NEW m \in T, m < n PROVE FALSE
  <2>1. 0..m \in upTo /\ 0..m \subseteq 0..n /\ 0..m # 0..n
    BY <1>4
  <2>2. 0..m \in SUBSET Nat /\ 0..n \in SUBSET Nat
    OBVIOUS
  <2>3. <<0..m, 0..n>> \in StrictSubsetOrdering(Nat)
    BY <2>1, <2>2 DEF StrictSubsetOrdering
  <2> QED BY <1>2, <1>3, <2>1, <2>3
<1> QED BY <1>4

\* Induction, for a set of numbers.
LEMMA NaturalInduction ==
    ASSUME NEW T, 0 \in T, \A n \in Nat : n \in T => n + 1 \in T
    PROVE  \A n \in Nat : n \in T
<1> DEFINE others == {n \in Nat : n \notin T}
<1>1. ASSUME others # {} PROVE FALSE
  <2>1. PICK n \in others : \A m \in others : n <= m
    <3> HIDE DEF others
    <3>1. others \in SUBSET Nat
      BY DEF others
    <3> QED BY <1>1, <3>1, LeastNatural
  <2>2. n # 0
    BY <2>1
  <2>3. n - 1 \in Nat /\ n - 1 \notin others
    BY <2>1, <2>2
  <2> QED BY <2>1, <2>3
<1> QED BY <1>1

\* The breaker after the first n calls of a JMX poll: each finds what the one
\* before left.
CallsInTurn(after, answers, n) ==
    after = [i \in 0..n |-> IF i = 0 THEN breaker ELSE Call(after[i - 1], answers[i], TRUE).breaker]

LEMMA CallsHaveBreakers ==
    ASSUME NEW answers
    PROVE  \A n \in Nat : \E after : CallsInTurn(after, answers, n)
<1> DEFINE T == {n \in Nat : \E after : CallsInTurn(after, answers, n)}
<1>1. 0 \in T
  <2> DEFINE after == [i \in 0..0 |-> breaker]
  <2>1. after = [i \in 0..0 |-> IF i = 0 THEN breaker
                               ELSE Call(after[i - 1], answers[i], TRUE).breaker]
    OBVIOUS
  <2> HIDE DEF after
  <2> QED BY <2>1 DEF CallsInTurn
<1>2. ASSUME NEW n \in Nat, n \in T PROVE n + 1 \in T
  <2>1. PICK f : f = [i \in 0..n |-> IF i = 0 THEN breaker
                                    ELSE Call(f[i - 1], answers[i], TRUE).breaker]
    BY <1>2 DEF CallsInTurn
  <2> DEFINE g == [i \in 0..(n + 1) |-> IF i = n + 1 THEN Call(f[n], answers[n + 1], TRUE).breaker
                                       ELSE f[i]]
  <2>2. \A i \in 0..(n + 1) : g[i] = IF i = 0 THEN breaker
                                     ELSE Call(g[i - 1], answers[i], TRUE).breaker
    <3>1. \A i \in 0..(n + 1) :
              g[i] = IF i = n + 1 THEN Call(f[n], answers[n + 1], TRUE).breaker ELSE f[i]
      OBVIOUS
    <3>2. \A i \in 0..n :
              f[i] = IF i = 0 THEN breaker ELSE Call(f[i - 1], answers[i], TRUE).breaker
      BY <2>1
    <3> HIDE DEF g
    <3> SUFFICES ASSUME NEW i \in 0..(n + 1)
                 PROVE  g[i] = IF i = 0 THEN breaker
                               ELSE Call(g[i - 1], answers[i], TRUE).breaker
      OBVIOUS
    <3>3. \/ i = n + 1 /\ i - 1 = n /\ n # n + 1 /\ n \in 0..(n + 1) /\ i # 0
          \/ i \in 0..n /\ i # n + 1 /\ (i # 0 => i - 1 \in 0..(n + 1) /\ i - 1 # n + 1)
      BY <1>2
    <3>4. CASE i = n + 1 /\ i - 1 = n /\ n # n + 1 /\ n \in 0..(n + 1) /\ i # 0
      <4>1. g[i] = Call(f[n], answers[i], TRUE).breaker /\ g[n] = f[n]
        BY <3>1, <3>4
      <4> QED BY <3>4, <4>1, Zenon
    <3>5. CASE i \in 0..n /\ i # n + 1 /\ (i # 0 => i - 1 \in 0..(n + 1) /\ i - 1 # n + 1)
      <4>1. g[i] = f[i]
        BY <3>1, <3>5
      <4>2. i # 0 => g[i - 1] = f[i - 1]
        BY <3>1, <3>5
      <4> QED BY <3>2, <3>5, <4>1, <4>2, Zenon
    <3> QED BY <3>3, <3>4, <3>5
  <2>3. g = [i \in 0..(n + 1) |-> g[i]]
    OBVIOUS
  <2> HIDE DEF g
  <2>4. CallsInTurn(g, answers, n + 1)
    BY <2>2, <2>3 DEF CallsInTurn
  <2> QED BY <2>4
<1> HIDE DEF T
<1>3. \A n \in Nat : n \in T
  BY <1>1, <1>2, NaturalInduction
<1> QED BY <1>3 DEF T

\* Whatever is answered, the breaker stays one, and cooling down it does too.
LEMMA CallKeepsBreaker ==
    ASSUME NEW b \in Breakers, NEW answers, NEW mbean
    PROVE  Call(b, answers, mbean).breaker \in Breakers
<1>1. FailureThreshold \in Nat \ {0} /\ ResetTime \in Nat \ {0}
  BY UpstreamAssumption
<1>2. Looked(b) \in Breakers
  BY DEF Looked, Breakers
<1>3. RecordSuccess(Looked(b)) \in Breakers
  BY <1>1 DEF RecordSuccess, ClosedBreaker, Breakers
<1>4. ASSUME NEW transient PROVE RecordFailure(Looked(b), transient) \in Breakers
  BY <1>1, <1>2 DEF RecordFailure, Breakers
<1> QED BY <1>2, <1>3, <1>4 DEF Call

LEMMA CoolDownKeepsBreaker ==
    ASSUME NEW b \in Breakers, NEW elapsed \in Nat
    PROVE  CoolDown(b, elapsed) \in Breakers /\ CoolDown(b, elapsed).state = b.state
BY UpstreamAssumption DEF CoolDown, Breakers

\* A breaker that is closed opens on a transient failure only.
LEMMA ClosedUntilUnavailable ==
    ASSUME NEW b \in Breakers, b.state = "closed", NEW answers, NEW mbean
    PROVE  /\ Call(b, answers, mbean).result # "circuitOpen"
           /\ Call(b, answers, mbean).result # "unavailable" =>
                 Call(b, answers, mbean).breaker.state = "closed"
<1>1. Looked(b) = b /\ AllowsRequest(b)
  BY DEF Looked, AllowsRequest
<1>2. Answer(answers, mbean) # "circuitOpen"
  <2>1. \A a : ClassifyStatus(a, mbean) # "circuitOpen"
    BY DEF ClassifyStatus
  <2> QED BY <2>1 DEF Answer
<1>3. Call(b, answers, mbean) =
        [result |-> Answer(answers, mbean),
         breaker |-> IF Answer(answers, mbean) = "ok" THEN RecordSuccess(b)
                     ELSE RecordFailure(b, Transient(Answer(answers, mbean)))]
  BY <1>1 DEF Call
<1>4. RecordSuccess(b).state = "closed"
  BY DEF RecordSuccess, ClosedBreaker
<1>5. ASSUME Answer(answers, mbean) # "unavailable"
      PROVE  RecordFailure(b, Transient(Answer(answers, mbean))) = b
  BY <1>2, <1>5 DEF RecordFailure, Transient
<1> QED BY <1>2, <1>3, <1>4, <1>5

\* The breaker a JMX poll leaves, whatever its calls meet.
LEMMA BreakerAfterCalls ==
    ASSUME breaker \in Breakers, NEW answers, NEW after, CallsInTurn(after, answers, MBeans)
    PROVE  /\ after[MBeans] \in Breakers
           /\ breaker.state = "closed" =>
                 \/ after[MBeans].state = "closed"
                 \/ \E n \in 1..MBeans : Call(after[n - 1], answers[n], TRUE).result = "unavailable"
<1> DEFINE spared == \A n \in 1..MBeans : Call(after[n - 1], answers[n], TRUE).result # "unavailable"
           T == {n \in Nat : n <= MBeans =>
                    /\ after[n] \in Breakers
                    /\ breaker.state = "closed" /\ spared => after[n].state = "closed"}
<1>1. MBeans \in Nat
  BY PollingAssumption
<1>2. after = [i \in 0..MBeans |-> IF i = 0 THEN breaker
                                   ELSE Call(after[i - 1], answers[i], TRUE).breaker]
  BY DEF CallsInTurn
<1>3. /\ after[0] = breaker
      /\ \A i \in 1..MBeans : after[i] = Call(after[i - 1], answers[i], TRUE).breaker
  <2>1. 0 \in 0..MBeans /\ \A i \in 1..MBeans : i \in 0..MBeans /\ i # 0
    BY <1>1
  <2>2. \A i \in 0..MBeans :
            after[i] = IF i = 0 THEN breaker ELSE Call(after[i - 1], answers[i], TRUE).breaker
    BY <1>2
  <2> QED BY <2>1, <2>2, Zenon
<1>4. 0 \in T
  BY <1>3
<1> HIDE DEF spared
<1>5. ASSUME NEW n \in Nat, n \in T PROVE n + 1 \in T
  <2> SUFFICES ASSUME n + 1 <= MBeans
               PROVE  /\ after[n + 1] \in Breakers
                      /\ breaker.state = "closed" /\ spared => after[n + 1].state = "closed"
    OBVIOUS
  <2>1. n <= MBeans
    BY <1>1
  <2>2. PICK i \in 1..MBeans : i = n + 1 /\ i - 1 = n
    BY <1>1
  <2>3. after[n + 1] = Call(after[n], answers[n + 1], TRUE).breaker
    BY <1>3, <2>2, Zenon
  <2>4. after[n] \in Breakers /\ (breaker.state = "closed" /\ spared => after[n].state = "closed")
    BY <1>5, <2>1
  <2>5. spared => Call(after[n], answers[n + 1], TRUE).result # "unavailable"
    BY <2>2, Zenon DEF spared
  <2> QED BY <2>3, <2>4, <2>5, CallKeepsBreaker, ClosedUntilUnavailable
<1> HIDE DEF T
<1>6. \A n \in Nat : n \in T
  BY <1>4, <1>5, NaturalInduction
<1>7. /\ after[MBeans] \in Breakers
      /\ breaker.state = "closed" /\ spared => after[MBeans].state = "closed"
  BY <1>1, <1>6 DEF T
<1> QED BY <1>7 DEF spared

\* A JMX poll, with what its calls leave of the breaker.
LEMMA JmxPolled ==
    ASSUME breaker \in Breakers, PollJmx
    PROVE  \E b \in Breakers : \E results :
              /\ Polled("jmx", JmxInterval, b)
              /\ Meets(results)
              /\ breaker.state = "closed" => b.state = "closed" \/ "unavailable" \in results
<1>1. PICK answers \in [1..MBeans -> GuardedAnswers] :
          LET after == CHOOSE f : CallsInTurn(f, answers, MBeans)
          IN  /\ Polled("jmx", JmxInterval, after[MBeans])
              /\ Meets({Call(after[n - 1], answers[n], TRUE).result : n \in 1..MBeans})
  BY DEF PollJmx, CallsInTurn
<1> DEFINE after == CHOOSE f : CallsInTurn(f, answers, MBeans)
           results == {Call(after[n - 1], answers[n], TRUE).result : n \in 1..MBeans}
<1>2. CallsInTurn(after, answers, MBeans)
  BY CallsHaveBreakers, PollingAssumption
<1> HIDE DEF after
<1>3. /\ after[MBeans] \in Breakers
      /\ breaker.state = "closed" =>
            after[MBeans].state = "closed" \/ "unavailable" \in results
  BY <1>2, BreakerAfterCalls
<1>4. Polled("jmx", JmxInterval, after[MBeans]) /\ Meets(results)
  BY <1>1 DEF after
<1> QED BY <1>3, <1>4

-----------------------------------------------------------------------------
(* Types, and what the breaker is closed by.                               *)

\* Until a call has met a transient failure the breaker is closed and nobody was
\* refused /v1/info.
BreakerInv ==
    /\ PollTypeOK
    /\ "unavailable" \notin met => breaker.state = "closed" /\ snaps.info # "failed"

\* /v1/info is public: whatever is wrong with the coordinator, it is not that
\* TMS may not ask or asks for what is not there.
PublicInfo == Conditions \cap {"401", "403", "404"} = {}

\* A poll of a kind, its snapshot and its age have the types they should.
LEMMA PollTypes ==
    ASSUME PollTypeOK, NEW kind \in Kinds, NEW interval \in Nat, NEW b \in Breakers,
           Polled(kind, interval, b), NEW results, Meets(results), NEW snap, Save(kind, snap),
           snap \in IF kind = "info" THEN {"failed", "up"}
                    ELSE IF kind = "jmx" THEN JmxSnaps ELSE QuerySnaps,
           queryInterval' \in {QueryInterval, BackoffInterval}, suspicion' \in 0..ConfirmPolls,
           jmxAge' \in 0..AgeBound, past' \in [falls : 0..changes, filtered : BOOLEAN]
    PROVE  /\ PollTypeOK'
           /\ breaker'.state = b.state
           /\ snaps'.info # snaps.info => kind = "info" /\ snaps'.info = snap
<1>1. /\ server' \in [answers : Conditions, grant : Grants, load : Loads]
      /\ changes' \in 0..MaxChanges /\ changes' = changes
  BY DEF Polled, PollTypeOK
<1>2. breaker' \in Breakers /\ breaker'.state = b.state
  BY CoolDownKeepsBreaker DEF Polled
<1>3. \A k \in Kinds : dueIn'[k] \in Nat
  <2>1. \A k \in Kinds : dueIn'[k] = IF k = kind THEN interval ELSE Later(dueIn[k], 1)
    BY DEF Polled
  <2>2. \A k \in Kinds : Later(dueIn[k], 1) \in Nat
    BY DEF PollTypeOK, Later
  <2> QED BY <2>1, <2>2
<1>4. todo' \subseteq Kinds
  BY DEF Polled, PollTypeOK
<1>5. met' \subseteq CallFailures
  BY DEF Meets, PollTypeOK
<1>6. saveFaults' \in 0..MaxSaveFaults
  BY PollingAssumption DEF Save, PollTypeOK
<1>7. /\ snaps' \in [info : {"none", "failed", "up"}, jmx : JmxSnaps, queries : QuerySnaps]
      /\ snaps'.info # snaps.info => kind = "info" /\ snaps'.info = snap
  <2>1. snaps \in [info : {"none", "failed", "up"}, jmx : JmxSnaps, queries : QuerySnaps]
    BY DEF PollTypeOK
  <2>2. snaps' = snaps \/ snaps' = [snaps EXCEPT ![kind] = snap]
    BY DEF Save
  <2>3. kind = "info" \/ kind = "jmx" \/ kind = "queries"
    BY DEF Kinds
  <2> HIDE DEF JmxSnaps, QuerySnaps
  <2>4. CASE kind = "info"
    BY <2>1, <2>2, <2>4
  <2>5. CASE kind = "jmx"
    BY <2>1, <2>2, <2>5
  <2>6. CASE kind = "queries"
    BY <2>1, <2>2, <2>6
  <2> QED BY <2>3, <2>4, <2>5, <2>6
<1> QED BY <1>1, <1>2, <1>3, <1>4, <1>5, <1>6, <1>7 DEF PollTypeOK

\* /v1/info is refused by what counts against the breaker only.
LEMMA InfoAnswered ==
    ASSUME PublicInfo, PollTypeOK, NEW answers \in InfoAnswers
    PROVE  Answer(answers, FALSE) \in {"ok", "unavailable"}
<1>1. server.answers \in Conditions /\ Conditions \subseteq Attempts \union {"flapping"}
  BY PollingAssumption DEF PollTypeOK
<1>2. \A i \in DOMAIN answers : answers[i] \in {"2xx", "500", "503", "refused"}
  <2>1. CASE server.answers = "flapping"
    BY <2>1 DEF InfoAnswers, ReadAnswers
  <2>2. CASE server.answers # "flapping"
    <3>1. server.answers \in {"2xx", "500", "503", "refused"}
      BY <1>1, <2>2 DEF Attempts, PublicInfo
    <3> QED BY <2>2, <3>1 DEF InfoAnswers, ReadAnswers
  <2> QED BY <2>1, <2>2
<1>3. \A a \in {"2xx", "500", "503", "refused"} :
          ClassifyStatus(a, FALSE) = IF a = "2xx" THEN "ok" ELSE "unavailable"
  BY DEF ClassifyStatus
<1> DEFINE decided == {i \in DOMAIN answers : ~Transient(ClassifyStatus(answers[i], FALSE))}
           first == CHOOSE i \in decided : \A j \in decided : i <= j
<1>4. CASE decided = {}
  BY <1>4 DEF Answer
<1>5. CASE decided # {}
  <2>1. DOMAIN answers \subseteq Nat
    BY UpstreamAssumption DEF InfoAnswers, ReadAnswers
  <2>2. first \in decided
    <3>1. decided \in SUBSET Nat
      BY <2>1
    <3> HIDE DEF decided
    <3> QED BY <1>5, <3>1, LeastNatural
  <2>3. Answer(answers, FALSE) = ClassifyStatus(answers[first], FALSE)
    BY <1>5 DEF Answer
  <2>4. first \in DOMAIN answers
    BY <2>2
  <2> HIDE DEF first
  <2> QED BY <1>2, <1>3, <2>3, <2>4
<1> QED BY <1>4, <1>5

LEMMA InfoTypes ==
    ASSUME PollTypeOK, PollInfo
    PROVE  PollTypeOK' /\ (PublicInfo /\ BreakerInv => BreakerInv')
<1>1. PICK answers \in InfoAnswers :
          LET call == Call(breaker, answers, FALSE) IN
          /\ Polled("info", InfoInterval, call.breaker)
          /\ Meets({call.result})
          /\ Save("info", IF call.result = "ok" THEN "up" ELSE "failed")
          /\ jmxAge' = Cap(jmxAge + 1)
          /\ UNCHANGED <<queryInterval, suspicion, past>>
  BY DEF PollInfo
<1> DEFINE call == Call(breaker, answers, FALSE)
           snap == IF call.result = "ok" THEN "up" ELSE "failed"
<1>2. breaker \in Breakers /\ call.breaker \in Breakers
  BY CallKeepsBreaker DEF PollTypeOK
<1>3. jmxAge' \in 0..AgeBound
  BY <1>1, Capped, PollConstants DEF PollTypeOK
<1>4. /\ queryInterval' \in {QueryInterval, BackoffInterval} /\ suspicion' \in 0..ConfirmPolls
      /\ past' \in [falls : 0..changes, filtered : BOOLEAN]
  BY <1>1 DEF PollTypeOK
<1>5. /\ Polled("info", InfoInterval, call.breaker) /\ Meets({call.result}) /\ Save("info", snap)
      /\ snap \in {"failed", "up"} /\ "info" \in Kinds /\ InfoInterval \in Nat
  BY <1>1, PollConstants DEF Kinds
<1> HIDE DEF snap, call
<1>6. /\ PollTypeOK'
      /\ breaker'.state = call.breaker.state
      /\ snaps'.info # snaps.info => snaps'.info = snap
  BY <1>2, <1>3, <1>4, <1>5, PollTypes
<1>7. ASSUME PublicInfo, BreakerInv, "unavailable" \notin met'
      PROVE  breaker'.state = "closed" /\ snaps'.info # "failed"
  <2>1. "unavailable" \notin met /\ call.result # "unavailable"
    BY <1>5, <1>7 DEF Meets, CallFailures
  <2>2. breaker.state = "closed" /\ snaps.info # "failed"
    BY <1>7, <2>1 DEF BreakerInv
  <2>3. call.breaker.state = "closed" /\ call.result # "circuitOpen"
    BY <1>2, <2>1, <2>2, ClosedUntilUnavailable DEF call
  <2>4. call.result = "ok"
    <3>1. Answer(answers, FALSE) \in {"ok", "unavailable"}
      BY <1>7, InfoAnswered
    <3>2. call.result \in {"circuitOpen", Answer(answers, FALSE)}
      BY DEF call, Call
    <3> QED BY <2>1, <2>3, <3>1, <3>2
  <2>5. snap = "up"
    BY <2>4 DEF snap
  <2> QED BY <1>6, <2>2, <2>3, <2>5
<1> QED BY <1>6, <1>7 DEF BreakerInv

LEMMA JmxTypes ==
    ASSUME PollTypeOK, PollJmx
    PROVE  PollTypeOK' /\ (BreakerInv => BreakerInv')
<1>1. breaker \in Breakers
  BY DEF PollTypeOK
<1>2. /\ UNCHANGED <<queryInterval, suspicion, past>>
      /\ \E snap \in JmxSnaps : Save("jmx", snap)
      /\ jmxAge' = IF saveFaults' # saveFaults THEN Cap(jmxAge + 1) ELSE 0
  BY DEF PollJmx, JmxSnaps
<1>3. PICK snap \in JmxSnaps : Save("jmx", snap)
  BY <1>2
<1>4. PICK b \in Breakers : \E results :
          /\ Polled("jmx", JmxInterval, b)
          /\ Meets(results)
          /\ breaker.state = "closed" => b.state = "closed" \/ "unavailable" \in results
  BY <1>1, JmxPolled
<1>5. PICK results :
          /\ Polled("jmx", JmxInterval, b)
          /\ Meets(results)
          /\ breaker.state = "closed" => b.state = "closed" \/ "unavailable" \in results
  BY <1>4
<1>6. /\ jmxAge' \in 0..AgeBound
      /\ queryInterval' \in {QueryInterval, BackoffInterval} /\ suspicion' \in 0..ConfirmPolls
      /\ past' \in [falls : 0..changes, filtered : BOOLEAN]
  BY <1>2, Capped, PollConstants DEF PollTypeOK
<1>7. "jmx" \in Kinds /\ JmxInterval \in Nat
  BY PollConstants DEF Kinds
<1>8. PollTypeOK' /\ breaker'.state = b.state /\ snaps'.info = snaps.info
  BY <1>3, <1>5, <1>6, <1>7, PollTypes
<1>9. "unavailable" \notin met' => "unavailable" \notin met \union results
  BY <1>5 DEF Meets, CallFailures
<1> QED BY <1>5, <1>8, <1>9 DEF BreakerInv

LEMMA QueryTypes ==
    ASSUME PollTypeOK, PollQueries
    PROVE  PollTypeOK' /\ (BreakerInv => BreakerInv')
<1>1. PICK answers \in GuardedAnswers :
        LET call == Call(breaker, answers, FALSE)
            listed == server.load # "idle" /\ server.grant # "filtered"
        IN /\ IF call.result = "ok"
              THEN /\ suspicion' = Suspicion(listed) /\ queryInterval' = Adapted(listed)
                   /\ past' = IF listed THEN [past EXCEPT !.falls = 0] ELSE past
              ELSE UNCHANGED <<suspicion, queryInterval, past>>
           /\ Polled("queries", queryInterval', call.breaker)
           /\ Meets({call.result})
           /\ \E snap \in QuerySnaps : Save("queries", snap)
           /\ jmxAge' = Cap(jmxAge + 1)
  BY DEF PollQueries, QuerySnaps
<1> DEFINE call == Call(breaker, answers, FALSE)
<1>2. PICK snap \in QuerySnaps : Save("queries", snap)
  BY <1>1
<1>3. breaker \in Breakers /\ call.breaker \in Breakers
  BY CallKeepsBreaker DEF PollTypeOK
<1>4. /\ jmxAge' \in 0..AgeBound
      /\ queryInterval' \in {QueryInterval, BackoffInterval} /\ suspicion' \in 0..ConfirmPolls
  <2>1. jmxAge' \in 0..AgeBound
    BY <1>1, Capped, PollConstants DEF PollTypeOK
  <2>2. \A listed \in BOOLEAN : /\ Suspicion(listed) \in 0..ConfirmPolls
                                /\ Adapted(listed) \in {QueryInterval, BackoffInterval}
    BY PollConstants DEF Suspicion, Adapted, PollTypeOK
  <2>3. /\ suspicion \in 0..ConfirmPolls /\ queryInterval \in {QueryInterval, BackoffInterval}
        /\ (server.load # "idle" /\ server.grant # "filtered") \in BOOLEAN
    BY DEF PollTypeOK
  <2>4. CASE call.result = "ok"
    BY <1>1, <2>1, <2>2, <2>3, <2>4
  <2>5. CASE call.result # "ok"
    BY <1>1, <2>1, <2>3, <2>5
  <2> QED BY <2>4, <2>5
<1>10. past' \in [falls : 0..changes, filtered : BOOLEAN]
  <2>1. past \in [falls : 0..changes, filtered : BOOLEAN] /\ 0 \in 0..changes
    BY DEF PollTypeOK
  <2>2. past' = [past EXCEPT !.falls = 0] \/ past' = past
    BY <1>1
  <2> QED BY <2>1, <2>2
<1>5. "queries" \in Kinds /\ queryInterval' \in Nat
  BY <1>4, PollConstants DEF Kinds
<1>6. Polled("queries", queryInterval', call.breaker) /\ Meets({call.result})
  BY <1>1
<1> HIDE DEF call
<1>7. PollTypeOK' /\ breaker'.state = call.breaker.state /\ snaps'.info = snaps.info
  BY <1>2, <1>3, <1>4, <1>5, <1>6, <1>10, PollTypes
<1>8. "unavailable" \notin met' => "unavailable" \notin met /\ call.result # "unavailable"
  BY <1>6 DEF Meets, CallFailures
<1>9. breaker.state = "closed" /\ call.result # "unavailable" => call.breaker.state = "closed"
  BY <1>3, ClosedUntilUnavailable DEF call
<1> QED BY <1>7, <1>8, <1>9 DEF BreakerInv

LEMMA StartTickTypes ==
    ASSUME PollTypeOK, StartTick
    PROVE  PollTypeOK' /\ (BreakerInv => BreakerInv')
<1> DEFINE dues == {dueIn[k] : k \in Kinds}
           wait == CHOOSE d \in dues : \A k \in Kinds : d <= dueIn[k]
<1>1. dues \in SUBSET Nat /\ dues # {}
  BY DEF PollTypeOK, Kinds
<1>2. wait \in dues /\ \A k \in Kinds : wait <= dueIn[k]
  <2>1. PICK d \in dues : \A m \in dues : d <= m
    <3> HIDE DEF dues
    <3> QED BY <1>1, LeastNatural
  <2>2. \A k \in Kinds : d <= dueIn[k]
    BY <2>1
  <2> HIDE DEF dues
  <2> QED BY <2>1, <2>2
<1>3. wait \in Nat
  BY <1>1, <1>2
<1>4. /\ dueIn' = [k \in Kinds |-> dueIn[k] - wait]
      /\ todo' = {k \in Kinds : dueIn'[k] = 0}
      /\ jmxAge' = Cap(jmxAge + wait)
      /\ breaker' = CoolDown(breaker, wait)
      /\ UNCHANGED <<server, queryInterval, suspicion, snaps, saveFaults, changes, met,
                     past>>
  BY DEF StartTick
<1> HIDE DEF wait, dues
<1>5. \A k \in Kinds : dueIn'[k] \in Nat
  BY <1>2, <1>3, <1>4 DEF PollTypeOK
<1>6. jmxAge' \in 0..AgeBound
  BY <1>3, <1>4, Capped, PollConstants DEF PollTypeOK
<1>7. breaker' \in Breakers /\ breaker'.state = breaker.state
  BY <1>3, <1>4, CoolDownKeepsBreaker DEF PollTypeOK
<1>8. PollTypeOK'
  BY <1>4, <1>5, <1>6, <1>7 DEF PollTypeOK
<1> QED BY <1>4, <1>7, <1>8 DEF BreakerInv

LEMMA PollTypeStep ==
    ASSUME PollTypeOK, [PollNext]_pollVars
    PROVE  PollTypeOK' /\ (PublicInfo /\ BreakerInv => BreakerInv')
<1>1. CASE ServerChanges
  <2>1. /\ server' \in [answers : Conditions, grant : Grants, load : Loads]
        /\ changes' \in 0..MaxChanges
    BY <1>1, PollingAssumption DEF ServerChanges, PollTypeOK
  <2>3. past' \in [falls : 0..changes', filtered : BOOLEAN]
    <3> DEFINE fell == IF server.load # "idle" /\ server'.load = "idle" THEN 1 ELSE 0
               filters == past.filtered \/ server'.grant = "filtered"
    <3>1. past' = [falls |-> past.falls + fell, filtered |-> filters]
      BY <1>1 DEF ServerChanges
    <3>2. changes \in Nat /\ changes' = changes + 1 /\ past.falls \in 0..changes
      BY <1>1, PollingAssumption DEF ServerChanges, PollTypeOK
    <3>3. past.filtered \in BOOLEAN
      BY DEF PollTypeOK
    <3>4. fell \in {0, 1} /\ filters \in BOOLEAN
      BY <3>3
    <3> HIDE DEF fell, filters
    <3>5. past.falls + fell \in 0..changes'
      BY <3>2, <3>4
    <3> QED BY <3>1, <3>4, <3>5
  <2>2. UNCHANGED <<breaker, dueIn, todo, queryInterval, suspicion, snaps, jmxAge, saveFaults, met>>
    BY <1>1 DEF ServerChanges
  <2> QED BY <2>1, <2>2, <2>3 DEF PollTypeOK, BreakerInv
<1>2. CASE UNCHANGED pollVars
  BY <1>2 DEF pollVars, PollTypeOK, BreakerInv
<1> QED BY <1>1, <1>2, InfoTypes, JmxTypes, QueryTypes, StartTickTypes DEF PollNext, PollerRuns

LEMMA PollTypesStart == ASSUME PollInit PROVE BreakerInv
<1>1. ClosedBreaker \in Breakers /\ ClosedBreaker.state = "closed"
  BY UpstreamAssumption DEF ClosedBreaker, Breakers
<1>2. \A k \in Kinds : dueIn[k] = 0
  BY DEF PollInit
<1> QED BY <1>1, <1>2, PollConstants, PollingAssumption
    DEF PollInit, PollTypeOK, BreakerInv, JmxSnaps, QuerySnaps

\* Every variable of a part has a value the code could give it, at work or at
\* rest: for any number of collectors, clusters, tests, queries, MBeans and faults.
THEOREM CollectorTyped == CollectorSpec => []CollectorTypeOK
<1> DEFINE Inv == part \in Parts /\ HealthInv /\ ReturnInv /\ PollTypeOK /\ LoopInv
<1>1. CollectorInit => Inv
  BY HealthStarts, ReturnStarts, PollTypesStart, LoopStarts DEF CollectorInit, BreakerInv
<1>2. Inv /\ [CollectorNext]_collectorVars => Inv'
  <2>1. ASSUME [CollectorNext]_collectorVars PROVE part' = part
    BY <2>1 DEF CollectorNext, Rest, collectorVars
  <2> QED BY <2>1, HealthPart, HealthStep, ReturnPart, ReturnStep, PollPart, PollTypeStep,
             PartStep, LoopStep
<1>3. Inv => CollectorTypeOK
  BY DEF CollectorTypeOK, HealthInv, ReturnInv, LoopInv
<1> QED BY <1>1, <1>2, <1>3, PTL DEF CollectorSpec

\* A coordinator that refuses TMS is not down: until a call has met a transient
\* failure every answer to /v1/info is stored as a node that is up, whatever the
\* other endpoints refuse, filter or lack, for any number of MBeans, retries and
\* failures to open the breaker (record_failure, classify_status).
THEOREM DeniedIsNeverDown == PublicInfo => (CollectorSpec => [][DeniedIsNotDown']_pollVars)
<1> SUFFICES ASSUME PublicInfo PROVE CollectorSpec => [][DeniedIsNotDown']_pollVars
  OBVIOUS
<1>1. CollectorInit => BreakerInv
  BY PollTypesStart DEF CollectorInit
<1>2. BreakerInv /\ [CollectorNext]_collectorVars => BreakerInv'
  BY PollPart, PollTypeStep DEF BreakerInv
<1>3. BreakerInv /\ [CollectorNext]_collectorVars => [DeniedIsNotDown']_pollVars
  <2>1. BreakerInv' => DeniedIsNotDown'
    BY DEF BreakerInv, DeniedIsNotDown
  <2> QED BY <1>2, <2>1
<1> QED BY <1>1, <1>2, <1>3, PTL DEF CollectorSpec

-----------------------------------------------------------------------------
(* The polls: a race and the suspicion it raises.                          *)

\* The age of a reading that counts is within the shortest query interval.
ReadingsAge == CrossCheckAge <= QueryInterval /\ CrossCheckAge <= BackoffInterval

\* The next query poll may still compare its list with the count that is stored.
Comparable == snaps.jmx = "positive" /\ jmxAge + dueIn["queries"] <= CrossCheckAge

\* A count that an idle coordinator may still be compared with was positive
\* before a fall that no suspicion has been raised by yet.
RaceInv ==
    /\ PollTypeOK
    /\ "queries" \in todo => dueIn["queries"] = 0
    /\ server.grant = "filtered" => past.filtered
    /\ past.filtered \/ suspicion <= past.falls
    /\ past.filtered \/ (Comparable /\ server.load = "idle" => suspicion < past.falls)

LEMMA RaceNumbers ==
    ASSUME PollTypeOK
    PROVE  /\ suspicion \in Nat /\ past.falls \in Nat /\ jmxAge \in Nat
           /\ dueIn["queries"] \in Nat /\ queryInterval \in {QueryInterval, BackoffInterval}
<1>1. MaxChanges \in Nat
  BY PollingAssumption
<1> QED BY <1>1, PollConstants DEF PollTypeOK, Kinds

\* A step that raises no suspicion, lets no query end and brings no new count
\* nearer to the next query poll.
LEMMA RaceRests ==
    ASSUME RaceInv, PollTypeOK', UNCHANGED <<server, suspicion, past>>,
           "queries" \in todo' => dueIn'["queries"] = 0,
           Comparable' /\ server.load = "idle" => Comparable
    PROVE  RaceInv'
BY DEF RaceInv

\* Time passes for the timer of the query polls and for the age alike.
LEMMA Ages ==
    ASSUME PollTypeOK, NEW n \in Nat, jmxAge' = Cap(jmxAge + n),
           dueIn'["queries"] + n >= dueIn["queries"], dueIn'["queries"] \in Nat,
           snaps'.jmx = snaps.jmx
    PROVE  Comparable' => Comparable
<1>1. jmxAge \in Nat /\ dueIn["queries"] \in Nat
  BY RaceNumbers
<1>2. jmxAge' <= CrossCheckAge => jmxAge' = jmxAge + n
  BY <1>1, Capped
<1>3. jmxAge' \in Nat
  BY <1>1, Capped, PollConstants
<1>4. ASSUME jmxAge' + dueIn'["queries"] <= CrossCheckAge
      PROVE  jmxAge + dueIn["queries"] <= CrossCheckAge
  <2>1. jmxAge' <= CrossCheckAge
    BY <1>3, <1>4, PollConstants
  <2> QED BY <1>1, <1>2, <1>4, <2>1, PollConstants
<1> QED BY <1>4 DEF Comparable

\* The timer of the query polls during a poll of another kind.
LEMMA OtherPoll ==
    ASSUME RaceInv, NEW kind \in Kinds \ {"queries"}, NEW interval, NEW b,
           Polled(kind, interval, b)
    PROVE  /\ dueIn'["queries"] \in Nat /\ dueIn'["queries"] + 1 >= dueIn["queries"]
           /\ "queries" \in todo' => dueIn'["queries"] = 0
           /\ UNCHANGED server
<1>1. dueIn["queries"] \in Nat
  BY RaceNumbers DEF RaceInv
<1>2. dueIn'["queries"] = Later(dueIn["queries"], 1) /\ todo' \subseteq todo
  BY DEF Polled, Kinds
<1>3. UNCHANGED server
  BY DEF Polled
<1> QED BY <1>1, <1>2, <1>3 DEF Later, RaceInv

LEMMA InfoRace == ASSUME RaceInv, PollTypeOK', PollInfo PROVE RaceInv'
<1>1. PICK b : Polled("info", InfoInterval, b)
  BY DEF PollInfo
<1>2. PICK snap : Save("info", snap)
  BY DEF PollInfo
<1>3. jmxAge' = Cap(jmxAge + 1) /\ UNCHANGED <<suspicion, past>>
  BY DEF PollInfo
<1>4. snaps'.jmx = snaps.jmx
  BY <1>2 DEF Save, RaceInv, PollTypeOK
<1>5. Comparable' => Comparable
  BY <1>1, <1>3, <1>4, OtherPoll, Ages DEF RaceInv, Kinds
<1> QED BY <1>1, <1>3, <1>5, OtherPoll, RaceRests DEF Kinds

\* A count that is stored is positive only while the coordinator is not idle.
LEMMA JmxRace == ASSUME RaceInv, PollTypeOK', PollJmx PROVE RaceInv'
<1>1. PICK b : Polled("jmx", JmxInterval, b)
  BY DEF PollJmx
<1>2. PICK snap : /\ Save("jmx", snap)
                  /\ server.load = "idle" => snap # "positive"
  <2>1. PICK results, result :
          Save("jmx", IF "ok" \notin results THEN "failed"
                      ELSE IF result # "ok" THEN "withoutCount"
                      ELSE IF server.load = "idle" THEN "zero" ELSE "positive")
    BY DEF PollJmx
  <2> QED BY <2>1
<1>3. /\ jmxAge' = IF saveFaults' # saveFaults THEN Cap(jmxAge + 1) ELSE 0
      /\ UNCHANGED <<suspicion, past>>
  BY DEF PollJmx
<1>4. ASSUME server.load = "idle", Comparable' PROVE Comparable
  <2>1. CASE snaps' = snaps /\ saveFaults' = saveFaults + 1
    <3>1. saveFaults' # saveFaults
      BY <2>1, PollingAssumption DEF RaceInv, PollTypeOK
    <3> QED BY <1>1, <1>3, <1>4, <2>1, <3>1, OtherPoll, Ages DEF RaceInv, Kinds
  <2>2. CASE snaps' = [snaps EXCEPT !["jmx"] = snap]
    <3>1. snaps'.jmx = snap
      BY <2>2 DEF RaceInv, PollTypeOK
    <3> QED BY <1>2, <1>4, <3>1 DEF Comparable
  <2> QED BY <1>2, <2>1, <2>2 DEF Save
<1> QED BY <1>1, <1>3, <1>4, OtherPoll, RaceRests DEF Kinds

\* A query poll that suspects finds a count to compare with on a coordinator
\* that is idle; afterwards that count is too old for the next one.
LEMMA QueryRace == ASSUME ReadingsAge, RaceInv, PollTypeOK', PollQueries PROVE RaceInv'
<1> DEFINE listed == server.load # "idle" /\ server.grant # "filtered"
<1>1. PICK b : Polled("queries", queryInterval', b)
  BY DEF PollQueries
<1>2. /\ jmxAge' = Cap(jmxAge + 1)
      /\ \/ /\ suspicion' = Suspicion(listed)
            /\ past' = IF listed THEN [past EXCEPT !.falls = 0] ELSE past
         \/ UNCHANGED <<suspicion, past>>
  BY DEF PollQueries
<1>3. /\ dueIn'["queries"] = queryInterval' /\ "queries" \in todo /\ "queries" \notin todo'
      /\ UNCHANGED server
  BY <1>1 DEF Polled, Kinds, IsNext
<1>4. queryInterval' \in Nat /\ queryInterval' >= CrossCheckAge
  <2>1. queryInterval' \in {QueryInterval, BackoffInterval}
    BY DEF PollTypeOK
  <2> QED BY <2>1, PollConstants DEF ReadingsAge
<1>5. ~Comparable'
  <2>1. jmxAge \in Nat
    BY RaceNumbers DEF RaceInv
  <2>2. jmxAge' \in Nat /\ jmxAge' >= 1
    BY <1>2, <2>1, PollConstants DEF Cap
  <2>3. \A m, n \in Nat : m >= 1 /\ n >= CrossCheckAge => ~(m + n <= CrossCheckAge)
    BY PollConstants
  <2> QED BY <1>3, <1>4, <2>2, <2>3 DEF Comparable
<1>6. /\ suspicion \in Nat /\ past.falls \in Nat /\ past \in [falls : Nat, filtered : BOOLEAN]
      /\ jmxAge \in Nat /\ dueIn["queries"] = 0
  <2>1. past \in [falls : 0..changes, filtered : BOOLEAN] /\ changes \in 0..MaxChanges
    BY DEF RaceInv, PollTypeOK
  <2>2. past \in [falls : Nat, filtered : BOOLEAN]
    BY <2>1, PollingAssumption
  <2> QED BY <1>3, <2>2, RaceNumbers DEF RaceInv
<1>7. CrossChecked => Comparable
  BY <1>6, PollConstants DEF CrossChecked, Comparable
<1>8. past'.filtered = past.filtered
  BY <1>2, <1>6
<1>9. past.filtered \/ suspicion' <= past'.falls
  <2>1. CASE UNCHANGED <<suspicion, past>>
    BY <2>1 DEF RaceInv
  <2>2. CASE suspicion' = Suspicion(listed) /\ listed
    <3>1. suspicion' = 0 /\ past'.falls \in Nat
      <4>1. past'.falls \in 0..changes' /\ changes' \in 0..MaxChanges
        BY DEF PollTypeOK
      <4>2. MaxChanges \in Nat
        BY PollingAssumption
      <4>3. suspicion' = 0
        BY <2>2 DEF Suspicion
      <4> QED BY <4>1, <4>2, <4>3
    <3> QED BY <3>1
  <2>3. CASE suspicion' = Suspicion(listed) /\ ~listed /\ past' = past
    <3>1. CASE ~CrossChecked
      <4>1. suspicion' = 0
        BY <2>3, <3>1 DEF Suspicion
      <4> QED BY <1>6, <2>3, <4>1
    <3>2. CASE CrossChecked /\ ~past.filtered
      <4>1. server.load = "idle"
        BY <2>3, <3>2 DEF RaceInv
      <4>2. suspicion < past.falls
        BY <1>7, <3>2, <4>1 DEF RaceInv
      <4>3. suspicion' = suspicion \/ suspicion' = suspicion + 1
        BY <2>3, <3>2 DEF Suspicion
      <4> QED BY <1>6, <2>3, <4>2, <4>3
    <3> QED BY <3>1, <3>2
  <2> QED BY <1>2, <2>1, <2>2, <2>3
<1> QED BY <1>3, <1>5, <1>8, <1>9 DEF RaceInv

LEMMA TickRace == ASSUME RaceInv, PollTypeOK', StartTick PROVE RaceInv'
<1> DEFINE dues == {dueIn[k] : k \in Kinds}
           wait == CHOOSE d \in dues : \A k \in Kinds : d <= dueIn[k]
<1>1. dues \in SUBSET Nat /\ dues # {}
  BY DEF RaceInv, PollTypeOK, Kinds
<1>2. wait \in dues
  <2>1. PICK d \in dues : \A m \in dues : d <= m
    <3> HIDE DEF dues
    <3> QED BY <1>1, LeastNatural
  <2>2. \A k \in Kinds : d <= dueIn[k]
    BY <2>1
  <2> HIDE DEF dues
  <2> QED BY <2>1, <2>2
<1>3. wait \in Nat
  BY <1>1, <1>2
<1>4. /\ dueIn' = [k \in Kinds |-> dueIn[k] - wait]
      /\ todo' = {k \in Kinds : dueIn'[k] = 0}
      /\ jmxAge' = Cap(jmxAge + wait)
      /\ UNCHANGED <<server, suspicion, snaps, past>>
  BY DEF StartTick
<1> HIDE DEF wait, dues
<1>5. /\ dueIn'["queries"] = dueIn["queries"] - wait
      /\ "queries" \in todo' => dueIn'["queries"] = 0
  BY <1>4 DEF Kinds
<1>6. dueIn'["queries"] \in Nat /\ dueIn["queries"] \in Nat
  BY RaceNumbers DEF RaceInv, PollTypeOK, Kinds
<1>7. dueIn'["queries"] + wait >= dueIn["queries"]
  BY <1>3, <1>5, <1>6
<1>8. Comparable' => Comparable
  BY <1>3, <1>4, <1>6, <1>7, Ages DEF RaceInv
<1> QED BY <1>4, <1>5, <1>8, RaceRests

\* The last query ends: one more fall, and a count that may still be compared.
LEMMA ServerRace == ASSUME RaceInv, PollTypeOK', ServerChanges PROVE RaceInv'
<1> DEFINE fell == IF server.load # "idle" /\ server'.load = "idle" THEN 1 ELSE 0
<1>1. /\ past'.falls = past.falls + fell
      /\ past'.filtered = (past.filtered \/ server'.grant = "filtered")
      /\ UNCHANGED <<dueIn, todo, suspicion, snaps, jmxAge>>
  BY DEF ServerChanges
<1>2. suspicion \in Nat /\ past.falls \in Nat
  BY RaceNumbers DEF RaceInv
<1>3. Comparable' <=> Comparable
  BY <1>1 DEF Comparable
<1>4. fell \in {0, 1} /\ (server'.load = "idle" => server.load = "idle" \/ fell = 1)
  OBVIOUS
<1> HIDE DEF fell
<1>5. ~past'.filtered => ~past.filtered
  BY <1>1
<1>6. ~past'.filtered => suspicion' <= past'.falls
  BY <1>1, <1>2, <1>4, <1>5 DEF RaceInv
<1>7. ASSUME ~past'.filtered, Comparable', server'.load = "idle" PROVE suspicion' < past'.falls
  <2>1. CASE fell = 1
    BY <1>1, <1>2, <1>5, <1>7, <2>1 DEF RaceInv
  <2>2. CASE fell = 0 /\ server.load = "idle"
    BY <1>1, <1>2, <1>3, <1>5, <1>7, <2>2 DEF RaceInv
  <2> QED BY <1>4, <1>7, <2>1, <2>2
<1>8. server'.grant = "filtered" => past'.filtered
  BY <1>1
<1> QED BY <1>1, <1>6, <1>7, <1>8 DEF RaceInv

LEMMA RaceStep == ASSUME ReadingsAge, RaceInv, [PollNext]_pollVars PROVE RaceInv'
<1>1. PollTypeOK'
  BY PollTypeStep DEF RaceInv
<1>2. CASE UNCHANGED pollVars
  BY <1>2 DEF RaceInv, pollVars, PollTypeOK, Comparable
<1> QED BY <1>1, <1>2, InfoRace, JmxRace, QueryRace, TickRace, ServerRace
    DEF PollNext, PollerRuns

LEMMA RaceStarts == ASSUME PollInit PROVE RaceInv
<1>1. PollTypeOK
  BY PollTypesStart DEF BreakerInv
<1>2. past.falls = 0 /\ ~past.filtered /\ suspicion = 0 /\ todo = {} /\ snaps.jmx = "none"
      /\ server.grant = "granted"
  BY DEF PollInit
<1> QED BY <1>1, <1>2 DEF RaceInv, Comparable

\* One race is one suspicion.  The query list and the JMX count are not read
\* together, so a query that ends between them makes an honest list look
\* filtered; where a count may be compared for no longer than the shortest query
\* interval, as by default, the end of one query is held against the list at
\* most once, and nothing from before the last list with a query in it is, for
\* any intervals, number of polls to confirm and failures (poll_queries,
\* _last_jmx_running_queries).
THEOREM RacesCountOnce == ReadingsAge => (CollectorSpec => []RaceCountsOnce)
<1> SUFFICES ASSUME ReadingsAge PROVE CollectorSpec => []RaceCountsOnce
  OBVIOUS
<1>1. CollectorInit => RaceInv
  BY RaceStarts DEF CollectorInit
<1>2. RaceInv /\ [CollectorNext]_collectorVars => RaceInv'
  BY PollPart, RaceStep
<1>3. RaceInv => RaceCountsOnce
  BY DEF RaceInv, RaceCountsOnce
<1> QED BY <1>1, <1>2, <1>3, PTL DEF CollectorSpec

=============================================================================
