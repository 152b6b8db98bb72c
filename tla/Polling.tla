------------------------------ MODULE Polling ------------------------------
(***************************************************************************)
(* One ClusterPoller (src/tms/collector/poller.py) and the coordinator it  *)
(* watches, through one TrinoClient and its breaker.                       *)
(*                                                                         *)
(* Every poll takes one unit of time.  Timers count down: a kind is due at *)
(* zero and is given its interval when its poll is over, so the reading of *)
(* an earlier poll is older than an interval when the next one is due.     *)
(* Resource groups have a schedule of their own and are left out.          *)
(***************************************************************************)
EXTENDS Upstream, FiniteSets

CONSTANTS
    QueryInterval,    \* query_poll_interval_seconds
    JmxInterval,
    InfoInterval,
    BackoffInterval,  \* response_backoff_interval_seconds
    CrossCheckAge,    \* jmx_cross_check_max_age
    ConfirmPolls,     \* h09_confirm_polls
    MBeans,           \* how many MBeans a JMX poll reads, QueryManager the last
    Conditions,       \* what an endpoint may answer
    Grants,           \* what the access control may do to the query list
    Loads,            \* how busy the coordinator may be
    MaxSaveFaults,    \* bound on the snapshots that cannot be saved
    MaxChanges        \* bound on the changes of the coordinator

ASSUME PollingAssumption ==
    /\ {QueryInterval, JmxInterval, InfoInterval, BackoffInterval, ConfirmPolls, MBeans}
          \subseteq Nat \ {0}
    /\ {CrossCheckAge, MaxSaveFaults, MaxChanges} \subseteq Nat
    /\ Conditions \subseteq Attempts \union {"flapping"}
    /\ Grants \subseteq {"granted", "filtered", "denied"}
    /\ Loads \subseteq {"idle", "busy", "flood"}
    \* What the coordinator is when the poller starts is among what it may be.
    /\ "2xx" \in Conditions /\ "granted" \in Grants /\ "idle" \in Loads

Kinds == {"queries", "jmx", "info"}

\* _POLL_ORDER.
PollOrder == <<"jmx", "queries", "info">>

VARIABLES
    server,        \* the coordinator: its answer, its grant, its load
    breaker,       \* the client's breaker
    dueIn,         \* _next_due, as the time left
    todo,          \* the kinds this tick has still to poll
    queryInterval, \* query_interval, as adapted
    suspicion,     \* _suspicious_polls
    snaps,         \* the stored snapshots
    jmxAge,        \* the age of the stored JMX snapshot, up to a bound
    saveFaults,
    changes,       \* changes of the coordinator so far
    met,           \* history: the failures the calls have met
    past           \* history: how often the load has gone since a query was last
                   \* listed, and whether the list has ever been filtered

pollVars == <<server, breaker, dueIn, todo, queryInterval, suspicion, snaps, jmxAge,
              saveFaults, changes, met, past>>

-----------------------------------------------------------------------------
\* A JMX snapshot's RunningQueries, or that it has none.
JmxSnaps == {"none", "failed", "withoutCount", "zero", "positive"}
CallFailures == {"unavailable", "unauthorized", "forbidden", "notFound", "notRegistered",
                 "circuitOpen"}
QuerySnaps == {"none", "failed", "suspect", "empty", "listed"}

AgeBound == CrossCheckAge + 1
Cap(n) == IF n > AgeBound THEN AgeBound ELSE n
Later(n, elapsed) == IF n > elapsed THEN n - elapsed ELSE 0

PollTypeOK ==
    /\ server \in [answers : Conditions, grant : Grants, load : Loads]
    /\ breaker \in Breakers
    /\ \A k \in Kinds : dueIn[k] \in Nat
    /\ todo \subseteq Kinds
    /\ queryInterval \in {QueryInterval, BackoffInterval}
    /\ suspicion \in 0..ConfirmPolls
    /\ snaps \in [info : {"none", "failed", "up"}, jmx : JmxSnaps, queries : QuerySnaps]
    /\ jmxAge \in 0..AgeBound
    /\ saveFaults \in 0..MaxSaveFaults
    /\ changes \in 0..MaxChanges
    /\ met \subseteq CallFailures
    /\ past \in [falls : 0..changes, filtered : BOOLEAN]

PollInit ==
    /\ server = [answers |-> "2xx", grant |-> "granted", load |-> "idle"]
    /\ breaker = ClosedBreaker
    /\ dueIn = [k \in Kinds |-> 0]
    /\ todo = {}
    /\ queryInterval = QueryInterval
    /\ suspicion = 0
    /\ snaps = [info |-> "none", jmx |-> "none", queries |-> "none"]
    /\ jmxAge = AgeBound
    /\ saveFaults = 0
    /\ changes = 0
    /\ met = {}
    /\ past = [falls |-> 0, filtered |-> FALSE]

-----------------------------------------------------------------------------
(* Calls.  /v1/info is public; the rest needs the grant.                   *)

Behind(answer) == IF server.grant = "denied" /\ answer = "2xx" THEN "403" ELSE answer

InfoAnswers == ReadAnswers(server.answers)
GuardedAnswers == {[i \in DOMAIN a |-> Behind(a[i])] : a \in ReadAnswers(server.answers)}

Meets(results) == met' = met \union (results \cap CallFailures)

\* The snapshot replaces the stored one, unless the database refuses it.
Save(kind, snap) ==
    \/ snaps' = [snaps EXCEPT ![kind] = snap] /\ UNCHANGED saveFaults
    \/ /\ saveFaults < MaxSaveFaults
       /\ saveFaults' = saveFaults + 1
       /\ UNCHANGED snaps

\* What is due is polled in the order of PollOrder.
IsNext(kind) ==
    /\ kind \in todo
    /\ \A i, j \in DOMAIN PollOrder : i < j /\ PollOrder[j] = kind => PollOrder[i] \notin todo

\* A poll of one kind takes a unit of time and is scheduled again at its end.
Polled(kind, interval, b) ==
    /\ IsNext(kind)
    /\ todo' = todo \ {kind}
    /\ dueIn' = [k \in Kinds |-> IF k = kind THEN interval ELSE Later(dueIn[k], 1)]
    /\ breaker' = CoolDown(b, 1)
    /\ UNCHANGED <<server, changes>>

PollInfo ==
    \E answers \in InfoAnswers :
        LET call == Call(breaker, answers, FALSE) IN
        /\ Polled("info", InfoInterval, call.breaker)
        /\ Meets({call.result})
        /\ Save("info", IF call.result = "ok" THEN "up" ELSE "failed")
        /\ jmxAge' = Cap(jmxAge + 1)
        /\ UNCHANGED <<queryInterval, suspicion, past>>

\* poll_jmx: one MBean after the other, each a call of its own; one that
\* fails is left out, and the poll fails when all are.
PollJmx ==
    \E answers \in [1..MBeans -> GuardedAnswers] :
        LET after[n \in 0..MBeans] ==
                IF n = 0 THEN breaker ELSE Call(after[n - 1], answers[n], TRUE).breaker
            result(n) == Call(after[n - 1], answers[n], TRUE).result
            results == {result(n) : n \in 1..MBeans}
        IN /\ Polled("jmx", JmxInterval, after[MBeans])
           /\ Meets(results)
           /\ Save("jmx", IF "ok" \notin results THEN "failed"
                          ELSE IF result(MBeans) # "ok" THEN "withoutCount"
                          ELSE IF server.load = "idle" THEN "zero" ELSE "positive")
           /\ jmxAge' = IF saveFaults' # saveFaults THEN Cap(jmxAge + 1) ELSE 0
           /\ UNCHANGED <<queryInterval, suspicion, past>>

-----------------------------------------------------------------------------
(* The query list and its cross-check.                                     *)

\* Mutated form of CrossChecked: a reading of any age is compared.
CrossCheckedAlways == snaps.jmx = "positive"

\* _last_jmx_running_queries: a positive count, read recently enough.
CrossChecked == snaps.jmx = "positive" /\ jmxAge <= CrossCheckAge

\* Mutated form of Suspicion: nothing clears the count, not even a full list.
SuspicionUncleared(listed) ==
    IF listed \/ ~CrossChecked \/ suspicion = ConfirmPolls
    THEN suspicion ELSE suspicion + 1

\* A poll that cannot be compared clears what the ones before it suspected.
\* The code's count goes on past ConfirmPolls; no test tells.
Suspicion(listed) ==
    IF listed \/ ~CrossChecked THEN 0
    ELSE IF suspicion = ConfirmPolls THEN suspicion ELSE suspicion + 1

\* _adapt_interval: between half the limit and the limit nothing changes.
Adapted(listed) ==
    IF ~listed THEN QueryInterval
    ELSE IF server.load = "flood" THEN BackoffInterval ELSE queryInterval

\* poll_queries: a filtered list and an idle cluster look the same.
PollQueries ==
    \E answers \in GuardedAnswers :
        LET call == Call(breaker, answers, FALSE)
            listed == server.load # "idle" /\ server.grant # "filtered"
            snap == IF call.result # "ok" THEN "failed"
                    ELSE IF listed THEN "listed"
                    ELSE IF Suspicion(listed) = ConfirmPolls THEN "suspect" ELSE "empty"
        IN /\ IF call.result = "ok"
              THEN /\ suspicion' = Suspicion(listed) /\ queryInterval' = Adapted(listed)
                   /\ past' = IF listed THEN [past EXCEPT !.falls = 0] ELSE past
              ELSE UNCHANGED <<suspicion, queryInterval, past>>
           /\ Polled("queries", queryInterval', call.breaker)
           /\ Meets({call.result})
           /\ Save("queries", snap)
           /\ jmxAge' = Cap(jmxAge + 1)

-----------------------------------------------------------------------------
\* Sleep until something is due, then poll whatever is.
StartTick ==
    LET wait == CHOOSE d \in {dueIn[k] : k \in Kinds} : \A k \in Kinds : d <= dueIn[k]
    IN /\ todo = {}
       /\ dueIn' = [k \in Kinds |-> dueIn[k] - wait]
       /\ todo' = {k \in Kinds : dueIn'[k] = 0}
       /\ jmxAge' = Cap(jmxAge + wait)
       /\ breaker' = CoolDown(breaker, wait)
       /\ UNCHANGED <<server, queryInterval, suspicion, snaps, saveFaults, changes, met,
                      past>>

\* The coordinator, its access control or its load change.
ServerChanges ==
    /\ \/ \E c \in Conditions : server' = [server EXCEPT !.answers = c]
       \/ \E g \in Grants : server' = [server EXCEPT !.grant = g]
       \/ \E l \in Loads : server' = [server EXCEPT !.load = l]
    /\ server' # server
    /\ past' = [falls |-> past.falls
                           + IF server.load # "idle" /\ server'.load = "idle" THEN 1 ELSE 0,
                filtered |-> past.filtered \/ server'.grant = "filtered"]
    /\ changes < MaxChanges
    /\ changes' = changes + 1
    /\ UNCHANGED <<breaker, dueIn, todo, queryInterval, suspicion, snaps, jmxAge,
                   saveFaults, met>>

PollerRuns == StartTick \/ PollInfo \/ PollJmx \/ PollQueries

PollNext == PollerRuns \/ ServerChanges

PollSpec == PollInit /\ [][PollNext]_pollVars /\ WF_pollVars(PollerRuns)

-----------------------------------------------------------------------------
(* Properties.                                                             *)

\* Denied everywhere is not down: until a call has met a transient failure,
\* /v1/info is answered and H-01 keeps its verdict, however many permanent
\* failures the other endpoints produced (record_failure, classify_status).
DeniedIsNotDown == "unavailable" \notin met => snaps.info # "failed"

\* The poller goes blind for a while only: a coordinator that answers from
\* some time on, and lets TMS see, is seen again, whatever the breaker had
\* counted (allows_request after the cooldown, record_success).
SightReturns ==
    <>[](server.answers = "2xx" /\ server.grant = "granted") =>
        <>[](snaps.info = "up" /\ snaps.jmx \in {"zero", "positive"}
             /\ snaps.queries \in {"empty", "listed"})

\* A race is held against the query list once.  The list and the JMX count are
\* not read together, so the last query of a coordinator may end between the
\* two and an honest list look filtered; the alarm waits for ConfirmPolls such
\* polls, and that is worth something only if each of them is another query's
\* end, since the last list with a query in it (poll_queries on races,
\* _last_jmx_running_queries on the age of the count).
RaceCountsOnce == past.filtered \/ suspicion <= past.falls
=============================================================================
