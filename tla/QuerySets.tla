----------------------------- MODULE QuerySets -----------------------------
(***************************************************************************)
(* A query set that is edited between the benchmark runs that are compared *)
(* with each other (src/tms/bench/setstore.py, queryset.py, compare.py,    *)
(* the editing half of service.py).                                        *)
(*                                                                         *)
(* An edit is checked against one read of the set and written later, by    *)
(* name, with two editors at it; a run keeps the statements it read as a   *)
(* copy in its row.  One set is modelled: sets share nothing.  A statement *)
(* is a version of the text, or one the allowlist refuses; times are left  *)
(* out, and what an execution came to is whether it has one.  JobRuns has  *)
(* the rest of a run: launches, aborts and restarts.                       *)
(***************************************************************************)
EXTENDS Naturals, FiniteSets, Sequences

CONSTANTS
    Names,        \* query names
    Versions,     \* statements the allowlist lets pass
    Editors,
    MaxInSet,     \* MAX_QUERIES
    MaxRuns,      \* bound on the runs started
    MaxWrites     \* bound on edits written and rows changed by hand

RefusedText == "not read only"

ASSUME QuerySetsAssumption ==
    /\ Names # {} /\ Versions # {} /\ RefusedText \notin Versions
    /\ {MaxInSet, MaxRuns, MaxWrites} \subseteq Nat
    /\ MaxRuns > 0  \* there may be a run from before

VARIABLES
    setKnown,  \* whether the set's row is there
    queries,   \* the benchmark_query rows of the set
    edit,      \* the request of each editor, between its checks and its write
    runs,      \* the benchmark_run rows with what they measured
    writes

setVars == <<setKnown, queries, edit, runs, writes>>

-----------------------------------------------------------------------------
Statements == Versions \union {RefusedText}
Rows == [name : Names, sql : Statements]

\* refuse_statement.
Allowed(sql) == sql # RefusedText

Named(rows, name) == {q \in rows : q.name = name}

\* Mutated form of NameFree: benchmark_query has no unique name.
NameFreeAlways(rows, name) == TRUE

\* UNIQUE (set_id, name).
NameFree(rows, name) == Named(rows, name) = {}

NoOne == [name |-> "none", sql |-> RefusedText, from |-> "none"]

SetTypeOK ==
    /\ setKnown \in BOOLEAN
    /\ queries \subseteq Rows
    /\ edit \in [Editors -> [name : Names, sql : Versions, from : Names \union {"new"}]
                               \union {NoOne}]
    /\ \A i \in DOMAIN runs :
          /\ runs[i].queries \union runs[i].left \union runs[i].timed \subseteq Rows
          /\ runs[i].state \in {"starting", "RUNNING", "ended"}
    /\ Len(runs) <= MaxRuns
    /\ writes \in 0..MaxWrites

\* A run from before migration 018: what it measured, and no copy.
OldRun(q) == [queries |-> {}, left |-> {}, timed |-> {q}, state |-> "ended"]

\* create_set and its first query have been saved; an old run may be there.
SetInit ==
    /\ setKnown = TRUE
    /\ queries = {CHOOSE q \in Rows : Allowed(q.sql)}
    /\ edit = [e \in Editors |-> NoOne]
    /\ runs \in {<<>>} \union {<<OldRun(q)>> : q \in {r \in Rows : Allowed(r.sql)}}
    /\ writes = 0

SetWritten == writes < MaxWrites /\ writes' = writes + 1

Running(i) == runs[i].state = "RUNNING"

\* _not_while_running: a store that does not answer lets the change pass.
NotWhileRunning == \E answers \in BOOLEAN : answers => \A i \in DOMAIN runs : ~Running(i)

-----------------------------------------------------------------------------
(* Editing.                                                                *)

\* save_query: every check, on one read of the set and of the runs.
CheckQuery(e, name, sql, from) ==
    /\ edit[e] = NoOne
    /\ writes < MaxWrites
    /\ setKnown
    /\ Allowed(sql)
    /\ from # name => Cardinality(queries) < MaxInSet
    /\ NotWhileRunning
    /\ edit' = [edit EXCEPT ![e] = [name |-> name, sql |-> sql, from |-> from]]
    /\ UNCHANGED <<setKnown, queries, runs, writes>>

\* PostgresQuerySetRepository.save_query: an UPDATE of the row the form was
\* opened on, and an INSERT where there is none any more.
SaveQuery(e) ==
    LET q == edit[e]
        old == Named(queries, q.from)
        others == queries \ old
    IN /\ q # NoOne
       /\ edit' = [edit EXCEPT ![e] = NoOne]
       /\ IF setKnown /\ NameFree(others, q.name)
          THEN SetWritten /\ queries' = others \union {[name |-> q.name, sql |-> q.sql]}
          ELSE UNCHANGED <<queries, writes>>
       /\ UNCHANGED <<setKnown, runs>>

\* PostgresQuerySetRepository.delete_query, which says whether there was one.
Without(rows, name) == rows \ Named(rows, name)

DeleteQuery(name) ==
    /\ NotWhileRunning
    /\ Without(queries, name) # queries
    /\ SetWritten
    /\ queries' = Without(queries, name)
    /\ UNCHANGED <<setKnown, edit, runs>>

\* The queries go with the set; the runs do not.
DeleteQuerySet ==
    /\ setKnown
    /\ NotWhileRunning
    /\ SetWritten
    /\ setKnown' = FALSE
    /\ queries' = {}
    /\ UNCHANGED <<edit, runs>>

\* create_set: the set and then its first query, each committed; the second may
\* be refused, or fail, and leaves the empty set.
CreateQuerySet(name, sql) ==
    /\ ~setKnown
    /\ Allowed(sql)
    /\ SetWritten
    /\ setKnown' = TRUE
    /\ queries' \in {{}, {[name |-> name, sql |-> sql]}}
    /\ UNCHANGED <<edit, runs>>

\* psql, a restore, a hand-written migration.
ChangedByHand(q, sql) ==
    /\ SetWritten
    /\ q.sql # sql
    /\ queries' = (queries \ {q}) \union {[q EXCEPT !.sql = sql]}
    /\ UNCHANGED <<setKnown, edit, runs>>

-----------------------------------------------------------------------------
(* Running and comparing.                                                  *)

\* Mutated form of Executed: the runner asks the store again.
ExecutedNow(q) ==
    IF Named(queries, q.name) = {} THEN q ELSE CHOOSE n \in queries : n.name = q.name

\* The runner executes the set it was handed.
Executed(q) == q

\* start reads the set; the run's row is inserted afterwards, with a copy of it.
StartRun ==
    /\ setKnown
    /\ Len(runs) < MaxRuns
    /\ \A i \in DOMAIN runs : runs[i].state = "ended"
    /\ runs' = Append(runs, [queries |-> queries, left |-> queries, timed |-> {},
                             state |-> "starting"])
    /\ UNCHANGED <<setKnown, queries, edit, writes>>

RecordRun(i) ==
    /\ runs[i].state = "starting"
    /\ runs' = [runs EXCEPT ![i].state = "RUNNING"]
    /\ UNCHANGED <<setKnown, queries, edit, writes>>

\* _one: the allowlist again.  A result without a time, refused or failed, and
\* one that is dropped on its way to the store are alike to what follows.
Execute(i) ==
    /\ Running(i)
    /\ \E q \in runs[i].left, good \in BOOLEAN :
          runs' = [runs EXCEPT ![i].left = @ \ {q}, ![i].timed =
              IF good /\ Allowed(Executed(q).sql) THEN @ \union {Executed(q)} ELSE @]
    /\ UNCHANGED <<setKnown, queries, edit, writes>>

\* finish, at the end of the set or at a stop on the way.
EndRun(i) ==
    /\ Running(i)
    /\ runs' = [runs EXCEPT ![i].state = "ended"]
    /\ UNCHANGED <<setKnown, queries, edit, writes>>

\* summarise_run: a query whose every execution failed has no median.
HasTime(run, name) == Named(run.timed, name) # {}

\* compare: a row has a verdict on its times when both sides have one.
Compared(a, b, name) == HasTime(a, name) /\ HasTime(b, name)

HasCopy(run) == run.queries # {}

\* _statements, _statement_in: by name, from the copy the run kept.
KnowsStatement(run, name) == Named(run.queries, name) # {}

StatementIn(run, name) == CHOOSE sql \in Statements :
                              [name |-> name, sql |-> sql] \in run.queries

\* Mutated form of EditedBetween: a run is held against what the set says now.
EditedSince(a, b) ==
    {name \in Names :
        /\ Named(queries, name) # {}
        /\ \A run \in {a, b} : KnowsStatement(run, name)
        /\ [name |-> name, sql |-> StatementIn(a, name)] \notin queries}

\* _edited_between: statement_changed, of no row when either run kept no copy.
EditedBetween(a, b) ==
    {name \in Names :
        /\ \A run \in {a, b} : KnowsStatement(run, name)
        /\ StatementIn(a, name) # StatementIn(b, name)}

\* query_history: an execution differs when its run kept another statement
\* under the name than the query has now, and not when it kept none.
Differs(run, q) == KnowsStatement(run, q.name) /\ StatementIn(run, q.name) # q.sql

SetNext ==
    \/ \E e \in Editors :
        \/ \E name \in Names, sql \in Statements, from \in Names \union {"new"} :
              CheckQuery(e, name, sql, from)
        \/ SaveQuery(e)
    \/ \E name \in Names : DeleteQuery(name)
    \/ DeleteQuerySet
    \/ \E name \in Names, sql \in Versions : CreateQuerySet(name, sql)
    \/ \E q \in queries, sql \in Statements : ChangedByHand(q, sql)
    \/ StartRun
    \/ \E i \in DOMAIN runs : RecordRun(i) \/ Execute(i) \/ EndRun(i)

SetSpec == SetInit /\ [][SetNext]_setVars

-----------------------------------------------------------------------------
\* Between runs that kept a copy of their statements, a difference that is shown
\* without the mark of a changed statement is between two executions of one
\* statement, and none of them is one the allowlist refuses; and the history of a
\* query marks exactly the executions of another statement than today's.  It is
\* so through renames and edits, a set deleted and made again between the runs,
\* and rows changed by hand while a run is under way (compare.py: "without this
\* the table would show a confident percentage for two different statements").
\* Of a run without a copy nobody can tell, and neither screen marks it.
UnmarkedIsOneStatement ==
    /\ \A i, j \in DOMAIN runs : \A name \in Names :
          /\ HasCopy(runs[i]) /\ HasCopy(runs[j])
          /\ Compared(runs[i], runs[j], name)
          /\ name \notin EditedBetween(runs[i], runs[j])
          => \A r \in Named(runs[i].timed, name), s \in Named(runs[j].timed, name) :
                 r.sql = s.sql /\ Allowed(r.sql)
    /\ \A i \in DOMAIN runs, q \in queries :
          HasCopy(runs[i]) /\ HasTime(runs[i], q.name) =>
              (Differs(runs[i], q) <=> q \notin runs[i].timed)
=============================================================================
