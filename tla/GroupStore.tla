----------------------------- MODULE GroupStore -----------------------------
(***************************************************************************)
(* Trino's resource group tables as TMS edits them                         *)
(* (src/tms/ops/config_store.py, resource_group_rules.py): groups in a     *)
(* tree, selectors that send queries to them, and the revisions kept of    *)
(* every change.                                                           *)
(*                                                                         *)
(* Both tables hold every environment's rows.  A change is a transaction   *)
(* of its own under an advisory lock on its environment: what it reads     *)
(* before and what it validates after are two reads of READ COMMITTED.     *)
(* The values of a group are reduced to those the rules tell apart, and a  *)
(* selector to whether it matches everything.  Warnings are left out.      *)
(***************************************************************************)
EXTENDS Integers, FiniteSets, Sequences

CONSTANTS
    Environments,  \* node.environment of each cluster
    GroupNames,
    Values,        \* what a group may be set to: "fair", "priority", "wrong"
    Administrators,
    MaxSerial,     \* bound on the row ids given out
    MaxRevisions   \* bound on the revisions of an environment

ASSUME GroupStoreAssumption ==
    /\ Values \subseteq {"fair", "priority", "wrong"}
    /\ {MaxSerial, MaxRevisions} \subseteq Nat
    \* The row ids reach for what every environment starts with.
    /\ IsFiniteSet(Environments) /\ 2 * Cardinality(Environments) <= MaxSerial
    /\ GroupNames # {} /\ "fair" \in Values
    /\ "none" \notin Environments /\ "nobody" \notin Administrators

NoRow == 0

VARIABLES
    groups,     \* resource_groups
    selectors,  \* selectors
    serial,     \* the last row id given out
    revisions,  \* resource_group_revision, one sequence to an environment
    lockedBy,   \* the advisory lock of each environment
    change,     \* the transaction of each administrator
    crossed     \* history: a change named a row of another environment

groupVars == <<groups, selectors, serial, revisions, lockedBy, change, crossed>>

-----------------------------------------------------------------------------
(* What a change reads: _fetch and _shape.                                 *)

Of(env, table) == {g \in table : g.env = env}

\* _dotted_paths: the names from the root down, as far as the parents are rows
\* of this environment; one that is not shortens the path.  A parent is an
\* older row than its child.
Path(table, g) ==
    LET up[row \in 0..g.row] ==
            IF ~\E p \in table : p.row = row THEN <<>>
            ELSE LET p == CHOOSE p \in table : p.row = row
                 IN Append(up[p.parent], p.name)
    IN up[g.row]

\* The groups of an environment, and the selectors of its groups.
Tree(env, table, sels) ==
    LET own == Of(env, table)
        targets == {g.row : g \in own}
    IN [groups |-> {[row |-> g.row, path |-> Path(own, g), value |-> g.value] : g \in own},
        selectors |-> {s \in sels : s.target \in targets}]

-----------------------------------------------------------------------------
(* The rules (validate), as what of them blocks a change.                  *)

\* V1 to V5: one group's own values.
ValuesFit(tree) == \A g \in tree.groups : g.value # "wrong"

Beneath(g, h) ==
    /\ Len(g.path) < Len(h.path)
    /\ SubSeq(h.path, 1, Len(g.path)) = g.path

\* V6: a whole subtree agrees on query_priority.
PriorityAgrees(tree) ==
    \A g, h \in tree.groups :
        g.value = "priority" /\ Beneath(g, h) => h.value = "priority"

\* V8: a selector points at a group of its environment.  _fetch joins on the
\* groups of the environment, so a selector it returns always does.
TargetsKnown(tree) == \A s \in tree.selectors : \E g \in tree.groups : g.row = s.target

\* V9: no two groups share a path.
PathsDiffer(tree) == \A g, h \in tree.groups : g.path = h.path => g = h

\* Mutated form of HasCatchAll: no selectors, nothing to require of them.
HasCatchAllAmong(tree) == tree.selectors = {} \/ \E s \in tree.selectors : s.all

\* V10: where there are groups, some selector matches every query.  A first
\* group cannot have one yet and is refused with the rest.
HasCatchAll(tree) == tree.groups = {} \/ \E s \in tree.selectors : s.all

Blocking(tree) ==
    ~(ValuesFit(tree) /\ PriorityAgrees(tree) /\ TargetsKnown(tree) /\ PathsDiffer(tree)
      /\ HasCatchAll(tree))

-----------------------------------------------------------------------------
GroupRows == [row : 1..MaxSerial, env : Environments, parent : 0..MaxSerial,
              name : GroupNames, value : Values]
SelectorRows == [row : 1..MaxSerial, target : 1..MaxSerial, all : BOOLEAN]

Current(env) == Tree(env, groups, selectors)
NoChange == [env |-> "none", before |-> [groups |-> {}, selectors |-> {}]]
Editing(env) == [env |-> env, before |-> Current(env)]

GroupTypeOK ==
    /\ groups \subseteq GroupRows
    /\ selectors \subseteq SelectorRows
    /\ serial \in 0..MaxSerial
    /\ \A env \in Environments : Len(revisions[env]) <= MaxRevisions
    /\ lockedBy \in [Environments -> Administrators \union {"nobody"}]
    /\ \A a \in Administrators : change[a].env \in Environments \union {"none"}
    /\ crossed \in BOOLEAN

\* Every environment has been loaded with one group and its catch-all.
GroupInit ==
    LET n == Cardinality(Environments)
        first == CHOOSE name \in GroupNames : TRUE
        rowOf == CHOOSE f \in [Environments -> 1..n] : \A d, e \in Environments : f[d] = f[e] => d = e
    IN /\ groups = {[row |-> rowOf[e], env |-> e, parent |-> NoRow, name |-> first,
                     value |-> "fair"] : e \in Environments}
       /\ selectors = {[row |-> n + rowOf[e], target |-> rowOf[e], all |-> TRUE] :
                         e \in Environments}
       /\ serial = 2 * n
       /\ revisions = [e \in Environments |-> <<>>]
       /\ lockedBy = [e \in Environments |-> "nobody"]
       /\ change = [a \in Administrators |-> NoChange]
       /\ crossed = FALSE

-----------------------------------------------------------------------------
(* _apply.                                                                 *)

\* Mutated form of LockGranted: the change does not wait for another.
LockGrantedAlways(env) == TRUE

LockGranted(env) == lockedBy[env] = "nobody"

\* pg_advisory_xact_lock, and the tree as it stands.
BeginChange(a, env) ==
    /\ change[a] = NoChange
    /\ Len(revisions[env]) < MaxRevisions
    /\ LockGranted(env)
    /\ lockedBy' = [lockedBy EXCEPT ![env] = a]
    /\ change' = [change EXCEPT ![a] = Editing(env)]
    /\ UNCHANGED <<groups, selectors, serial, revisions, crossed>>

Release(a) ==
    /\ lockedBy' = [e \in Environments |-> IF lockedBy[e] = a THEN "nobody" ELSE lockedBy[e]]
    /\ change' = [change EXCEPT ![a] = NoChange]

\* ChangeRejected, a statement that fails or a connection that is lost: the
\* whole transaction is rolled back.
RollBack(a) ==
    /\ change[a] # NoChange
    /\ Release(a)
    /\ UNCHANGED <<groups, selectors, serial, revisions, crossed>>

\* The mutation, the second read, the validation of what came out, the
\* revision and the commit.  Nothing of it is seen before the commit.
Commit(a, table, sels, taken) ==
    LET env == change[a].env
        after == Tree(env, table, sels)
    IN /\ serial + taken <= MaxSerial
       /\ ~Blocking(after)
       /\ groups' = table
       /\ selectors' = sels
       /\ serial' = serial + taken
       /\ revisions' = [revisions EXCEPT ![env] =
                           Append(@, [before |-> change[a].before, after |-> after])]
       /\ Release(a)

\* Both foreign keys cascade, in whatever environment the rows are.
Doomed(row) ==
    LET under[r \in 0..MaxSerial] ==
            IF r = row THEN TRUE
            ELSE \E g \in groups : g.row = r /\ g.parent # NoRow /\ under[g.parent]
    IN {r \in 1..MaxSerial : under[r]}

-----------------------------------------------------------------------------
(* The changes.  A row is named by its id; an UPDATE or DELETE asks for the*)
(* environment as well and is rejected when the row is not there, an INSERT*)
(* takes the id as it comes.                                               *)

UpdateGroup(a, g, value) ==
    /\ g.env = change[a].env
    /\ Commit(a, {IF h = g THEN [h EXCEPT !.value = value] ELSE h : h \in groups},
              selectors, 0)
    /\ UNCHANGED crossed

CreateGroup(a, name, parent, value) ==
    /\ parent \in {NoRow} \union {g.row : g \in groups}
    /\ Commit(a, groups \union {[row |-> serial + 1, env |-> change[a].env, parent |-> parent,
                                 name |-> name, value |-> value]}, selectors, 1)
    /\ crossed' = (crossed \/ \E g \in groups : g.row = parent /\ g.env # change[a].env)

DeleteGroup(a, g) ==
    /\ g.env = change[a].env
    /\ Commit(a, {h \in groups : h.row \notin Doomed(g.row)},
              {s \in selectors : s.target \notin Doomed(g.row)}, 0)
    /\ UNCHANGED crossed

CreateSelector(a, g, all) ==
    /\ Commit(a, groups, selectors \union {[row |-> serial + 1, target |-> g.row, all |-> all]}, 1)
    /\ crossed' = (crossed \/ g.env # change[a].env)

DeleteSelector(a, s) ==
    /\ \E g \in Of(change[a].env, groups) : g.row = s.target
    /\ Commit(a, groups, selectors \ {s}, 0)
    /\ UNCHANGED crossed

\* revert: the revision is read before the lock is taken, which is harmless
\* since revisions are only appended.  _restore deletes the environment's rows
\* and inserts the snapshot's under new ids, parents before children; a
\* selector whose group is not in the snapshot is dropped.
Restored(env, snapshot) ==
    LET order == CHOOSE f \in [snapshot.groups -> 1..Cardinality(snapshot.groups)] :
                    \A g, h \in snapshot.groups :
                        /\ f[g] = f[h] => g = h
                        /\ Len(g.path) < Len(h.path) => f[g] < f[h]
        parent(g) == {p \in snapshot.groups : Len(g.path) = Len(p.path) + 1 /\ Beneath(p, g)}
        old == {g.row : g \in Of(env, groups)}
        kept == {s \in snapshot.selectors : \E g \in snapshot.groups : g.row = s.target}
        after == serial + Cardinality(snapshot.groups)
        place == CHOOSE f \in [kept -> 1..Cardinality(kept)] :
                    \A s, t \in kept : f[s] = f[t] => s = t
        target(s) == CHOOSE g \in snapshot.groups : g.row = s.target
        doomed == UNION {Doomed(row) : row \in old}
    IN [groups |-> {g \in groups : g.row \notin doomed} \union
            {[row |-> serial + order[g], env |-> env, name |-> g.path[Len(g.path)],
              value |-> g.value,
              parent |-> IF parent(g) = {} THEN NoRow
                         ELSE serial + order[CHOOSE p \in parent(g) : TRUE]] :
                g \in snapshot.groups},
        selectors |-> {s \in selectors : s.target \notin doomed} \union
            {[row |-> after + place[s], target |-> serial + order[target(s)], all |-> s.all] :
                s \in kept},
        taken |-> Cardinality(snapshot.groups) + Cardinality(kept)]

Revert(a, n) ==
    LET restored == Restored(change[a].env, revisions[change[a].env][n].before)
    IN /\ Commit(a, restored.groups, restored.selectors, restored.taken)
       /\ UNCHANGED crossed

Changes(a) ==
    /\ change[a] # NoChange
    /\ \/ \E g \in groups :
             \/ \E v \in Values : UpdateGroup(a, g, v)
             \/ DeleteGroup(a, g)
             \/ \E all \in BOOLEAN : CreateSelector(a, g, all)
       \/ \E name \in GroupNames, parent \in 0..MaxSerial, v \in Values :
             CreateGroup(a, name, parent, v)
       \/ \E s \in selectors : DeleteSelector(a, s)
       \/ \E n \in DOMAIN revisions[change[a].env] : Revert(a, n)

GroupNext ==
    \E a \in Administrators :
        \/ \E env \in Environments : BeginChange(a, env)
        \/ Changes(a)
        \/ RollBack(a)

GroupSpec == GroupInit /\ [][GroupNext]_groupVars

-----------------------------------------------------------------------------
\* probe: what the restart asks of the store when it answers.
Ready(env) ==
    /\ Of(env, groups) # {}
    /\ Current(env).selectors # {}

-----------------------------------------------------------------------------
(* Properties.                                                             *)

\* The history of an environment is a chain that ends in what is there now:
\* two administrators never record a tree neither of them left, and nothing
\* changes without a revision, unless a change named a row of another
\* environment (_apply: lock, read, mutate, read, commit).
RevisionsChain ==
    ~crossed => \A env \in Environments :
        LET last == Len(revisions[env]) IN
        /\ \A n \in 1..last - 1 : revisions[env][n].after = revisions[env][n + 1].before
        /\ last > 0 => revisions[env][last].after = Current(env)

\* An environment with groups keeps a selector that matches everything, and
\* with it the answer the restart's probe gives, whatever is deleted, reverted
\* or done by two administrators at once (validate on what the change
\* produced, V10).
CatchAllKept ==
    ~crossed => \A env \in Environments :
        HasCatchAll(Current(env)) /\ (Of(env, groups) # {} => Ready(env))

\* What a change may be validated against stays true afterwards (_apply, validate).
GroupTreeKept == RevisionsChain /\ CatchAllKept
=============================================================================
