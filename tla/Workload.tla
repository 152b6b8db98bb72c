----------------------------- MODULE Workload ------------------------------
(***************************************************************************)
(* Resource groups as they run beside resource groups as they are          *)
(* configured (src/tms/collector/resourcegroups.py, poll_resource_groups,  *)
(* get_resource_group_config of api/services.py).                          *)
(*                                                                         *)
(* A group has an MBean from the first query it admits, as long as it is   *)
(* exported, until the coordinator starts again.  The poll lists the names *)
(* and reads the MBeans one by one; the screen reads the store, then the   *)
(* snapshot.  A group is known by its path; numbers and limits are left out. *)
(* How the coordinator admits queries is external.                         *)
(***************************************************************************)
EXTENDS Naturals, Sequences, FiniteSets

CONSTANTS
    GroupPaths,        \* sequences of names: a group and those above it
    MaxWorkloadEvents  \* bound on edits of the store, restarts and failures

ASSUME WorkloadAssumption ==
    /\ \A path \in GroupPaths : path \in Seq(STRING) /\ path # <<>>
    /\ MaxWorkloadEvents \in Nat

VARIABLES
    configured,      \* the groups configured, and whether they are exported
    admitted,   \* the groups that have admitted a query since the coordinator started
    mbeans,     \* those whose MBean is registered
    collection, \* the poll under way
    liveSnap,   \* its snapshot, as last saved
    opened,     \* what each screen has read of the store, or what it shows
    workloadEvents

workloadVars == <<configured, admitted, mbeans, collection, liveSnap, opened, workloadEvents>>

-----------------------------------------------------------------------------
GroupStatuses == {"running", "idle", "hidden", "unknown"}

Stores == UNION {[some -> BOOLEAN] : some \in SUBSET GroupPaths}

NoCollection == [on |-> FALSE, left |-> {}, read |-> {}, failed |-> {}, seen |-> {}]

\* A snapshot: the groups read, those whose reading failed, and (history) those
\* whose names were listed.
NoLive == [there |-> FALSE, groups |-> {}, failed |-> {}, seen |-> {}, error |-> FALSE]

Closed == [at |-> "closed", configured |-> <<>>, rows |-> <<>>, unmanaged |-> {}, live |-> NoLive]

WorkloadTypeOK ==
    /\ configured \in Stores
    /\ mbeans \subseteq admitted /\ admitted \subseteq GroupPaths
    /\ collection.left \union collection.read \union collection.failed \subseteq GroupPaths
    /\ liveSnap \in [there : BOOLEAN, groups : SUBSET GroupPaths, failed : SUBSET GroupPaths,
                     seen : SUBSET GroupPaths, error : BOOLEAN]
    /\ opened.at \in {"closed", "reading", "open"}
    /\ \A g \in DOMAIN opened.rows : opened.rows[g] \in GroupStatuses
    /\ workloadEvents \in 0..MaxWorkloadEvents

WorkloadInit ==
    /\ configured = [g \in GroupPaths |-> TRUE]
    /\ admitted = {} /\ mbeans = {}
    /\ collection = NoCollection
    /\ liveSnap = NoLive
    /\ opened = Closed
    /\ workloadEvents = 0

-----------------------------------------------------------------------------
(* The coordinator and the store.                                          *)

WorkloadEvent == workloadEvents < MaxWorkloadEvents /\ workloadEvents' = workloadEvents + 1

IsAbove(g, path) == Len(g) <= Len(path) /\ SubSeq(path, 1, Len(g)) = g

\* A query is admitted to a group and counted in those above it.  One the store
\* knows has an MBean if it is exported, another may have one.
Admit(path) ==
    LET new == {g \in GroupPaths : IsAbove(g, path)} \ admitted
        exported == {g \in new \intersect DOMAIN configured : configured[g]}
    IN /\ new # {}
       /\ admitted' = admitted \union new
       /\ \E others \in SUBSET (new \ DOMAIN configured) : mbeans' = mbeans \union exported \union others
       /\ UNCHANGED <<configured, collection, liveSnap, opened, workloadEvents>>

CoordinatorRestarts ==
    /\ WorkloadEvent
    /\ admitted # {}
    /\ admitted' = {} /\ mbeans' = {}
    /\ UNCHANGED <<configured, collection, liveSnap, opened>>

\* The coordinator reads the store again: jmx_export takes effect.
CoordinatorRefreshes ==
    /\ mbeans' = {g \in admitted : IF g \in DOMAIN configured THEN configured[g] ELSE g \in mbeans}
    /\ UNCHANGED <<configured, admitted, collection, liveSnap, opened, workloadEvents>>

EditStore ==
    /\ WorkloadEvent
    /\ \E g \in GroupPaths :
          \/ configured' = [h \in DOMAIN configured \ {g} |-> configured[h]]
          \/ \E export \in BOOLEAN :
                configured' = [h \in DOMAIN configured \union {g} |->
                                  IF h = g THEN export ELSE configured[h]]
    /\ configured' # configured
    /\ UNCHANGED <<admitted, mbeans, collection, liveSnap, opened>>

-----------------------------------------------------------------------------
(* collect: the names, then each MBean, then the snapshot.                 *)

\* list_mbean_names: an error, and an empty list, end the poll.
ListGroups ==
    /\ ~collection.on
    /\ \/ /\ mbeans # {}
          /\ collection' = [NoCollection EXCEPT !.on = TRUE, !.left = mbeans, !.seen = mbeans]
          /\ UNCHANGED <<liveSnap, workloadEvents>>
       \/ /\ (mbeans = {} /\ UNCHANGED workloadEvents) \/ WorkloadEvent
          /\ liveSnap' = [NoLive EXCEPT !.there = TRUE, !.error = TRUE, !.seen = mbeans]
          /\ UNCHANGED collection
    /\ UNCHANGED <<configured, admitted, mbeans, opened>>

\* Mutated form of ReadFails: a name that is gone ends the poll like an answer.
ReadFailsUnsaid(c, g) == [c EXCEPT !.left = @ \ {g}]

\* A failed read is remembered and the poll goes on.
ReadFails(c, g) == [c EXCEPT !.left = @ \ {g}, !.failed = @ \union {g}]

ReadGroup(g) ==
    /\ g \in collection.left
    /\ \/ /\ g \in mbeans
          /\ collection' = [collection EXCEPT !.left = @ \ {g}, !.read = @ \union {g}]
          /\ UNCHANGED workloadEvents
       \/ /\ (g \notin mbeans /\ UNCHANGED workloadEvents) \/ WorkloadEvent
          /\ collection' = ReadFails(collection, g)
    /\ UNCHANGED <<configured, admitted, mbeans, liveSnap, opened>>

\* The snapshot replaces the one before, or is lost with a failed save.
SaveGroups ==
    /\ collection.on
    /\ collection.left = {}
    /\ \/ /\ liveSnap' = [there |-> TRUE, groups |-> collection.read, failed |-> collection.failed,
                          seen |-> collection.seen, error |-> collection.failed # {}]
          /\ UNCHANGED workloadEvents
       \/ WorkloadEvent /\ UNCHANGED liveSnap
    /\ collection' = NoCollection
    /\ UNCHANGED <<configured, admitted, mbeans, opened>>

-----------------------------------------------------------------------------
(* What is shown.                                                          *)

Parent(g) == SubSeq(g, 1, Len(g) - 1)

\* Mutated form of Roots: a child whose parent has no MBean is dropped.
RootsOnly(groups) == {g \in groups : Len(g) = 1}

\* build_tree: a child whose parent has no MBean is promoted to the top.
Roots(groups) == {g \in groups : Parent(g) \notin groups}

Children(g, groups) == {h \in groups : Len(h) > 1 /\ Parent(h) = g}

\* Mutated form of StatusOf: a collection that is off counts as one that saw nothing.
StatusOfUnasked(exported, g, live) ==
    IF g \in live.groups THEN "running" ELSE IF exported THEN "idle" ELSE "hidden"

\* reconcile, for one group.
StatusOf(exported, g, live) ==
    CASE ~live.there -> "unknown"
      [] live.there /\ g \in live.groups -> "running"
      [] live.there /\ g \notin live.groups /\ exported -> "idle"
      [] OTHER -> "hidden"

\* get_resource_group_config reads the store, and then the snapshot.
OpenConfig ==
    /\ opened.at # "reading"
    /\ opened' = [Closed EXCEPT !.at = "reading", !.configured = configured]
    /\ UNCHANGED <<configured, admitted, mbeans, collection, liveSnap, workloadEvents>>

ShowConfig ==
    /\ opened.at = "reading"
    /\ opened' = [opened EXCEPT !.at = "open", !.live = liveSnap,
          !.rows = [g \in DOMAIN opened.configured |-> StatusOf(opened.configured[g], g, liveSnap)],
          !.unmanaged = liveSnap.groups \ DOMAIN opened.configured]
    /\ UNCHANGED <<configured, admitted, mbeans, collection, liveSnap, workloadEvents>>

WorkloadNext ==
    \/ \E g \in GroupPaths : Admit(g) \/ ReadGroup(g)
    \/ CoordinatorRestarts \/ CoordinatorRefreshes \/ EditStore
    \/ ListGroups \/ SaveGroups
    \/ OpenConfig \/ ShowConfig

WorkloadSpec == WorkloadInit /\ [][WorkloadNext]_workloadVars

-----------------------------------------------------------------------------
(* Properties.                                                             *)

\* A poll that reports no error has read every group that had an MBean when it
\* listed them, whatever came and went meanwhile (collect: "the failure is
\* recorded"); without a poll no group is called idle (reconcile); and every group
\* that was read stands on both screens once, whatever is missing above it and
\* whatever the store lost meanwhile (build_tree).  That an idle group was "never
\* used" (STATUS_IDLE) is more than the code keeps after a poll that reports an
\* error, and is not stated here.
WorkloadTold ==
    /\ liveSnap.there /\ ~liveSnap.error => liveSnap.groups = liveSnap.seen
    /\ \A g \in DOMAIN opened.rows : opened.rows[g] = "idle" => opened.live.there
    /\ opened.live.groups = {g \in DOMAIN opened.rows : opened.rows[g] = "running"}
                                \union opened.unmanaged
    /\ \A g \in liveSnap.groups :
          Cardinality({h \in liveSnap.groups : g \in Children(h, liveSnap.groups)})
              + (IF g \in Roots(liveSnap.groups) THEN 1 ELSE 0) = 1
=============================================================================
