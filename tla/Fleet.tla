------------------------------- MODULE Fleet -------------------------------
(***************************************************************************)
(* The nodes of one cluster as the fleet screen sees them, and the button  *)
(* that drains a worker (src/tms/collector/fleet_poller.py,                *)
(* fleet/inventory.py, fleet/discovery.py, fleet/service.py,               *)
(* clients/node.py).                                                       *)
(*                                                                         *)
(* The collector parses the inventory file once, when it starts, and       *)
(* stores a snapshot of every node at each tick.  The console reads that   *)
(* snapshot and never the file.  Versions, environments and uptimes are    *)
(* left out, with the notes about them.  Which nodes have not joined is    *)
(* asked of the coordinator in SQL (clients/sql.py), on demand.            *)
(***************************************************************************)
EXTENDS Naturals, FiniteSets, Relation

CONSTANTS
    Servers,         \* the machines of the cluster
    Files,           \* the texts the inventory file may hold: [hosts, children]
    MaxFleetChanges  \* bound on changes of the file, the processes and faults

ASSUME FleetAssumption ==
    /\ IsFiniteSet(Servers) /\ MaxFleetChanges \in Nat
    /\ \A text \in Files : \A group \in {"coordinator", "worker", "other"} :
          text.hosts[group] \subseteq Servers \X {"name", "address"}

VARIABLES
    trino,       \* the Trino process of each machine, and its row in system.runtime.nodes
    file,        \* the inventory file
    loaded,      \* the nodes the collector parsed when it started
    counted,     \* ActiveNodeCount in the stored JMX snapshot
    fleet,       \* the stored fleet snapshot
    lookup,      \* the answer of the last lookup of unjoined nodes
    fleetChanges

fleetVars == <<trino, file, loaded, counted, fleet, lookup, fleetChanges>>

-----------------------------------------------------------------------------
\* parse_inventory.  A role is given by its group and by every group that one
\* reaches through :children, in any order and whatever the cycles; a host with
\* both roles is two nodes.
Groups == {"coordinator", "worker", "other"}
Reached(text, group) ==
    LET includes == [p \in Groups \X Groups |-> p \in text.children] IN
    {g \in Groups : ReflexiveTransitiveClosure(includes, Groups)[<<group, g>>]}
Hosts(text, group) == UNION {text.hosts[g] : g \in Reached(text, group)}
Parse(text) ==
    {[host |-> h, role |-> role] : h \in Hosts(text, "coordinator"), role \in {"coordinator"}}
    \union {[host |-> h, role |-> role] : h \in Hosts(text, "worker"), role \in {"worker"}}

\* A host is a machine under its name or under its address.
On(h) == h[1]
AddressOf(m) == <<m, "address">>
FleetHosts == Servers \X {"name", "address"}

\* _node_record: what /v1/info says now, or nothing at all.
Reachable(m) == trino[m].state # "down"
NodeRecord(n) ==
    [host |-> n.host, role |-> n.role,
     state |-> IF Reachable(On(n.host)) THEN trino[On(n.host)].state ELSE "unknown"]

\* system.runtime.nodes has a row for every node the coordinator knows of, and
\* the row says in which state; ActiveNodeCount counts those that are active.
JoinedMachines == {m \in Servers : trino[m].row # "none"}
ActiveMachines == {m \in Servers : trino[m].row = "active"}

\* host_of on both sides: a node is joined when the coordinator reports its
\* address or its host, and the coordinator only ever reports addresses.  The
\* state in the row is not looked at.
Resolves(h) == AddressOf(On(h))
HasJoinedAnswering(n) == Reachable(On(n.host))
HasJoined(n) == Resolves(n.host) \in {AddressOf(m) : m \in JoinedMachines}
Unjoined(nodes) == {n \in nodes : ~HasJoined(n)}

\* What joined and is listed under no name: the other direction of compare.
Unexpected(nodes) ==
    {m \in JoinedMachines : AddressOf(m) \notin {Resolves(n.host) : n \in nodes}}

\* counts_disagree, with both numbers as the snapshot holds them.
NoActive == 99
CountsDisagree(snap) == snap.active # NoActive /\ snap.active < Cardinality(snap.nodes)

\* get_fleet: the screen offers the lookup on what is stored, whatever its age.
CanIdentify == CountsDisagree(fleet)

\* _node_or_404: the first record of the host; coordinators are parsed first.
FoundRecord(h) ==
    LET mine == {n \in fleet.nodes : n.host = h} IN
    IF \E n \in mine : n.role = "coordinator"
    THEN {n \in mine : n.role = "coordinator"} ELSE mine

-----------------------------------------------------------------------------
FleetStates == {"active", "draining", "down"}
RowStates == {"none", "active", "other"}
NoLookup == [offered |-> FALSE, available |-> FALSE, unjoined |-> {}, unexpected |-> {}]

FleetTypeOK ==
    /\ trino \in [Servers -> [state : FleetStates, row : RowStates]]
    /\ file \in Files
    /\ loaded \subseteq [host : FleetHosts, role : {"coordinator", "worker"}]
    /\ counted \in 0..Cardinality(Servers) \union {NoActive}
    /\ fleet.nodes \subseteq [host : FleetHosts, role : {"coordinator", "worker"},
                              state : FleetStates \union {"unknown"}]
    /\ lookup.offered \in BOOLEAN /\ lookup.available \in BOOLEAN
    /\ lookup.unjoined \subseteq [host : FleetHosts, role : {"coordinator", "worker"},
                                  state : FleetStates \union {"unknown"}]
    /\ lookup.unexpected \subseteq Servers
    /\ fleetChanges \in 0..MaxFleetChanges

FleetInit ==
    /\ trino = [m \in Servers |-> [state |-> "active", row |-> "active"]]
    /\ file \in Files
    /\ loaded = Parse(file)
    /\ counted = NoActive
    /\ fleet = [nodes |-> {}, active |-> NoActive]
    /\ lookup = NoLookup
    /\ fleetChanges = 0

FleetChange == fleetChanges < MaxFleetChanges /\ fleetChanges' = fleetChanges + 1

\* FleetPoller.tick, with the counts the query collector stored; _node_counts
\* passes none on when they cannot be read.
FleetTick ==
    /\ fleet' = [nodes |-> {NodeRecord(n) : n \in loaded}, active |-> counted]
    /\ UNCHANGED <<trino, file, loaded, counted, lookup, fleetChanges>>

\* ActiveNodeCount, as the query collector reads it.
CountNodes ==
    /\ counted' = Cardinality(ActiveMachines)
    /\ UNCHANGED <<trino, file, loaded, fleet, lookup, fleetChanges>>

\* build_fleet_pollers runs when the collector starts and at no other time.
CollectorStarts ==
    /\ FleetChange
    /\ loaded' = Parse(file)
    /\ UNCHANGED <<trino, file, counted, fleet, lookup>>

EditFile ==
    /\ FleetChange
    /\ file' \in Files \ {file}
    /\ UNCHANGED <<trino, loaded, counted, fleet, lookup>>

\* shutdown_node: the stored record decides; begin_shutdown reaches the process,
\* and the coordinator sees it drain at once or later.
Drained(row) == IF row = "active" THEN "other" ELSE row
ShutdownNode(h) ==
    /\ \E n \in FoundRecord(h) : n.role = "worker" /\ n.state # "draining"
    /\ IF trino[On(h)].state = "active"
       THEN \E row \in {trino[On(h)].row, Drained(trino[On(h)].row)} :
               trino' = [trino EXCEPT ![On(h)] = [state |-> "draining", row |-> row]]
       ELSE UNCHANGED trino
    /\ UNCHANGED <<file, loaded, counted, fleet, lookup, fleetChanges>>

\* identify_unjoined.  The exchange with the coordinator gives every row or
\* none: a statement that is refused, fails, or is not over in time is an
\* answer that says so and names nobody.
CompleteLookup == [offered |-> CanIdentify, available |-> TRUE,
             unjoined |-> Unjoined(fleet.nodes), unexpected |-> Unexpected(fleet.nodes)]
IdentifyUnjoined ==
    /\ \/ lookup' = CompleteLookup /\ UNCHANGED fleetChanges
       \/ lookup' = [NoLookup EXCEPT !.offered = CanIdentify] /\ FleetChange
    /\ UNCHANGED <<trino, file, loaded, counted, fleet>>

\* A process stops, is started again or goes on, and the coordinator gets to know
\* it, takes it for inactive or forgets it.
ProcessChanges(m) ==
    /\ FleetChange
    /\ trino' \in {[trino EXCEPT ![m] = p] :
                      p \in [state : {"active", "down", trino[m].state}, row : RowStates]}
                 \ {trino}
    /\ UNCHANGED <<file, loaded, counted, fleet, lookup>>

FleetNext ==
    \/ FleetTick \/ CountNodes \/ CollectorStarts \/ EditFile \/ IdentifyUnjoined
    \/ \E h \in FleetHosts : ShutdownNode(h)
    \/ \E m \in Servers : ProcessChanges(m)

FleetSpec == FleetInit /\ [][FleetNext]_fleetVars

-----------------------------------------------------------------------------
(* Properties.                                                             *)

ListedOnce == \A n, o \in fleet.nodes : On(n.host) = On(o.host) => n = o

\* Of the nodes listed, those that joined and do not count as active: drained,
\* drained by TMS itself, or inactive to the coordinator.
JoinedNotActive == {n \in fleet.nodes : HasJoined(n) /\ On(n.host) \notin ActiveMachines}

\* What the lookup answers accounts for the gap it is offered over: the nodes
\* listed and the unexpected ones that count are as many as the coordinator
\* counted, those named as not joined, and those that joined but are not active,
\* unless a machine is listed twice or the count has changed since.  So an offered
\* lookup that names nobody means a node that drains or is inactive
\* (counts_disagree over the stored count, compare over the addresses reported).
GapExplained ==
    [][lookup' # lookup /\ lookup'.available /\ ListedOnce
       /\ fleet.active = Cardinality(ActiveMachines)
       => /\ Cardinality(fleet.nodes) + Cardinality(lookup'.unexpected \intersect ActiveMachines)
             = fleet.active + Cardinality(lookup'.unjoined) + Cardinality(JoinedNotActive)
          /\ lookup'.offered => lookup'.unjoined # {} \/ JoinedNotActive # {}]_fleetVars
=============================================================================
