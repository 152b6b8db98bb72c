------------------------------ MODULE Routing ------------------------------
(***************************************************************************)
(* Which Gateway backend a restart turns off and on again                  *)
(* (src/tms/collector/gateway_poller.py, clients/gateway.py,               *)
(* ops/service.py).  The collector joins the Gateway's backends to the     *)
(* clusters and stores the rows; the restart service looks its backend up  *)
(* in the stored rows, then calls the Gateway.                             *)
(*                                                                         *)
(* Names are chosen on each side, so a backend may carry the name of       *)
(* another cluster.  Routing groups and routing rules are left out, and so *)
(* is the half of the benchmark's label that asks whether queries run.     *)
(***************************************************************************)
EXTENDS Naturals, Sequences, FiniteSets

CONSTANTS
    Clusters,         \* the names of the clusters TMS monitors
    Aliases,          \* names of backends that name no cluster
    Operators,        \* threads of tms-api that serve restarts
    MaxBackends,      \* bound on the length of the Gateway's list
    MaxEdits,         \* bound on the changes others make to that list
    MaxGatewayFaults  \* bound on failed calls and failed saves

ASSUME RoutingAssumption ==
    /\ Clusters \cap Aliases = {}
    /\ "elsewhere" \notin Clusters
    /\ MaxBackends \in Nat \ {0}
    /\ {MaxEdits, MaxGatewayFaults} \subseteq Nat

VARIABLES
    registry,     \* the Gateway's backends, in the order it lists them
    backendRows,  \* the rows of the gateway snapshot
    press,        \* what each operator's request is at
    edits, gatewayFaults,
    quiet         \* history: clusters whose traffic was stopped, no cause since

routeVars == <<registry, backendRows, press, edits, gatewayFaults, quiet>>

-----------------------------------------------------------------------------
Nowhere == "elsewhere"  \* a URL no cluster has, or a row without a cluster

\* proxyTo, as it is spelled: with or without a trailing slash or capitals.
URLs == (Clusters \union {Nowhere}) \X {"plain", "varied"}

\* _normalise
Normalise(url) == url[1]

Backends == [name : Clusters \union Aliases, proxyTo : URLs, active : BOOLEAN]

NamesDiffer(list) ==
    \A i, j \in DOMAIN list : list[i].name = list[j].name => i = j

\* What join_backends finds for one backend: by URL, and only then by name.
ByName(b) == IF b.name \in Clusters THEN b.name ELSE Nowhere
JoinedByName(b) ==
    IF ByName(b) # Nowhere THEN ByName(b) ELSE Normalise(b.proxyTo)
Joined(b) ==
    IF Normalise(b.proxyTo) # Nowhere THEN Normalise(b.proxyTo) ELSE ByName(b)

Join(list) == [i \in DOMAIN list |-> [name |-> list[i].name, cluster |-> Joined(list[i])]]

\* _backend_name: the first stored row joined to the cluster, if there is one.
Candidates(c) == {i \in DOMAIN backendRows : backendRows[i].cluster = c}
First(indices) == CHOOSE i \in indices : \A j \in indices : i <= j
Sole(c) == Cardinality(Candidates(c)) = 1

Routed(c) == \E i \in DOMAIN registry :
    registry[i].active /\ Normalise(registry[i].proxyTo) = c

-----------------------------------------------------------------------------
Away == [op |-> "none", cluster |-> Nowhere, target |-> Nowhere, sound |-> TRUE]

RouteTypeOK ==
    /\ registry \in UNION {[1..n -> Backends] : n \in 0..MaxBackends}
    /\ NamesDiffer(registry)
    /\ \A i \in DOMAIN backendRows :
          backendRows[i] \in [name : Clusters \union Aliases, cluster : Clusters \union {Nowhere}]
    /\ \A o \in Operators :
          \/ press[o] = Away
          \/ press[o] \in [op : {"stop", "resume"}, cluster : Clusters,
                           target : Clusters \union Aliases, sound : BOOLEAN]
    /\ quiet \subseteq Clusters
    /\ edits \in 0..MaxEdits /\ gatewayFaults \in 0..MaxGatewayFaults

\* One backend that proxies to one cluster under the name of another.
RouteInit ==
    /\ \E c, d \in Clusters :
          /\ c # d
          /\ registry = <<[name |-> d, proxyTo |-> <<c, "varied">>, active |-> TRUE]>>
    /\ backendRows = <<>>
    /\ press = [o \in Operators |-> Away]
    /\ edits = 0 /\ gatewayFaults = 0
    /\ quiet = {}

GatewayFault == gatewayFaults < MaxGatewayFaults /\ gatewayFaults' = gatewayFaults + 1

\* GatewayPoller.tick: the rows are written, the write fails, or the Gateway
\* does not answer and an error with no rows in it takes their place.
GatewayPoll ==
    /\ \/ backendRows' = Join(registry) /\ UNCHANGED gatewayFaults
       \/ GatewayFault /\ backendRows' \in {backendRows, <<>>}
    /\ UNCHANGED <<registry, press, edits, quiet>>

\* The Gateway's own console adds a backend, removes one or points it elsewhere.
EditRegistry ==
    /\ edits < MaxEdits
    /\ edits' = edits + 1
    /\ \/ \E b \in Backends :
             /\ Len(registry) < MaxBackends
             /\ b.active
             /\ \A i \in DOMAIN registry : registry[i].name # b.name
             /\ registry' = Append(registry, b)
       \/ \E i \in DOMAIN registry :
             registry' = SubSeq(registry, 1, i - 1) \o SubSeq(registry, i + 1, Len(registry))
       \/ \E i \in DOMAIN registry : \E url \in URLs \ {registry[i].proxyTo} :
             registry' = [registry EXCEPT ![i].proxyTo = url]
    /\ press' = [o \in Operators |->
                    IF press[o] = Away THEN Away ELSE [press[o] EXCEPT !.sound = FALSE]]
    /\ quiet' = {}
    /\ UNCHANGED <<backendRows, gatewayFaults>>

\* start, complete or abort looks its backend up and refuses without one.  One
\* restart of a cluster is under way at a time.  A target is sound when it is
\* the only row joined to the cluster, in rows that are what a poll would store.
Lookup(o, c, op) ==
    /\ press[o] = Away
    /\ \A p \in Operators : press[p].cluster # c
    /\ Candidates(c) # {}
    /\ press' = [press EXCEPT ![o] =
          [op |-> op, cluster |-> c, target |-> backendRows[First(Candidates(c))].name,
           sound |-> Sole(c) /\ backendRows = Join(registry)]]
    /\ UNCHANGED <<registry, backendRows, edits, gatewayFaults, quiet>>

\* set_active: the Gateway applies it, or the call fails before or after that.
Applied(o) ==
    [i \in DOMAIN registry |->
        IF registry[i].name = press[o].target
        THEN [registry[i] EXCEPT !.active = (press[o].op = "resume")]
        ELSE registry[i]]

SetActive(o) ==
    /\ press[o] # Away
    /\ \/ /\ registry' = Applied(o)
          /\ quiet' = IF ~press[o].sound THEN {}
                      ELSE IF press[o].op = "stop" THEN quiet \union {press[o].cluster}
                      ELSE quiet \ {press[o].cluster}
          /\ UNCHANGED gatewayFaults
       \/ /\ GatewayFault
          /\ registry' \in {registry, Applied(o)}
          /\ quiet' = IF press[o].sound THEN quiet \ {press[o].cluster} ELSE {}
    /\ press' = [press EXCEPT ![o] = Away]
    /\ UNCHANGED <<backendRows, edits>>

RouteNext ==
    \/ GatewayPoll \/ EditRegistry
    \/ \E o \in Operators : SetActive(o)
    \/ \E o \in Operators, c \in Clusters, op \in {"stop", "resume"} : Lookup(o, c, op)

RouteSpec == RouteInit /\ [][RouteNext]_routeVars

-----------------------------------------------------------------------------
(* bench/guard.py: a run is labelled as taken on a quiet cluster or not.   *)

\* What the Gateway says now of a stored row: active, inactive or nothing.
Live(name) == {registry[i].active : i \in {j \in DOMAIN registry : registry[j].name = name}}

\* Mutated form of OutOfRotation: one backend that is off will do.
OutOfRotationInPart(c) == \E i \in Candidates(c) : Live(backendRows[i].name) = {FALSE}

\* check: the rows are the stored ones, their state is asked live; a row the
\* Gateway does not mention, and a Gateway that does not answer, prove nothing.
OutOfRotation(c) ==
    /\ Candidates(c) # {}
    /\ \A i \in Candidates(c) : Live(backendRows[i].name) = {FALSE}

-----------------------------------------------------------------------------
(* Properties.                                                             *)

\* A cluster whose traffic was stopped receives none, whatever backend carries
\* its name and whatever is done to other clusters meanwhile: the rows the
\* backend was looked up in say where queries land.  Only what the lookup cannot
\* know excuses it: two backends of one cluster, or a list others changed
\* (join_backends, _backend_name, set_active).
StoppedIsUnrouted == \A c \in quiet : ~Routed(c)

\* A benchmark is labelled as taken out of rotation on a cluster that receives
\* nothing, whoever turned its backends off and on since the rows were stored,
\* as long as the rows are those the Gateway has (guard.check: a snapshot "can
\* call a backend deactivated twenty seconds after it was re-activated").
LabelHolds == \A c \in Clusters : OutOfRotation(c) /\ backendRows = Join(registry) => ~Routed(c)

\* Nobody is told that a cluster is out of rotation while it is not.
OutMeansOut == StoppedIsUnrouted /\ LabelHolds
=============================================================================
