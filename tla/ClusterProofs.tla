--------------------------- MODULE ClusterProofs ---------------------------
(***************************************************************************)
(* Proofs about the parts of Console that say something about the nodes of *)
(* a cluster or act on them: Routing (the backend a restart turns off is   *)
(* the one that sends queries to its cluster), NodeList (the list and the  *)
(* file rendered from it) and Fleet (the lookup of unjoined nodes), for    *)
(* any number of clusters, machines, callers and faults.                   *)
(***************************************************************************)
EXTENDS Console, GroupProofs

-----------------------------------------------------------------------------
(* The backends of the Gateway.                                            *)

IsPress(h) == \E op \in {"stop", "resume"}, c \in Clusters : \E t, sound :
                  h = [op |-> op, cluster |-> c, target |-> t, sound |-> sound]

\* The backends joined to a cluster are those of one name, and the other way
\* round: what a lookup in current rows with one candidate has found.
Finds(list, c, name) == \A i \in DOMAIN list : Joined(list[i]) = c <=> list[i].name = name

RouteInv ==
    /\ registry \in Seq(Backends)
    /\ NamesDiffer(registry)
    /\ quiet \subseteq Clusters
    /\ press = [o \in Operators |-> press[o]]
    /\ \A o \in Operators : press[o] = Away \/ IsPress(press[o])
    /\ \A o \in Operators : press[o] # Away /\ press[o].sound =>
          Finds(registry, press[o].cluster, press[o].target)
    /\ StoppedIsUnrouted

-----------------------------------------------------------------------------
(* Lists of backends.                                                      *)

LEMMA JoinedByURL ==
    ASSUME NEW b \in Backends, NEW c \in Clusters, Normalise(b.proxyTo) = c
    PROVE  Joined(b) = c
BY RoutingAssumption DEF Joined, Nowhere

\* Two lists of the same backends but for which of them are active.
Alike(old, new) ==
    /\ DOMAIN new = DOMAIN old
    /\ \A i \in DOMAIN old : new[i].name = old[i].name /\ new[i].proxyTo = old[i].proxyTo

LEMMA AlikeFinds ==
    ASSUME NEW old, NEW new, Alike(old, new), NEW c, NEW name, Finds(old, c, name)
    PROVE  Finds(new, c, name)
BY DEF Alike, Finds, Joined, ByName, Normalise

LEMMA AppliedType ==
    ASSUME RouteInv, NEW o \in Operators, press[o] # Away
    PROVE  /\ Applied(o) \in Seq(Backends)
           /\ Alike(registry, Applied(o))
           /\ \A i \in DOMAIN registry :
                 IF registry[i].name = press[o].target
                 THEN Applied(o)[i].active <=> press[o].op = "resume"
                 ELSE Applied(o)[i] = registry[i]
<1>1. registry \in Seq(Backends)
  BY DEF RouteInv
<1> DEFINE row(i) == IF registry[i].name = press[o].target
                     THEN [registry[i] EXCEPT !.active = (press[o].op = "resume")]
                     ELSE registry[i]
<1>2. \A i \in DOMAIN registry : registry[i] \in Backends
  BY <1>1
<1>3. ASSUME NEW i \in DOMAIN registry
      PROVE  /\ row(i) \in Backends
             /\ row(i).name = registry[i].name /\ row(i).proxyTo = registry[i].proxyTo
             /\ registry[i].name = press[o].target => (row(i).active <=> press[o].op = "resume")
  BY <1>2 DEF Backends
<1>4. Applied(o) = [i \in DOMAIN registry |-> row(i)]
  BY DEF Applied
<1>5. DOMAIN registry = 1..Len(registry) /\ Len(registry) \in Nat
  BY <1>1
<1>6. \A i \in DOMAIN registry : registry[i].name # press[o].target => row(i) = registry[i]
  OBVIOUS
<1> HIDE DEF row
<1> QED BY <1>3, <1>4, <1>5, <1>6 DEF Alike

\* A backend taken out, and the names of the rest.
LEMMA RemovedType ==
    ASSUME NEW list \in Seq(Backends), NamesDiffer(list), NEW i \in DOMAIN list
    PROVE  LET rest == SubSeq(list, 1, i - 1) \o SubSeq(list, i + 1, Len(list)) IN
           rest \in Seq(Backends) /\ NamesDiffer(rest)
<1> DEFINE front == SubSeq(list, 1, i - 1)
           back == SubSeq(list, i + 1, Len(list))
           rest == front \o back
<1>1. i \in 1..Len(list) /\ Len(list) \in Nat
  OBVIOUS
<1>2. front \in Seq(Backends) /\ Len(front) = i - 1 /\ \A k \in 1..i - 1 : front[k] = list[k]
  BY <1>1
<1>3. /\ back \in Seq(Backends) /\ Len(back) = Len(list) - i
      /\ \A k \in 1..Len(list) - i : back[k] = list[k + i]
  BY <1>1
<1> HIDE DEF front, back
<1>4. rest \in Seq(Backends) /\ Len(rest) = Len(list) - 1
  BY <1>1, <1>2, <1>3
<1>5. \A k \in 1..Len(list) - 1 : rest[k] = IF k < i THEN list[k] ELSE list[k + 1]
  BY <1>1, <1>2, <1>3
<1>6. NamesDiffer(rest)
  <2> HIDE DEF rest
  <2> SUFFICES ASSUME NEW j \in 1..Len(list) - 1, NEW k \in 1..Len(list) - 1,
                      rest[j].name = rest[k].name
               PROVE  j = k
    BY <1>1, <1>4 DEF NamesDiffer
  <2> DEFINE at(n) == IF n < i THEN n ELSE n + 1
  <2>1. rest[j] = list[at(j)] /\ rest[k] = list[at(k)] /\ at(j) \in DOMAIN list /\ at(k) \in DOMAIN list
    BY <1>1, <1>5
  <2>2. at(j) = at(k)
    <3> HIDE DEF at
    <3> QED BY <2>1 DEF NamesDiffer
  <2> QED BY <2>2, <1>1
<1> QED BY <1>4, <1>6 DEF front, back

-----------------------------------------------------------------------------
(* Each step.                                                              *)

LEMMA RouteStarts == ASSUME RouteInit PROVE RouteInv
<1>1. PICK c \in Clusters, d \in Clusters :
        registry = <<[name |-> d, proxyTo |-> <<c, "varied">>, active |-> TRUE]>>
  BY DEF RouteInit
<1> DEFINE b == [name |-> d, proxyTo |-> <<c, "varied">>, active |-> TRUE]
<1>2. b \in Backends
  BY DEF Backends, URLs
<1>3. registry \in Seq(Backends) /\ DOMAIN registry = {1}
  <2> HIDE DEF b
  <2> QED BY <1>1, <1>2 DEF b
<1>4. NamesDiffer(registry)
  BY <1>3 DEF NamesDiffer
<1>5. quiet = {} /\ press = [o \in Operators |-> Away]
  BY DEF RouteInit
<1> QED BY <1>3, <1>4, <1>5 DEF RouteInv, StoppedIsUnrouted

\* A row that is the only candidate names the only backend of its cluster.
LEMMA LookupFinds ==
    ASSUME RouteInv, NEW c \in Clusters, Sole(c), backendRows = Join(registry)
    PROVE  Finds(registry, c, backendRows[First(Candidates(c))].name)
<1>1. /\ registry \in Seq(Backends) /\ NamesDiffer(registry)
      /\ DOMAIN registry = 1..Len(registry) /\ Len(registry) \in Nat
  BY DEF RouteInv
<1>2. /\ DOMAIN backendRows = DOMAIN registry
      /\ \A i \in DOMAIN registry : /\ backendRows[i].name = registry[i].name
                                    /\ backendRows[i].cluster = Joined(registry[i])
  BY DEF Join
<1>3. Candidates(c) \subseteq 1..Len(registry)
  BY <1>1, <1>2 DEF Candidates
<1>4. IsFiniteSet(Candidates(c))
  <2>1. IsFiniteSet(1..Len(registry))
    BY <1>1, FS_Interval
  <2> QED BY <1>3, <2>1, FS_Subset
<1>5. PICK i \in Candidates(c) : Candidates(c) = {i}
  BY <1>4, FS_Singleton DEF Sole
<1>6. i \in DOMAIN registry /\ i \in Nat
  BY <1>1, <1>3, <1>5
<1>7. First(Candidates(c)) = i
  BY <1>5, <1>6 DEF First
<1>8. \A j \in DOMAIN registry : Joined(registry[j]) = c <=> j = i
  BY <1>2, <1>5 DEF Candidates
<1> QED BY <1>1, <1>2, <1>6, <1>7, <1>8 DEF Finds, NamesDiffer

LEMMA LookupKeeps ==
    ASSUME RouteInv, NEW o \in Operators, NEW c \in Clusters, NEW op \in {"stop", "resume"},
           Lookup(o, c, op)
    PROVE  RouteInv'
<1> DEFINE t == backendRows[First(Candidates(c))].name
           sound == Sole(c) /\ backendRows = Join(registry)
           h == [op |-> op, cluster |-> c, target |-> t, sound |-> sound]
<1>1. /\ press' = [press EXCEPT ![o] = h]
      /\ UNCHANGED <<registry, quiet>>
  BY DEF Lookup
<1>2. IsPress(h)
  <2> HIDE DEF t, sound
  <2> QED BY DEF IsPress
<1>3. h.cluster = c /\ h.target = t /\ h.sound = sound
  <2> HIDE DEF t, sound
  <2> QED OBVIOUS
<1>4. h.sound => Finds(registry, h.cluster, h.target)
  <2> HIDE DEF h
  <2>1. sound => Finds(registry, c, t)
    BY LookupFinds
  <2> QED BY <1>3, <2>1
<1> HIDE DEF h
<1>5. press' = [p \in Operators |-> press'[p]]
  BY <1>1 DEF RouteInv
<1>6. \A p \in Operators : press'[p] = IF p = o THEN h ELSE press[p]
  BY <1>1 DEF RouteInv
<1> QED BY <1>1, <1>2, <1>4, <1>5, <1>6 DEF RouteInv, StoppedIsUnrouted, Routed

LEMMA PollKeeps == ASSUME RouteInv, GatewayPoll PROVE RouteInv'
BY DEF RouteInv, GatewayPoll, StoppedIsUnrouted, Routed

\* Others change the list: what was looked up is no longer vouched for.
LEMMA EditKeeps == ASSUME RouteInv, EditRegistry PROVE RouteInv'
<1>1. /\ registry \in Seq(Backends) /\ NamesDiffer(registry)
      /\ DOMAIN registry = 1..Len(registry) /\ Len(registry) \in Nat
  BY DEF RouteInv
<1>2. registry' \in Seq(Backends) /\ NamesDiffer(registry')
  <2>1. ASSUME NEW b \in Backends, \A i \in DOMAIN registry : registry[i].name # b.name,
               registry' = Append(registry, b)
        PROVE  registry' \in Seq(Backends) /\ NamesDiffer(registry')
    <3>1. /\ registry' \in Seq(Backends)
          /\ DOMAIN registry' = 1..Len(registry) + 1
          /\ \A i \in 1..Len(registry) : registry'[i] = registry[i]
          /\ registry'[Len(registry) + 1] = b
      BY <1>1, <2>1
    <3> QED BY <1>1, <2>1, <3>1 DEF NamesDiffer
  <2>2. ASSUME NEW i \in DOMAIN registry,
               registry' = SubSeq(registry, 1, i - 1) \o SubSeq(registry, i + 1, Len(registry))
        PROVE  registry' \in Seq(Backends) /\ NamesDiffer(registry')
    BY <1>1, <2>2, RemovedType
  <2>3. ASSUME NEW i \in DOMAIN registry, NEW url \in URLs,
               registry' = [registry EXCEPT ![i].proxyTo = url]
        PROVE  registry' \in Seq(Backends) /\ NamesDiffer(registry')
    <3> DEFINE b == [registry[i] EXCEPT !.proxyTo = url]
    <3>1. b \in Backends /\ b.name = registry[i].name
      <4>1. registry[i] \in Backends
        BY <1>1
      <4> QED BY <4>1 DEF Backends
    <3>2. registry' = [registry EXCEPT ![i] = b]
      BY <2>3
    <3> HIDE DEF b
    <3>3. /\ registry' \in Seq(Backends) /\ DOMAIN registry' = DOMAIN registry
          /\ \A j \in DOMAIN registry : registry'[j].name = registry[j].name
      BY <1>1, <3>1, <3>2
    <3> QED BY <1>1, <3>3 DEF NamesDiffer
  <2> QED BY <2>1, <2>2, <2>3 DEF EditRegistry
<1>3. ASSUME NEW h, IsPress(h), NEW no
      PROVE  IsPress([h EXCEPT !.sound = no]) /\ [h EXCEPT !.sound = no].sound = no
  <2>1. PICK op \in {"stop", "resume"}, c \in Clusters : \E t, sound :
             h = [op |-> op, cluster |-> c, target |-> t, sound |-> sound]
    BY <1>3 DEF IsPress
  <2>3. PICK t, sound :
             h = [op |-> op, cluster |-> c, target |-> t, sound |-> sound]
    BY <2>1
  <2>2. [h EXCEPT !.sound = no]
            = [op |-> op, cluster |-> c, target |-> t, sound |-> no]
    BY <2>3
  <2> QED BY <2>2 DEF IsPress
<1>6. \A h : IsPress(h) => IsPress([h EXCEPT !.sound = FALSE]) /\ ~[h EXCEPT !.sound = FALSE].sound
  BY <1>3, Zenon
<1>4. /\ quiet' = {}
      /\ press' = [o \in Operators |->
                      IF press[o] = Away THEN Away ELSE [press[o] EXCEPT !.sound = FALSE]]
  BY DEF EditRegistry
<1>5. \A o \in Operators : \/ press'[o] = Away
                           \/ IsPress(press'[o]) /\ ~press'[o].sound
  BY <1>4, <1>6 DEF RouteInv
<1> QED BY <1>2, <1>4, <1>5 DEF RouteInv, StoppedIsUnrouted

\* The Gateway applies a call: what is quiet stays so when the target is the
\* one backend of its cluster.
LEMMA ApplyHolds ==
    ASSUME RouteInv, NEW o \in Operators, press[o] # Away, press[o].sound,
           registry' = Applied(o), NEW c \in Clusters,
           \/ c \in quiet /\ (press[o].op = "stop" \/ c # press[o].cluster)
           \/ c = press[o].cluster /\ press[o].op = "stop"
    PROVE  ~Routed(c)'
<1> SUFFICES ASSUME NEW i \in DOMAIN registry', registry'[i].active,
                    Normalise(registry'[i].proxyTo) = c
             PROVE  FALSE
  BY DEF Routed
<1>1. /\ i \in DOMAIN registry /\ registry[i] \in Backends
      /\ registry'[i].proxyTo = registry[i].proxyTo
      /\ IF registry[i].name = press[o].target
         THEN registry'[i].active <=> press[o].op = "resume"
         ELSE registry'[i] = registry[i]
  BY AppliedType DEF Alike, RouteInv
<1>2. Joined(registry[i]) = c
  BY <1>1, JoinedByURL
<1>3. Finds(registry, press[o].cluster, press[o].target)
  BY DEF RouteInv
<1>4. CASE press[o].op = "stop"
  <2>1. registry[i].name # press[o].target /\ registry[i].active
    BY <1>1, <1>4
  <2>2. c # press[o].cluster
    BY <1>1, <1>2, <1>3, <2>1 DEF Finds
  <2> QED BY <1>1, <2>1, <2>2 DEF RouteInv, StoppedIsUnrouted, Routed
<1>5. CASE press[o].op # "stop"
  <2>1. registry[i].name # press[o].target
    BY <1>1, <1>2, <1>3, <1>5 DEF Finds
  <2> QED BY <1>1, <1>5, <2>1 DEF RouteInv, StoppedIsUnrouted, Routed
<1> QED BY <1>4, <1>5

LEMMA SetActiveKeeps ==
    ASSUME RouteInv, NEW o \in Operators, SetActive(o)
    PROVE  RouteInv'
<1>1. press[o] # Away /\ press' = [press EXCEPT ![o] = Away]
  BY DEF SetActive
<1>2. press[o].op \in {"stop", "resume"} /\ press[o].cluster \in Clusters
  BY <1>1 DEF RouteInv, IsPress
<1>3. registry' = registry \/ registry' = Applied(o)
  BY DEF SetActive
<1>4. registry' \in Seq(Backends) /\ Alike(registry, registry')
  BY <1>1, <1>3, AppliedType DEF RouteInv, Alike
<1>5. NamesDiffer(registry')
  BY <1>4 DEF RouteInv, NamesDiffer, Alike
<1>6. /\ press' = [p \in Operators |-> press'[p]]
      /\ \A p \in Operators : press'[p] = IF p = o THEN Away ELSE press[p]
  BY <1>1 DEF RouteInv
<1>7. \A p \in Operators : press'[p] # Away /\ press'[p].sound =>
          Finds(registry', press'[p].cluster, press'[p].target)
  BY <1>4, <1>6, AlikeFinds DEF RouteInv
<1>8. /\ quiet' \subseteq Clusters
      /\ ~press[o].sound => quiet' = {}
      /\ \A c \in quiet' : \/ c \in quiet /\ (press[o].op = "stop" \/ c # press[o].cluster)
                           \/ /\ c = press[o].cluster /\ press[o].op = "stop"
                              /\ registry' = Applied(o)
  BY <1>2 DEF SetActive, RouteInv
<1>9. StoppedIsUnrouted'
  <2> SUFFICES ASSUME NEW c \in quiet' PROVE ~Routed(c)'
    BY DEF StoppedIsUnrouted
  <2>1. press[o].sound /\ c \in Clusters
    BY <1>8
  <2>2. CASE registry' = Applied(o)
    BY <1>1, <1>8, <2>1, <2>2, ApplyHolds
  <2>3. CASE registry' # Applied(o)
    <3>1. registry' = registry /\ c \in quiet
      BY <1>3, <1>8, <2>3
    <3> QED BY <3>1 DEF RouteInv, StoppedIsUnrouted, Routed
  <2> QED BY <2>2, <2>3
<1> QED BY <1>4, <1>5, <1>6, <1>7, <1>8, <1>9 DEF RouteInv

-----------------------------------------------------------------------------
(* The specification.                                                      *)

LEMMA RouteStep == ASSUME RouteInv, [RouteNext]_routeVars PROVE RouteInv'
<1>1. CASE UNCHANGED routeVars
  BY <1>1 DEF routeVars, RouteInv, StoppedIsUnrouted, Routed
<1> QED BY <1>1, PollKeeps, EditKeeps, SetActiveKeeps, LookupKeeps DEF RouteNext

LEMMA RoutePart == ASSUME [ConsoleNext]_consoleVars PROVE [RouteNext]_routeVars
BY DEF ConsoleNext, Rest, consoleVars

\* The label of a benchmark rests on the join alone.
LEMMA LabelIsTrue == ASSUME RouteInv PROVE LabelHolds
<1> SUFFICES ASSUME NEW c \in Clusters, OutOfRotation(c), backendRows = Join(registry),
                    NEW i \in DOMAIN registry, registry[i].active,
                    Normalise(registry[i].proxyTo) = c
             PROVE  FALSE
  BY DEF LabelHolds, Routed
<1>1. registry[i] \in Backends
  BY DEF RouteInv
<1>2. Joined(registry[i]) = c
  BY <1>1, JoinedByURL
<1>3. /\ i \in DOMAIN backendRows
      /\ backendRows[i].name = registry[i].name /\ backendRows[i].cluster = c
  BY <1>2 DEF Join
<1>4. Live(registry[i].name) = {FALSE}
  BY <1>3 DEF OutOfRotation, Candidates
<1>5. registry[i].active \in Live(registry[i].name)
  BY DEF Live
<1> QED BY <1>4, <1>5

\* Nobody is told that a cluster is out of rotation while queries reach it: not
\* the operator whose restart stopped its one backend, whatever name that backend
\* carries, nor the reader of a benchmark's label (join_backends, _backend_name,
\* set_active, guard.check).
THEOREM StoppedIsOut == ConsoleSpec => []OutMeansOut
<1>1. ConsoleInit => RouteInv
  BY RouteStarts DEF ConsoleInit
<1>2. RouteInv /\ [ConsoleNext]_consoleVars => RouteInv'
  BY RoutePart, RouteStep
<1>3. RouteInv => OutMeansOut
  BY LabelIsTrue DEF RouteInv, OutMeansOut
<1> QED BY <1>1, <1>2, <1>3, PTL DEF ConsoleSpec

-----------------------------------------------------------------------------
(* The node list.                                                          *)

NodeEntry == [host : Spellings, address : Spellings]
NodeRows == [host : Spellings, address : Spellings, seen : Nat]

NodeCalls ==
    [op : {"none", "add", "remove", "scan"},
     at : {"idle", "rows", "read", "open", "write", "replace"},
     entries : SUBSET NodeEntry, touch : SUBSET Spellings, stamp : Nat,
     view : SUBSET NodeEntry, handle : {"none", "temporary", "inventory", "gone"},
     alone : BOOLEAN]

NodeTyped ==
    /\ rows \subseteq NodeRows /\ IsFiniteSet(rows)
    /\ joined \subseteq Machines
    /\ call \in [Callers -> NodeCalls]
    /\ scans \in Nat
    /\ behind \in BOOLEAN

AloneAtWork(c) == call[c].at # "idle" /\ call[c].alone

\* What a caller that works alone has read and written so far.
FileAt(c) ==
    /\ call[c].at \in {"open", "write", "replace"} => call[c].view = Render(rows)
    /\ call[c].at = "write" => call[c].handle = "temporary" /\ temporary = Opened
    /\ call[c].at = "replace" => temporary = Whole(call[c].view)

\* The file lags behind a list that a lone call is changing, and no other.
FileInv ==
    /\ \A c \in Callers : AloneAtWork(c) => Busy = {c} /\ FileAt(c)
    /\ ~behind =>
          /\ \A c \in Busy : call[c].alone
          /\ inventory.is = "whole"
          /\ (\A c \in Busy : call[c].at = "rows" /\ call[c].op # "scan") =>
                inventory.text = Render(rows)

\* What a caller is about to add.
Adds(c) == call[c].at = "rows" /\ call[c].op \in {"add", "scan"}
MachineOf(e) == Machine(e.host)
Located(e) == e.address = Address(MachineOf(e))
ListedMachine(m) == \E r \in rows : MachineOf(r) = m

\* A machine that is to be added is not listed, or has a cause to be twice.
TwiceInv ==
    /\ \A r \in rows : MachineOf(r) \in doubled \/ Located(r)
    /\ NoMachineTwice
    /\ \A c \in Callers : Adds(c) =>
          /\ \A e, f \in call[c].entries : MachineOf(e) = MachineOf(f) => e = f
          /\ call[c].op = "add" => \E e \in NodeEntry : call[c].entries = {e}
          /\ \A e \in call[c].entries :
                \/ MachineOf(e) \in doubled
                \/ Located(e) /\ (Listed(e.host) \/ ~ListedMachine(MachineOf(e)))
    /\ \A c, d \in Callers : c # d /\ Adds(c) /\ Adds(d) =>
          \A e \in call[c].entries, f \in call[d].entries :
              MachineOf(e) = MachineOf(f) => MachineOf(e) \in doubled

LEMMA NodeIdle == Idle \in NodeCalls /\ Idle.at = "idle" /\ Idle.entries = {}
BY DEF Idle, NodeCalls, Never

LEMMA BusyCallers == \A c : c \in Busy <=> c \in Callers /\ call[c].at # "idle"
BY DEF Busy

LEMMA RenderTyped ==
    ASSUME NodeTyped
    PROVE  Render(rows) \subseteq NodeEntry /\ Cardinality(Render(rows)) \in Nat
<1>1. Render(rows) \subseteq NodeEntry
  BY DEF NodeTyped, Render, NodeRows, NodeEntry
<1> DEFINE text == {[host |-> r.host, address |-> r.address] : r \in rows}
<1>2. IsFiniteSet(text)
  <2> DEFINE shown == [r \in rows |-> [host |-> r.host, address |-> r.address]]
  <2>1. shown \in Surjection(rows, text)
    BY DEF Surjection
  <2>2. IsFiniteSet(rows)
    BY DEF NodeTyped
  <2> HIDE DEF shown, text
  <2> QED BY <2>1, <2>2, FS_Surjection
<1>3. Cardinality(text) \in Nat
  BY <1>2, FS_CardinalityType
<1> QED BY <1>1, <1>3 DEF Render

\* Written over an empty file a text is whole.
LEMMA OverOpened ==
    ASSUME NodeTyped
    PROVE  Over(Opened, Render(rows)) = Whole(Render(rows))
<1>1. Opened.text = {} /\ Cardinality({}) = 0 /\ Opened # Mixed
  BY FS_EmptySet DEF Opened, Mixed
<1>2. ~(Cardinality(Opened.text) > Cardinality(Render(rows)))
  BY <1>1, RenderTyped
<1> QED BY <1>1, <1>2 DEF Over

LEMMA CallAlone ==
    ASSUME NEW q \in NodeCalls, NEW b \in BOOLEAN
    PROVE  /\ [q EXCEPT !.alone = b] \in NodeCalls
           /\ [q EXCEPT !.alone = b].op = q.op /\ [q EXCEPT !.alone = b].at = q.at
           /\ [q EXCEPT !.alone = b].entries = q.entries
           /\ [q EXCEPT !.alone = b].alone <=> b
BY DEF NodeCalls

\* A call that begins tells every other one that it is not alone.
LEMMA CallBegins ==
    ASSUME NodeTyped, NEW c \in Callers, NEW q \in NodeCalls, q.at = "rows", StartCall(c, q)
    PROVE  /\ call[c].at = "idle"
           /\ call' \in [Callers -> NodeCalls]
           /\ call'[c].op = q.op /\ call'[c].at = "rows" /\ call'[c].entries = q.entries
           /\ call'[c].alone <=> Busy = {}
           /\ \A d \in Callers \ {c} :
                 /\ call'[d].op = call[d].op /\ call'[d].at = call[d].at
                 /\ call'[d].entries = call[d].entries
                 /\ call'[d].alone <=> d \notin Busy
           /\ behind' \in BOOLEAN /\ (behind' <=> behind \/ Busy # {})
           /\ UNCHANGED <<rows, joined, inventory, temporary>>
<1>1. /\ call[c].at = "idle" /\ UNCHANGED <<rows, joined, inventory, temporary>>
      /\ call' = [d \in Callers |-> IF d = c THEN [q EXCEPT !.alone = (Busy = {})]
                                  ELSE [call[d] EXCEPT !.alone = (d \notin Busy)]]
      /\ behind' = (behind \/ Busy # {})
  BY DEF StartCall, File
<1>2. \E b \in BOOLEAN : b = (Busy = {})
  OBVIOUS
<1>3. PICK b \in BOOLEAN : b = (Busy = {})
  BY <1>2
<1>4. call'[c] = [q EXCEPT !.alone = b]
  BY <1>1, <1>3
<1>5. ASSUME NEW d \in Callers \ {c}
      PROVE  /\ call'[d] \in NodeCalls
             /\ call'[d].op = call[d].op /\ call'[d].at = call[d].at
             /\ call'[d].entries = call[d].entries
             /\ call'[d].alone <=> d \notin Busy
  <2>1. PICK a \in BOOLEAN : a = (d \notin Busy)
    OBVIOUS
  <2>2. call'[d] = [call[d] EXCEPT !.alone = a]
    BY <1>1, <2>1
  <2>3. call[d] \in NodeCalls
    BY DEF NodeTyped
  <2> QED BY <2>1, <2>2, <2>3, CallAlone
<1>6. behind' \in BOOLEAN /\ (behind' <=> behind \/ Busy # {})
  BY <1>1 DEF NodeTyped
<1>7. /\ call'[c] \in NodeCalls /\ call'[c].op = q.op /\ call'[c].at = "rows"
      /\ call'[c].entries = q.entries /\ (call'[c].alone <=> Busy = {})
  BY <1>3, <1>4, CallAlone
<1>8. DOMAIN call' = Callers /\ call' = [d \in Callers |-> call'[d]]
  BY <1>1
<1> QED BY <1>1, <1>5, <1>6, <1>7, <1>8

\* A step of one call under way; the file is as its place demands.
LEMMA FileStep ==
    ASSUME NodeTyped, FileInv, NEW c \in Callers, NEW q \in NodeCalls,
           call[c].at # "idle", q.at # "idle", q.alone <=> call[c].alone,
           call' = [call EXCEPT ![c] = q], behind' = behind,
           AloneAtWork(c) => FileAt(c)',
           ~behind /\ AloneAtWork(c) =>
              /\ inventory'.is = "whole"
              /\ q.at = "rows" /\ q.op # "scan" => inventory'.text = Render(rows)'
    PROVE  FileInv'
<1>1. /\ c \in Busy /\ call'[c] = q
      /\ \A d \in Callers \ {c} : call'[d] = call[d]
  BY BusyCallers DEF NodeTyped
<1>2. \A d : d \in Busy' <=> d \in Callers /\ call'[d].at # "idle"
  BY DEF Busy
<1>3. Busy' = Busy
  <2>1. \A d : d \in Busy' <=> d \in Busy
    BY <1>1, <1>2, BusyCallers
  <2> QED BY <2>1
<1>4. ASSUME NEW d \in Callers, AloneAtWork(d)'
      PROVE  (Busy = {d} /\ FileAt(d))'
  <2>1. CASE d = c
    <3>1. AloneAtWork(c)
      BY <1>1, <1>4, <2>1 DEF AloneAtWork
    <3> QED BY <1>3, <2>1, <3>1 DEF FileInv
  <2>2. CASE d # c
    <3>1. AloneAtWork(d)
      BY <1>1, <1>4, <2>2 DEF AloneAtWork
    <3> QED BY <1>1, <2>2, <3>1 DEF FileInv
  <2> QED BY <2>1, <2>2
<1>5. ASSUME ~behind'
      PROVE  (/\ \A d \in Busy : call[d].alone
              /\ inventory.is = "whole"
              /\ (\A d \in Busy : call[d].at = "rows" /\ call[d].op # "scan") =>
                    inventory.text = Render(rows))'
  <2>1. /\ \A d \in Busy : call[d].alone
        /\ AloneAtWork(c)
    BY <1>1, <1>5 DEF FileInv, AloneAtWork
  <2>2. Busy = {c}
    BY <2>1 DEF FileInv
  <2>3. q.alone
    BY <2>1 DEF AloneAtWork
  <2> QED BY <1>1, <1>3, <1>5, <2>1, <2>2, <2>3
<1> QED BY <1>4, <1>5 DEF FileInv

\* A call that is over leaves the file to its list, or leaves a cause.
LEMMA FileEnds ==
    ASSUME NodeTyped, FileInv, NEW c \in Callers,
           call[c].at # "idle", call' = [call EXCEPT ![c] = Idle],
           \/ behind'
           \/ /\ behind' = behind /\ UNCHANGED <<rows, inventory>>
              /\ call[c].at = "rows" /\ call[c].op # "scan"
    PROVE  FileInv'
<1>1. /\ c \in Busy /\ call'[c] = Idle
      /\ \A d \in Callers \ {c} : call'[d] = call[d]
  BY BusyCallers DEF NodeTyped
<1>2. \A d : d \in Busy' <=> d \in Callers /\ call'[d].at # "idle"
  BY DEF Busy
<1>3. ASSUME NEW d \in Callers
      PROVE  ~AloneAtWork(d)'
  <2>1. CASE d = c
    BY <1>1, <2>1, NodeIdle DEF AloneAtWork
  <2>2. CASE d # c
    <3>1. AloneAtWork(d)' => AloneAtWork(d)
      BY <1>1, <2>2 DEF AloneAtWork
    <3> QED BY <1>1, <2>2, <3>1 DEF FileInv
  <2> QED BY <2>1, <2>2
<1>4. ASSUME ~behind'
      PROVE  (/\ \A d \in Busy : call[d].alone
              /\ inventory.is = "whole"
              /\ (\A d \in Busy : call[d].at = "rows" /\ call[d].op # "scan") =>
                    inventory.text = Render(rows))'
  <2>1. /\ behind' = behind /\ UNCHANGED <<rows, inventory>>
        /\ call[c].at = "rows" /\ call[c].op # "scan"
    BY <1>4
  <2>2. /\ \A d \in Busy : call[d].alone
        /\ inventory.is = "whole"
        /\ (\A d \in Busy : call[d].at = "rows" /\ call[d].op # "scan") =>
              inventory.text = Render(rows)
    BY <1>4, <2>1 DEF FileInv
  <2>3. Busy = {c}
    BY <1>1, <2>2 DEF FileInv, AloneAtWork
  <2>4. Busy' = {}
    BY <1>1, <1>2, <2>3, BusyCallers, NodeIdle
  <2>5. Render(rows)' = Render(rows)
    BY <2>1 DEF Render
  <2> QED BY <2>1, <2>2, <2>3, <2>4, <2>5
<1> QED BY <1>3, <1>4 DEF FileInv

\* The list loses rows or marks them as seen, and nobody plans to add more.
LEMMA TwiceKept ==
    ASSUME TwiceInv, doubled \subseteq doubled',
           \A r, q \in rows' : r # q =>
              \E r0, q0 \in rows : /\ r0 # q0 /\ r0.host = r.host /\ r0.address = r.address
                                   /\ q0.host = q.host /\ q0.address = q.address,
           \A r \in rows' : \E r0 \in rows : r0.host = r.host /\ r0.address = r.address,
           \A d \in Callers : Adds(d)' =>
              /\ Adds(d) /\ call'[d].op = call[d].op /\ call'[d].entries = call[d].entries
    PROVE  TwiceInv'
<1>1. ASSUME NEW r \in rows'
      PROVE  MachineOf(r) \in doubled' \/ Located(r)
  <2>1. PICK r0 \in rows : r0.host = r.host /\ r0.address = r.address
    OBVIOUS
  <2>2. MachineOf(r0) \in doubled \/ Located(r0)
    BY DEF TwiceInv
  <2> QED BY <2>1, <2>2 DEF MachineOf, Located
<1>2. ASSUME NEW r \in rows', NEW q \in rows', r # q, Machine(r.host) = Machine(q.host)
      PROVE  Machine(r.host) \in doubled'
  <2>1. PICK r0, q0 \in rows : /\ r0 # q0 /\ r0.host = r.host /\ r0.address = r.address
                               /\ q0.host = q.host /\ q0.address = q.address
    BY <1>2
  <2> QED BY <1>2, <2>1 DEF TwiceInv, NoMachineTwice
<1>3. ASSUME NEW d \in Callers, Adds(d)'
      PROVE  /\ \A e, f \in call'[d].entries : MachineOf(e) = MachineOf(f) => e = f
             /\ call'[d].op = "add" => \E e \in NodeEntry : call'[d].entries = {e}
             /\ \A e \in call'[d].entries :
                   \/ MachineOf(e) \in doubled'
                   \/ Located(e) /\ (Listed(e.host)' \/ ~ListedMachine(MachineOf(e))')
  <2>1. Adds(d) /\ call'[d].op = call[d].op /\ call'[d].entries = call[d].entries
    BY <1>3
  <2>2. ASSUME NEW e \in call[d].entries, MachineOf(e) \notin doubled',
               ~Listed(e.host)', ListedMachine(MachineOf(e))'
        PROVE  FALSE
    <3>1. PICK r \in rows' : MachineOf(r) = MachineOf(e)
      BY <2>2 DEF ListedMachine
    <3>2. PICK r0 \in rows : r0.host = r.host
      OBVIOUS
    <3>3. MachineOf(r0) = MachineOf(e) /\ ListedMachine(MachineOf(e))
      BY <3>1, <3>2 DEF ListedMachine, MachineOf
    <3>4. Listed(e.host) /\ MachineOf(e) \notin doubled
      BY <2>1, <2>2, <3>3 DEF TwiceInv
    <3>5. PICK q0 \in rows : q0.host = e.host
      BY <3>4 DEF Listed
    <3>6. r.host # e.host
      BY <2>2 DEF Listed
    <3>7. q0 # r0 /\ Machine(q0.host) = Machine(r0.host)
      BY <3>2, <3>3, <3>5, <3>6 DEF MachineOf
    <3> QED BY <3>3, <3>4, <3>7 DEF TwiceInv, NoMachineTwice, MachineOf
  <2>3. ASSUME NEW e \in call[d].entries
        PROVE  MachineOf(e) \in doubled' \/ Located(e)
    BY <2>1, <2>3 DEF TwiceInv
  <2>4. /\ \A e, f \in call[d].entries : MachineOf(e) = MachineOf(f) => e = f
        /\ call[d].op = "add" => \E e \in NodeEntry : call[d].entries = {e}
    BY <2>1 DEF TwiceInv
  <2> QED BY <2>1, <2>2, <2>3, <2>4
<1>4. ASSUME NEW c \in Callers, NEW d \in Callers, c # d, Adds(c)', Adds(d)',
             NEW e \in call'[c].entries, NEW f \in call'[d].entries,
             MachineOf(e) = MachineOf(f)
      PROVE  MachineOf(e) \in doubled'
  <2>1. /\ Adds(c) /\ call'[c].entries = call[c].entries
        /\ Adds(d) /\ call'[d].entries = call[d].entries
    BY <1>4
  <2> QED BY <1>4, <2>1 DEF TwiceInv
<1> QED BY <1>1, <1>2, <1>3, <1>4 DEF TwiceInv, NoMachineTwice, MachineOf, Located

\* A planned entry becomes a row.
LEMMA TwiceAdded ==
    ASSUME TwiceInv, NEW c \in Callers, Adds(c), NEW e \in call[c].entries, ~Listed(e.host),
           NEW s, s.host = e.host, s.address = e.address,
           rows' = rows \union {s}, UNCHANGED doubled,
           \A d \in Callers \ {c} : call'[d] = call[d],
           Adds(c)' => call'[c].op = "scan" /\ call'[c].entries \subseteq call[c].entries
    PROVE  TwiceInv'
<1>1. MachineOf(s) = MachineOf(e) /\ (Located(s) <=> Located(e))
  BY DEF MachineOf, Located
<1>2. MachineOf(e) \in doubled \/ (Located(e) /\ ~ListedMachine(MachineOf(e)))
  BY DEF TwiceInv
<1>3. \A d \in Callers : Adds(d)' =>
         /\ Adds(d) /\ call'[d].entries \subseteq call[d].entries
         /\ call'[d].op = "add" => call'[d].op = call[d].op /\ call'[d].entries = call[d].entries
  <2>1. \A d \in Callers \ {c} : Adds(d)' => Adds(d)
    BY DEF Adds
  <2> QED BY <2>1
<1>4. ASSUME NEW r \in rows'
      PROVE  MachineOf(r) \in doubled' \/ Located(r)
  BY <1>1, <1>2 DEF TwiceInv
<1>5. ASSUME NEW r \in rows', NEW q \in rows', r # q, Machine(r.host) = Machine(q.host)
      PROVE  Machine(r.host) \in doubled'
  <2>1. CASE r \in rows /\ q \in rows
    BY <1>5, <2>1 DEF TwiceInv, NoMachineTwice
  <2>2. CASE r = s \/ q = s
    <3>1. (q \in rows \/ r \in rows) /\ MachineOf(r) = MachineOf(e) /\ MachineOf(q) = MachineOf(e)
      BY <1>1, <1>5, <2>2 DEF MachineOf
    <3>2. ListedMachine(MachineOf(e))
      BY <3>1 DEF ListedMachine
    <3> QED BY <1>2, <3>1, <3>2 DEF MachineOf
  <2> QED BY <2>1, <2>2
<1>6. ASSUME NEW d \in Callers, Adds(d)', NEW g \in call'[d].entries
      PROVE  \/ MachineOf(g) \in doubled'
             \/ Located(g) /\ (Listed(g.host)' \/ ~ListedMachine(MachineOf(g))')
  <2>1. Adds(d) /\ g \in call[d].entries
    BY <1>3, <1>6
  <2>2. \/ MachineOf(g) \in doubled
        \/ Located(g) /\ (Listed(g.host) \/ ~ListedMachine(MachineOf(g)))
    BY <2>1 DEF TwiceInv
  <2>3. Listed(g.host) => Listed(g.host)'
    BY DEF Listed
  <2>4. CASE MachineOf(g) = MachineOf(e)
    <3>1. CASE d = c
      <4>1. g = e
        BY <2>1, <2>4, <3>1 DEF TwiceInv
      <4>2. Listed(e.host)'
        BY DEF Listed
      <4> QED BY <2>2, <4>1, <4>2
    <3>2. CASE d # c
      BY <2>1, <2>4, <3>2 DEF TwiceInv
    <3> QED BY <3>1, <3>2
  <2>5. CASE MachineOf(g) # MachineOf(e)
    <3>1. ListedMachine(MachineOf(g))' => ListedMachine(MachineOf(g))
      BY <1>1, <2>5 DEF ListedMachine
    <3> QED BY <2>2, <2>3, <3>1
  <2> QED BY <2>4, <2>5
<1>7. ASSUME NEW d \in Callers, Adds(d)'
      PROVE  /\ \A g, h \in call'[d].entries : MachineOf(g) = MachineOf(h) => g = h
             /\ call'[d].op = "add" => \E g \in NodeEntry : call'[d].entries = {g}
  <2>1. /\ \A g, h \in call[d].entries : MachineOf(g) = MachineOf(h) => g = h
        /\ call[d].op = "add" => \E g \in NodeEntry : call[d].entries = {g}
    BY <1>3, <1>7 DEF TwiceInv
  <2> QED BY <1>3, <1>7, <2>1
<1>8. ASSUME NEW b \in Callers, NEW d \in Callers, b # d, Adds(b)', Adds(d)',
             NEW g \in call'[b].entries, NEW h \in call'[d].entries,
             MachineOf(g) = MachineOf(h)
      PROVE  MachineOf(g) \in doubled'
  <2>1. Adds(b) /\ g \in call[b].entries /\ Adds(d) /\ h \in call[d].entries
    BY <1>3, <1>8
  <2> QED BY <1>8, <2>1 DEF TwiceInv
<1> QED BY <1>4, <1>5, <1>6, <1>7, <1>8 DEF TwiceInv, NoMachineTwice, MachineOf, Located

\* What the calls begin with.
LEMMA CallsBegun ==
    ASSUME NEW es \in SUBSET NodeEntry
    PROVE  LET a == [Idle EXCEPT !.op = "add", !.at = "rows", !.entries = es]
               r == [Idle EXCEPT !.op = "remove", !.at = "rows", !.entries = es]
           IN /\ a \in NodeCalls /\ a.op = "add" /\ a.at = "rows" /\ a.entries = es
              /\ r \in NodeCalls /\ r.op = "remove" /\ r.at = "rows" /\ r.entries = es
BY NodeIdle DEF NodeCalls

LEMMA AddBegins ==
    ASSUME NodeTyped, NEW c \in Callers, NEW m \in Machines, NEW t \in Typed,
           Add(c, [host |-> <<m, t[1]>>, address |-> <<m, t[2]>>])
    PROVE  \E e \in NodeEntry, q \in NodeCalls :
              /\ e = [host |-> <<m, t[1]>>, address |-> <<m, t[2]>>]
              /\ q.op = "add" /\ q.at = "rows" /\ q.entries = {e}
              /\ StartCall(c, q) /\ Add(c, e)
<1> DEFINE e == [host |-> <<m, t[1]>>, address |-> <<m, t[2]>>]
<1>1. e \in NodeEntry
  BY NodeListAssumption DEF NodeListAssumption, NodeEntry, Spellings
<1> HIDE DEF e
<1>2. StartCall(c, [Idle EXCEPT !.op = "add", !.at = "rows", !.entries = {e}])
  <2>1. Add(c, e)
    BY DEF e
  <2> QED BY <2>1 DEF Add
<1> DEFINE q == [Idle EXCEPT !.op = "add", !.at = "rows", !.entries = {e}]
<1>3. q \in NodeCalls /\ q.op = "add" /\ q.at = "rows" /\ q.entries = {e}
  <2>1. {e} \in SUBSET NodeEntry
    BY <1>1
  <2> HIDE DEF q
  <2> QED BY <2>1, CallsBegun DEF q
<1> HIDE DEF q
<1>4. StartCall(c, q) /\ Add(c, e)
  BY <1>2 DEF q, e
<1> QED BY <1>1, <1>3, <1>4 DEF e

LEMMA RemoveBegins ==
    ASSUME NodeTyped, NEW c \in Callers, NEW r \in rows, Remove(c, r.host)
    PROVE  \E q \in NodeCalls :
              /\ q.op = "remove" /\ q.at = "rows"
              /\ StartCall(c, q) /\ UNCHANGED <<scans, doubled>>
<1> DEFINE es == {[host |-> r.host, address |-> r.host]}
           q == [Idle EXCEPT !.op = "remove", !.at = "rows", !.entries = es]
<1>1. es \in SUBSET NodeEntry
  BY DEF NodeTyped, NodeRows, NodeEntry
<1>2. StartCall(c, q) /\ UNCHANGED <<scans, doubled>>
  BY DEF Remove
<1> HIDE DEF es, q
<1>3. q \in NodeCalls /\ q.op = "remove" /\ q.at = "rows"
  BY <1>1, CallsBegun DEF q
<1> QED BY <1>2, <1>3

LEMMA ScanBegins ==
    ASSUME NodeTyped, NEW c \in Callers, Scan(c)
    PROVE  \E q \in NodeCalls, es \in SUBSET NodeEntry :
              /\ q.op = "scan" /\ q.at = "rows" /\ q.entries = es
              /\ \A e \in es : \E m \in joined :
                    /\ e = [host |-> Address(m), address |-> Address(m)]
                    /\ ~\E r \in rows : Knows(r, m)
              /\ StartCall(c, q) /\ scans' = scans + 1
              /\ doubled' = IF Busy = {} THEN doubled ELSE Machines
<1> DEFINE known == {m \in joined : \E r \in rows : Knows(r, m)}
           es == {[host |-> Address(m), address |-> Address(m)] : m \in joined \ known}
           ts == {Touched(m) : m \in known}
           q == [Idle EXCEPT !.op = "scan", !.at = "rows", !.stamp = scans + 1,
                    !.entries = es, !.touch = ts]
<1>1. es \in SUBSET NodeEntry
  BY DEF NodeTyped, NodeEntry, Address, Spellings
<1>2. ASSUME NEW m \in known
      PROVE  Touched(m) \in Spellings
  <2> DEFINE hosts == {r.host : r \in {p \in rows : Knows(p, m)}}
  <2>1. PICK r \in rows : Knows(r, m)
    OBVIOUS
  <2>2. r.host \in hosts /\ hosts \subseteq Spellings
    BY <2>1 DEF NodeTyped, NodeRows
  <2>3. Touched(m) = IF Address(m) \in hosts THEN Address(m) ELSE CHOOSE h \in hosts : TRUE
    BY DEF Touched
  <2> HIDE DEF hosts
  <2>4. (CHOOSE h \in hosts : TRUE) \in hosts
    BY <2>2
  <2> QED BY <2>2, <2>3, <2>4
<1>3. ts \in SUBSET Spellings
  BY <1>2
<1>4. \A e \in es : \E m \in joined :
         /\ e = [host |-> Address(m), address |-> Address(m)]
         /\ ~\E r \in rows : Knows(r, m)
  OBVIOUS
<1>5. StartCall(c, q) /\ scans' = scans + 1 /\ doubled' = IF Busy = {} THEN doubled ELSE Machines
  BY DEF Scan
<1> HIDE DEF known, es, ts, q
<1>6. q \in NodeCalls /\ q.op = "scan" /\ q.at = "rows" /\ q.entries = es
  <2>1. PICK n \in Nat : n = scans + 1
    BY DEF NodeTyped
  <2> QED BY <1>1, <1>3, <2>1, NodeIdle DEF q, NodeCalls
<1> QED BY <1>1, <1>4, <1>5, <1>6

LEMMA CallSet ==
    ASSUME NodeTyped, NEW c \in Callers, NEW q \in NodeCalls,
           call' = [call EXCEPT ![c] = q],
           rows' \subseteq NodeRows, IsFiniteSet(rows'),
           joined' = joined, scans' = scans, behind' \in BOOLEAN
    PROVE  NodeTyped'
BY DEF NodeTyped

\* What the one who adds has to add.
LEMMA AddPlanned ==
    ASSUME NodeTyped, TwiceInv, NEW c \in Callers, call[c].op = "add", call[c].at = "rows"
    PROVE  /\ (CHOOSE e \in call[c].entries : TRUE) \in call[c].entries
           /\ call[c].entries \subseteq NodeEntry
<1>1. PICK e \in NodeEntry : call[c].entries = {e}
  BY DEF TwiceInv, Adds
<1> QED BY <1>1

\* The steps of a call on the rows.
LEMMA RowStepsTyped ==
    ASSUME NodeTyped, TwiceInv, NEW c \in Callers,
           RepositoryAdd(c) \/ RepositoryRemove(c) \/ ScanAdds(c) \/ ScanTouches(c)
    PROVE  NodeTyped'
<1>1. /\ call[c] \in NodeCalls /\ rows \subseteq NodeRows /\ IsFiniteSet(rows)
      /\ behind \in BOOLEAN
  BY DEF NodeTyped
<1>2. PICK q \in NodeCalls : q = call[c]
  BY <1>1
<1>3. CASE RepositoryAdd(c)
  <2>1. PICK e \in NodeEntry : e = CHOOSE f \in call[c].entries : TRUE
    BY <1>3, AddPlanned DEF RepositoryAdd
  <2>2. /\ joined' = joined /\ scans' = scans /\ behind' = behind
        /\ \/ call' = [call EXCEPT ![c] = Idle] /\ rows' = rows
           \/ /\ rows' = rows \union {Row(e, Never)}
              /\ call' = [call EXCEPT ![c] = [call[c] EXCEPT !.at = "read", !.entries = {}]]
    BY <1>3, <2>1 DEF RepositoryAdd, Set
  <2>3. [q EXCEPT !.at = "read", !.entries = {}] \in NodeCalls
    BY DEF NodeCalls
  <2>4. Row(e, Never) \in NodeRows
    BY <2>1 DEF Row, Never, NodeEntry, NodeRows
  <2>5. IsFiniteSet(rows \union {Row(e, Never)})
    BY <1>1, FS_AddElement
  <2>6. rows' \subseteq NodeRows /\ IsFiniteSet(rows')
    BY <1>1, <2>2, <2>4, <2>5
  <2> QED BY <1>1, <1>2, <2>2, <2>3, <2>6, NodeIdle, CallSet
<1>4. CASE RepositoryRemove(c)
  <2>1. /\ joined' = joined /\ scans' = scans /\ behind' = behind
        /\ rows' \subseteq rows
        /\ \/ call' = [call EXCEPT ![c] = Idle]
           \/ call' = [call EXCEPT ![c] = [call[c] EXCEPT !.at = "read", !.entries = {}]]
    BY <1>4 DEF RepositoryRemove, Set
  <2>2. [q EXCEPT !.at = "read", !.entries = {}] \in NodeCalls
    BY DEF NodeCalls
  <2>3. rows' \subseteq NodeRows /\ IsFiniteSet(rows')
    BY <1>1, <2>1, FS_Subset
  <2> QED BY <1>1, <1>2, <2>1, <2>2, <2>3, NodeIdle, CallSet
<1>5. CASE ScanAdds(c)
  <2>1. PICK e \in call[c].entries :
           \/ Listed(e.host) /\ Fails(c)
           \/ /\ rows' = rows \union {Row(e, call[c].stamp)}
              /\ \E again \in {FALSE, Machine(e.host) \in Twins} :
                    Set(c, [call[c] EXCEPT !.entries = IF again THEN @ ELSE @ \ {e}])
              /\ UNCHANGED <<joined, File, scans, behind, doubled>>
    BY <1>5 DEF ScanAdds
  <2>2. CASE Fails(c)
    <3>1. /\ joined' = joined /\ scans' = scans /\ behind' = TRUE /\ rows' = rows
          /\ call' = [call EXCEPT ![c] = Idle]
      BY <2>2 DEF Fails, Set
    <3> QED BY <1>1, <3>1, NodeIdle, CallSet
  <2>3. CASE ~Fails(c)
    <3>1. PICK left \in SUBSET NodeEntry :
             /\ rows' = rows \union {Row(e, call[c].stamp)}
             /\ call' = [call EXCEPT ![c] = [call[c] EXCEPT !.entries = left]]
             /\ joined' = joined /\ scans' = scans /\ behind' = behind
      <4>1. PICK again \in BOOLEAN :
               call' = [call EXCEPT ![c] =
                          [call[c] EXCEPT !.entries = IF again THEN @ ELSE @ \ {e}]]
        BY <2>1, <2>3 DEF Set
      <4>2. CASE again
        <5>1. call' = [call EXCEPT ![c] = [call[c] EXCEPT !.entries = call[c].entries]]
          BY <4>1, <4>2
        <5>2. call[c].entries \in SUBSET NodeEntry
          BY <1>1 DEF NodeCalls
        <5> QED BY <2>1, <2>3, <5>1, <5>2
      <4>3. CASE ~again
        <5>1. call' = [call EXCEPT ![c] = [call[c] EXCEPT !.entries = call[c].entries \ {e}]]
          BY <4>1, <4>3
        <5>2. (call[c].entries \ {e}) \in SUBSET NodeEntry
          BY <1>1 DEF NodeCalls
        <5> QED BY <2>1, <2>3, <5>1, <5>2
      <4> QED BY <4>2, <4>3
    <3>2. [q EXCEPT !.entries = left] \in NodeCalls
      BY DEF NodeCalls
    <3>3. Row(e, call[c].stamp) \in NodeRows
      BY <1>1, <2>1 DEF Row, NodeEntry, NodeRows, NodeCalls
    <3>4. rows' \subseteq NodeRows /\ IsFiniteSet(rows')
      BY <1>1, <3>1, <3>3, FS_AddElement
    <3> QED BY <1>1, <1>2, <3>1, <3>2, <3>4, CallSet
  <2> QED BY <2>2, <2>3
<1>6. CASE ScanTouches(c)
  <2> DEFINE seen == [r \in rows |->
                 IF r.host \in call[c].touch THEN [r EXCEPT !.seen = call[c].stamp] ELSE r]
             after == {seen[r] : r \in rows}
  <2>1. /\ joined' = joined /\ scans' = scans /\ behind' = behind
        /\ rows' = after
        /\ call' = [call EXCEPT ![c] = [call[c] EXCEPT !.at = "read", !.touch = {}]]
    BY <1>6 DEF ScanTouches, Set
  <2>2. [q EXCEPT !.at = "read", !.touch = {}] \in NodeCalls
    BY DEF NodeCalls
  <2>3. after \subseteq NodeRows
    BY <1>1 DEF NodeRows, NodeCalls
  <2>4. seen \in Surjection(rows, after)
    BY DEF Surjection
  <2> HIDE DEF seen, after
  <2>5. IsFiniteSet(after)
    BY <1>1, <2>4, FS_Surjection
  <2> QED BY <1>1, <1>2, <2>1, <2>2, <2>3, <2>5, CallSet
<1> QED BY <1>3, <1>4, <1>5, <1>6

\* The other steps.
LEMMA NodeTypedKept ==
    ASSUME NodeTyped, TwiceInv, NodeNext
    PROVE  NodeTyped'
<1>1. /\ rows \subseteq NodeRows /\ IsFiniteSet(rows)
      /\ behind \in BOOLEAN /\ scans \in Nat /\ joined \subseteq Machines
      /\ call \in [Callers -> NodeCalls]
  BY DEF NodeTyped
<1>2. ASSUME NEW c \in Callers, NEW q \in NodeCalls, q.at = "rows", StartCall(c, q),
             scans' \in Nat
      PROVE  NodeTyped'
  <2>1. call' \in [Callers -> NodeCalls] /\ behind' \in BOOLEAN /\ UNCHANGED <<rows, joined>>
    BY <1>2, CallBegins
  <2> QED BY <1>1, <1>2, <2>1 DEF NodeTyped
<1>3. ASSUME NEW c \in Callers, NEW q \in NodeCalls,
             call' = [call EXCEPT ![c] = q], UNCHANGED <<rows, joined, scans>>,
             behind' \in BOOLEAN
      PROVE  NodeTyped'
  BY <1>1, <1>3, CallSet
<1>4. ASSUME NEW c \in Callers, NEW m \in Machines, NEW t \in Typed,
             Add(c, [host |-> <<m, t[1]>>, address |-> <<m, t[2]>>])
      PROVE  NodeTyped'
  <2>1. scans' = scans
    BY <1>4 DEF Add
  <2> QED BY <1>1, <1>2, <1>4, <2>1, AddBegins
<1>5. ASSUME NEW c \in Callers, NEW r \in rows, Remove(c, r.host)
      PROVE  NodeTyped'
  BY <1>1, <1>2, <1>5, RemoveBegins
<1>6. ASSUME NEW c \in Callers, Scan(c)
      PROVE  NodeTyped'
  <2>1. scans' = scans + 1
    BY <1>6 DEF Scan
  <2> QED BY <1>1, <1>2, <1>6, <2>1, ScanBegins
<1>7. ASSUME NEW c \in Callers, CallSteps(c)
      PROVE  NodeTyped'
  <2>1. PICK q \in NodeCalls : q = call[c]
    BY <1>1
  <2>2. CASE RepositoryAdd(c) \/ RepositoryRemove(c) \/ ScanAdds(c) \/ ScanTouches(c)
    BY <2>2, RowStepsTyped
  <2>3. CASE ReadRows(c)
    <3>1. PICK v \in SUBSET NodeEntry : v = Render(rows)
      BY RenderTyped
    <3>2. [q EXCEPT !.at = "open", !.view = v] \in NodeCalls
      BY DEF NodeCalls
    <3>3. /\ call' = [call EXCEPT ![c] = [q EXCEPT !.at = "open", !.view = v]]
          /\ UNCHANGED <<rows, joined, scans, behind>>
      BY <2>1, <2>3, <3>1 DEF ReadRows, Set, Read, Quiet
    <3> QED BY <1>1, <1>3, <3>2, <3>3
  <2>4. CASE OpenTemporary(c)
    <3>1. [q EXCEPT !.at = "write", !.handle = "temporary"] \in NodeCalls
      BY DEF NodeCalls
    <3>2. /\ call' = [call EXCEPT ![c] = [q EXCEPT !.at = "write", !.handle = "temporary"]]
          /\ UNCHANGED <<rows, joined, scans, behind>>
      BY <2>1, <2>4 DEF OpenTemporary, Set, Quiet
    <3> QED BY <1>1, <1>3, <3>1, <3>2
  <2>5. CASE WriteText(c)
    <3>1. [q EXCEPT !.at = "replace"] \in NodeCalls
      BY DEF NodeCalls
    <3>2. /\ call' = [call EXCEPT ![c] = [q EXCEPT !.at = "replace"]]
          /\ UNCHANGED <<rows, joined, scans, behind>>
      BY <2>1, <2>5 DEF WriteText, Set, Quiet
    <3> QED BY <1>1, <1>3, <3>1, <3>2
  <2>6. CASE Replace(c)
    <3>1. CASE Fails(c)
      <4>1. /\ call' = [call EXCEPT ![c] = Idle] /\ behind' = TRUE
            /\ UNCHANGED <<rows, joined, scans>>
        BY <3>1 DEF Fails, Set
      <4> QED BY <1>3, <4>1, NodeIdle
    <3>2. CASE ~Fails(c)
      <4>1. /\ call' = [d \in Callers |->
                 IF d = c THEN Idle ELSE [call[d] EXCEPT !.handle = Moved(@)]]
            /\ behind' = (behind /\ ~call[c].alone)
            /\ UNCHANGED <<rows, joined, scans>>
        BY <2>6, <3>2 DEF Replace
      <4>2. ASSUME NEW d \in Callers
            PROVE  [call[d] EXCEPT !.handle = Moved(@)] \in NodeCalls
        <5>1. PICK p \in NodeCalls : p = call[d]
          BY <1>1
        <5>2. Moved(p.handle) \in {"none", "temporary", "inventory", "gone"}
          BY DEF NodeCalls, Moved
        <5>3. PICK h \in {"none", "temporary", "inventory", "gone"} : h = Moved(p.handle)
          BY <5>2
        <5>4. [p EXCEPT !.handle = h] \in NodeCalls
          BY DEF NodeCalls
        <5> QED BY <5>1, <5>3, <5>4
      <4>3. call' \in [Callers -> NodeCalls]
        BY <4>1, <4>2, NodeIdle
      <4> QED BY <1>1, <4>1, <4>3 DEF NodeTyped
    <3> QED BY <3>1, <3>2
  <2> QED BY <1>7, <2>2, <2>3, <2>4, <2>5, <2>6 DEF CallSteps
<1>8. ASSUME NEW c \in Callers, CallFails(c)
      PROVE  NodeTyped'
  <2>1. /\ call' = [call EXCEPT ![c] = Idle] /\ behind' = TRUE
        /\ UNCHANGED <<rows, joined, scans>>
    BY <1>8 DEF CallFails, Fails, Set
  <2> QED BY <1>3, <2>1, NodeIdle
<1>9. CASE ApiRestarts
  BY <1>1, <1>9, NodeIdle DEF ApiRestarts, NodeTyped
<1>10. ASSUME NEW m \in Machines, Import(m)
       PROVE  NodeTyped'
  <2>1. PICK s \in NodeRows : /\ rows' = rows \union {s}
                              /\ UNCHANGED <<joined, call, scans>> /\ behind' = TRUE
    BY <1>10 DEF Import, Row, Never, Name, Address, NodeRows, Spellings
  <2>2. IsFiniteSet(rows \union {s})
    BY <1>1, FS_AddElement
  <2> QED BY <1>1, <2>1, <2>2 DEF NodeTyped
<1>11. ASSUME NEW m \in Machines, MachineJoins(m)
       PROVE  NodeTyped'
  BY <1>1, <1>11 DEF MachineJoins, NodeTyped
<1> QED BY <1>4, <1>5, <1>6, <1>7, <1>8, <1>9, <1>10, <1>11 DEF NodeNext

\* A call that begins plans nothing else, or something of its own.
LEMMA TwiceBegins ==
    ASSUME NodeTyped, TwiceInv, NEW c \in Callers, NEW q \in NodeCalls,
           q.at = "rows", StartCall(c, q), doubled \subseteq doubled',
           q.op \in {"add", "scan"} =>
              /\ \A e, f \in q.entries : MachineOf(e) = MachineOf(f) => e = f
              /\ q.op = "add" => \E e \in NodeEntry : q.entries = {e}
              /\ \A e \in q.entries :
                    \/ MachineOf(e) \in doubled'
                    \/ Located(e) /\ ~ListedMachine(MachineOf(e))
              /\ Busy # {} => \A e \in q.entries : MachineOf(e) \in doubled'
    PROVE  TwiceInv'
<1>1. /\ call'[c].op = q.op /\ call'[c].at = "rows" /\ call'[c].entries = q.entries
      /\ \A d \in Callers \ {c} :
            /\ call'[d].op = call[d].op /\ call'[d].at = call[d].at
            /\ call'[d].entries = call[d].entries
      /\ rows' = rows
  BY CallBegins
<1>2. /\ \A r \in rows : MachineOf(r) \in doubled' \/ Located(r)
      /\ \A r, s \in rows : r # s /\ Machine(r.host) = Machine(s.host) =>
            Machine(r.host) \in doubled'
  BY DEF TwiceInv, NoMachineTwice
<1>3. ASSUME NEW d \in Callers, Adds(d)'
      PROVE  /\ \A e, f \in call'[d].entries : MachineOf(e) = MachineOf(f) => e = f
             /\ call'[d].op = "add" => \E e \in NodeEntry : call'[d].entries = {e}
             /\ \A e \in call'[d].entries :
                   \/ MachineOf(e) \in doubled'
                   \/ Located(e) /\ (Listed(e.host)' \/ ~ListedMachine(MachineOf(e))')
  <2>1. \A m : ListedMachine(m)' <=> ListedMachine(m)
    BY <1>1 DEF ListedMachine
  <2>2. \A h : Listed(h)' <=> Listed(h)
    BY <1>1 DEF Listed
  <2>3. CASE d = c
    <3>1. q.op \in {"add", "scan"}
      BY <1>1, <1>3, <2>3 DEF Adds
    <3> QED BY <1>1, <2>1, <2>3, <3>1
  <2>4. CASE d # c
    <3>1. Adds(d)
      BY <1>1, <1>3, <2>4 DEF Adds
    <3>2. /\ \A e, f \in call[d].entries : MachineOf(e) = MachineOf(f) => e = f
          /\ call[d].op = "add" => \E e \in NodeEntry : call[d].entries = {e}
          /\ \A e \in call[d].entries :
                \/ MachineOf(e) \in doubled
                \/ Located(e) /\ (Listed(e.host) \/ ~ListedMachine(MachineOf(e)))
      BY <3>1 DEF TwiceInv
    <3> QED BY <1>1, <2>1, <2>2, <2>4, <3>2
  <2> QED BY <2>3, <2>4
<1>4. ASSUME NEW b \in Callers, NEW d \in Callers, b # d, Adds(b)', Adds(d)',
             NEW g \in call'[b].entries, NEW h \in call'[d].entries,
             MachineOf(g) = MachineOf(h)
      PROVE  MachineOf(g) \in doubled'
  <2>1. ASSUME NEW o \in Callers \ {c}, Adds(o)'
        PROVE  Adds(o) /\ call'[o].entries = call[o].entries /\ Busy # {}
    <3>1. Adds(o) /\ call'[o].entries = call[o].entries
      BY <1>1, <2>1 DEF Adds
    <3>2. o \in Busy
      BY <3>1, BusyCallers DEF Adds
    <3> QED BY <3>1, <3>2
  <2>2. CASE b # c /\ d # c
    BY <1>4, <2>1, <2>2 DEF TwiceInv
  <2>3. CASE b = c
    <3>1. Busy # {} /\ q.op \in {"add", "scan"} /\ g \in q.entries
      BY <1>1, <1>4, <2>1, <2>3 DEF Adds
    <3> QED BY <3>1
  <2>4. CASE d = c
    <3>1. Busy # {} /\ q.op \in {"add", "scan"} /\ h \in q.entries
      BY <1>1, <1>4, <2>1, <2>4 DEF Adds
    <3> QED BY <1>4, <3>1
  <2> QED BY <2>2, <2>3, <2>4
<1> QED BY <1>1, <1>2, <1>3, <1>4 DEF TwiceInv, NoMachineTwice, MachineOf, Located

\* Nothing is added, and no call has more to add than before.
LEMMA TwiceRests ==
    ASSUME TwiceInv, rows' = rows, doubled' = doubled,
           \A d \in Callers : call'[d].at = "rows" =>
              call'[d].op = call[d].op /\ call'[d].at = call[d].at
              /\ call'[d].entries = call[d].entries
    PROVE  TwiceInv'
<1>1. \A d \in Callers : Adds(d)' =>
         Adds(d) /\ call'[d].op = call[d].op /\ call'[d].entries = call[d].entries
  BY DEF Adds
<1> QED BY <1>1, TwiceKept

LEMMA RowStepsOnce ==
    ASSUME NodeTyped, TwiceInv, NEW c \in Callers,
           RepositoryAdd(c) \/ RepositoryRemove(c) \/ ScanAdds(c) \/ ScanTouches(c)
    PROVE  TwiceInv'
<1>1. /\ call \in [Callers -> NodeCalls] /\ rows \subseteq NodeRows
  BY DEF NodeTyped
<1>2. ASSUME call' = [call EXCEPT ![c] = Idle], rows' = rows, doubled' = doubled
      PROVE  TwiceInv'
  <2>1. /\ call'[c] = Idle
        /\ \A d \in Callers \ {c} : call'[d] = call[d]
    BY <1>1, <1>2
  <2> QED BY <1>2, <2>1, NodeIdle, TwiceRests
<1>3. \A q \in NodeCalls : /\ [q EXCEPT !.at = "read", !.entries = {}].at = "read"
                           /\ [q EXCEPT !.at = "read", !.touch = {}].at = "read"
  BY DEF NodeCalls
<1>4. CASE RepositoryAdd(c)
  <2> DEFINE e == CHOOSE f \in call[c].entries : TRUE
  <2>1. e \in call[c].entries /\ Adds(c)
    BY <1>4, AddPlanned DEF RepositoryAdd, Adds
  <2>2. \/ call' = [call EXCEPT ![c] = Idle] /\ rows' = rows /\ doubled' = doubled
        \/ /\ ~Listed(e.host) /\ rows' = rows \union {Row(e, Never)} /\ doubled' = doubled
           /\ call' = [call EXCEPT ![c] = [call[c] EXCEPT !.at = "read", !.entries = {}]]
    BY <1>4 DEF RepositoryAdd, Set
  <2> HIDE DEF e
  <2>3. ASSUME ~Listed(e.host), rows' = rows \union {Row(e, Never)}, doubled' = doubled,
               call' = [call EXCEPT ![c] = [call[c] EXCEPT !.at = "read", !.entries = {}]]
        PROVE  TwiceInv'
    <3>1. PICK f \in call[c].entries : f = e
      BY <2>1
    <3>2. PICK s : s = Row(f, Never)
      OBVIOUS
    <3>3. s.host = f.host /\ s.address = f.address
      BY <3>2 DEF Row
    <3>4. call'[c].at = "read" /\ \A d \in Callers \ {c} : call'[d] = call[d]
      BY <1>1, <1>3, <2>3
    <3>5. ~Adds(c)'
      BY <3>4 DEF Adds
    <3> QED BY <2>1, <2>3, <3>1, <3>2, <3>3, <3>4, <3>5, TwiceAdded
  <2> QED BY <1>2, <2>2, <2>3
<1>5. CASE RepositoryRemove(c)
  <2>1. \/ call' = [call EXCEPT ![c] = Idle] /\ rows' = rows /\ doubled' = doubled
        \/ /\ rows' \subseteq rows /\ doubled' = doubled
           /\ call' = [call EXCEPT ![c] = [call[c] EXCEPT !.at = "read", !.entries = {}]]
    BY <1>5 DEF RepositoryRemove, Set
  <2>2. ASSUME rows' \subseteq rows, doubled' = doubled,
               call' = [call EXCEPT ![c] = [call[c] EXCEPT !.at = "read", !.entries = {}]]
        PROVE  TwiceInv'
    <3>1. call'[c].at = "read" /\ \A d \in Callers \ {c} : call'[d] = call[d]
      BY <1>1, <1>3, <2>2
    <3>2. \A d \in Callers : Adds(d)' =>
             Adds(d) /\ call'[d].op = call[d].op /\ call'[d].entries = call[d].entries
      BY <3>1 DEF Adds
    <3>3. /\ \A r, q \in rows' : r # q =>
                \E r0, q0 \in rows : /\ r0 # q0 /\ r0.host = r.host /\ r0.address = r.address
                                     /\ q0.host = q.host /\ q0.address = q.address
          /\ \A r \in rows' : \E r0 \in rows : r0.host = r.host /\ r0.address = r.address
      BY <2>2
    <3> QED BY <2>2, <3>2, <3>3, TwiceKept
  <2> QED BY <1>2, <2>1, <2>2
<1>6. CASE ScanAdds(c)
  <2>1. PICK e \in call[c].entries :
           \/ Listed(e.host) /\ Fails(c)
           \/ /\ ~Listed(e.host)
              /\ rows' = rows \union {Row(e, call[c].stamp)}
              /\ \E again \in {FALSE, Machine(e.host) \in Twins} :
                    Set(c, [call[c] EXCEPT !.entries = IF again THEN @ ELSE @ \ {e}])
              /\ UNCHANGED <<joined, File, scans, behind, doubled>>
    BY <1>6 DEF ScanAdds
  <2>2. CASE Fails(c)
    <3>1. call' = [call EXCEPT ![c] = Idle] /\ rows' = rows /\ doubled' = doubled
      BY <2>2 DEF Fails, Set
    <3> QED BY <1>2, <3>1
  <2>3. CASE ~Fails(c)
    <3>1. PICK again \in BOOLEAN :
             call' = [call EXCEPT ![c] =
                        [call[c] EXCEPT !.entries = IF again THEN @ ELSE @ \ {e}]]
      BY <2>1, <2>3 DEF Set
    <3>2. PICK left : left = IF again THEN call[c].entries ELSE call[c].entries \ {e}
      OBVIOUS
    <3>3. \A q \in NodeCalls : /\ [q EXCEPT !.entries = left].entries = left
                               /\ [q EXCEPT !.entries = left].op = q.op
      BY DEF NodeCalls
    <3>4. /\ call'[c].entries = left /\ call'[c].op = "scan"
          /\ \A d \in Callers \ {c} : call'[d] = call[d]
      <4>1. call'[c] = [call[c] EXCEPT !.entries = left]
        BY <1>1, <3>1, <3>2
      <4>2. \A d \in Callers \ {c} : call'[d] = call[d]
        BY <1>1, <3>1
      <4> QED BY <1>1, <1>6, <3>3, <4>1, <4>2 DEF ScanAdds
    <3>5. PICK s : s = Row(e, call[c].stamp)
      OBVIOUS
    <3>6. s.host = e.host /\ s.address = e.address
      BY <3>5 DEF Row
    <3>7. Adds(c) /\ ~Listed(e.host) /\ rows' = rows \union {s} /\ doubled' = doubled
      BY <1>6, <2>1, <2>3, <3>5 DEF ScanAdds, Adds
    <3>8. call'[c].entries \subseteq call[c].entries
      BY <3>2, <3>4
    <3> QED BY <3>4, <3>6, <3>7, <3>8, TwiceAdded
  <2> QED BY <2>2, <2>3
<1>7. CASE ScanTouches(c)
  <2> DEFINE seen(r) == IF r.host \in call[c].touch THEN [r EXCEPT !.seen = call[c].stamp] ELSE r
  <2>1. /\ rows' = {seen(r) : r \in rows} /\ doubled' = doubled
        /\ call' = [call EXCEPT ![c] = [call[c] EXCEPT !.at = "read", !.touch = {}]]
    BY <1>7 DEF ScanTouches, Set
  <2>2. \A r \in rows : seen(r).host = r.host /\ seen(r).address = r.address
    BY <1>1 DEF NodeRows
  <2> HIDE DEF seen
  <2>3. call'[c].at = "read" /\ \A d \in Callers \ {c} : call'[d] = call[d]
    BY <1>1, <1>3, <2>1
  <2>4. \A d \in Callers : Adds(d)' =>
           Adds(d) /\ call'[d].op = call[d].op /\ call'[d].entries = call[d].entries
    BY <2>3 DEF Adds
  <2>5. /\ \A r, q \in rows' : r # q =>
              \E r0, q0 \in rows : /\ r0 # q0 /\ r0.host = r.host /\ r0.address = r.address
                                   /\ q0.host = q.host /\ q0.address = q.address
        /\ \A r \in rows' : \E r0 \in rows : r0.host = r.host /\ r0.address = r.address
    BY <2>1, <2>2
  <2> QED BY <2>1, <2>4, <2>5, TwiceKept
<1> QED BY <1>4, <1>5, <1>6, <1>7

LEMMA TwiceInvKept ==
    ASSUME NodeTyped, TwiceInv, doubled \subseteq Machines, NodeNext
    PROVE  TwiceInv'
<1>1. call \in [Callers -> NodeCalls] /\ rows \subseteq NodeRows /\ joined \subseteq Machines
  BY DEF NodeTyped
<1>2. ASSUME NEW c \in Callers, NEW q \in NodeCalls,
             call' = [call EXCEPT ![c] = q], q.at # "rows", UNCHANGED <<rows, doubled>>
      PROVE  TwiceInv'
  <2>1. call'[c] = q /\ \A d \in Callers \ {c} : call'[d] = call[d]
    BY <1>1, <1>2
  <2> QED BY <1>2, <2>1, TwiceRests
<1>3. ASSUME NEW c \in Callers, Fails(c)
      PROVE  TwiceInv'
  BY <1>2, <1>3, NodeIdle DEF Fails, Set
<1>4. ASSUME NEW c \in Callers, NEW m \in Machines, NEW t \in Typed,
             Add(c, [host |-> <<m, t[1]>>, address |-> <<m, t[2]>>])
      PROVE  TwiceInv'
  <2>1. PICK e \in NodeEntry, q \in NodeCalls :
           /\ q.op = "add" /\ q.at = "rows" /\ q.entries = {e}
           /\ StartCall(c, q) /\ Add(c, e)
    BY <1>4, AddBegins
  <2>2. doubled \subseteq doubled'
    BY <2>1 DEF Add
  <2>3. \/ MachineOf(e) \in doubled'
        \/ Located(e) /\ ~ListedMachine(MachineOf(e)) /\ Busy = {}
    BY <2>1 DEF Add, MachineOf, Located, ListedMachine
  <2> QED BY <2>1, <2>2, <2>3, TwiceBegins
<1>5. ASSUME NEW c \in Callers, NEW r \in rows, Remove(c, r.host)
      PROVE  TwiceInv'
  <2>1. PICK q \in NodeCalls : /\ q.op = "remove" /\ q.at = "rows"
                               /\ StartCall(c, q) /\ UNCHANGED <<scans, doubled>>
    BY <1>5, RemoveBegins
  <2> QED BY <2>1, TwiceBegins
<1>6. ASSUME NEW c \in Callers, Scan(c)
      PROVE  TwiceInv'
  <2>1. PICK q \in NodeCalls, es \in SUBSET NodeEntry :
           /\ q.op = "scan" /\ q.at = "rows" /\ q.entries = es
           /\ \A e \in es : \E m \in joined :
                 /\ e = [host |-> Address(m), address |-> Address(m)]
                 /\ ~\E r \in rows : Knows(r, m)
           /\ StartCall(c, q)
           /\ doubled' = IF Busy = {} THEN doubled ELSE Machines
    BY <1>6, ScanBegins
  <2>2. \A e \in es : \E m \in joined :
           /\ e = [host |-> Address(m), address |-> Address(m)] /\ MachineOf(e) = m
           /\ Located(e) /\ ~\E r \in rows : Knows(r, m)
    BY <2>1 DEF Address, MachineOf, Machine, Located
  <2>3. ASSUME NEW e \in es
        PROVE  MachineOf(e) \in doubled' \/ (Located(e) /\ ~ListedMachine(MachineOf(e)))
    <3>1. PICK m \in joined : /\ MachineOf(e) = m /\ Located(e)
                              /\ ~\E r \in rows : Knows(r, m)
      BY <2>2
    <3>2. ASSUME NEW r \in rows, MachineOf(r) = m
          PROVE  m \in doubled
      <4>1. ~Located(r)
        BY <3>1, <3>2 DEF Knows, Located
      <4> QED BY <3>2, <4>1 DEF TwiceInv
    <3>3. m \in Machines
      BY <1>1
    <3> QED BY <2>1, <3>1, <3>2, <3>3 DEF ListedMachine
  <2>4. \A e, f \in es : MachineOf(e) = MachineOf(f) => e = f
    BY <2>2
  <2>5. doubled \subseteq doubled'
    BY <2>1
  <2>6. Busy # {} => \A e \in es : MachineOf(e) \in doubled'
    BY <1>1, <2>1, <2>2
  <2> QED BY <2>1, <2>3, <2>4, <2>5, <2>6, TwiceBegins
<1>7. ASSUME NEW c \in Callers, CallSteps(c)
      PROVE  TwiceInv'
  <2>1. PICK q \in NodeCalls : q = call[c]
    BY <1>1
  <2>2. CASE RepositoryAdd(c) \/ RepositoryRemove(c) \/ ScanAdds(c) \/ ScanTouches(c)
    BY <2>2, RowStepsOnce
  <2>3. CASE ReadRows(c)
    <3>1. PICK v \in SUBSET NodeEntry : v = Render(rows)
      BY RenderTyped
    <3>2. /\ [q EXCEPT !.at = "open", !.view = v] \in NodeCalls
          /\ [q EXCEPT !.at = "open", !.view = v].at = "open"
      BY DEF NodeCalls
    <3>3. /\ call' = [call EXCEPT ![c] = [q EXCEPT !.at = "open", !.view = v]]
          /\ UNCHANGED <<rows, doubled>>
      BY <2>1, <2>3, <3>1 DEF ReadRows, Set, Read, Quiet
    <3> QED BY <1>2, <3>2, <3>3
  <2>4. CASE OpenTemporary(c)
    <3>1. /\ [q EXCEPT !.at = "write", !.handle = "temporary"] \in NodeCalls
          /\ [q EXCEPT !.at = "write", !.handle = "temporary"].at = "write"
      BY DEF NodeCalls
    <3>2. /\ call' = [call EXCEPT ![c] = [q EXCEPT !.at = "write", !.handle = "temporary"]]
          /\ UNCHANGED <<rows, doubled>>
      BY <2>1, <2>4 DEF OpenTemporary, Set, Quiet
    <3> QED BY <1>2, <3>1, <3>2
  <2>5. CASE WriteText(c)
    <3>1. /\ [q EXCEPT !.at = "replace"] \in NodeCalls
          /\ [q EXCEPT !.at = "replace"].at = "replace"
      BY DEF NodeCalls
    <3>2. /\ call' = [call EXCEPT ![c] = [q EXCEPT !.at = "replace"]]
          /\ UNCHANGED <<rows, doubled>>
      BY <2>1, <2>5 DEF WriteText, Set, Quiet
    <3> QED BY <1>2, <3>1, <3>2
  <2>6. CASE Replace(c) /\ ~Fails(c)
    <3>1. /\ call' = [d \in Callers |->
                 IF d = c THEN Idle ELSE [call[d] EXCEPT !.handle = Moved(@)]]
          /\ UNCHANGED <<rows, doubled>>
      BY <2>6 DEF Replace
    <3>2. \A p \in NodeCalls : \A h : LET k == [p EXCEPT !.handle = h] IN
             k.at = p.at /\ k.op = p.op /\ k.entries = p.entries
      BY DEF NodeCalls
    <3>3. ASSUME NEW d \in Callers \ {c}
          PROVE  /\ call'[d].at = call[d].at /\ call'[d].op = call[d].op
                 /\ call'[d].entries = call[d].entries
      <4>1. PICK h : h = Moved(call[d].handle)
        OBVIOUS
      <4>2. call'[d] = [call[d] EXCEPT !.handle = h]
        BY <3>1, <4>1
      <4> QED BY <1>1, <3>2, <4>2
    <3>4. call'[c] = Idle
      BY <3>1
    <3> QED BY <3>1, <3>3, <3>4, NodeIdle, TwiceRests
  <2>7. CASE Fails(c)
    BY <1>3, <2>7
  <2> QED BY <1>7, <2>2, <2>3, <2>4, <2>5, <2>6, <2>7 DEF CallSteps
<1>8. ASSUME NEW c \in Callers, CallFails(c)
      PROVE  TwiceInv'
  BY <1>3, <1>8 DEF CallFails
<1>9. CASE ApiRestarts
  <2>1. /\ \A d \in Callers : call'[d] = Idle
        /\ rows' = rows /\ doubled' = doubled
    BY <1>9 DEF ApiRestarts
  <2> QED BY <2>1, NodeIdle, TwiceRests
<1>10. ASSUME NEW m \in Machines, Import(m)
       PROVE  TwiceInv'
  <2>1. PICK s : s = Row([host |-> Name(m), address |-> Address(m)], Never)
    OBVIOUS
  <2>2. MachineOf(s) = m /\ Machine(s.host) = m /\ Located(s)
    BY <2>1 DEF Row, MachineOf, Located, Machine, Name, Address
  <2>3. /\ Busy = {} /\ rows' = rows \union {s} /\ call' = call
        /\ doubled' = IF \E r \in rows : Machine(r.host) = m
                      THEN doubled \union {m} ELSE doubled
    BY <1>10, <2>1 DEF Import
  <2>4. \A d \in Callers : ~Adds(d)'
    BY <2>3, BusyCallers DEF Adds
  <2>5. \A r \in rows' : MachineOf(r) \in doubled' \/ Located(r)
    BY <2>2, <2>3 DEF TwiceInv
  <2>6. ASSUME NEW r \in rows', NEW p \in rows', r # p, Machine(r.host) = Machine(p.host)
        PROVE  Machine(r.host) \in doubled'
    <3>1. CASE r \in rows /\ p \in rows
      BY <2>3, <2>6, <3>1 DEF TwiceInv, NoMachineTwice
    <3>2. CASE r = s \/ p = s
      BY <2>2, <2>3, <2>6, <3>2
    <3> QED BY <2>3, <3>1, <3>2
  <2> QED BY <2>4, <2>5, <2>6 DEF TwiceInv, NoMachineTwice, MachineOf, Located
<1>11. ASSUME NEW m \in Machines, MachineJoins(m)
       PROVE  TwiceInv'
  BY <1>11, TwiceRests DEF MachineJoins
<1> QED BY <1>4, <1>5, <1>6, <1>7, <1>8, <1>9, <1>10, <1>11 DEF NodeNext

\* Only machines are ever listed twice.
LEMMA DoubledMachines ==
    ASSUME NodeTyped, doubled \subseteq Machines, NodeNext
    PROVE  doubled' \subseteq Machines
<1>1. ASSUME NEW c \in Callers, NEW m \in Machines, NEW t \in Typed,
             Add(c, [host |-> <<m, t[1]>>, address |-> <<m, t[2]>>])
      PROVE  doubled' \subseteq Machines
  BY <1>1 DEF Add, Machine
<1>2. ASSUME NEW c \in Callers, Scan(c)
      PROVE  doubled' \subseteq Machines
  BY <1>2 DEF Scan
<1>3. ASSUME NEW c \in Callers, NEW r \in rows, Remove(c, r.host)
      PROVE  doubled' \subseteq Machines
  BY <1>3 DEF Remove
<1>4. ASSUME NEW c \in Callers, CallSteps(c) \/ CallFails(c)
      PROVE  doubled' \subseteq Machines
  BY <1>4 DEF CallSteps, CallFails, RepositoryAdd, RepositoryRemove, ScanAdds, ScanTouches,
              ReadRows, OpenTemporary, WriteText, Replace, Fails, Quiet
<1>5. ASSUME ApiRestarts \/ \E m \in Machines : Import(m) \/ MachineJoins(m)
      PROVE  doubled' \subseteq Machines
  BY <1>5 DEF ApiRestarts, Import, MachineJoins
<1> QED BY <1>1, <1>2, <1>3, <1>4, <1>5 DEF NodeNext

\* The steps of a call on the rows leave the file to what comes after them.
LEMMA RowStepsFile ==
    ASSUME NodeTyped, FileInv, NEW c \in Callers,
           RepositoryAdd(c) \/ RepositoryRemove(c) \/ ScanAdds(c) \/ ScanTouches(c)
    PROVE  FileInv'
<1>1. PICK q \in NodeCalls : q = call[c]
  BY DEF NodeTyped
<1>2. ~behind => inventory.is = "whole"
  BY DEF FileInv
<1>3. ASSUME NEW p \in NodeCalls, call' = [call EXCEPT ![c] = p], p.alone <=> q.alone,
             \/ p.at = "read"
             \/ p.at = "rows" /\ p.op = "scan",
             q.at = "rows", UNCHANGED <<inventory, behind>>
      PROVE  FileInv'
  <2>1. call'[c] = p
    BY <1>3 DEF NodeTyped
  <2>2. FileAt(c)'
    BY <1>3, <2>1 DEF FileAt
  <2> QED BY <1>1, <1>2, <1>3, <2>2, FileStep
<1>4. /\ [q EXCEPT !.at = "read", !.entries = {}] \in NodeCalls
      /\ [q EXCEPT !.at = "read", !.entries = {}].at = "read"
      /\ [q EXCEPT !.at = "read", !.entries = {}].alone <=> q.alone
  BY DEF NodeCalls
<1>5. CASE RepositoryAdd(c)
  <2>1. /\ q.at = "rows" /\ q.op = "add" /\ UNCHANGED <<inventory, behind>>
        /\ \/ call' = [call EXCEPT ![c] = Idle] /\ UNCHANGED rows
           \/ call' = [call EXCEPT ![c] = [q EXCEPT !.at = "read", !.entries = {}]]
    BY <1>1, <1>5 DEF RepositoryAdd, Set, File
  <2> QED BY <1>1, <1>3, <1>4, <2>1, FileEnds
<1>6. CASE RepositoryRemove(c)
  <2>1. /\ q.at = "rows" /\ q.op = "remove" /\ UNCHANGED <<inventory, behind>>
        /\ \/ call' = [call EXCEPT ![c] = Idle] /\ UNCHANGED rows
           \/ call' = [call EXCEPT ![c] = [q EXCEPT !.at = "read", !.entries = {}]]
    BY <1>1, <1>6 DEF RepositoryRemove, Set, File
  <2> QED BY <1>1, <1>3, <1>4, <2>1, FileEnds
<1>7. CASE ScanAdds(c)
  <2>1. q.at = "rows" /\ q.op = "scan"
    BY <1>1, <1>7 DEF ScanAdds
  <2>2. CASE Fails(c)
    <3>1. call' = [call EXCEPT ![c] = Idle] /\ behind' = TRUE
      BY <2>2 DEF Fails, Set
    <3> QED BY <1>1, <2>1, <3>1, FileEnds
  <2>3. CASE ~Fails(c)
    <3>1. PICK e \in call[c].entries, again \in BOOLEAN :
             /\ call' = [call EXCEPT ![c] =
                           [call[c] EXCEPT !.entries = IF again THEN @ ELSE @ \ {e}]]
             /\ UNCHANGED <<inventory, behind>>
      BY <1>7, <2>3 DEF ScanAdds, Set, File
    <3>2. PICK left : left = IF again THEN q.entries ELSE q.entries \ {e}
      OBVIOUS
    <3>3. left \in SUBSET NodeEntry
      BY <3>2 DEF NodeCalls
    <3>4. /\ [q EXCEPT !.entries = left] \in NodeCalls
          /\ [q EXCEPT !.entries = left].at = q.at /\ [q EXCEPT !.entries = left].op = q.op
          /\ [q EXCEPT !.entries = left].alone <=> q.alone
      BY <3>3 DEF NodeCalls
    <3>5. call' = [call EXCEPT ![c] = [q EXCEPT !.entries = left]]
      BY <1>1, <3>1, <3>2
    <3> QED BY <1>3, <2>1, <3>1, <3>4, <3>5
  <2> QED BY <2>2, <2>3
<1>8. CASE ScanTouches(c)
  <2>1. /\ q.at = "rows" /\ UNCHANGED <<inventory, behind>>
        /\ call' = [call EXCEPT ![c] = [q EXCEPT !.at = "read", !.touch = {}]]
    BY <1>1, <1>8 DEF ScanTouches, Set, File
  <2>2. /\ [q EXCEPT !.at = "read", !.touch = {}] \in NodeCalls
        /\ [q EXCEPT !.at = "read", !.touch = {}].at = "read"
        /\ [q EXCEPT !.at = "read", !.touch = {}].alone <=> q.alone
    BY DEF NodeCalls
  <2> QED BY <1>3, <2>1, <2>2
<1> QED BY <1>5, <1>6, <1>7, <1>8

\* The steps that write the file.
LEMMA WriteStepsFile ==
    ASSUME NodeTyped, FileInv, NEW c \in Callers,
           ReadRows(c) \/ OpenTemporary(c) \/ WriteText(c)
    PROVE  FileInv'
<1>1. PICK q \in NodeCalls : q = call[c]
  BY DEF NodeTyped
<1>2. ~behind => inventory.is = "whole"
  BY DEF FileInv
<1>3. AloneAtWork(c) => FileAt(c)
  BY DEF FileInv
<1>4. Render(rows)' = Render(rows)
  BY DEF ReadRows, OpenTemporary, WriteText, Quiet, Render
<1>5. CASE ReadRows(c)
  <2>1. PICK v \in SUBSET NodeEntry : v = Render(rows)
    BY RenderTyped
  <2>2. PICK p \in NodeCalls : p = [q EXCEPT !.at = "open", !.view = v]
    BY DEF NodeCalls
  <2>3. p.at = "open" /\ p.view = v /\ (p.alone <=> q.alone)
    BY <2>2 DEF NodeCalls
  <2>4. /\ call' = [call EXCEPT ![c] = p] /\ q.at = "read"
        /\ UNCHANGED <<inventory, behind>>
    BY <1>1, <1>5, <2>1, <2>2 DEF ReadRows, Set, Read, Quiet, File
  <2>5. FileAt(c)'
    <3>1. call'[c] = p
      BY <2>4 DEF NodeTyped
    <3> QED BY <1>4, <2>1, <2>3, <3>1 DEF FileAt
  <2> QED BY <1>1, <1>2, <2>3, <2>4, <2>5, FileStep
<1>6. CASE OpenTemporary(c)
  <2>1. PICK p \in NodeCalls : p = [q EXCEPT !.at = "write", !.handle = "temporary"]
    BY DEF NodeCalls
  <2>2. /\ p.at = "write" /\ p.handle = "temporary" /\ p.view = q.view
        /\ p.alone <=> q.alone
    BY <2>1 DEF NodeCalls
  <2>3. /\ call' = [call EXCEPT ![c] = p] /\ q.at = "open" /\ temporary' = Opened
        /\ UNCHANGED <<inventory, behind>>
    BY <1>1, <1>6, <2>1 DEF OpenTemporary, Set, Quiet
  <2>4. AloneAtWork(c) => FileAt(c)'
    <3>1. call'[c] = p
      BY <2>3 DEF NodeTyped
    <3> QED BY <1>1, <1>3, <1>4, <2>2, <2>3, <3>1 DEF FileAt, Opened
  <2> QED BY <1>1, <1>2, <2>2, <2>3, <2>4, FileStep
<1>7. CASE WriteText(c)
  <2>1. PICK p \in NodeCalls : p = [q EXCEPT !.at = "replace"]
    BY DEF NodeCalls
  <2>2. p.at = "replace" /\ p.view = q.view /\ (p.alone <=> q.alone)
    BY <2>1 DEF NodeCalls
  <2>3. /\ call' = [call EXCEPT ![c] = p] /\ q.at = "write" /\ behind' = behind
    BY <1>1, <1>7, <2>1 DEF WriteText, Set, Quiet
  <2>4. ASSUME AloneAtWork(c)
        PROVE  temporary' = Whole(Render(rows)) /\ inventory' = inventory
    <3>1. q.handle = "temporary" /\ temporary = Opened /\ q.view = Render(rows)
      BY <1>1, <1>3, <2>3, <2>4 DEF FileAt
    <3>2. /\ temporary' = Over(temporary, q.view)
          /\ inventory' = inventory
      BY <1>1, <1>7, <3>1 DEF WriteText
    <3> QED BY <3>1, <3>2, OverOpened
  <2>5. AloneAtWork(c) => FileAt(c)'
    <3>1. call'[c] = p
      BY <2>3 DEF NodeTyped
    <3>2. AloneAtWork(c) => q.view = Render(rows)
      BY <1>1, <1>3, <2>3 DEF FileAt
    <3> QED BY <1>4, <2>2, <2>4, <3>1, <3>2 DEF FileAt, Whole
  <2>6. ~behind /\ AloneAtWork(c) => inventory'.is = "whole"
    BY <1>2, <2>4
  <2> QED BY <1>1, <2>2, <2>3, <2>5, <2>6, FileStep
<1> QED BY <1>5, <1>6, <1>7

\* The file takes the place of the one before it.
LEMMA ReplaceFile ==
    ASSUME NodeTyped, FileInv, NEW c \in Callers, Replace(c), ~Fails(c)
    PROVE  FileInv'
<1>1. /\ call[c].at = "replace" /\ inventory' = temporary
      /\ call' = [d \in Callers |->
             IF d = c THEN Idle ELSE [call[d] EXCEPT !.handle = Moved(@)]]
      /\ behind' = (behind /\ ~call[c].alone)
      /\ rows' = rows
  BY DEF Replace
<1>2. \A p \in NodeCalls : \A h : /\ [p EXCEPT !.handle = h].at = p.at
                                  /\ [p EXCEPT !.handle = h].alone <=> p.alone
  BY DEF NodeCalls
<1>3. call'[c] = Idle /\ c \in Busy
  BY <1>1, BusyCallers
<1>4. ASSUME NEW d \in Callers \ {c}
      PROVE  call'[d].at = call[d].at /\ (call'[d].alone <=> call[d].alone)
  <2>1. PICK h : h = Moved(call[d].handle)
    OBVIOUS
  <2>2. call'[d] = [call[d] EXCEPT !.handle = h]
    BY <1>1, <2>1
  <2>3. call[d] \in NodeCalls
    BY DEF NodeTyped
  <2> QED BY <1>2, <2>2, <2>3
<1>5. ASSUME NEW d \in Callers
      PROVE  ~AloneAtWork(d)'
  <2>1. CASE d = c
    BY <1>3, <2>1, NodeIdle DEF AloneAtWork
  <2>2. CASE d # c
    <3>1. AloneAtWork(d)' => AloneAtWork(d)
      BY <1>4, <2>2 DEF AloneAtWork
    <3> QED BY <1>3, <2>2, <3>1 DEF FileInv
  <2> QED BY <2>1, <2>2
<1>6. ASSUME ~behind'
      PROVE  /\ Busy' = {}
             /\ inventory'.is = "whole" /\ inventory'.text = Render(rows)'
  <2>1. call[c].alone
    <3>1. ~behind => call[c].alone
      BY <1>3 DEF FileInv
    <3> QED BY <1>1, <1>6, <3>1
  <2>2. AloneAtWork(c)
    BY <1>1, <2>1 DEF AloneAtWork
  <2>3. Busy = {c} /\ FileAt(c)
    BY <2>2 DEF FileInv
  <2>4. Busy' = {}
    <3>1. \A d : d \in Busy' => d \in Callers /\ call'[d].at # "idle"
      BY DEF Busy
    <3> QED BY <1>3, <1>4, <2>3, <3>1, BusyCallers, NodeIdle
  <2>5. inventory' = Whole(Render(rows))
    BY <1>1, <2>3 DEF FileAt
  <2>6. Render(rows)' = Render(rows)
    BY <1>1 DEF Render
  <2> QED BY <2>4, <2>5, <2>6 DEF Whole
<1> QED BY <1>5, <1>6 DEF FileInv

LEMMA FileInvKept ==
    ASSUME NodeTyped, FileInv, NodeNext
    PROVE  FileInv'
<1>1. ASSUME NEW c \in Callers, NEW q \in NodeCalls, q.at = "rows", StartCall(c, q)
      PROVE  FileInv'
  <2>1. /\ call'[c].at = "rows" /\ (call'[c].alone <=> Busy = {})
        /\ \A d \in Callers \ {c} :
              call'[d].at = call[d].at /\ (call'[d].alone <=> d \notin Busy)
        /\ behind' <=> behind \/ Busy # {}
        /\ UNCHANGED <<rows, inventory>>
    BY <1>1, CallBegins
  <2>2. \A d : d \in Busy' <=> d \in Callers /\ call'[d].at # "idle"
    BY DEF Busy
  <2>3. ASSUME Busy = {}
        PROVE  Busy' = {c}
    <3>1. \A d \in Callers : call[d].at = "idle"
      BY <2>3, BusyCallers
    <3>2. \A d : d \in Busy' <=> d = c
      BY <2>1, <2>2, <3>1
    <3> QED BY <3>2
  <2>4. ASSUME NEW d \in Callers, AloneAtWork(d)'
        PROVE  (Busy = {d} /\ FileAt(d))'
    <3>1. d = c
      <4>1. d # c => d \in Busy /\ d \notin Busy
        BY <2>1, <2>4, BusyCallers DEF AloneAtWork
      <4> QED BY <4>1
    <3>2. Busy = {}
      BY <2>1, <2>4, <3>1 DEF AloneAtWork
    <3> QED BY <2>1, <2>3, <3>1, <3>2 DEF FileAt
  <2>5. ASSUME ~behind'
        PROVE  (/\ \A d \in Busy : call[d].alone
                /\ inventory.is = "whole"
                /\ (\A d \in Busy : call[d].at = "rows" /\ call[d].op # "scan") =>
                      inventory.text = Render(rows))'
    <3>1. Busy = {} /\ ~behind
      BY <2>1, <2>5
    <3>2. inventory.is = "whole" /\ inventory.text = Render(rows)
      BY <3>1 DEF FileInv
    <3>3. Render(rows)' = Render(rows)
      BY <2>1 DEF Render
    <3> QED BY <2>1, <2>3, <3>1, <3>2, <3>3
  <2> QED BY <2>4, <2>5 DEF FileInv
<1>2. ASSUME NEW c \in Callers, call[c].at # "idle", Fails(c)
      PROVE  FileInv'
  <2>1. call' = [call EXCEPT ![c] = Idle] /\ behind'
    BY <1>2 DEF Fails, Set
  <2> QED BY <1>2, <2>1, FileEnds
<1>3. ASSUME NEW c \in Callers, NEW m \in Machines, NEW t \in Typed,
             Add(c, [host |-> <<m, t[1]>>, address |-> <<m, t[2]>>])
      PROVE  FileInv'
  BY <1>1, <1>3, AddBegins
<1>4. ASSUME NEW c \in Callers, NEW r \in rows, Remove(c, r.host)
      PROVE  FileInv'
  BY <1>1, <1>4, RemoveBegins
<1>5. ASSUME NEW c \in Callers, Scan(c)
      PROVE  FileInv'
  BY <1>1, <1>5, ScanBegins
<1>6. ASSUME NEW c \in Callers, CallSteps(c)
      PROVE  FileInv'
  <2>1. CASE Replace(c)
    <3>1. call[c].at # "idle"
      BY <2>1 DEF Replace
    <3> QED BY <1>2, <2>1, <3>1, ReplaceFile
  <2> QED BY <1>6, <2>1, RowStepsFile, WriteStepsFile DEF CallSteps
<1>7. ASSUME NEW c \in Callers, CallFails(c)
      PROVE  FileInv'
  BY <1>2, <1>7 DEF CallFails
<1>8. CASE ApiRestarts
  <2>1. \A d \in Callers : call'[d].at = "idle"
    BY <1>8, NodeIdle DEF ApiRestarts
  <2>2. Busy' = {}
    BY <2>1 DEF Busy
  <2>3. ~behind' => inventory'.is = "whole" /\ inventory'.text = Render(rows)'
    <3>1. Render(rows)' = Render(rows)
      BY <1>8 DEF ApiRestarts, Render
    <3>2. CASE inventory' = Whole(Render(rows))
      BY <3>1, <3>2 DEF Whole
    <3>3. CASE inventory' = inventory /\ behind' = (behind \/ Busy # {})
      BY <3>1, <3>3 DEF FileInv
    <3> QED BY <1>8, <3>2, <3>3 DEF ApiRestarts
  <2> QED BY <2>1, <2>2, <2>3 DEF FileInv, AloneAtWork
<1>9. ASSUME NEW m \in Machines, Import(m)
      PROVE  FileInv'
  <2>1. Busy = {} /\ call' = call /\ behind'
    BY <1>9 DEF Import
  <2>2. \A d \in Callers : ~AloneAtWork(d)'
    BY <2>1, BusyCallers DEF AloneAtWork
  <2> QED BY <2>1, <2>2 DEF FileInv
<1>10. ASSUME NEW m \in Machines, MachineJoins(m)
       PROVE  FileInv'
  BY <1>10 DEF MachineJoins, File, FileInv, AloneAtWork, FileAt, Busy, Render
<1> QED BY <1>3, <1>4, <1>5, <1>6, <1>7, <1>8, <1>9, <1>10 DEF NodeNext

NodeInv == NodeTyped /\ FileInv /\ TwiceInv /\ doubled \subseteq Machines

LEMMA NodeStarts == NodeInit => NodeInv
<1> SUFFICES ASSUME NodeInit PROVE NodeInv
  OBVIOUS
<1>1. /\ rows = {} /\ joined = Machines /\ doubled = {}
      /\ call = [c \in Callers |-> Idle] /\ scans = 0 /\ behind \in BOOLEAN
      /\ ~behind => inventory = Whole({})
  BY DEF NodeInit
<1>2. \A c \in Callers : call[c].at = "idle"
  BY <1>1, NodeIdle
<1>3. NodeTyped
  BY <1>1, NodeIdle, FS_EmptySet DEF NodeTyped
<1>4. ~behind => inventory.is = "whole" /\ inventory.text = Render(rows)
  BY <1>1 DEF Whole, Render
<1>5. FileInv
  BY <1>2, <1>4, BusyCallers DEF FileInv, AloneAtWork
<1>6. TwiceInv
  BY <1>1, <1>2 DEF TwiceInv, NoMachineTwice, Adds
<1> QED BY <1>1, <1>3, <1>5, <1>6 DEF NodeInv

LEMMA NodeStep ==
    ASSUME NodeInv, [NodeNext]_nodeVars
    PROVE  NodeInv'
<1>1. CASE NodeNext
  BY <1>1, NodeTypedKept, FileInvKept, TwiceInvKept, DoubledMachines DEF NodeInv
<1>2. CASE UNCHANGED nodeVars
  BY <1>2 DEF nodeVars, NodeInv, NodeTyped, FileInv, TwiceInv, AloneAtWork, FileAt, Busy,
              Render, NoMachineTwice, Adds, Listed, ListedMachine
<1> QED BY <1>1, <1>2

\* A caller that works alone leaves a file that says what the list says, and a
\* scan that works alone lists no machine twice, whatever other calls, faults,
\* imports and restarts came before it (_write_inventory after autocommitted
\* statements, plan_refresh).
THEOREM ListIsKept == ConsoleSpec => []ListHolds
<1>1. ConsoleInit => NodeInv
  BY NodeStarts DEF ConsoleInit
<1>2. [ConsoleNext]_consoleVars => [NodeNext]_nodeVars
  BY DEF ConsoleNext, Rest, consoleVars
<1>3. NodeInv /\ [ConsoleNext]_consoleVars => NodeInv'
  BY <1>2, NodeStep
<1>4. NodeInv => ListHolds
  BY DEF NodeInv, FileInv, TwiceInv, ListHolds, InventoryFollowsList
<1> QED BY <1>1, <1>3, <1>4, PTL DEF ConsoleSpec

-----------------------------------------------------------------------------
(* Types: the backends of the Gateway.                                    *)

GatewayRows == [name : Clusters \union Aliases, cluster : Clusters \union {Nowhere}]
RoutePresses == [op : {"stop", "resume"}, cluster : Clusters, target : Clusters \union Aliases,
                 sound : BOOLEAN]

\* The stored rows are a list, so that there is a first candidate.
RouteTyped ==
    /\ RouteInv
    /\ Len(registry) <= MaxBackends
    /\ backendRows \in Seq(GatewayRows)
    /\ \A o \in Operators : press[o] = Away \/ press[o] \in RoutePresses
    /\ edits \in 0..MaxEdits /\ gatewayFaults \in 0..MaxGatewayFaults

LEMMA RouteTypePromises == ASSUME RouteTyped PROVE RouteTypeOK
<1>1. registry \in [1..Len(registry) -> Backends] /\ Len(registry) \in 0..MaxBackends
  <2>1. registry \in Seq(Backends) /\ Len(registry) \in Nat /\ Len(registry) <= MaxBackends
    BY DEF RouteTyped, RouteInv
  <2> QED BY <2>1, RoutingAssumption
<1>2. registry \in UNION {[1..n -> Backends] : n \in 0..MaxBackends}
  BY <1>1
<1>3. \A i \in DOMAIN backendRows : backendRows[i] \in GatewayRows
  BY DEF RouteTyped
<1> QED BY <1>2, <1>3 DEF RouteTyped, RouteTypeOK, RouteInv, GatewayRows, RoutePresses

LEMMA RouteTypeStarts == ASSUME RouteInit PROVE RouteTyped
<1>1. Len(registry) = 1
  BY DEF RouteInit
<1>2. \A o \in Operators : press[o] = Away
  BY DEF RouteInit
<1>3. RouteInv
  BY RouteStarts
<1>4. backendRows = <<>> /\ <<>> \in Seq(GatewayRows)
  BY DEF RouteInit
<1>5. Len(registry) <= MaxBackends
  BY <1>1, RoutingAssumption
<1>6. edits \in 0..MaxEdits /\ gatewayFaults \in 0..MaxGatewayFaults
  BY RoutingAssumption DEF RouteInit
<1> QED BY <1>2, <1>3, <1>4, <1>5, <1>6 DEF RouteTyped

LEMMA JoinTyped == ASSUME NEW list \in Seq(Backends) PROVE Join(list) \in Seq(GatewayRows)
<1>1. ASSUME NEW b \in Backends PROVE Joined(b) \in Clusters \union {Nowhere}
  BY DEF Joined, ByName, Normalise, Backends, URLs
<1>2. ASSUME NEW i \in DOMAIN list
      PROVE  [name |-> list[i].name, cluster |-> Joined(list[i])] \in GatewayRows
  <2>0. list[i] \in Backends
    OBVIOUS
  <2>1. list[i] \in Backends /\ list[i].name \in Clusters \union Aliases
    BY <2>0 DEF Backends
  <2> QED BY <1>1, <2>1 DEF GatewayRows
<1>3. DOMAIN list = 1..Len(list) /\ Len(list) \in Nat
  OBVIOUS
<1> DEFINE row(i) == [name |-> list[i].name, cluster |-> Joined(list[i])]
<1>4. Join(list) = [i \in 1..Len(list) |-> row(i)] /\ \A i \in 1..Len(list) : row(i) \in GatewayRows
  BY <1>2, <1>3 DEF Join
<1> HIDE DEF row
<1> QED BY <1>3, <1>4

\* A list of numbers that is not empty has a first.
LEMMA FirstIsOne ==
    ASSUME NEW indices \in SUBSET Nat, indices # {}
    PROVE  First(indices) \in indices
<1> SUFFICES ASSUME ~\E i \in indices : \A j \in indices : i <= j PROVE FALSE
  BY DEF First
<1> DEFINE T == {n \in Nat : n \notin indices}
<1>1. ASSUME NEW n \in Nat, \A m \in 0..(n - 1) : m \in T PROVE n \in T
  <2> SUFFICES ASSUME n \in indices PROVE FALSE
    OBVIOUS
  <2>1. PICK j \in indices : ~(n <= j)
    OBVIOUS
  <2>2. j \in Nat /\ j \in 0..(n - 1)
    BY <2>1
  <2> QED BY <1>1, <2>2
<1>2. \A n \in Nat : n \in T
  <2> HIDE DEF T
  <2> QED BY <1>1, NumberInduction
<1> QED BY <1>2

LEMMA RegistryBounded ==
    ASSUME RouteTyped, [RouteNext]_routeVars
    PROVE  Len(registry') <= MaxBackends
<1>1. /\ registry \in Seq(Backends) /\ Len(registry) \in Nat /\ Len(registry) <= MaxBackends
      /\ DOMAIN registry = 1..Len(registry) /\ MaxBackends \in Nat
  BY RoutingAssumption DEF RouteTyped, RouteInv
<1>2. registry' \in Seq(Backends) /\ Len(registry') \in Nat /\ DOMAIN registry' = 1..Len(registry')
  BY RouteStep DEF RouteTyped, RouteInv
<1>3. ASSUME DOMAIN registry' = DOMAIN registry PROVE Len(registry') <= MaxBackends
  <2>1. PICK n \in Nat, m \in Nat : n = Len(registry) /\ m = Len(registry')
    BY <1>1, <1>2
  <2>2. 1..n = 1..m
    BY <1>1, <1>2, <1>3, <2>1
  <2>3. n = m
    BY <2>2
  <2>4. Len(registry') = Len(registry)
    BY <2>1, <2>3
  <2> QED BY <1>1, <2>4
<1>4. CASE EditRegistry
  <2>1. ASSUME NEW b, Len(registry) < MaxBackends, registry' = Append(registry, b)
        PROVE  Len(registry') <= MaxBackends
    <3>1. Len(registry') = Len(registry) + 1
      BY <2>1, <1>1
    <3> QED BY <1>1, <2>1, <3>1
  <2>2. ASSUME NEW i \in DOMAIN registry,
               registry' = SubSeq(registry, 1, i - 1) \o SubSeq(registry, i + 1, Len(registry))
        PROVE  Len(registry') <= MaxBackends
    <3> DEFINE front == SubSeq(registry, 1, i - 1)
               back == SubSeq(registry, i + 1, Len(registry))
    <3>1. front \in Seq(Backends) /\ Len(front) = i - 1 /\ back \in Seq(Backends)
          /\ Len(back) = Len(registry) - i
      BY <1>1
    <3> HIDE DEF front, back
    <3>2. registry' = front \o back
      BY <2>2 DEF front, back
    <3>3. Len(registry') = Len(front) + Len(back)
      <4>1. Len(front \o back) = Len(front) + Len(back)
        BY <3>1
      <4> QED BY <3>2, <4>1
    <3>4. i \in Nat /\ i <= Len(registry)
      BY <1>1
    <3> QED BY <1>1, <3>1, <3>3, <3>4
  <2>3. ASSUME NEW i \in DOMAIN registry, NEW url,
               registry' = [registry EXCEPT ![i].proxyTo = url]
        PROVE  DOMAIN registry' = DOMAIN registry
    BY <2>3
  <2> QED BY <1>3, <1>4, <2>1, <2>2, <2>3 DEF EditRegistry
<1>5. ASSUME NEW o \in Operators, SetActive(o) PROVE DOMAIN registry' = DOMAIN registry
  <2>1. registry' \in {registry, Applied(o)}
    BY <1>5 DEF SetActive
  <2> QED BY <2>1 DEF Applied
<1>6. CASE UNCHANGED registry
  BY <1>1, <1>6
<1> QED BY <1>3, <1>4, <1>5, <1>6 DEF RouteNext, routeVars, GatewayPoll, Lookup

LEMMA PressTyped ==
    ASSUME RouteTyped, [RouteNext]_routeVars
    PROVE  \A o \in Operators : press'[o] = Away \/ press'[o] \in RoutePresses
<1>0. /\ press = [o \in Operators |-> press[o]]
      /\ \A o \in Operators : press[o] = Away \/ press[o] \in RoutePresses
  BY DEF RouteTyped, RouteInv
<1>1. CASE EditRegistry
  <2>1. ASSUME NEW o \in Operators
        PROVE  press'[o] = IF press[o] = Away THEN Away ELSE [press[o] EXCEPT !.sound = FALSE]
    BY <1>1, <2>1 DEF EditRegistry
  <2>2. ASSUME NEW p \in RoutePresses PROVE [p EXCEPT !.sound = FALSE] \in RoutePresses
    BY DEF RoutePresses
  <2> QED BY <1>0, <2>1, <2>2
<1>2. ASSUME NEW o \in Operators, SetActive(o)
      PROVE  press' = [press EXCEPT ![o] = Away]
  BY <1>2 DEF SetActive
<1>3. ASSUME NEW o \in Operators, NEW c \in Clusters, NEW op \in {"stop", "resume"},
             Lookup(o, c, op)
      PROVE  \A p \in Operators : press'[p] = Away \/ press'[p] \in RoutePresses
  <2> DEFINE t == backendRows[First(Candidates(c))].name
             sound == Sole(c) /\ backendRows = Join(registry)
             h == [op |-> op, cluster |-> c, target |-> t, sound |-> sound]
  <2>1. t \in Clusters \union Aliases
    <3>1. backendRows \in Seq(GatewayRows)
      BY DEF RouteTyped
    <3>2. Candidates(c) \in SUBSET Nat /\ Candidates(c) # {}
      BY <1>3, <3>1 DEF Candidates, Lookup
    <3>3. First(Candidates(c)) \in DOMAIN backendRows
      BY <3>2, FirstIsOne DEF Candidates
    <3>4. backendRows[First(Candidates(c))] \in GatewayRows
      BY <3>1, <3>3
    <3> QED BY <3>4 DEF GatewayRows
  <2> HIDE DEF t
  <2>2. h \in RoutePresses
    <3>1. PICK b \in BOOLEAN : b = sound
      OBVIOUS
    <3>2. [op |-> op, cluster |-> c, target |-> t, sound |-> b] \in RoutePresses
      BY <2>1 DEF RoutePresses
    <3> QED BY <3>1, <3>2
  <2>3. press' = [press EXCEPT ![o] = h]
    BY <1>3 DEF Lookup, t
  <2> HIDE DEF h
  <2>4. \A p \in Operators : press'[p] = IF p = o THEN h ELSE press[p]
    BY <1>0, <2>3
  <2> QED BY <1>0, <2>2, <2>4
<1>4. CASE UNCHANGED press
  BY <1>0, <1>4
<1>5. ASSUME NEW o \in Operators, press' = [press EXCEPT ![o] = Away]
      PROVE  \A p \in Operators : press'[p] = Away \/ press'[p] \in RoutePresses
  <2>1. \A p \in Operators : press'[p] = IF p = o THEN Away ELSE press[p]
    BY <1>0, <1>5
  <2> QED BY <1>0, <2>1
<1> QED BY <1>1, <1>2, <1>3, <1>4, <1>5 DEF RouteNext, routeVars, GatewayPoll

LEMMA RouteTypeStep == ASSUME RouteTyped, [RouteNext]_routeVars PROVE RouteTyped'
<1>1. RouteInv'
  BY RouteStep DEF RouteTyped
<1>2. backendRows' \in Seq(GatewayRows)
  <2>1. registry \in Seq(Backends) /\ backendRows \in Seq(GatewayRows) /\ <<>> \in Seq(GatewayRows)
    BY DEF RouteTyped, RouteInv
  <2>2. backendRows' \in {backendRows, Join(registry), <<>>}
    BY DEF RouteNext, routeVars, GatewayPoll, EditRegistry, SetActive, Lookup
  <2> QED BY <2>1, <2>2, JoinTyped
<1>3. edits' \in 0..MaxEdits
  <2>1. UNCHANGED edits \/ (edits < MaxEdits /\ edits' = edits + 1)
    BY DEF RouteNext, routeVars, GatewayPoll, EditRegistry, SetActive, Lookup
  <2> QED BY <2>1, RoutingAssumption DEF RouteTyped
<1>4. gatewayFaults' \in 0..MaxGatewayFaults
  <2>1. UNCHANGED gatewayFaults \/ GatewayFault
    BY DEF RouteNext, routeVars, GatewayPoll, EditRegistry, SetActive, Lookup
  <2> QED BY <2>1, RoutingAssumption DEF GatewayFault, RouteTyped
<1> QED BY <1>1, <1>2, <1>3, <1>4, RegistryBounded, PressTyped DEF RouteTyped

-----------------------------------------------------------------------------
(* Types: the fleet.                                                      *)

ListedNodes == [host : FleetHosts, role : {"coordinator", "worker"}]
NodeRecords == [host : FleetHosts, role : {"coordinator", "worker"},
                state : FleetStates \union {"unknown"}]

LEMMA ParseTyped == ASSUME NEW text \in Files PROVE Parse(text) \subseteq ListedNodes
<1>1. ASSUME NEW group PROVE Hosts(text, group) \subseteq FleetHosts
  <2>1. Reached(text, group) \subseteq {"coordinator", "worker", "other"}
    BY DEF Reached, Groups
  <2>2. \A g \in {"coordinator", "worker", "other"} : text.hosts[g] \subseteq FleetHosts
    BY FleetAssumption DEF FleetHosts
  <2>3. \A g \in Reached(text, group) : text.hosts[g] \subseteq FleetHosts
    BY <2>1, <2>2
  <2> QED BY <2>3 DEF Hosts
<1> QED BY <1>1 DEF Parse, ListedNodes

LEMMA FleetTypeStarts == ASSUME FleetInit PROVE FleetTypeOK
<1>1. loaded \subseteq ListedNodes
  BY ParseTyped DEF FleetInit
<1>2. fleet.nodes = {}
  BY DEF FleetInit
<1>3. /\ lookup.offered \in BOOLEAN /\ lookup.available \in BOOLEAN
      /\ lookup.unjoined = {} /\ lookup.unexpected = {}
  BY DEF FleetInit, NoLookup
<1>4. trino \in [Servers -> [state : FleetStates, row : RowStates]]
  BY DEF FleetInit, FleetStates, RowStates
<1>5. fleetChanges \in 0..MaxFleetChanges
  BY FleetAssumption DEF FleetInit
<1> QED BY <1>1, <1>2, <1>3, <1>4, <1>5 DEF FleetInit, FleetTypeOK, ListedNodes

LEMMA FleetTypeStep == ASSUME FleetTypeOK, [FleetNext]_fleetVars PROVE FleetTypeOK'
<1>0. /\ trino \in [Servers -> [state : FleetStates, row : RowStates]]
      /\ file \in Files /\ loaded \subseteq ListedNodes
      /\ counted \in 0..Cardinality(Servers) \union {NoActive}
      /\ fleet.nodes \subseteq NodeRecords
  BY DEF FleetTypeOK, ListedNodes, NodeRecords
<1>1. trino' \in [Servers -> [state : FleetStates, row : RowStates]]
  <2> DEFINE P == [state : FleetStates, row : RowStates]
  <2>1. ASSUME NEW h \in FleetHosts, ShutdownNode(h), trino' # trino
        PROVE  trino' \in [Servers -> P]
    <3>1. On(h) \in Servers
      BY DEF On, FleetHosts
    <3>2. PICK row \in {trino[On(h)].row, Drained(trino[On(h)].row)} :
             trino' = [trino EXCEPT ![On(h)] = [state |-> "draining", row |-> row]]
      BY <2>1 DEF ShutdownNode
    <3>3. [state |-> "draining", row |-> row] \in P
      BY <1>0, <3>1 DEF FleetStates, RowStates, Drained
    <3> QED BY <1>0, <3>1, <3>2, <3>3
  <2>2. ASSUME NEW m \in Servers, ProcessChanges(m) PROVE trino' \in [Servers -> P]
    <3>1. PICK p \in [state : {"active", "down", trino[m].state}, row : RowStates] :
             trino' = [trino EXCEPT ![m] = p]
      BY <2>2 DEF ProcessChanges
    <3>2. p \in P
      BY <1>0 DEF FleetStates
    <3> QED BY <1>0, <3>1, <3>2
  <2>3. CASE UNCHANGED trino
    BY <1>0, <2>3
  <2> QED BY <2>1, <2>2, <2>3
          DEF FleetNext, fleetVars, FleetTick, CountNodes, CollectorStarts, EditFile,
              IdentifyUnjoined
<1>2. /\ file' \in Files /\ loaded' \subseteq ListedNodes
  <2>1. file' \in Files
    BY <1>0 DEF FleetNext, fleetVars, FleetTick, CountNodes, CollectorStarts, EditFile,
                IdentifyUnjoined, ShutdownNode, ProcessChanges
  <2>2. loaded' = loaded \/ loaded' = Parse(file)
    BY DEF FleetNext, fleetVars, FleetTick, CountNodes, CollectorStarts, EditFile,
           IdentifyUnjoined, ShutdownNode, ProcessChanges
  <2> QED BY <1>0, <2>1, <2>2, ParseTyped
<1>3. counted' \in 0..Cardinality(Servers) \union {NoActive}
  <2>1. ActiveMachines \subseteq Servers
    BY DEF ActiveMachines
  <2>2. /\ Cardinality(ActiveMachines) \in Nat /\ Cardinality(Servers) \in Nat
        /\ Cardinality(ActiveMachines) <= Cardinality(Servers)
    BY <2>1, FleetAssumption, FS_Subset, FS_CardinalityType
  <2>3. counted' = counted \/ counted' = Cardinality(ActiveMachines)
    BY DEF FleetNext, fleetVars, FleetTick, CountNodes, CollectorStarts, EditFile,
           IdentifyUnjoined, ShutdownNode, ProcessChanges
  <2> QED BY <1>0, <2>2, <2>3
<1>4. fleet'.nodes \subseteq NodeRecords
  <2>1. ASSUME NEW n \in ListedNodes PROVE NodeRecord(n) \in NodeRecords
    <3>1. n.host \in FleetHosts /\ n.role \in {"coordinator", "worker"}
      BY DEF ListedNodes
    <3>2. On(n.host) \in Servers
      BY <3>1 DEF On, FleetHosts
    <3>3. trino[On(n.host)].state \in FleetStates
      BY <1>0, <3>2
    <3> QED BY <3>1, <3>3 DEF NodeRecord, NodeRecords
  <2>2. CASE FleetTick
    <3>1. fleet'.nodes = {NodeRecord(n) : n \in loaded}
      BY <2>2 DEF FleetTick
    <3> QED BY <1>0, <2>1, <3>1
  <2>3. CASE UNCHANGED fleet
    BY <1>0, <2>3
  <2> QED BY <2>2, <2>3
          DEF FleetNext, fleetVars, CountNodes, CollectorStarts, EditFile, IdentifyUnjoined,
              ShutdownNode, ProcessChanges
<1>5. /\ lookup'.offered \in BOOLEAN /\ lookup'.available \in BOOLEAN
      /\ lookup'.unjoined \subseteq NodeRecords /\ lookup'.unexpected \subseteq Servers
  <2>1. CanIdentify \in BOOLEAN
    BY DEF CanIdentify, CountsDisagree
  <2>2. CASE lookup' = CompleteLookup
    <3>1. /\ lookup'.offered = CanIdentify /\ lookup'.available = TRUE
          /\ lookup'.unjoined = Unjoined(fleet.nodes)
          /\ lookup'.unexpected = Unexpected(fleet.nodes)
      BY <2>2 DEF CompleteLookup
    <3>2. Unjoined(fleet.nodes) \subseteq NodeRecords /\ Unexpected(fleet.nodes) \subseteq Servers
      BY <1>0 DEF Unjoined, Unexpected, JoinedMachines
    <3> QED BY <2>1, <3>1, <3>2
  <2>3. CASE lookup' = [NoLookup EXCEPT !.offered = CanIdentify]
    <3>1. /\ lookup'.offered = CanIdentify /\ lookup'.available = FALSE
          /\ lookup'.unjoined = {} /\ lookup'.unexpected = {}
      BY <2>3 DEF NoLookup
    <3> QED BY <2>1, <3>1
  <2>4. CASE UNCHANGED lookup
    BY <2>4 DEF FleetTypeOK, NodeRecords
  <2> QED BY <2>2, <2>3, <2>4
          DEF FleetNext, fleetVars, FleetTick, CountNodes, CollectorStarts, EditFile,
              IdentifyUnjoined, ShutdownNode, ProcessChanges
<1>6. fleetChanges' \in 0..MaxFleetChanges
  <2>1. UNCHANGED fleetChanges \/ FleetChange
    BY DEF FleetNext, fleetVars, FleetTick, CountNodes, CollectorStarts, EditFile,
           IdentifyUnjoined, ShutdownNode, ProcessChanges
  <2> QED BY <2>1, FleetAssumption DEF FleetChange, FleetTypeOK
<1> QED BY <1>1, <1>2, <1>3, <1>4, <1>5, <1>6
        DEF FleetTypeOK, ListedNodes, NodeRecords

-----------------------------------------------------------------------------
(* The fleet screen.                                                       *)

Counting == {n \in fleet.nodes : On(n.host) \in ActiveMachines}
UnexpectedActive == Unexpected(fleet.nodes) \intersect ActiveMachines

\* A node has joined when its machine has a row, whichever way it is listed.
LEMMA JoinedByMachine ==
    /\ \A n : HasJoined(n) <=> On(n.host) \in JoinedMachines
    /\ \A m \in ActiveMachines :
          m \in UnexpectedActive <=> m \notin {On(n.host) : n \in fleet.nodes}
BY DEF HasJoined, Resolves, AddressOf, UnexpectedActive, Unexpected, JoinedMachines,
       ActiveMachines

\* The nodes listed: not joined, joined and not active, active.
LEMMA ListedAddUp ==
    ASSUME IsFiniteSet(fleet.nodes)
    PROVE  /\ {Cardinality(Unjoined(fleet.nodes)), Cardinality(JoinedNotActive),
               Cardinality(Counting)} \subseteq Nat
           /\ Cardinality(fleet.nodes) = Cardinality(Unjoined(fleet.nodes))
                 + Cardinality(JoinedNotActive) + Cardinality(Counting)
<1> DEFINE U == Unjoined(fleet.nodes)
           S == JoinedNotActive
<1>1. /\ U \subseteq fleet.nodes /\ S \subseteq fleet.nodes /\ Counting \subseteq fleet.nodes
      /\ U \intersect S = {} /\ fleet.nodes = (U \union S) \union Counting
      /\ (U \union S) \intersect Counting = {}
  <2>1. ActiveMachines \subseteq JoinedMachines
    BY DEF ActiveMachines, JoinedMachines
  <2> QED BY <2>1, JoinedByMachine DEF Unjoined, JoinedNotActive, Counting
<1>2. IsFiniteSet(U) /\ IsFiniteSet(S) /\ IsFiniteSet(Counting)
  BY <1>1, FS_Subset
<1>3. Cardinality(U) \in Nat /\ Cardinality(S) \in Nat /\ Cardinality(Counting) \in Nat
  BY <1>2, FS_CardinalityType
<1> HIDE DEF U, S
<1>4. /\ IsFiniteSet(U \union S)
      /\ Cardinality(U \union S) = Cardinality(U) + Cardinality(S) - Cardinality({})
  BY <1>1, <1>2, FS_Union
<1>5. Cardinality((U \union S) \union Counting)
         = Cardinality(U \union S) + Cardinality(Counting) - Cardinality({})
  BY <1>1, <1>2, <1>4, FS_Union
<1>6. Cardinality(fleet.nodes) = Cardinality(U) + Cardinality(S) + Cardinality(Counting)
  BY <1>1, <1>3, <1>4, <1>5, FS_EmptySet
<1> QED BY <1>3, <1>6 DEF U, S

\* The machines the coordinator counts: those listed, once each, and the others.
LEMMA CountedAddUp ==
    ASSUME ListedOnce
    PROVE  /\ {Cardinality(Counting), Cardinality(UnexpectedActive)} \subseteq Nat
           /\ Cardinality(ActiveMachines) = Cardinality(Counting) + Cardinality(UnexpectedActive)
<1> DEFINE L == {On(n.host) : n \in Counting}
           machineOf == [n \in Counting |-> On(n.host)]
<1>1. /\ IsFiniteSet(ActiveMachines)
      /\ ActiveMachines = L \union UnexpectedActive /\ L \intersect UnexpectedActive = {}
  <2>1. IsFiniteSet(ActiveMachines)
    BY FleetAssumption, FS_Subset DEF ActiveMachines
  <2>2. L \subseteq ActiveMachines /\ UnexpectedActive \subseteq ActiveMachines
    BY DEF Counting, UnexpectedActive
  <2>3. \A m \in ActiveMachines : m \in L <=> m \in {On(n.host) : n \in fleet.nodes}
    BY DEF Counting
  <2> QED BY <2>1, <2>2, <2>3, JoinedByMachine
<1>2. machineOf \in Bijection(Counting, L)
  <2>1. machineOf \in Injection(Counting, L)
    BY DEF Injection, IsInjective, ListedOnce, Counting
  <2>2. machineOf \in Surjection(Counting, L)
    BY DEF Surjection
  <2> QED BY <2>1, <2>2 DEF Bijection
<1>3. IsFiniteSet(L) /\ IsFiniteSet(UnexpectedActive)
  <2>1. L \in SUBSET ActiveMachines /\ UnexpectedActive \in SUBSET ActiveMachines
    BY <1>1
  <2> HIDE DEF L
  <2> QED BY <1>1, <2>1, FS_Subset
<1> HIDE DEF L
<1>4. IsFiniteSet(Counting) /\ Cardinality(Counting) = Cardinality(L)
  <2>1. machineOf \in Injection(Counting, L) /\ machineOf \in Surjection(Counting, L)
    BY <1>2 DEF Bijection
  <2> HIDE DEF machineOf
  <2>2. IsFiniteSet(Counting)
    BY <1>3, <2>1, FS_Injection
  <2> QED BY <1>3, <2>1, <2>2, FS_Injection
<1>5. Cardinality(Counting) \in Nat /\ Cardinality(UnexpectedActive) \in Nat
  BY <1>3, <1>4, FS_CardinalityType
<1>6. Cardinality(L \union UnexpectedActive)
         = Cardinality(L) + Cardinality(UnexpectedActive) - Cardinality({})
  BY <1>1, <1>3, FS_Union
<1> QED BY <1>1, <1>4, <1>5, <1>6, FS_EmptySet

\* A snapshot that lists every machine at most once is finite.
LEMMA ListedFinite ==
    ASSUME FleetTypeOK, ListedOnce PROVE IsFiniteSet(fleet.nodes)
<1> DEFINE machineOf == [n \in fleet.nodes |-> On(n.host)]
<1>1. \A n \in fleet.nodes : On(n.host) \in Servers
  BY DEF FleetTypeOK, On, FleetHosts
<1>2. machineOf \in Injection(fleet.nodes, Servers)
  BY <1>1 DEF Injection, IsInjective, ListedOnce
<1> HIDE DEF machineOf
<1> QED BY <1>2, FleetAssumption, FS_Injection

LEMMA LookupExplains ==
    ASSUME FleetTypeOK, [FleetNext]_fleetVars, lookup' # lookup, lookup'.available, ListedOnce,
           fleet.active = Cardinality(ActiveMachines)
    PROVE  /\ Cardinality(fleet.nodes) + Cardinality(lookup'.unexpected \intersect ActiveMachines)
                = fleet.active + Cardinality(lookup'.unjoined) + Cardinality(JoinedNotActive)
           /\ lookup'.offered => lookup'.unjoined # {} \/ JoinedNotActive # {}
<1>1. IdentifyUnjoined
  BY DEF FleetNext, fleetVars, FleetTick, CountNodes, CollectorStarts, EditFile,
         ShutdownNode, ProcessChanges
<1>2. lookup' = CompleteLookup
  <2>1. ~[NoLookup EXCEPT !.offered = CanIdentify].available
    BY DEF NoLookup
  <2> QED BY <1>1, <2>1 DEF IdentifyUnjoined
<1>3. /\ lookup'.offered = CanIdentify /\ lookup'.unjoined = Unjoined(fleet.nodes)
      /\ lookup'.unexpected \intersect ActiveMachines = UnexpectedActive
  BY <1>2 DEF CompleteLookup, UnexpectedActive
<1>4. /\ Cardinality(fleet.nodes) = Cardinality(Unjoined(fleet.nodes))
            + Cardinality(JoinedNotActive) + Cardinality(Counting)
      /\ fleet.active = Cardinality(Counting) + Cardinality(UnexpectedActive)
      /\ Cardinality(Unjoined(fleet.nodes)) \in Nat /\ Cardinality(JoinedNotActive) \in Nat
      /\ Cardinality(Counting) \in Nat /\ Cardinality(UnexpectedActive) \in Nat
  BY ListedFinite, ListedAddUp, CountedAddUp
<1>5. Cardinality(fleet.nodes) + Cardinality(UnexpectedActive)
         = fleet.active + Cardinality(Unjoined(fleet.nodes)) + Cardinality(JoinedNotActive)
  BY <1>4
<1>6. CanIdentify => Cardinality(Unjoined(fleet.nodes)) # 0 \/ Cardinality(JoinedNotActive) # 0
  BY <1>4 DEF CanIdentify, CountsDisagree
<1>7. CanIdentify => Unjoined(fleet.nodes) # {} \/ JoinedNotActive # {}
  BY <1>6, FS_EmptySet
<1> QED BY <1>3, <1>5, <1>7

\* What a lookup answers accounts for the whole gap between the inventory and the
\* coordinator's count, for any inventory and any number of machines: who is
\* missing, who joined without being active, who is not listed.  An offered lookup
\* that names nobody means a node that drains or is inactive (counts_disagree,
\* compare).
THEOREM LookupExplainsGap == ConsoleSpec => GapExplained
<1>1. ConsoleInit => FleetTypeOK
  BY FleetTypeStarts DEF ConsoleInit
<1>2. [ConsoleNext]_consoleVars => [FleetNext]_fleetVars
  BY DEF ConsoleNext, Rest, consoleVars
<1>3. FleetTypeOK /\ [ConsoleNext]_consoleVars => FleetTypeOK'
  BY <1>2, FleetTypeStep
<1>4. FleetTypeOK /\ [ConsoleNext]_consoleVars =>
          [lookup' # lookup /\ lookup'.available /\ ListedOnce
           /\ fleet.active = Cardinality(ActiveMachines)
           => /\ Cardinality(fleet.nodes)
                    + Cardinality(lookup'.unexpected \intersect ActiveMachines)
                 = fleet.active + Cardinality(lookup'.unjoined) + Cardinality(JoinedNotActive)
              /\ lookup'.offered => lookup'.unjoined # {} \/ JoinedNotActive # {}]_fleetVars
  BY <1>2, LookupExplains
<1> QED BY <1>1, <1>3, <1>4, PTL DEF ConsoleSpec, GapExplained

-----------------------------------------------------------------------------
(* Types: the node list.                                                  *)

EntryOf(r) == [host |-> r.host, address |-> r.address]
RowEntered(r) == EntryOf(r) \in Entries /\ r.seen <= MaxScans
CallEntered(q) == q.entries \subseteq Entries /\ q.view \subseteq Entries /\ q.stamp <= MaxScans
PathTyped(path) ==
    path \in {Opened, Absent, Mixed} \/ (path.text \subseteq Entries /\ path = Whole(path.text))

\* Whatever is listed, planned or written passed validate.
NodeEntered ==
    /\ NodeInv
    /\ \A r \in rows : RowEntered(r)
    /\ \A c \in Callers : CallEntered(call[c])
    /\ PathTyped(inventory) /\ PathTyped(temporary)
    /\ scans <= MaxScans
    /\ nodeFaults \in 0..MaxNodeFaults

LEMMA NodeTypePromises == ASSUME NodeEntered PROVE NodeTypeOK
<1>1. rows \subseteq [host : Spellings, address : Spellings, seen : 0..MaxScans]
  <2>1. ASSUME NEW r \in rows
        PROVE  r \in [host : Spellings, address : Spellings, seen : 0..MaxScans]
    <3>1. r \in NodeRows /\ r.seen <= MaxScans
      BY DEF NodeEntered, NodeInv, NodeTyped, RowEntered
    <3>2. r.seen \in 0..MaxScans
      BY <3>1, NodeListAssumption DEF NodeRows
    <3> QED BY <3>1, <3>2 DEF NodeRows
  <2> QED BY <2>1
<1>2. \A c \in Callers :
          /\ call[c].op \in {"none", "add", "remove", "scan"}
          /\ call[c].at \in {"idle", "rows", "read", "open", "write", "replace"}
          /\ call[c].handle \in {"none", "temporary", "inventory", "gone"}
          /\ call[c].view \subseteq Entries
  BY DEF NodeEntered, NodeInv, NodeTyped, NodeCalls, CallEntered
<1>3. \A path \in {inventory, temporary} :
          \/ path \in {Opened, Absent, Mixed}
          \/ path.text \subseteq Entries /\ path = Whole(path.text)
  BY DEF NodeEntered, PathTyped
<1>4. scans \in 0..MaxScans /\ nodeFaults \in 0..MaxNodeFaults
  BY NodeListAssumption DEF NodeEntered, NodeInv, NodeTyped
<1> QED BY <1>1, <1>2, <1>3, <1>4 DEF NodeTypeOK, NodeEntered, NodeInv, NodeTyped

LEMMA NodeTypeStarts == ASSUME NodeInit PROVE NodeEntered
<1>1. NodeInv
  BY NodeStarts
<1>2. CallEntered(Idle)
  BY NodeListAssumption DEF CallEntered, Idle, Never
<1>3. \A c \in Callers : CallEntered(call[c])
  BY <1>2 DEF NodeInit
<1>4. PathTyped(inventory) /\ PathTyped(temporary)
  BY DEF NodeInit, PathTyped, Whole
<1>5. scans <= MaxScans /\ nodeFaults \in 0..MaxNodeFaults
  BY NodeListAssumption DEF NodeInit
<1> QED BY <1>1, <1>3, <1>4, <1>5 DEF NodeEntered, NodeInit

LEMMA RenderEntries == ASSUME NodeEntered PROVE Render(rows) \subseteq Entries
BY DEF NodeEntered, Render, RowEntered, EntryOf

LEMMA RowOfEntry ==
    ASSUME NEW e \in Entries, NEW s \in Nat, s <= MaxScans
    PROVE  RowEntered(Row(e, s))
<1>1. e = [host |-> e.host, address |-> e.address]
  BY DEF Entries
<1> QED BY <1>1 DEF RowEntered, EntryOf, Row

LEMMA EntriesOf ==
    ASSUME NEW m \in Machines
    PROVE  /\ [host |-> Address(m), address |-> Address(m)] \in Entries
           /\ [host |-> Name(m), address |-> Address(m)] \in Entries
BY DEF Entries, Address, Name, Machine, Spellings

LEMMA TypedEntry ==
    ASSUME NEW m \in Machines, NEW t \in Typed
    PROVE  [host |-> <<m, t[1]>>, address |-> <<m, t[2]>>] \in Entries
<1>1. t \in {<<"name", "address">>, <<"name", "name">>, <<"address", "address">>}
  BY NodeListAssumption
<1>2. CASE t = <<"name", "address">>
  BY <1>2 DEF Entries, Address, Machine, Spellings
<1>3. CASE t = <<"name", "name">>
  BY <1>3 DEF Entries, Address, Machine, Spellings
<1>4. CASE t = <<"address", "address">>
  BY <1>4 DEF Entries, Address, Machine, Spellings
<1> QED BY <1>1, <1>2, <1>3, <1>4

LEMMA RowsEntered == ASSUME NodeEntered, NodeNext PROVE \A r \in rows' : RowEntered(r)
<1>0. /\ \A r \in rows : RowEntered(r) /\ r \in NodeRows
      /\ \A c \in Callers : CallEntered(call[c]) /\ call[c] \in NodeCalls
      /\ TwiceInv /\ NodeTyped
  BY DEF NodeEntered, NodeInv, NodeTyped
<1>1. ASSUME NEW c \in Callers, RepositoryAdd(c) PROVE \A r \in rows' : RowEntered(r)
  <2>1. PICK e : e = CHOOSE f \in call[c].entries : TRUE
    OBVIOUS
  <2>2. e \in call[c].entries
    BY <1>0, <1>1, <2>1, AddPlanned DEF RepositoryAdd
  <2>3. e \in Entries
    BY <1>0, <2>2 DEF CallEntered
  <2>4. RowEntered(Row(e, Never))
    BY <2>3, RowOfEntry, NodeListAssumption DEF Never
  <2>5. rows' = rows \/ rows' = rows \union {Row(e, Never)}
    BY <1>1, <2>1 DEF RepositoryAdd
  <2> QED BY <1>0, <2>4, <2>5
<1>2. ASSUME NEW c \in Callers, RepositoryRemove(c) PROVE \A r \in rows' : RowEntered(r)
  BY <1>0, <1>2 DEF RepositoryRemove
<1>3. ASSUME NEW c \in Callers, ScanAdds(c) PROVE \A r \in rows' : RowEntered(r)
  <2>1. PICK e \in call[c].entries : rows' = rows \/ rows' = rows \union {Row(e, call[c].stamp)}
    BY <1>3 DEF ScanAdds, Fails
  <2>2. e \in Entries /\ call[c].stamp \in Nat /\ call[c].stamp <= MaxScans
    BY <1>0, <2>1 DEF CallEntered, NodeCalls
  <2>3. RowEntered(Row(e, call[c].stamp))
    BY <2>2, RowOfEntry
  <2> QED BY <1>0, <2>1, <2>3
<1>4. ASSUME NEW c \in Callers, ScanTouches(c) PROVE \A r \in rows' : RowEntered(r)
  <2>1. PICK n \in Nat : n = call[c].stamp /\ n <= MaxScans
    BY <1>0 DEF CallEntered, NodeCalls
  <2>2. ASSUME NEW r \in NodeRows, RowEntered(r) PROVE RowEntered([r EXCEPT !.seen = n])
    BY <2>1, <2>2 DEF NodeRows, RowEntered, EntryOf
  <2>3. rows' = {IF r.host \in call[c].touch THEN [r EXCEPT !.seen = n] ELSE r : r \in rows}
    BY <1>4, <2>1 DEF ScanTouches
  <2> QED BY <1>0, <2>2, <2>3
<1>5. ASSUME NEW m \in Machines, Import(m) PROVE \A r \in rows' : RowEntered(r)
  <2>1. PICK e \in Entries : rows' = rows \union {Row(e, Never)}
    BY <1>5, EntriesOf DEF Import
  <2>2. RowEntered(Row(e, Never))
    BY RowOfEntry, NodeListAssumption DEF Never
  <2> QED BY <1>0, <2>1, <2>2
<1>6. CASE UNCHANGED rows
  BY <1>0, <1>6
<1> QED BY <1>1, <1>2, <1>3, <1>4, <1>5, <1>6
        DEF NodeNext, CallSteps, Add, Remove, Scan, StartCall, ReadRows, OpenTemporary, WriteText,
            Replace, Quiet, CallFails, Fails, ApiRestarts, MachineJoins

LEMMA CallsEntered ==
    ASSUME NodeEntered, NodeNext
    PROVE  (\A c \in Callers : CallEntered(call'[c])) /\ scans' <= MaxScans
<1>0. /\ \A c \in Callers : CallEntered(call[c]) /\ call[c] \in NodeCalls
      /\ call = [c \in Callers |-> call[c]]
      /\ NodeTyped /\ scans \in Nat /\ scans <= MaxScans /\ MaxScans \in Nat
      /\ CallEntered(Idle) /\ Idle \in NodeCalls
  <2>1. CallEntered(Idle)
    BY NodeListAssumption DEF CallEntered, Idle, Never
  <2> QED BY <2>1, NodeIdle, NodeListAssumption DEF NodeEntered, NodeInv, NodeTyped
<1>1. ASSUME NEW c \in Callers, NEW q \in NodeCalls, CallEntered(q), StartCall(c, q)
      PROVE  \A d \in Callers : CallEntered(call'[d])
  <2>1. ASSUME NEW p \in NodeCalls, CallEntered(p), NEW b \in BOOLEAN
        PROVE  CallEntered([p EXCEPT !.alone = b])
    BY <2>1 DEF NodeCalls, CallEntered
  <2>2. PICK none \in BOOLEAN : none = (Busy = {})
    OBVIOUS
  <2>3. call'[c] = [q EXCEPT !.alone = none]
    BY <1>1, <2>2 DEF StartCall
  <2>4. ASSUME NEW d \in Callers \ {c} PROVE CallEntered(call'[d])
    <3>1. PICK b \in BOOLEAN : b = (d \notin Busy)
      OBVIOUS
    <3>2. call'[d] = [call[d] EXCEPT !.alone = b]
      BY <1>1, <3>1 DEF StartCall
    <3> QED BY <1>0, <2>1, <3>2
  <2> QED BY <1>1, <2>1, <2>3, <2>4
<1>2. ASSUME NEW c \in Callers, NEW q, CallEntered(q), Set(c, q)
      PROVE  \A d \in Callers : CallEntered(call'[d])
  BY <1>0, <1>2 DEF Set
<1>3. ASSUME NEW c \in Callers, NEW m \in Machines, NEW t \in Typed,
             Add(c, [host |-> <<m, t[1]>>, address |-> <<m, t[2]>>])
      PROVE  (\A d \in Callers : CallEntered(call'[d])) /\ scans' <= MaxScans
  <2>1. PICK e : e = [host |-> <<m, t[1]>>, address |-> <<m, t[2]>>]
    OBVIOUS
  <2>2. {e} \in SUBSET Entries
    BY <2>1, TypedEntry
  <2> DEFINE q == [Idle EXCEPT !.op = "add", !.at = "rows", !.entries = {e}]
  <2>3. StartCall(c, q) /\ scans' = scans
    BY <1>3, <2>1 DEF Add
  <2>4. CallEntered(q)
    BY <2>2, NodeListAssumption DEF CallEntered, Idle, Never
  <2>5. q \in NodeCalls
    <3>1. {e} \in SUBSET NodeEntry
      BY <2>2 DEF Entries, NodeEntry
    <3> QED BY <3>1, CallsBegun
  <2> HIDE DEF q
  <2> QED BY <1>0, <1>1, <2>3, <2>4, <2>5
<1>4. ASSUME NEW c \in Callers, NEW r \in rows, Remove(c, r.host)
      PROVE  (\A d \in Callers : CallEntered(call'[d])) /\ scans' <= MaxScans
  <2>1. PICK es : es = {[host |-> r.host, address |-> r.host]}
    OBVIOUS
  <2>2. es \in SUBSET Entries /\ es \in SUBSET NodeEntry
    <3>1. r.host \in Spellings
      BY <1>0 DEF NodeTyped, NodeRows
    <3> QED BY <2>1, <3>1 DEF Entries, NodeEntry
  <2> DEFINE q == [Idle EXCEPT !.op = "remove", !.at = "rows", !.entries = es]
  <2>3. StartCall(c, q) /\ scans' = scans
    BY <1>4, <2>1 DEF Remove
  <2>4. CallEntered(q)
    BY <2>2, NodeListAssumption DEF CallEntered, Idle, Never
  <2>5. q \in NodeCalls
    BY <2>2, CallsBegun
  <2> HIDE DEF q
  <2> QED BY <1>0, <1>1, <2>3, <2>4, <2>5
<1>5. ASSUME NEW c \in Callers, Scan(c)
      PROVE  (\A d \in Callers : CallEntered(call'[d])) /\ scans' <= MaxScans
  <2>1. scans' = scans + 1 /\ scans < MaxScans
    BY <1>5 DEF Scan
  <2>2. scans' <= MaxScans
    BY <1>0, <2>1
  <2> DEFINE known == {m \in joined : \E r \in rows : Knows(r, m)}
  <2>3. PICK es, ts :
           /\ es = {[host |-> Address(m), address |-> Address(m)] : m \in joined \ known}
           /\ ts = {Touched(m) : m \in known}
    OBVIOUS
  <2>4. es \in SUBSET Entries
    BY <1>0, <2>3, EntriesOf DEF NodeTyped
  <2>5. PICK n \in Nat : n = scans + 1 /\ n <= MaxScans
    BY <1>0, <2>1
  <2> DEFINE q == [Idle EXCEPT !.op = "scan", !.at = "rows", !.stamp = n, !.entries = es,
                               !.touch = ts]
  <2>6. StartCall(c, q)
    BY <1>5, <2>3, <2>5 DEF Scan
  <2>7. \A b : CallEntered([q EXCEPT !.alone = b])
    BY <2>4, <2>5 DEF CallEntered, Idle
  <2> HIDE DEF q, known
  <2>8. \A d \in Callers : CallEntered(call'[d])
    <3>1. ASSUME NEW d \in Callers PROVE CallEntered(call'[d])
      <4>1. \E b : call'[d] = [q EXCEPT !.alone = b] \/ call'[d] = [call[d] EXCEPT !.alone = b]
        BY <2>6 DEF StartCall
      <4>2. \A b : CallEntered([call[d] EXCEPT !.alone = b])
        BY <1>0 DEF NodeCalls, CallEntered
      <4> QED BY <2>7, <4>1, <4>2
    <3> QED BY <3>1
  <2> QED BY <2>2, <2>8
<1>6. ASSUME NEW c \in Callers, CallSteps(c), ~Fails(c), ~Replace(c)
      PROVE  (\A d \in Callers : CallEntered(call'[d])) /\ scans' <= MaxScans
  <2>1. scans' <= MaxScans
    BY <1>0, <1>6 DEF CallSteps, RepositoryAdd, RepositoryRemove, ScanAdds, ScanTouches, ReadRows,
                      OpenTemporary, WriteText, Quiet
  <2>2. PICK q \in NodeCalls : q = call[c] /\ CallEntered(q)
    BY <1>0
  <2>3. PICK v : v = Render(rows) /\ v \subseteq Entries
    BY RenderEntries
  <2>4. \/ call' = [call EXCEPT ![c] = Idle]
        \/ call' = [call EXCEPT ![c] = [q EXCEPT !.at = "read", !.entries = {}]]
        \/ \E e : \/ call' = [call EXCEPT ![c] = [q EXCEPT !.entries = q.entries \ {e}]]
                  \/ call' = [call EXCEPT ![c] = [q EXCEPT !.entries = q.entries]]
        \/ call' = [call EXCEPT ![c] = [q EXCEPT !.at = "read", !.touch = {}]]
        \/ call' = [call EXCEPT ![c] = [q EXCEPT !.at = "open", !.view = v]]
        \/ call' = [call EXCEPT ![c] = [q EXCEPT !.at = "write", !.handle = "temporary"]]
        \/ call' = [call EXCEPT ![c] = [q EXCEPT !.at = "replace"]]
    <3>1. CASE RepositoryAdd(c) \/ RepositoryRemove(c)
      BY <2>2, <3>1 DEF RepositoryAdd, RepositoryRemove, Set
    <3>2. CASE ScanAdds(c)
      BY <1>6, <2>2, <3>2 DEF ScanAdds, Set
    <3>3. CASE ScanTouches(c)
      BY <2>2, <3>3 DEF ScanTouches, Set
    <3>4. CASE ReadRows(c)
      BY <2>2, <2>3, <3>4 DEF ReadRows, Read, Set
    <3>5. CASE OpenTemporary(c) \/ WriteText(c)
      BY <2>2, <3>5 DEF OpenTemporary, WriteText, Set
    <3> QED BY <1>6, <3>1, <3>2, <3>3, <3>4, <3>5 DEF CallSteps
  <2>5. /\ CallEntered([q EXCEPT !.at = "read", !.entries = {}])
        /\ \A e : CallEntered([q EXCEPT !.entries = q.entries \ {e}])
        /\ CallEntered([q EXCEPT !.entries = q.entries])
        /\ CallEntered([q EXCEPT !.at = "read", !.touch = {}])
        /\ CallEntered([q EXCEPT !.at = "open", !.view = v])
        /\ CallEntered([q EXCEPT !.at = "write", !.handle = "temporary"])
        /\ CallEntered([q EXCEPT !.at = "replace"])
    BY <2>2, <2>3 DEF NodeCalls, CallEntered
  <2>6. ASSUME NEW p, CallEntered(p), call' = [call EXCEPT ![c] = p]
        PROVE  \A d \in Callers : CallEntered(call'[d])
    BY <1>0, <2>6
  <2>7. \E p : CallEntered(p) /\ call' = [call EXCEPT ![c] = p]
    BY <1>0, <2>4, <2>5
  <2> QED BY <2>1, <2>6, <2>7
<1>7. ASSUME NEW c \in Callers, Replace(c), ~Fails(c)
      PROVE  (\A d \in Callers : CallEntered(call'[d])) /\ scans' <= MaxScans
  <2>1. /\ call' = [d \in Callers |-> IF d = c THEN Idle ELSE [call[d] EXCEPT !.handle = Moved(@)]]
        /\ scans' = scans
    BY <1>7 DEF Replace
  <2>2. ASSUME NEW p \in NodeCalls, CallEntered(p), NEW h
        PROVE  CallEntered([p EXCEPT !.handle = h])
    BY <2>2 DEF NodeCalls, CallEntered
  <2>3. ASSUME NEW d \in Callers PROVE CallEntered(call'[d])
    <3>1. PICK h : h = Moved(call[d].handle)
      OBVIOUS
    <3>2. d # c => call'[d] = [call[d] EXCEPT !.handle = h]
      BY <2>1, <3>1
    <3>3. d = c => call'[d] = Idle
      BY <2>1
    <3> QED BY <1>0, <2>2, <3>2, <3>3
  <2> QED BY <1>0, <2>1, <2>3
<1>8. ASSUME NEW c \in Callers, Fails(c)
      PROVE  (\A d \in Callers : CallEntered(call'[d])) /\ scans' <= MaxScans
  <2>1. scans' = scans /\ Set(c, Idle)
    BY <1>8 DEF Fails
  <2> QED BY <1>0, <1>2, <2>1
<1>9. CASE ApiRestarts
  BY <1>0, <1>9 DEF ApiRestarts
<1>10. CASE UNCHANGED <<call, scans>>
  BY <1>0, <1>10
<1> QED BY <1>3, <1>4, <1>5, <1>6, <1>7, <1>8, <1>9, <1>10
        DEF NodeNext, CallFails, Import, MachineJoins

LEMMA PathsTyped ==
    ASSUME NodeEntered, NodeNext
    PROVE  PathTyped(inventory') /\ PathTyped(temporary')
<1>0. PathTyped(inventory) /\ PathTyped(temporary) /\ \A c \in Callers : CallEntered(call[c])
  BY DEF NodeEntered
<1>1. PathTyped(Absent) /\ PathTyped(Opened) /\ PathTyped(Mixed)
  BY DEF PathTyped
<1>2. ASSUME NEW text \in SUBSET Entries PROVE PathTyped(Whole(text))
  <2>1. Whole(text).text = text
    BY DEF Whole
  <2> QED BY <2>1 DEF PathTyped
<1>3. ASSUME NEW c \in Callers, WriteText(c) PROVE PathTyped(inventory') /\ PathTyped(temporary')
  <2>1. call[c].view \in SUBSET Entries
    BY <1>0 DEF CallEntered
  <2>2. \A path : Over(path, call[c].view) \in {Mixed, Whole(call[c].view)}
    BY DEF Over
  <2>3. /\ inventory' \in {inventory, Mixed, Whole(call[c].view)}
        /\ temporary' \in {temporary, Mixed, Whole(call[c].view)}
    BY <1>3, <2>2 DEF WriteText
  <2> QED BY <1>0, <1>1, <1>2, <2>1, <2>3
<1>4. CASE ApiRestarts
  BY <1>0, <1>1, <1>2, <1>4, RenderEntries DEF ApiRestarts
<1>5. ASSUME NEW c \in Callers, Replace(c) PROVE PathTyped(inventory') /\ PathTyped(temporary')
  <2>1. inventory' \in {inventory, temporary} /\ temporary' \in {temporary, Absent}
    BY <1>5 DEF Replace, Fails, File
  <2> QED BY <1>0, <1>1, <2>1
<1>6. ASSUME NEW c \in Callers, OpenTemporary(c)
      PROVE  PathTyped(inventory') /\ PathTyped(temporary')
  BY <1>0, <1>1, <1>6 DEF OpenTemporary
<1>7. CASE UNCHANGED <<inventory, temporary>>
  BY <1>0, <1>7
<1> QED BY <1>3, <1>4, <1>5, <1>6, <1>7
        DEF NodeNext, CallSteps, Add, Remove, Scan, StartCall, RepositoryAdd, RepositoryRemove,
            ScanAdds, ScanTouches, ReadRows, CallFails, Fails, Import, MachineJoins, File

LEMMA NodeTypeStep == ASSUME NodeEntered, [NodeNext]_nodeVars PROVE NodeEntered'
<1>1. NodeInv'
  BY NodeStep DEF NodeEntered
<1>2. nodeFaults' \in 0..MaxNodeFaults
  <2>1. UNCHANGED nodeFaults \/ NodeFault
    BY DEF NodeNext, nodeVars, CallSteps, Add, Remove, Scan, StartCall, RepositoryAdd,
           RepositoryRemove, ScanAdds, ScanTouches, ReadRows, OpenTemporary, WriteText, Replace,
           Quiet, CallFails, ApiRestarts, Import, MachineJoins
  <2> QED BY <2>1, NodeListAssumption DEF NodeFault, NodeEntered
<1>3. CASE NodeNext
  <2>1. \A r \in rows' : RowEntered(r)
    BY <1>3, RowsEntered
  <2>2. (\A c \in Callers : CallEntered(call'[c])) /\ scans' <= MaxScans
    BY <1>3, CallsEntered
  <2>3. PathTyped(inventory') /\ PathTyped(temporary')
    BY <1>3, PathsTyped
  <2> QED BY <1>1, <1>2, <2>1, <2>2, <2>3 DEF NodeEntered, RowEntered, CallEntered, PathTyped
<1>4. CASE UNCHANGED nodeVars
  BY <1>1, <1>2, <1>4 DEF nodeVars, NodeEntered, RowEntered, CallEntered, PathTyped
<1> QED BY <1>3, <1>4
=============================================================================
