---------------------------- MODULE DeployProofs ----------------------------
(***************************************************************************)
(* Proofs about ProvedDeploy: who writes to a cluster, and what a mark is  *)
(* worth, for any number of requests, drafts, clusters and faults.         *)
(***************************************************************************)
EXTENDS ProvedDeploy, TLAPS

Rows == [id : DraftIds, content : Contents, cluster : Clusters,
         action : Actions, state : Ended \union {"RUNNING"}]

\* A thread has a row to finish.
ThreadsRecorded ==
    \A s \in Slots : worker[s].pc # "idle" => deployment[worker[s].deployment] # None

WriterInv == TypeOK /\ OneWriter /\ ThreadsRecorded

Deploying(r) == req[r].pc \in {"claim", "record"}

\* The copies a deployment works with say what the draft says.
CopiesAgree ==
    /\ \A r \in Requests : Deploying(r) =>
          /\ draft[req[r].id] # None
          /\ Here(req[r].id) => draft[req[r].id].content = req[r].loaded.content
    /\ \A s \in Slots : worker[s].pc # "idle" =>
          /\ draft[worker[s].id] # None
          /\ Here(worker[s].id) => draft[worker[s].id].content = worker[s].content

\* An edit under way compares with content the mark is about.
EditsCompare ==
    \A r \in Requests :
        req[r].pc = "save" /\ Here(req[r].id) /\ draft[req[r].id].proved # None
            => draft[req[r].id].content = req[r].loaded.content

Apart == \A i \in DraftIds : ~(BeingDeployed(i) /\ BeingEdited(i))

\* What a thread will claim has happened, and only a development cluster proves.
MarksEarned ==
    \A s \in Slots :
        /\ worker[s].pc = "mark" => AfterRow(worker[s], s[2]) = "mark"
        /\ worker[s].pc \in {"finish", "mark"} /\ AfterRow(worker[s], s[2]) = "mark"
              => worker[s].content \in landed[worker[s].id]

\* What a request brings past the gate has been on a development cluster.
GatePassed ==
    \A r \in Requests :
        Deploying(r) /\ req[r].action = "deploy" =>
            req[r].cluster \in Development \/ req[r].loaded.content \in landed[req[r].id]

ProofInv ==
    /\ WriterInv
    /\ CopiesAgree /\ EditsCompare /\ Apart
    /\ MarksEarned /\ MarkIsAboutContent
    /\ GatePassed /\ ShippedWasProved
-----------------------------------------------------------------------------
(* Who writes: types, claims and threads.                                  *)

LEMMA RowsAreRows ==
    /\ \A r \in Rows : r # None
    /\ \A r \in Drafts : r # None /\ r # Deleted
BY ConstantsAssumption DEF Rows, Drafts, DraftIds, Actions, Ended

\* Writes to drafts and history disturb no writer.
LEMMA DraftsOnly ==
    ASSUME WriterInv, UNCHANGED <<deployment, busy, req, worker, faults>>,
           draft' \in [DraftIds -> Drafts \union {None, Deleted}],
           landed' \in [DraftIds -> SUBSET Contents]
    PROVE  WriterInv'
BY DEF WriterInv, TypeOK, OneWriter, ThreadsRecorded, Slot, Service

\* A request that is not past the claim neither before nor after a step.
LEMMA NotRecording ==
    ASSUME WriterInv, NEW r \in Requests, NEW h \in Saves \union Deploys \union {Idle},
           req' = [req EXCEPT ![r] = h], req[r].pc # "record", h.pc # "record",
           UNCHANGED <<deployment, busy, worker, landed>>,
           draft' \in [DraftIds -> Drafts \union {None, Deleted}],
           faults' \in 0..MaxFaults
    PROVE  WriterInv'
<1>1. /\ req' \in [Requests -> Saves \union Deploys \union {Idle}]
      /\ \A q \in Requests : q # r => req'[q] = req[q]
      /\ req'[r] = h
  BY DEF WriterInv, TypeOK
<1>2. TypeOK'
  BY <1>1 DEF WriterInv, TypeOK
<1>3. \A q \in Requests : req'[q].pc = "record" => q # r /\ req'[q] = req[q]
  BY <1>1
<1>4. OneWriter'
  BY <1>3 DEF WriterInv, OneWriter, Slot, Service
<1>5. ThreadsRecorded'
  BY DEF WriterInv, ThreadsRecorded
<1> QED BY <1>2, <1>4, <1>5 DEF WriterInv

\* A thread goes on, under the claim it has.
LEMMA ThreadGoesOn ==
    ASSUME WriterInv, NEW s \in Slots, NEW w \in Threads,
           worker[s].pc # "idle", w.deployment = worker[s].deployment,
           worker' = [worker EXCEPT ![s] = w],
           UNCHANGED <<busy, req>>,
           draft' \in [DraftIds -> Drafts \union {None, Deleted}],
           deployment' \in [Deployments -> {None} \union Rows],
           \A d \in Deployments : deployment[d] # None => deployment'[d] # None,
           landed' \in [DraftIds -> SUBSET Contents],
           faults' \in 0..MaxFaults
    PROVE  WriterInv'
<1>1. /\ worker' \in [Slots -> Threads \union {Idle}]
      /\ \A t \in Slots : t # s => worker'[t] = worker[t]
      /\ worker'[s] = w
  BY DEF WriterInv, TypeOK
<1>2. TypeOK'
  BY <1>1 DEF WriterInv, TypeOK, Rows
<1>3. \A t \in Slots : worker'[t].pc # "idle" =>
          /\ worker[t].pc # "idle"
          /\ worker'[t].deployment = worker[t].deployment
          /\ worker[t].deployment \in Deployments
  BY <1>1 DEF WriterInv, TypeOK, Threads, Idle
<1>4. OneWriter'
  BY <1>3 DEF WriterInv, OneWriter, Slot, Service
<1>5. ThreadsRecorded'
  BY <1>3 DEF WriterInv, ThreadsRecorded
<1> QED BY <1>2, <1>4, <1>5 DEF WriterInv

LEMMA DraftingWrites ==
    ASSUME WriterInv, NEW r \in Requests,
           \/ \E content \in Contents : Create(r, content)
           \/ \E i \in DraftIds : Delete(r, i)
    PROVE  WriterInv'
<1>1. ASSUME NEW content \in Contents, Create(r, content) PROVE WriterInv'
  <2>1. [content |-> content, proved |-> None] \in Drafts
    BY DEF Drafts
  <2>2. draft' \in [DraftIds -> Drafts \union {None, Deleted}]
    BY <1>1, <2>1 DEF Create, WriterInv, TypeOK
  <2> QED BY <1>1, <2>2, DraftsOnly DEF Create, WriterInv, TypeOK
<1>2. ASSUME NEW i \in DraftIds, Delete(r, i) PROVE WriterInv'
  <2>1. draft' \in [DraftIds -> Drafts \union {None, Deleted}]
    BY <1>2 DEF Delete, WriterInv, TypeOK
  <2> QED BY <1>2, <2>1, DraftsOnly DEF Delete, WriterInv, TypeOK
<1> QED BY <1>1, <1>2

LEMMA AskingWrites ==
    ASSUME WriterInv, NEW r \in Requests, NEW i \in DraftIds,
           \/ \E content \in Contents : Edit(r, i, content)
           \/ \E c \in Clusters, action \in Actions : Deploy(r, i, c, action)
    PROVE  WriterInv'
<1>1. Here(i) => draft[i] \in Drafts
  BY DEF Here, WriterInv, TypeOK
<1>2. ASSUME NEW content \in Contents, Edit(r, i, content) PROVE WriterInv'
  <2> DEFINE h == [pc |-> "save", id |-> i, loaded |-> draft[i], content |-> content]
  <2>1. h \in Saves /\ h.pc # "record"
    BY <1>1, <1>2 DEF Edit, Saves
  <2>2. req[r].pc # "record" /\ req' = [req EXCEPT ![r] = h]
    BY <1>2 DEF Edit
  <2> HIDE DEF h
  <2> QED BY <1>2, <2>1, <2>2, NotRecording DEF Edit, WriterInv, TypeOK
<1>3. ASSUME NEW c \in Clusters, NEW action \in Actions, Deploy(r, i, c, action)
      PROVE  WriterInv'
  <2> DEFINE h == [pc |-> "claim", id |-> i, loaded |-> draft[i], cluster |-> c,
                   action |-> action]
  <2>1. h \in Deploys /\ h.pc # "record"
    BY <1>1, <1>3 DEF Deploy, Deploys
  <2>2. req[r].pc # "record" /\ req' = [req EXCEPT ![r] = h]
    BY <1>3 DEF Deploy
  <2> HIDE DEF h
  <2> QED BY <1>3, <2>1, <2>2, NotRecording DEF Deploy, WriterInv, TypeOK
<1> QED BY <1>2, <1>3

\* What an UPDATE of a draft leaves is a draft.
LEMMA SavedIsDraft ==
    ASSUME TypeOK, NEW i \in DraftIds, Here(i), NEW row \in Drafts,
           NEW content \in Contents
    PROVE  [content |-> content, proved |-> MarkAfterEdit(i, row, content)] \in Drafts
<1>1. draft[i].proved \in Clusters \union {None}
  BY DEF Here, TypeOK, Drafts
<1> QED BY <1>1 DEF MarkAfterEdit, Drafts

LEMMA SavingWrites ==
    ASSUME WriterInv, NEW r \in Requests, Save(r) \/ SaveFails(r)
    PROVE  WriterInv'
<1>1. req[r] \in Saves /\ req[r].pc = "save"
  BY DEF Save, SaveFails, WriterInv, TypeOK, Deploys, Idle
<1>2. req' = [req EXCEPT ![r] = Idle] /\ Idle.pc # "record"
  BY DEF Save, SaveFails, Finish, Idle
<1>3. draft' \in [DraftIds -> Drafts \union {None, Deleted}]
  <2>1. CASE draft' = draft
    BY <2>1 DEF WriterInv, TypeOK
  <2>2. CASE draft' # draft
    <3>1. /\ req[r].id \in DraftIds /\ req[r].loaded \in Drafts /\ req[r].content \in Contents
          /\ Here(req[r].id)
      BY <1>1, <2>2 DEF Save, SaveFails, Saves
    <3> QED BY <2>2, <3>1, SavedIsDraft DEF Save, SaveFails, WriterInv, TypeOK
  <2> QED BY <2>1, <2>2
<1>4. UNCHANGED <<deployment, busy, worker, landed>> /\ faults' \in 0..MaxFaults
  BY ConstantsAssumption DEF Save, SaveFails, Fault, WriterInv, TypeOK
<1> QED BY <1>1, <1>2, <1>3, <1>4, NotRecording

LEMMA ClaimWrites ==
    ASSUME WriterInv, NEW r \in Requests, Claim(r)
    PROVE  WriterInv'
<1> DEFINE s == Slot(req[r])
<1>1. req[r] \in Deploys /\ req[r].pc = "claim"
  BY DEF Claim, WriterInv, TypeOK, Saves, Idle
<1>2. s \in Slots
  BY <1>1 DEF Slot, Service, Slots, Services, Deploys
<1>3. CASE ~MayClaim(s)
  BY <1>1, <1>3, NotRecording DEF Claim, Finish, Idle, WriterInv, TypeOK
<1>4. CASE MayClaim(s)
  <2> DEFINE h == [req[r] EXCEPT !.pc = "record"]
  <2>1. h \in Deploys /\ h.pc = "record" /\ Slot(h) = s
    BY <1>1 DEF Deploys, Slot, Service
  <2>2. /\ req' = [req EXCEPT ![r] = h]
        /\ busy' = [busy EXCEPT ![s] = TRUE]
        /\ UNCHANGED <<draft, deployment, worker, landed, faults>>
    BY <1>4 DEF Claim
  <2> HIDE DEF h, s
  <2>3. TypeOK'
    BY <1>2, <2>1, <2>2 DEF WriterInv, TypeOK
  <2>4. /\ req'[r] = h
        /\ \A q \in Requests : q # r => req'[q] = req[q]
        /\ busy'[s]
        /\ \A t \in Slots : t # s => busy'[t] = busy[t]
    BY <1>2, <2>2 DEF WriterInv, TypeOK
  <2>5. ~busy[s]
    BY <1>4 DEF MayClaim
  <2>6. /\ worker[s].pc = "idle"
        /\ \A q \in Requests : ~(req[q].pc = "record" /\ Slot(req[q]) = s)
    BY <1>2, <2>5 DEF WriterInv, OneWriter
  <2>7. OneWriter'
    <3> SUFFICES ASSUME NEW t \in Slots
                 PROVE  LET claims == {q \in Requests : req'[q].pc = "record" /\ Slot(req'[q]) = t}
                        IN /\ \A p, q \in claims : p = q
                           /\ claims # {} => worker'[t].pc = "idle"
                           /\ claims # {} \/ worker'[t].pc # "idle" => busy'[t]
      BY DEF OneWriter, Slot, Service
    <3>1. CASE t = s
      BY <2>2, <2>4, <2>6, <3>1
    <3>2. CASE t # s
      <4>1. \A q \in Requests : req'[q].pc = "record" /\ Slot(req'[q]) = t
                                    <=> req[q].pc = "record" /\ Slot(req[q]) = t
        BY <1>1, <2>1, <2>4, <3>2
      <4> QED BY <2>2, <2>4, <3>2, <4>1 DEF WriterInv, OneWriter
    <3> QED BY <3>1, <3>2
  <2> QED BY <2>2, <2>3, <2>7 DEF WriterInv, ThreadsRecorded
<1> QED BY <1>3, <1>4

LEMMA RecordWrites ==
    ASSUME WriterInv, NEW r \in Requests, Record(r)
    PROVE  WriterInv'
<1> DEFINE s == Slot(req[r])
<1>1. req[r] \in Deploys /\ req[r].pc = "record"
  BY DEF Record, WriterInv, TypeOK, Saves, Idle
<1>2. s \in Slots
  BY <1>1 DEF Slot, Service, Slots, Services, Deploys
<1>3. PICK d \in Deployments :
        /\ deployment[d] = None
        /\ deployment' = [deployment EXCEPT ![d] =
              [id |-> req[r].id, content |-> req[r].loaded.content,
               cluster |-> req[r].cluster, action |-> req[r].action, state |-> "RUNNING"]]
        /\ worker' = [worker EXCEPT ![s] =
              [pc |-> "play", id |-> req[r].id, deployment |-> d,
               content |-> req[r].loaded.content, action |-> req[r].action,
               state |-> "RUNNING"]]
  BY DEF Record
<1> DEFINE w == [pc |-> "play", id |-> req[r].id, deployment |-> d,
                 content |-> req[r].loaded.content, action |-> req[r].action,
                 state |-> "RUNNING"]
           row == [id |-> req[r].id, content |-> req[r].loaded.content,
                   cluster |-> req[r].cluster, action |-> req[r].action, state |-> "RUNNING"]
<1>4. w \in Threads /\ w.pc = "play" /\ w.deployment = d
  BY <1>1 DEF Threads, Deploys, Drafts
<1>5. row \in Rows /\ row # None
  BY <1>1, RowsAreRows DEF Rows, Deploys, Drafts
<1>6. /\ deployment' = [deployment EXCEPT ![d] = row]
      /\ worker' = [worker EXCEPT ![s] = w]
      /\ req' = [req EXCEPT ![r] = Idle]
      /\ UNCHANGED <<draft, busy, landed, faults>>
  BY <1>3 DEF Record, Finish
<1> HIDE DEF w, row, s
<1>7. TypeOK'
  BY <1>2, <1>4, <1>5, <1>6 DEF WriterInv, TypeOK, Rows
<1>8. /\ req'[r].pc = "idle"
      /\ \A q \in Requests : q # r => req'[q] = req[q]
      /\ worker'[s] = w
      /\ \A t \in Slots : t # s => worker'[t] = worker[t]
      /\ deployment'[d] = row
      /\ \A e \in Deployments : e # d => deployment'[e] = deployment[e]
  BY <1>2, <1>6 DEF WriterInv, TypeOK, Idle
<1>9. /\ busy[s]
      /\ \A q \in Requests : req[q].pc = "record" /\ Slot(req[q]) = s => q = r
  BY <1>1, <1>2 DEF WriterInv, OneWriter, s
<1>10. OneWriter'
  <2> SUFFICES ASSUME NEW t \in Slots
               PROVE  LET claims == {q \in Requests : req'[q].pc = "record" /\ Slot(req'[q]) = t}
                      IN /\ \A p, q \in claims : p = q
                         /\ claims # {} => worker'[t].pc = "idle"
                         /\ claims # {} \/ worker'[t].pc # "idle" => busy'[t]
    BY DEF OneWriter, Slot, Service
  <2>1. \A q \in Requests : req'[q].pc = "record" => q # r /\ req'[q] = req[q]
    BY <1>8
  <2>2. CASE t = s
    BY <1>6, <1>9, <2>1, <2>2
  <2>3. CASE t # s
    BY <1>6, <1>8, <2>1, <2>3 DEF WriterInv, OneWriter
  <2> QED BY <2>2, <2>3
<1>11. ThreadsRecorded'
  <2> SUFFICES ASSUME NEW t \in Slots, worker'[t].pc # "idle"
               PROVE  deployment'[worker'[t].deployment] # None
    BY DEF ThreadsRecorded
  <2>1. CASE t = s
    BY <1>4, <1>5, <1>8, <2>1
  <2>2. CASE t # s
    <3>1. worker[t].pc # "idle" /\ worker[t].deployment \in Deployments
      BY <1>8, <2>2 DEF WriterInv, TypeOK, Threads, Idle
    <3> QED BY <1>3, <1>8, <2>2, <3>1 DEF WriterInv, ThreadsRecorded
  <2> QED BY <2>1, <2>2
<1> QED BY <1>7, <1>10, <1>11 DEF WriterInv

LEMMA RecordFailsWrites ==
    ASSUME WriterInv, NEW r \in Requests, RecordFails(r)
    PROVE  WriterInv'
<1> DEFINE s == Slot(req[r])
<1>1. req[r] \in Deploys /\ req[r].pc = "record"
  BY DEF RecordFails, WriterInv, TypeOK, Saves, Idle
<1>2. s \in Slots
  BY <1>1 DEF Slot, Service, Slots, Services, Deploys
<1>3. /\ req' = [req EXCEPT ![r] = Idle]
      /\ busy' = [busy EXCEPT ![s] = FALSE]
      /\ UNCHANGED <<draft, deployment, worker, landed>>
      /\ faults' \in 0..MaxFaults
  BY ConstantsAssumption DEF RecordFails, Release, Finish, Fault, WriterInv, TypeOK
<1>4. /\ worker[s].pc = "idle"
      /\ \A q \in Requests : req[q].pc = "record" /\ Slot(req[q]) = s => q = r
  BY <1>1, <1>2 DEF WriterInv, OneWriter
<1> HIDE DEF s
<1>5. TypeOK'
  BY <1>2, <1>3 DEF WriterInv, TypeOK
<1>6. /\ req'[r].pc = "idle"
      /\ \A q \in Requests : q # r => req'[q] = req[q]
      /\ \A t \in Slots : t # s => busy'[t] = busy[t]
  BY <1>2, <1>3 DEF WriterInv, TypeOK, Idle
<1>7. \A q \in Requests : req'[q].pc = "record" => q # r /\ req'[q] = req[q]
  BY <1>6
<1>8. OneWriter'
  <2> SUFFICES ASSUME NEW t \in Slots
               PROVE  LET claims == {q \in Requests : req'[q].pc = "record" /\ Slot(req'[q]) = t}
                      IN /\ \A p, q \in claims : p = q
                         /\ claims # {} => worker'[t].pc = "idle"
                         /\ claims # {} \/ worker'[t].pc # "idle" => busy'[t]
    BY DEF OneWriter, Slot, Service
  <2>1. CASE t = s
    BY <1>3, <1>4, <1>7, <2>1
  <2>2. CASE t # s
    BY <1>3, <1>6, <1>7, <2>2 DEF WriterInv, OneWriter
  <2> QED BY <2>1, <2>2
<1> QED BY <1>3, <1>5, <1>8 DEF WriterInv, ThreadsRecorded

LEMMA ThreadWrites ==
    ASSUME WriterInv, NEW s \in Slots,
           Play(s) \/ FinishDeployment(s) \/ MarkProved(s) \/ NotRecorded(s)
    PROVE  WriterInv'
<1> DEFINE w == worker[s]
<1>1. w \in Threads /\ w.pc # "idle"
  BY DEF Play, FinishDeployment, MarkProved, NotRecorded, WriterInv, TypeOK, Idle
<1>2. /\ deployment \in [Deployments -> {None} \union Rows]
      /\ draft \in [DraftIds -> Drafts \union {None, Deleted}]
      /\ landed \in [DraftIds -> SUBSET Contents]
      /\ faults \in 0..MaxFaults
  BY DEF WriterInv, TypeOK, Rows
<1>3. CASE Play(s)
  <2>1. PICK state \in Ended : worker' = [worker EXCEPT ![s].pc = "finish", ![s].state = state]
    BY <1>3 DEF Play, Ended
  <2> DEFINE v == [w EXCEPT !.pc = "finish", !.state = state]
  <2>2. v \in Threads /\ v.deployment = w.deployment /\ worker' = [worker EXCEPT ![s] = v]
    BY <1>1, <1>3, <2>1 DEF Threads, Play
  <2>3. landed' \in [DraftIds -> SUBSET Contents]
    BY <1>1, <1>2, <1>3 DEF Play, Threads
  <2> HIDE DEF v, w
  <2> QED BY <1>1, <1>2, <1>3, <2>2, <2>3, ThreadGoesOn DEF Play, w
<1>4. CASE FinishDeployment(s)
  <2> DEFINE v == [w EXCEPT !.pc = AfterRow(w, s[2])]
  <2>1. v \in Threads /\ v.deployment = w.deployment /\ worker' = [worker EXCEPT ![s] = v]
    BY <1>1, <1>4 DEF Threads, FinishDeployment, AfterRow, Ended, Actions
  <2>2. /\ deployment[w.deployment] \in Rows
        /\ w.deployment \in Deployments
        /\ w.state \in Ended
    BY <1>1, <1>2, <1>4 DEF WriterInv, ThreadsRecorded, Threads, FinishDeployment
  <2>3. [deployment[w.deployment] EXCEPT !.state = w.state] \in Rows
    BY <2>2 DEF Rows
  <2>4. /\ deployment' \in [Deployments -> {None} \union Rows]
        /\ \A d \in Deployments : deployment[d] # None => deployment'[d] # None
    BY <1>2, <1>4, <2>2, <2>3, RowsAreRows DEF FinishDeployment
  <2> HIDE DEF v, w
  <2> QED BY <1>1, <1>2, <1>4, <2>1, <2>4, ThreadGoesOn DEF FinishDeployment, w
<1>5. CASE MarkProved(s)
  <2> DEFINE v == [w EXCEPT !.pc = "free"]
  <2>1. v \in Threads /\ v.deployment = w.deployment /\ worker' = [worker EXCEPT ![s] = v]
    BY <1>1, <1>5 DEF Threads, MarkProved, Ended, Actions
  <2>2. draft' \in [DraftIds -> Drafts \union {None, Deleted}]
    <3>1. w.id \in DraftIds /\ s[2] \in Clusters
      BY <1>1 DEF Threads, Slots
    <3>2. Here(w.id) => [draft[w.id] EXCEPT !.proved = s[2]] \in Drafts
      BY <1>2, <3>1 DEF Here, Drafts
    <3> QED BY <1>2, <1>5, <3>1, <3>2 DEF MarkProved
  <2> HIDE DEF v, w
  <2> QED BY <1>1, <1>2, <1>5, <2>1, <2>2, ThreadGoesOn DEF MarkProved, w
<1>6. CASE NotRecorded(s)
  <2> DEFINE v == [w EXCEPT !.pc = "free"]
  <2>1. v \in Threads /\ v.deployment = w.deployment /\ worker' = [worker EXCEPT ![s] = v]
    BY <1>1, <1>6 DEF Threads, NotRecorded, Ended, Actions
  <2>2. faults' \in 0..MaxFaults
    BY <1>2, <1>6, ConstantsAssumption DEF NotRecorded, Fault
  <2> HIDE DEF v, w
  <2> QED BY <1>1, <1>2, <1>6, <2>1, <2>2, ThreadGoesOn DEF NotRecorded, w
<1> QED BY <1>3, <1>4, <1>5, <1>6

LEMMA FreeWrites ==
    ASSUME WriterInv, NEW s \in Slots, Free(s)
    PROVE  WriterInv'
<1>1. /\ busy' = [busy EXCEPT ![s] = FALSE]
      /\ worker' = [worker EXCEPT ![s] = Idle]
      /\ worker[s].pc # "idle"
      /\ UNCHANGED <<draft, deployment, req, landed, faults>>
  BY DEF Free, Release
<1>2. TypeOK'
  BY <1>1 DEF WriterInv, TypeOK
<1>3. /\ worker'[s].pc = "idle"
      /\ \A t \in Slots : t # s => worker'[t] = worker[t] /\ busy'[t] = busy[t]
  BY <1>1 DEF WriterInv, TypeOK, Idle
<1>4. \A q \in Requests : ~(req[q].pc = "record" /\ Slot(req[q]) = s)
  BY <1>1 DEF WriterInv, OneWriter
<1>5. OneWriter'
  <2> SUFFICES ASSUME NEW t \in Slots
               PROVE  LET claims == {q \in Requests : req[q].pc = "record" /\ Slot(req[q]) = t}
                      IN /\ \A p, q \in claims : p = q
                         /\ claims # {} => worker'[t].pc = "idle"
                         /\ claims # {} \/ worker'[t].pc # "idle" => busy'[t]
    BY <1>1 DEF OneWriter, Slot, Service
  <2>1. CASE t = s
    BY <1>3, <1>4, <2>1
  <2>2. CASE t # s
    BY <1>3, <2>2 DEF WriterInv, OneWriter
  <2> QED BY <2>1, <2>2
<1> QED BY <1>1, <1>2, <1>3, <1>5 DEF WriterInv, ThreadsRecorded

LEMMA CrashWrites ==
    ASSUME WriterInv, Crash
    PROVE  WriterInv'
<1>1. /\ \A r \in Requests : req'[r].pc = "idle"
      /\ \A s \in Slots : worker'[s].pc = "idle"
  BY DEF Crash, Idle
<1>2. TypeOK'
  BY ConstantsAssumption DEF Crash, Fault, WriterInv, TypeOK
<1> QED BY <1>1, <1>2 DEF WriterInv, OneWriter, ThreadsRecorded

LEMMA WriterInit == Init => WriterInv
<1> SUFFICES ASSUME Init PROVE WriterInv
  OBVIOUS
<1>1. /\ \A r \in Requests : req[r].pc = "idle"
      /\ \A s \in Slots : worker[s].pc = "idle"
  BY DEF Init, Idle
<1>2. TypeOK
  BY ConstantsAssumption DEF Init, TypeOK
<1> QED BY <1>1, <1>2 DEF WriterInv, OneWriter, ThreadsRecorded

LEMMA WriterStep == WriterInv /\ [Next]_vars => WriterInv'
<1> SUFFICES ASSUME WriterInv, [Next]_vars PROVE WriterInv'
  OBVIOUS
<1>1. CASE UNCHANGED vars
  BY <1>1 DEF vars, WriterInv, TypeOK, OneWriter, ThreadsRecorded, Slot, Service
<1>2. ASSUME NEW r \in Requests,
             \/ \E content \in Contents : Create(r, content)
             \/ \E i \in DraftIds, content \in Contents : Edit(r, i, content)
             \/ \E i \in DraftIds : Delete(r, i)
             \/ \E i \in DraftIds, c \in Clusters, action \in Actions : Deploy(r, i, c, action)
             \/ Request(r)
      PROVE  WriterInv'
  BY <1>2, DraftingWrites, AskingWrites, SavingWrites, ClaimWrites, RecordWrites,
     RecordFailsWrites DEF Request
<1>3. ASSUME NEW s \in Slots, Thread(s) PROVE WriterInv'
  BY <1>3, ThreadWrites, FreeWrites DEF Thread
<1>4. CASE Crash
  BY <1>4, CrashWrites
<1>5. CASE AtRest
  BY <1>1, <1>5 DEF AtRest
<1> QED BY <1>1, <1>2, <1>3, <1>4, <1>5 DEF Next

LEMMA WriterInvariant == Spec => []WriterInv
BY WriterInit, WriterStep, PTL DEF Spec

\* Every row, claim, request and thread of a deployment keeps its type; the row
\* a thread ends has been inserted.
THEOREM DeployTypeCorrect == Spec => []TypeOK
<1>1. WriterInv => TypeOK
  BY DEF WriterInv
<1> QED BY <1>1, WriterInvariant, PTL

\* One playbook of a service at a time writes to a cluster: the claim passes from
\* a request to its thread and is given up by one of them alone (deploy,
\* start_deployment, _deploy_now).
THEOREM OnePlaybookWrites == Spec => []OneWriter
<1>1. WriterInv => OneWriter
  BY DEF WriterInv
<1> QED BY <1>1, WriterInvariant, PTL

-----------------------------------------------------------------------------
(* What a mark is worth, if nobody edits a draft while it is being deployed. *)

\* A step that writes no draft, starts nothing, and ends or goes on with what is
\* under way.
Calm ==
    /\ UNCHANGED draft
    /\ \A i \in DraftIds : landed[i] \subseteq landed'[i]
    /\ \A r \in Requests : req'[r].pc # "idle" =>
          \/ req'[r] = req[r]
          \/ /\ Deploying(r) /\ Deploying(r)'
             /\ req'[r].id = req[r].id /\ req'[r].loaded = req[r].loaded
             /\ req'[r].cluster = req[r].cluster /\ req'[r].action = req[r].action
    /\ \A s \in Slots : worker'[s].pc # "idle" =>
          /\ worker[s].pc # "idle"
          /\ worker'[s].id = worker[s].id /\ worker'[s].content = worker[s].content
    /\ \A d \in Deployments : deployment'[d] # None =>
          /\ deployment[d] # None
          /\ deployment'[d].id = deployment[d].id
          /\ deployment'[d].content = deployment[d].content
          /\ deployment'[d].cluster = deployment[d].cluster
          /\ deployment'[d].action = deployment[d].action

LEMMA CalmKeeps ==
    ASSUME ProofInv, WriterInv', Calm, MarksEarned'
    PROVE  ProofInv'
<1>1. \A r \in Requests : req'[r].pc # "idle" =>
          /\ Deploying(r)' <=> Deploying(r)
          /\ req'[r].pc = "save" <=> req[r].pc = "save"
          /\ req'[r].id = req[r].id /\ req'[r].loaded = req[r].loaded
  BY DEF Calm, Deploying
<1>2. \A i \in DraftIds : Here(i)' <=> Here(i)
  BY DEF Calm, Here
<1>3. \A r \in Requests : Deploying(r)' \/ req'[r].pc = "save" => req'[r].id \in DraftIds
  BY DEF WriterInv, TypeOK, Saves, Deploys, Idle, Deploying
<1>4. \A s \in Slots : worker'[s].pc # "idle" => worker'[s].id \in DraftIds
  BY DEF WriterInv, TypeOK, Threads, Idle
<1>5. CopiesAgree'
  BY <1>1, <1>2, <1>3, <1>4 DEF ProofInv, CopiesAgree, Calm, Deploying
<1>6. EditsCompare'
  BY <1>1, <1>2, <1>3 DEF ProofInv, EditsCompare, Calm
<1>7. Apart'
  BY <1>1 DEF ProofInv, Apart, BeingDeployed, BeingEdited, Calm, Deploying
<1>8. MarkIsAboutContent'
  BY <1>2 DEF ProofInv, MarkIsAboutContent, Calm
<1>9. GatePassed'
  <2> SUFFICES ASSUME NEW r \in Requests, Deploying(r)', req'[r].action = "deploy",
                      req'[r].cluster \notin Development
               PROVE  req'[r].loaded.content \in landed'[req'[r].id]
    BY DEF GatePassed
  <2>1. /\ Deploying(r) /\ req[r].action = "deploy" /\ req[r].cluster \notin Development
        /\ req'[r].id = req[r].id /\ req'[r].loaded = req[r].loaded
        /\ req'[r].id \in DraftIds
    BY <1>3 DEF Calm, Deploying
  <2> QED BY <2>1 DEF ProofInv, GatePassed, Calm
<1>10. ShippedWasProved'
  <2> SUFFICES ASSUME NEW d \in Deployments, deployment'[d] # None
               PROVE  \/ deployment'[d].action = "remove"
                      \/ deployment'[d].cluster \in Development
                      \/ deployment'[d].content \in landed'[deployment'[d].id]
    BY DEF ShippedWasProved
  <2>1. deployment'[d].id \in DraftIds
    BY DEF WriterInv, TypeOK
  <2> QED BY <2>1 DEF ProofInv, ShippedWasProved, Calm
<1> QED BY <1>5, <1>6, <1>7, <1>8, <1>9, <1>10 DEF ProofInv

LEMMA CreateProves ==
    ASSUME ProofInv, WriterInv', NEW r \in Requests, NEW content \in Contents,
           Create(r, content)
    PROVE  ProofInv'
<1>1. PICK i \in DraftIds :
        /\ draft[i] = None
        /\ draft' = [draft EXCEPT ![i] = [content |-> content, proved |-> None]]
  BY DEF Create
<1>2. /\ UNCHANGED <<deployment, busy, req, worker, landed, faults>>
      /\ \A j \in DraftIds : j # i => draft'[j] = draft[j]
      /\ draft'[i].proved = None
  BY <1>1 DEF Create, ProofInv, WriterInv, TypeOK
<1>3. \A j \in DraftIds : j # i => (Here(j)' <=> Here(j))
  BY <1>2 DEF Here
<1>4. CopiesAgree'
  <2>1. \A q \in Requests : Deploying(q) => req[q].id \in DraftIds /\ req[q].id # i
    BY <1>1 DEF ProofInv, CopiesAgree, WriterInv, TypeOK, Deploys, Saves, Idle, Deploying
  <2>2. \A s \in Slots : worker[s].pc # "idle" => worker[s].id \in DraftIds /\ worker[s].id # i
    BY <1>1 DEF ProofInv, CopiesAgree, WriterInv, TypeOK, Threads, Idle
  <2> QED BY <1>2, <1>3, <2>1, <2>2 DEF ProofInv, CopiesAgree, Deploying
<1>5. EditsCompare'
  <2>1. \A q \in Requests : req[q].pc = "save" => req[q].id \in DraftIds
    BY DEF ProofInv, WriterInv, TypeOK, Deploys, Saves, Idle
  <2> QED BY <1>2, <1>3, <2>1 DEF ProofInv, EditsCompare
<1>6. MarkIsAboutContent'
  BY <1>2, <1>3 DEF ProofInv, MarkIsAboutContent
<1> QED BY <1>2, <1>4, <1>5, <1>6 DEF ProofInv, Apart, BeingDeployed, BeingEdited,
           MarksEarned, AfterRow, GatePassed, Deploying, ShippedWasProved

LEMMA DeleteProves ==
    ASSUME ProofInv, WriterInv', NEW r \in Requests, NEW i \in DraftIds, Delete(r, i)
    PROVE  ProofInv'
<1>1. /\ UNCHANGED <<deployment, busy, req, worker, landed, faults>>
      /\ \A j \in DraftIds : j # i => draft'[j] = draft[j]
      /\ draft'[i] = Deleted /\ Deleted # None
  BY ConstantsAssumption DEF Delete, ProofInv, WriterInv, TypeOK
<1>2. \A j \in DraftIds : Here(j)' => Here(j) /\ draft'[j] = draft[j]
  BY <1>1 DEF Here
<1>3. /\ \A q \in Requests : req[q].pc # "idle" => req[q].id \in DraftIds
      /\ \A s \in Slots : worker[s].pc # "idle" => worker[s].id \in DraftIds
  BY DEF ProofInv, WriterInv, TypeOK, Deploys, Saves, Threads, Idle
<1>4. CopiesAgree'
  BY <1>1, <1>2, <1>3 DEF ProofInv, CopiesAgree, Deploying
<1>5. EditsCompare'
  BY <1>1, <1>2, <1>3 DEF ProofInv, EditsCompare
<1>6. MarkIsAboutContent'
  BY <1>1, <1>2 DEF ProofInv, MarkIsAboutContent
<1> QED BY <1>1, <1>4, <1>5, <1>6 DEF ProofInv, Apart, BeingDeployed, BeingEdited,
           MarksEarned, AfterRow, GatePassed, Deploying, ShippedWasProved

LEMMA EditProves ==
    ASSUME Patient, ProofInv, WriterInv', NEW r \in Requests, NEW i \in DraftIds,
           NEW content \in Contents, Edit(r, i, content)
    PROVE  ProofInv'
<1>1. /\ UNCHANGED <<draft, deployment, busy, worker, landed, faults>>
      /\ ~BeingDeployed(i)
      /\ req'[r].pc = "save" /\ req'[r].id = i /\ req'[r].loaded = draft[i]
      /\ \A q \in Requests : q # r => req'[q] = req[q]
  BY DEF Edit, ProofInv, WriterInv, TypeOK
<1>2. \A q \in Requests : Deploying(q)' => q # r /\ Deploying(q) /\ req'[q] = req[q]
  BY <1>1 DEF Deploying
<1>3. CopiesAgree'
  BY <1>1, <1>2 DEF ProofInv, CopiesAgree, Here
<1>4. EditsCompare'
  BY <1>1 DEF ProofInv, EditsCompare, Here
<1>5. Apart'
  <2> SUFFICES ASSUME NEW j \in DraftIds, BeingDeployed(j)', BeingEdited(j)'
               PROVE  FALSE
    BY DEF Apart
  <2>1. BeingDeployed(j)
    BY <1>1, <1>2 DEF BeingDeployed, Deploying
  <2>2. BeingEdited(j)
    BY <1>1, <2>1 DEF BeingEdited
  <2> QED BY <2>1, <2>2 DEF ProofInv, Apart
<1>6. GatePassed'
  BY <1>1, <1>2 DEF ProofInv, GatePassed
<1> QED BY <1>1, <1>3, <1>4, <1>5, <1>6 DEF ProofInv, MarksEarned, AfterRow,
           MarkIsAboutContent, Here, ShippedWasProved

LEMMA DeployProves ==
    ASSUME Patient, ProofInv, WriterInv', NEW r \in Requests, NEW i \in DraftIds,
           NEW c \in Clusters, NEW action \in Actions, Deploy(r, i, c, action)
    PROVE  ProofInv'
<1>1. /\ UNCHANGED <<draft, deployment, busy, worker, landed, faults>>
      /\ ~BeingEdited(i) /\ Here(i)
      /\ req'[r].pc = "claim" /\ req'[r].id = i /\ req'[r].loaded = draft[i]
      /\ req'[r].cluster = c /\ req'[r].action = action
      /\ \A q \in Requests : q # r => req'[q] = req[q]
  BY DEF Deploy, ProofInv, WriterInv, TypeOK
<1>2. \A q \in Requests : req'[q].pc = "save" => q # r /\ req'[q] = req[q]
  BY <1>1
<1>3. CopiesAgree'
  BY <1>1 DEF ProofInv, CopiesAgree, Here, Deploying
<1>4. EditsCompare'
  BY <1>1, <1>2 DEF ProofInv, EditsCompare, Here
<1>5. Apart'
  <2> SUFFICES ASSUME NEW j \in DraftIds, BeingDeployed(j)', BeingEdited(j)'
               PROVE  FALSE
    BY DEF Apart
  <2>1. BeingEdited(j)
    BY <1>1, <1>2 DEF BeingEdited
  <2>2. BeingDeployed(j)
    BY <1>1, <2>1 DEF BeingDeployed
  <2> QED BY <2>1, <2>2 DEF ProofInv, Apart
<1>6. GatePassed'
  <2>1. action = "deploy" /\ c \notin Development => draft[i].content \in landed[i]
    <3> SUFFICES ASSUME action = "deploy", c \notin Development
                 PROVE  draft[i].content \in landed[i]
      OBVIOUS
    <3>1. draft[i].proved \in Development
      BY DEF Deploy, MayDeploy
    <3>2. draft[i].proved # None
      BY <3>1, ConstantsAssumption
    <3> QED BY <1>1, <3>2 DEF ProofInv, MarkIsAboutContent
  <2> QED BY <1>1, <2>1 DEF ProofInv, GatePassed, Deploying
<1> QED BY <1>1, <1>3, <1>4, <1>5, <1>6 DEF ProofInv, MarksEarned, AfterRow,
           MarkIsAboutContent, Here, ShippedWasProved

LEMMA SaveProves ==
    ASSUME ProofInv, WriterInv', NEW r \in Requests, Save(r)
    PROVE  ProofInv'
<1> DEFINE h == req[r]
<1>1. h \in Saves /\ h.pc = "save" /\ h.id \in DraftIds
  BY DEF Save, ProofInv, WriterInv, TypeOK, Deploys, Saves, Idle
<1>2. /\ UNCHANGED <<deployment, busy, worker, landed, faults>>
      /\ req'[r].pc = "idle"
      /\ \A q \in Requests : q # r => req'[q] = req[q]
      /\ \A j \in DraftIds : j # h.id => draft'[j] = draft[j]
  BY <1>1 DEF Save, Finish, Idle, ProofInv, WriterInv, TypeOK
<1>3. ~BeingDeployed(h.id)
  BY <1>1 DEF ProofInv, Apart, BeingEdited
<1>4. CASE ~Here(h.id)
  <2>1. UNCHANGED draft
    BY <1>4 DEF Save
  <2>2. MarksEarned'
    BY <1>2 DEF ProofInv, MarksEarned, AfterRow
  <2>3. Calm
    BY <1>2, <2>1 DEF Calm
  <2> QED BY <2>2, <2>3, CalmKeeps
<1>5. CASE Here(h.id)
  <2> DEFINE mark == MarkAfterEdit(h.id, h.loaded, h.content)
  <2>1. draft'[h.id].content = h.content /\ draft'[h.id].proved = mark
    BY <1>1, <1>5 DEF Save, ProofInv, WriterInv, TypeOK
  <2>2. mark # None => /\ mark = draft[h.id].proved
                       /\ h.content = h.loaded.content
                       /\ h.content = draft[h.id].content
    <3>1. mark # None => mark = draft[h.id].proved /\ h.content = h.loaded.content
      BY DEF MarkAfterEdit
    <3> QED BY <1>1, <1>5, <3>1 DEF ProofInv, EditsCompare
  <2> HIDE DEF mark
  <2>3. \A j \in DraftIds : j # h.id => (Here(j)' <=> Here(j))
    BY <1>2 DEF Here
  <2>4. \A q \in Requests : Deploying(q)' => /\ q # r /\ Deploying(q) /\ req'[q] = req[q]
                                             /\ req[q].id \in DraftIds /\ req[q].id # h.id
    BY <1>2, <1>3 DEF Deploying, BeingDeployed, ProofInv, WriterInv, TypeOK, Deploys, Saves, Idle
  <2>5. \A s \in Slots : worker[s].pc # "idle" => worker[s].id \in DraftIds /\ worker[s].id # h.id
    BY <1>3 DEF BeingDeployed, ProofInv, WriterInv, TypeOK, Threads, Idle
  <2>6. CopiesAgree'
    BY <1>2, <2>3, <2>4, <2>5 DEF ProofInv, CopiesAgree
  <2>7. EditsCompare'
    <3> SUFFICES ASSUME NEW q \in Requests, req'[q].pc = "save", Here(req[q].id)',
                        draft'[req'[q].id].proved # None
                 PROVE  draft'[req'[q].id].content = req'[q].loaded.content
      BY DEF EditsCompare
    <3>1. q # r /\ req'[q] = req[q] /\ req[q].id \in DraftIds
      BY <1>2 DEF ProofInv, WriterInv, TypeOK, Deploys, Saves, Idle
    <3>2. CASE req[q].id = h.id
      BY <1>5, <2>1, <2>2, <3>1, <3>2 DEF ProofInv, EditsCompare
    <3>3. CASE req[q].id # h.id
      BY <1>2, <2>3, <3>1, <3>3 DEF ProofInv, EditsCompare
    <3> QED BY <3>2, <3>3
  <2>8. MarkIsAboutContent'
    <3> SUFFICES ASSUME NEW j \in DraftIds, Here(j)', draft'[j].proved # None
                 PROVE  draft'[j].proved \in Development /\ draft'[j].content \in landed'[j]
      BY DEF MarkIsAboutContent
    <3>1. CASE j = h.id
      BY <1>2, <1>5, <2>1, <2>2, <3>1 DEF ProofInv, MarkIsAboutContent
    <3>2. CASE j # h.id
      BY <1>2, <2>3, <3>2 DEF ProofInv, MarkIsAboutContent
    <3> QED BY <3>1, <3>2
  <2>9. Apart'
    BY <1>2, <2>4 DEF ProofInv, Apart, BeingDeployed, BeingEdited, Deploying
  <2>10. GatePassed'
    BY <1>2, <2>4 DEF ProofInv, GatePassed
  <2> QED BY <1>2, <2>6, <2>7, <2>8, <2>9, <2>10 DEF ProofInv, MarksEarned, AfterRow,
             ShippedWasProved
<1> QED BY <1>4, <1>5

LEMMA RecordProves ==
    ASSUME ProofInv, WriterInv', NEW r \in Requests, Record(r)
    PROVE  ProofInv'
<1> DEFINE h == req[r]
           s == Slot(h)
<1>1. h \in Deploys /\ h.pc = "record" /\ Deploying(r)
  BY DEF Record, ProofInv, WriterInv, TypeOK, Saves, Idle, Deploying
<1>2. s \in Slots /\ h.id \in DraftIds
  BY <1>1 DEF Slot, Service, Slots, Services, Deploys
<1>3. PICK d \in Deployments :
        /\ deployment[d] = None
        /\ deployment' = [deployment EXCEPT ![d] =
              [id |-> h.id, content |-> h.loaded.content,
               cluster |-> h.cluster, action |-> h.action, state |-> "RUNNING"]]
        /\ worker' = [worker EXCEPT ![s] =
              [pc |-> "play", id |-> h.id, deployment |-> d,
               content |-> h.loaded.content, action |-> h.action,
               state |-> "RUNNING"]]
  BY DEF Record
<1>4. /\ UNCHANGED <<draft, busy, landed, faults>>
      /\ req'[r].pc = "idle"
      /\ \A q \in Requests : q # r => req'[q] = req[q]
  BY DEF Record, Finish, Idle, ProofInv, WriterInv, TypeOK
<1>5. /\ worker'[s].pc = "play" /\ worker'[s].id = h.id
      /\ worker'[s].content = h.loaded.content
      /\ \A t \in Slots : t # s => worker'[t] = worker[t]
  BY <1>2, <1>3 DEF ProofInv, WriterInv, TypeOK
<1>6. /\ deployment'[d].id = h.id /\ deployment'[d].content = h.loaded.content
      /\ deployment'[d].cluster = h.cluster /\ deployment'[d].action = h.action
      /\ \A e \in Deployments : e # d => deployment'[e] = deployment[e]
  BY <1>3 DEF ProofInv, WriterInv, TypeOK
<1>7. h.action \in {"deploy", "remove"}
  BY <1>1 DEF Deploys, Actions
<1> HIDE DEF h, s
<1>8. /\ draft[h.id] # None
      /\ Here(h.id) => draft[h.id].content = h.loaded.content
  BY <1>1 DEF ProofInv, CopiesAgree, h
<1>9. \A q \in Requests : req'[q].pc # "idle" => q # r /\ req'[q] = req[q]
  BY <1>4
<1>10. CopiesAgree'
  BY <1>4, <1>5, <1>8, <1>9 DEF ProofInv, CopiesAgree, Deploying, Here
<1>11. EditsCompare'
  BY <1>4, <1>9 DEF ProofInv, EditsCompare, Here
<1>12. Apart'
  <2> SUFFICES ASSUME NEW i \in DraftIds, BeingDeployed(i)', BeingEdited(i)'
               PROVE  FALSE
    BY DEF Apart
  <2>1. BeingEdited(i)
    BY <1>9 DEF BeingEdited
  <2>2. BeingDeployed(i)
    BY <1>1, <1>5, <1>9 DEF BeingDeployed, Deploying, h
  <2> QED BY <2>1, <2>2 DEF ProofInv, Apart
<1>13. MarksEarned'
  BY <1>4, <1>5 DEF ProofInv, MarksEarned, AfterRow
<1>14. GatePassed'
  BY <1>4, <1>9 DEF ProofInv, GatePassed, Deploying
<1>15. ShippedWasProved'
  <2>1. \/ h.action = "remove"
        \/ h.cluster \in Development
        \/ h.loaded.content \in landed[h.id]
    BY <1>1, <1>7 DEF ProofInv, GatePassed, h
  <2> QED BY <1>4, <1>6, <2>1 DEF ProofInv, ShippedWasProved
<1> QED BY <1>4, <1>10, <1>11, <1>12, <1>13, <1>14, <1>15 DEF ProofInv,
           MarkIsAboutContent, Here

LEMMA MarkProvedProves ==
    ASSUME ProofInv, WriterInv', NEW s \in Slots, MarkProved(s)
    PROVE  ProofInv'
<1> DEFINE w == worker[s]
<1>1. w \in Threads /\ w.pc = "mark" /\ w.id \in DraftIds /\ s[2] \in Clusters
  BY DEF MarkProved, ProofInv, WriterInv, TypeOK, Idle, Threads, Slots
<1>2. /\ UNCHANGED <<deployment, busy, req, landed, faults>>
      /\ worker'[s].pc = "free" /\ worker'[s].id = w.id /\ worker'[s].content = w.content
      /\ \A t \in Slots : t # s => worker'[t] = worker[t]
      /\ \A j \in DraftIds : j # w.id => draft'[j] = draft[j]
  BY <1>1 DEF MarkProved, ProofInv, WriterInv, TypeOK, Threads
<1>3. MarksEarned'
  BY <1>2 DEF ProofInv, MarksEarned, AfterRow
<1>4. CASE ~Here(w.id)
  <2>1. Calm
    BY <1>1, <1>2, <1>4 DEF Calm, MarkProved
  <2> QED BY <1>3, <2>1, CalmKeeps
<1>5. CASE Here(w.id)
  <2>1. draft[w.id] \in Drafts
    BY <1>1, <1>5 DEF Here, ProofInv, WriterInv, TypeOK
  <2>2. /\ draft'[w.id] \in Drafts
        /\ draft'[w.id].content = draft[w.id].content
        /\ draft'[w.id].proved = s[2]
    BY <1>1, <1>5, <2>1 DEF MarkProved, Drafts, ProofInv, WriterInv, TypeOK
  <2>3. \A j \in DraftIds : /\ Here(j)' <=> Here(j)
                            /\ Here(j) => draft'[j].content = draft[j].content
                            /\ draft[j] # None => draft'[j] # None
    BY <1>2, <1>5, <2>2, RowsAreRows DEF Here
  <2>4. /\ draft[w.id].content = w.content
        /\ s[2] \in Development
        /\ w.content \in landed[w.id]
        /\ ~BeingEdited(w.id)
    BY <1>1, <1>5 DEF ProofInv, CopiesAgree, MarksEarned, AfterRow, Apart, BeingDeployed
  <2> HIDE DEF w
  <2>5. CopiesAgree'
    <3>1. /\ \A r \in Requests : Deploying(r) => req[r].id \in DraftIds
          /\ \A t \in Slots : worker'[t].pc # "idle" =>
                /\ worker[t].pc # "idle" /\ worker[t].id \in DraftIds
                /\ worker'[t].id = worker[t].id /\ worker'[t].content = worker[t].content
      BY <1>1, <1>2 DEF ProofInv, WriterInv, TypeOK, Deploys, Saves, Threads, Idle, Deploying, w
    <3> QED BY <1>2, <2>3, <3>1 DEF ProofInv, CopiesAgree, Deploying
  <2>6. EditsCompare'
    <3>1. \A r \in Requests : req[r].pc = "save" => req[r].id \in DraftIds /\ req[r].id # w.id
      BY <2>4 DEF BeingEdited, ProofInv, WriterInv, TypeOK, Deploys, Saves, Idle
    <3> QED BY <1>2, <2>3, <3>1 DEF ProofInv, EditsCompare
  <2>7. MarkIsAboutContent'
    BY <1>2, <2>2, <2>3, <2>4 DEF ProofInv, MarkIsAboutContent
  <2>8. Apart'
    BY <1>1, <1>2 DEF ProofInv, Apart, BeingDeployed, BeingEdited, w
  <2> QED BY <1>2, <1>3, <2>5, <2>6, <2>7, <2>8 DEF ProofInv, GatePassed, Deploying,
             ShippedWasProved
<1> QED BY <1>4, <1>5

\* Every other step is calm.
LEMMA RequestsProve ==
    ASSUME ProofInv, WriterInv', NEW r \in Requests,
           SaveFails(r) \/ Claim(r) \/ RecordFails(r)
    PROVE  ProofInv'
<1>1. /\ UNCHANGED <<draft, deployment, worker, landed>>
      /\ \A q \in Requests : q # r => req'[q] = req[q]
      /\ \/ req'[r].pc = "idle"
         \/ req[r].pc = "claim" /\ req[r] \in Deploys /\ req'[r] = [req[r] EXCEPT !.pc = "record"]
  BY DEF SaveFails, Claim, RecordFails, Finish, ProofInv, WriterInv, TypeOK, Idle, Saves
<1>2. Calm
  BY <1>1 DEF Calm, Deploying, Deploys
<1>3. MarksEarned'
  BY <1>1 DEF ProofInv, MarksEarned, AfterRow
<1> QED BY <1>2, <1>3, CalmKeeps

LEMMA ThreadsProve ==
    ASSUME ProofInv, WriterInv', NEW s \in Slots,
           Play(s) \/ FinishDeployment(s) \/ NotRecorded(s) \/ Free(s)
    PROVE  ProofInv'
<1> DEFINE w == worker[s]
<1>1. /\ w \in Threads /\ w.pc # "idle" /\ w.id \in DraftIds /\ w.content \in Contents
      /\ w.deployment \in Deployments
  BY DEF Play, FinishDeployment, NotRecorded, Free, ProofInv, WriterInv, TypeOK, Idle, Threads
<1>2. /\ UNCHANGED <<draft, req>>
      /\ \A t \in Slots : t # s => worker'[t] = worker[t]
  BY DEF Play, FinishDeployment, NotRecorded, Free, ProofInv, WriterInv, TypeOK
<1>3. worker'[s].pc # "idle" => worker'[s].id = w.id /\ worker'[s].content = w.content
  BY <1>1 DEF Play, FinishDeployment, NotRecorded, Free, ProofInv, WriterInv, TypeOK,
              Threads, Idle
<1>4. \A i \in DraftIds : landed[i] \subseteq landed'[i]
  BY <1>1 DEF Play, FinishDeployment, NotRecorded, Free, ProofInv, WriterInv, TypeOK
<1>5. \A d \in Deployments : deployment'[d] # None =>
          /\ deployment[d] # None
          /\ deployment'[d].id = deployment[d].id
          /\ deployment'[d].content = deployment[d].content
          /\ deployment'[d].cluster = deployment[d].cluster
          /\ deployment'[d].action = deployment[d].action
  <2>1. CASE UNCHANGED deployment
    BY <2>1
  <2>2. CASE FinishDeployment(s)
    <3>1. /\ deployment' = [deployment EXCEPT ![w.deployment].state = w.state]
          /\ deployment[w.deployment] \in Rows /\ deployment[w.deployment] # None
      BY <1>1, <2>2 DEF FinishDeployment, ProofInv, WriterInv, TypeOK, ThreadsRecorded, Rows
    <3> QED BY <1>1, <3>1 DEF Rows, ProofInv, WriterInv, TypeOK
  <2> QED BY <2>1, <2>2 DEF Play, NotRecorded, Free
<1>6. Calm
  BY <1>1, <1>2, <1>3, <1>4, <1>5 DEF Calm
<1>7. MarksEarned'
  <2> SUFFICES ASSUME NEW t \in Slots
               PROVE  /\ worker'[t].pc = "mark" => AfterRow(worker'[t], t[2]) = "mark"
                      /\ worker'[t].pc \in {"finish", "mark"} /\ AfterRow(worker'[t], t[2]) = "mark"
                            => worker'[t].content \in landed'[worker'[t].id]
    BY DEF MarksEarned, AfterRow
  <2>1. CASE t # s
    <3>1. worker[t].pc # "idle" => worker[t].id \in DraftIds
      BY DEF ProofInv, WriterInv, TypeOK, Threads, Idle
    <3> QED BY <1>2, <1>4, <2>1, <3>1 DEF ProofInv, MarksEarned
  <2>2. CASE t = s /\ Play(s)
    <3>1. /\ worker'[s].pc = "finish" /\ worker'[s].action = w.action
          /\ \/ worker'[s].state = "FAILED"
             \/ /\ w.action = "deploy" /\ s[2] \in Development => w.content \in landed'[w.id]
      BY <1>1, <2>2 DEF Play, ProofInv, WriterInv, TypeOK, Threads
    <3> QED BY <1>3, <2>2, <3>1 DEF AfterRow
  <2>3. CASE t = s /\ FinishDeployment(s)
    <3>1. /\ worker'[s].pc = AfterRow(w, s[2])
          /\ worker'[s].action = w.action /\ worker'[s].state = w.state
          /\ worker'[s].id = w.id /\ worker'[s].content = w.content
          /\ w.pc = "finish" /\ UNCHANGED landed
      BY <1>1, <2>3 DEF FinishDeployment, ProofInv, WriterInv, TypeOK, Threads
    <3>2. AfterRow(worker'[s], s[2]) = AfterRow(w, s[2])
      BY <3>1 DEF AfterRow
    <3> QED BY <2>3, <3>1, <3>2 DEF ProofInv, MarksEarned, AfterRow
  <2>4. CASE t = s /\ (NotRecorded(s) \/ Free(s))
    <3>1. worker'[s].pc \notin {"finish", "mark"}
      BY <1>1, <2>4 DEF NotRecorded, Free, Idle, ProofInv, WriterInv, TypeOK, Threads
    <3> QED BY <2>4, <3>1
  <2> QED BY <2>1, <2>2, <2>3, <2>4
<1> QED BY <1>6, <1>7, CalmKeeps

LEMMA CrashProves ==
    ASSUME ProofInv, WriterInv', Crash
    PROVE  ProofInv'
<1>1. /\ UNCHANGED <<draft, deployment, landed>>
      /\ \A r \in Requests : req'[r].pc = "idle"
      /\ \A s \in Slots : worker'[s].pc = "idle"
  BY DEF Crash, Idle
<1>2. Calm /\ MarksEarned'
  BY <1>1 DEF Calm, MarksEarned
<1> QED BY <1>2, CalmKeeps

LEMMA ProofInit == Init => ProofInv
<1> SUFFICES ASSUME Init PROVE ProofInv
  OBVIOUS
<1>1. /\ \A r \in Requests : req[r].pc = "idle"
      /\ \A s \in Slots : worker[s].pc = "idle"
      /\ \A i \in DraftIds : ~Here(i)
      /\ \A d \in Deployments : deployment[d] = None
  BY DEF Init, Idle, Here
<1> QED BY <1>1, WriterInit DEF ProofInv, CopiesAgree, EditsCompare, Apart, BeingDeployed,
           BeingEdited, MarksEarned, MarkIsAboutContent, GatePassed, Deploying, ShippedWasProved

LEMMA ProofStep == Patient /\ ProofInv /\ [Next]_vars => ProofInv'
<1> SUFFICES ASSUME Patient, ProofInv, [Next]_vars PROVE ProofInv'
  OBVIOUS
<1>1. WriterInv'
  BY WriterStep DEF ProofInv
<1>2. CASE UNCHANGED vars
  <2>1. Calm /\ MarksEarned'
    BY <1>2 DEF vars, Calm, ProofInv, MarksEarned, AfterRow
  <2> QED BY <1>1, <2>1, CalmKeeps
<1>3. ASSUME NEW r \in Requests,
             \/ \E content \in Contents : Create(r, content)
             \/ \E i \in DraftIds, content \in Contents : Edit(r, i, content)
             \/ \E i \in DraftIds : Delete(r, i)
             \/ \E i \in DraftIds, c \in Clusters, action \in Actions : Deploy(r, i, c, action)
             \/ Request(r)
      PROVE  ProofInv'
  BY <1>1, <1>3, CreateProves, EditProves, DeleteProves, DeployProves, SaveProves,
     RecordProves, RequestsProve DEF Request
<1>4. ASSUME NEW s \in Slots, Thread(s) PROVE ProofInv'
  BY <1>1, <1>4, ThreadsProve, MarkProvedProves DEF Thread
<1>5. CASE Crash
  BY <1>1, <1>5, CrashProves
<1>6. CASE AtRest
  BY <1>2, <1>6 DEF AtRest
<1> QED BY <1>2, <1>3, <1>4, <1>5, <1>6 DEF Next

LEMMA ProofInvariant == Patient => (Spec => []ProofInv)
<1>1. ASSUME Patient PROVE ProofInv /\ [Next]_vars => ProofInv'
  BY <1>1, ProofStep
<1>2. ASSUME Patient PROVE Spec => []ProofInv
  <2>1. ProofInv /\ [Next]_vars => ProofInv'
    BY <1>1, <1>2
  <2> QED BY ProofInit, <2>1, PTL DEF Spec
<1> QED BY <1>2

\* As long as nobody edits a draft while it is being deployed, its mark is about
\* the content it has: mark_proved, save and update together, whatever fails and
\* however many deploys, edits and restarts of tms-api overlap.
THEOREM MarksHold == Patient => (Spec => []MarkIsAboutContent)
<1>1. ProofInv => MarkIsAboutContent
  BY DEF ProofInv
<1> QED BY <1>1, ProofInvariant, PTL

\* Under the same condition nothing reaches a cluster that serves queries before
\* a development cluster has had it (refuse_deploy, over copies of any age).
THEOREM ProvedFirst == Patient => (Spec => []ShippedWasProved)
<1>1. ProofInv => ShippedWasProved
  BY DEF ProofInv
<1> QED BY <1>1, ProofInvariant, PTL
=============================================================================
