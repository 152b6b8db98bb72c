---------------------------- MODULE ProvedDeploy ----------------------------
(***************************************************************************)
(* Drafts that must be proved on a development cluster before they may     *)
(* reach any other one: catalogs (src/tms/ops/catalogservice.py) and       *)
(* config.properties changes (src/tms/ops/configeditservice.py).  The two  *)
(* services have the same shape and each has its own drafts and its own    *)
(* in-memory busy flags: a slot is a service together with a cluster.      *)
(*                                                                         *)
(* A save and a deploy work on the row they loaded; a deploy hands its     *)
(* copy to a thread that runs the playbook and records what came of it.    *)
(***************************************************************************)
EXTENDS Integers, FiniteSets

CONSTANTS
    Requests,      \* request threads of tms-api
    Catalogs,      \* ids of catalog_definition rows
    Changes,       \* ids of config_change rows
    Deployments,   \* ids of deployment rows, a bound on the deploys started
    Clusters,
    Development,   \* cluster_ops.config_scan.development_clusters
    Contents,      \* what a draft may say
    Known,         \* Known[c]: the changes whose names c's scan knows
    MaxFaults,     \* bound on failed statements and restarts of tms-api
    Patient,       \* bound: nobody edits a draft while it is being deployed
    None, Deleted  \* a row not made yet, and one that is gone

ASSUME ConstantsAssumption ==
    /\ Catalogs \intersect Changes = {}
    /\ Development \subseteq Clusters
    /\ Known \in [Clusters -> SUBSET Contents]
    /\ Patient \in BOOLEAN
    /\ MaxFaults \in Nat
    /\ None # Deleted
    /\ None \notin Clusters
    /\ {None, Deleted} \intersect
          [content : Contents, proved : Clusters \union {None}] = {}
    /\ None \notin [id : Catalogs \union Changes, content : Contents, cluster : Clusters,
                     action : {"deploy", "remove"}, state : {"RUNNING", "SUCCEEDED", "FAILED"}]

VARIABLES
    draft,        \* the draft rows
    deployment,   \* the deployment rows
    busy,         \* the services' _busy, in the memory of tms-api
    req,          \* what each request thread is doing
    worker,       \* the deploy thread of each slot
    landed,       \* history: the contents of each draft that a playbook has
                  \* placed on a development cluster
    faults

vars == <<draft, deployment, busy, req, worker, landed, faults>>

-----------------------------------------------------------------------------
DraftIds == Catalogs \union Changes
Services == {"catalog", "config"}
Slots == Services \X Clusters
Service(i) == IF i \in Catalogs THEN "catalog" ELSE "config"

Drafts == [content : Contents, proved : Clusters \union {None}]
Actions == {"deploy", "remove"}
Ended == {"SUCCEEDED", "FAILED"}

Idle == [pc |-> "idle"]
Saves == [pc : {"save"}, id : DraftIds, loaded : Drafts, content : Contents]
Deploys == [pc : {"claim", "record"}, id : DraftIds, loaded : Drafts,
            cluster : Clusters, action : Actions]
Threads ==
    LET Thread(pcs, actions, states) ==
          [pc : pcs, id : DraftIds, deployment : Deployments, content : Contents,
           action : actions, state : states]
    IN Thread({"play"}, Actions, {"RUNNING"})
         \union Thread({"finish", "free"}, Actions, Ended)
         \union Thread({"mark"}, {"deploy"}, {"SUCCEEDED"})

TypeOK ==
    /\ draft \in [DraftIds -> Drafts \union {None, Deleted}]
    /\ deployment \in [Deployments ->
          {None} \union [id : DraftIds, content : Contents, cluster : Clusters,
                         action : Actions, state : Ended \union {"RUNNING"}]]
    /\ busy \in [Slots -> BOOLEAN]
    /\ req \in [Requests -> Saves \union Deploys \union {Idle}]
    /\ worker \in [Slots -> Threads \union {Idle}]
    /\ landed \in [DraftIds -> SUBSET Contents]
    /\ faults \in 0..MaxFaults

Init ==
    /\ draft = [i \in DraftIds |-> None]
    /\ deployment = [d \in Deployments |-> None]
    /\ busy = [s \in Slots |-> FALSE]
    /\ req = [r \in Requests |-> Idle]
    /\ worker = [s \in Slots |-> Idle]
    /\ landed = [i \in DraftIds |-> {}]
    /\ faults = 0

Here(i) == draft[i] \notin {None, Deleted}
Fault == faults < MaxFaults /\ faults' = faults + 1
Finish(r) == req' = [req EXCEPT ![r] = Idle]

BeingDeployed(i) ==
    \/ \E r \in Requests : req[r].pc \in {"claim", "record"} /\ req[r].id = i
    \/ \E s \in Slots : worker[s].pc # "idle" /\ worker[s].id = i
BeingEdited(i) == \E r \in Requests : req[r].pc = "save" /\ req[r].id = i

-----------------------------------------------------------------------------
(* Drafting.                                                               *)

\* create: a draft starts unproved.
Create(r, content) ==
    /\ req[r].pc = "idle"
    /\ \E i \in DraftIds :
        /\ draft[i] = None
        /\ draft' = [draft EXCEPT ![i] = [content |-> content, proved |-> None]]
    /\ UNCHANGED <<deployment, busy, req, worker, landed, faults>>

\* save of a catalog and update of a change, up to the load.
Edit(r, i, content) ==
    /\ req[r].pc = "idle"
    /\ Here(i)
    /\ Patient => ~BeingDeployed(i)
    /\ req' = [req EXCEPT ![r] =
          [pc |-> "save", id |-> i, loaded |-> draft[i], content |-> content]]
    /\ UNCHANGED <<draft, deployment, busy, worker, landed, faults>>

\* Mutated form of MarkAfterEdit: an edit leaves the proof alone.
MarkKept(id, loaded, content) == draft[id].proved

\* An edited change loses its proof; an edited catalog does unless it says the
\* same as the catalog that was loaded.
MarkAfterEdit(id, loaded, content) ==
    IF id \in Catalogs /\ content = loaded.content THEN draft[id].proved ELSE None

\* The UPDATE names the columns it writes; a deleted row is not updated.
Save(r) ==
    LET h == req[r] IN
    /\ h.pc = "save"
    /\ draft' = IF Here(h.id)
                THEN [draft EXCEPT ![h.id] =
                        [content |-> h.content,
                         proved |-> MarkAfterEdit(h.id, h.loaded, h.content)]]
                ELSE draft
    /\ Finish(r)
    /\ UNCHANGED <<deployment, busy, worker, landed, faults>>

SaveFails(r) ==
    /\ req[r].pc = "save"
    /\ Fault
    /\ Finish(r)
    /\ UNCHANGED <<draft, deployment, busy, worker, landed>>

\* delete: the draft goes, its deployments and its files stay.
Delete(r, i) ==
    /\ req[r].pc = "idle"
    /\ Here(i)
    /\ draft' = [draft EXCEPT ![i] = Deleted]
    /\ UNCHANGED <<deployment, busy, req, worker, landed, faults>>

-----------------------------------------------------------------------------
(* Deploying.                                                              *)

\* Mutated form of MayDeploy: the scan's word alone.
MayDeployKnown(i, row, c) == i \in Changes => row.content \in Known[c]

\* refuse_deploy, for the loaded row.
MayDeploy(i, row, c) ==
    /\ i \in Changes => row.content \in Known[c]
    /\ c \in Development \/ row.proved \in Development

\* Bound: every deploy under way has an id left to record itself under.
IdsLeft ==
    Cardinality({r \in Requests : req[r].pc \in {"claim", "record"}})
        < Cardinality({d \in Deployments : deployment[d] = None})

\* deploy, up to the claim: a removal is not gated.
Deploy(r, i, c, action) ==
    /\ req[r].pc = "idle"
    /\ Here(i)
    /\ IdsLeft
    /\ Patient => ~BeingEdited(i)
    /\ IF action = "deploy" THEN MayDeploy(i, draft[i], c) ELSE i \in Catalogs
    /\ req' = [req EXCEPT ![r] =
          [pc |-> "claim", id |-> i, loaded |-> draft[i], cluster |-> c,
           action |-> action]]
    /\ UNCHANGED <<draft, deployment, busy, worker, landed, faults>>

\* Mutated form of MayClaim: the flag is set without being looked at.
MayClaimAlways(s) == TRUE

MayClaim(s) == ~busy[s]

Slot(h) == <<Service(h.id), h.cluster>>

\* Under the lock: one deployment of a service to a cluster at a time.
Claim(r) ==
    LET s == Slot(req[r]) IN
    /\ req[r].pc = "claim"
    /\ \/ /\ MayClaim(s)
          /\ req' = [req EXCEPT ![r].pc = "record"]
          /\ busy' = [busy EXCEPT ![s] = TRUE]
       \/ /\ ~MayClaim(s)
          /\ Finish(r)
          /\ UNCHANGED busy
    /\ UNCHANGED <<draft, deployment, worker, landed, faults>>

\* start_deployment records what is about to be written, by value, and the
\* thread takes the copy.
Record(r) ==
    LET h == req[r] IN
    /\ h.pc = "record"
    /\ Here(h.id)
    /\ \E d \in Deployments :
        /\ deployment[d] = None
        /\ deployment' = [deployment EXCEPT ![d] =
              [id |-> h.id, content |-> h.loaded.content, cluster |-> h.cluster,
               action |-> h.action, state |-> "RUNNING"]]
        /\ worker' = [worker EXCEPT ![Slot(h)] =
              [pc |-> "play", id |-> h.id, deployment |-> d,
               content |-> h.loaded.content, action |-> h.action,
               state |-> "RUNNING"]]
    /\ Finish(r)
    /\ UNCHANGED <<draft, busy, landed, faults>>

\* Mutated form of Release: the claim of a refused deployment is never given up.
ReleaseNothing(s) == UNCHANGED busy

Release(s) == busy' = [busy EXCEPT ![s] = FALSE]

\* The audit or the store refuses, or the foreign key of a deleted draft does.
RecordFails(r) ==
    /\ req[r].pc = "record"
    /\ \/ Fault
       \/ ~Here(req[r].id) /\ UNCHANGED faults
    /\ Release(Slot(req[r]))
    /\ Finish(r)
    /\ UNCHANGED <<draft, deployment, worker, landed>>

\* The playbook writes every node, or fails.
Play(s) ==
    LET w == worker[s] IN
    /\ w.pc = "play"
    /\ \/ /\ worker' = [worker EXCEPT ![s].pc = "finish", ![s].state = "SUCCEEDED"]
          /\ landed' = IF w.action = "deploy" /\ s[2] \in Development
                       THEN [landed EXCEPT ![w.id] = @ \union {w.content}] ELSE landed
       \/ /\ worker' = [worker EXCEPT ![s].pc = "finish", ![s].state = "FAILED"]
          /\ UNCHANGED landed
    /\ UNCHANGED <<draft, deployment, busy, req, faults>>

\* Mutated form of AfterRow: a successful removal marks the draft too.
AfterRowAny(w, c) ==
    IF w.state = "SUCCEEDED" /\ c \in Development THEN "mark" ELSE "free"

AfterRow(w, c) ==
    IF w.state = "SUCCEEDED" /\ w.action = "deploy" /\ c \in Development
    THEN "mark" ELSE "free"

\* _deploy_now, after the playbook: the row, then the mark, and the claim is
\* given up whether or not they could be written.
FinishDeployment(s) ==
    LET w == worker[s] IN
    /\ w.pc = "finish"
    /\ deployment' = [deployment EXCEPT ![w.deployment].state = w.state]
    /\ worker' = [worker EXCEPT ![s].pc = AfterRow(w, s[2])]
    /\ UNCHANGED <<draft, busy, req, landed, faults>>

MarkProved(s) ==
    LET w == worker[s] IN
    /\ w.pc = "mark"
    /\ draft' = IF Here(w.id) THEN [draft EXCEPT ![w.id].proved = s[2]] ELSE draft
    /\ worker' = [worker EXCEPT ![s].pc = "free"]
    /\ UNCHANGED <<deployment, busy, req, landed, faults>>

NotRecorded(s) ==
    /\ worker[s].pc \in {"finish", "mark"}
    /\ Fault
    /\ worker' = [worker EXCEPT ![s].pc = "free"]
    /\ UNCHANGED <<draft, deployment, busy, req, landed>>

Free(s) ==
    /\ worker[s].pc = "free"
    /\ Release(s)
    /\ worker' = [worker EXCEPT ![s] = Idle]
    /\ UNCHANGED <<draft, deployment, req, landed, faults>>

\* tms-api restarts: its threads, its claims and the playbooks it ran are gone.
Crash ==
    /\ Fault
    /\ req' = [r \in Requests |-> Idle]
    /\ worker' = [s \in Slots |-> Idle]
    /\ busy' = [s \in Slots |-> FALSE]
    /\ UNCHANGED <<draft, deployment, landed>>

\* Nobody asks for anything.
AtRest ==
    /\ \A r \in Requests : req[r].pc = "idle"
    /\ \A s \in Slots : worker[s].pc = "idle"
    /\ UNCHANGED vars

-----------------------------------------------------------------------------
Request(r) == Save(r) \/ SaveFails(r) \/ Claim(r) \/ Record(r) \/ RecordFails(r)
Thread(s) == Play(s) \/ FinishDeployment(s) \/ MarkProved(s) \/ NotRecorded(s) \/ Free(s)

Next ==
    \/ \E r \in Requests :
        \/ \E content \in Contents : Create(r, content)
        \/ \E i \in DraftIds, content \in Contents : Edit(r, i, content)
        \/ \E i \in DraftIds : Delete(r, i)
        \/ \E i \in DraftIds, c \in Clusters, action \in Actions : Deploy(r, i, c, action)
        \/ Request(r)
    \/ \E s \in Slots : Thread(s)
    \/ Crash
    \/ AtRest

Spec == Init /\ [][Next]_vars

\* Requests and deploy threads that have work left are scheduled.
FairSpec ==
    /\ Spec
    /\ \A r \in Requests : WF_vars(Request(r))
    /\ \A s \in Slots : WF_vars(Thread(s))

-----------------------------------------------------------------------------
(* Properties.                                                             *)

\* A draft's mark is about what the draft says now: that very content has been
\* placed on a development cluster.  Every save, every deploy thread and every
\* restart in between has a hand in it.
MarkIsAboutContent ==
    \A i \in DraftIds :
        Here(i) /\ draft[i].proved # None =>
            draft[i].proved \in Development /\ draft[i].content \in landed[i]

\* Nothing is placed on a cluster that serves queries unless a development
\* cluster has had it, however old the copy a deploy works on.
ShippedWasProved ==
    \A d \in Deployments :
        deployment[d] # None =>
            \/ deployment[d].action = "remove"
            \/ deployment[d].cluster \in Development
            \/ deployment[d].content \in landed[deployment[d].id]

\* One playbook of a service at a time writes to a cluster: a running thread
\* holds the claim, and no request is past the claim beside it.
OneWriter ==
    \A s \in Slots :
        LET claims == {r \in Requests : req[r].pc = "record" /\ Slot(req[r]) = s}
        IN /\ \A r, q \in claims : r = q
           /\ claims # {} => worker[s].pc = "idle"
           /\ claims # {} \/ worker[s].pc # "idle" => busy[s]

\* A claim is given up in the end, whatever failed under it.
ClaimsEnd == \A s \in Slots : busy[s] ~> ~busy[s]
=============================================================================
