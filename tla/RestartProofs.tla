--------------------------- MODULE RestartProofs ---------------------------
(***************************************************************************)
(* Proofs about RestartService for any number of requests, sequences,      *)
(* queries and faults, in either restart mode.                             *)
(***************************************************************************)
EXTENDS RestartProperties, TLAPS

USE DEF NoCount, Terminal, InFlight, States, HealthSeen, StoreSeen, Buttons

-----------------------------------------------------------------------------
(* The functions on a sequence return sequences.                           *)

LEMMA SequenceTypes ==
    ASSUME NEW s \in Sequences(Counts)
    PROVE  /\ Begin(s) \in Sequences(Counts)
           /\ ForceDrained(s) \in Sequences(Counts)
           /\ MarkRestarting(s) \in Sequences(Counts)
           /\ MarkRestarted(s) \in Sequences(Counts)
           /\ Complete(s) \in Sequences(Counts)
           /\ BeginAbort(s) \in Sequences(Counts)
           /\ FinishAbort(s) \in Sequences(Counts)
BY DEF Sequences, Begin, ForceDrained, MarkRestarting, MarkRestarted, Complete,
       BeginAbort, FinishAbort

LEMMA NewSequenceType == NewSequence \in Sequences(Counts)
BY DEF Sequences, NewSequence, Counts

LEMMA RowType ==
    ASSUME NEW s \in Sequences(Counts)
    PROVE  Row(s) \in Rows /\ Row(s).state = s.state
BY DEF Sequences, Row, Rows

LEMMA RebuildType ==
    ASSUME NEW row \in Rows, row.state # "ABSENT"
    PROVE  Rebuild(row) \in Sequences(Counts) /\ Rebuild(row).state = row.state
BY DEF Sequences, Rows, Rebuild

LEMMA LookType ==
    ASSUME TypeOK, NEW s \in Sequences(Counts), NEW answer \in StoreSeen
    PROVE  Look(s, answer) \in Sequences(Counts)
<1> DEFINE seen == IF snapQ # NoCount
                   THEN Observe(s, snapQ, snapH)
                   ELSE [s EXCEPT !.health = IF snapH = "none" THEN s.health ELSE snapH]
<1>1. snapQ \in Counts /\ snapH \in HealthSeen
  BY DEF TypeOK
<1>2. seen \in Sequences(Counts)
  BY <1>1 DEF Sequences, Observe
<1>3. ObserveConfigStore(seen, answer) \in Sequences(Counts)
  BY <1>2 DEF Sequences, ObserveConfigStore
<1> QED BY <1>2, <1>3 DEF Look

LEMMA DecideType ==
    ASSUME NEW op \in (Buttons \ {"abort"}) \union {"start"}, NEW before,
           NEW s \in Sequences(Counts)
    PROVE  /\ Decide(op, before, s)[1] \in PCs \union {"idle"}
           /\ Decide(op, before, s)[2] \in Sequences(Counts)
<1>1. CASE op \in {"start", "restarted"}
  BY <1>1 DEF Decide, PCs, SavingPCs
<1>2. CASE op = "refresh"
  BY <1>2 DEF Decide, AfterRefresh, PCs, SavingPCs
<1>3. CASE op = "force"
  BY <1>3, SequenceTypes DEF Decide, PCs, SavingPCs
<1>4. CASE op = "restart"
  BY <1>4, SequenceTypes DEF Decide, PCs, SavingPCs
<1>5. CASE op = "complete"
  BY <1>5 DEF Decide, PCs, SavingPCs
<1> QED BY <1>1, <1>2, <1>3, <1>4, <1>5

-----------------------------------------------------------------------------
(* Type correctness.                                                       *)

\* A request that observes is never an abort, so Decide has a case for it.
TypeInv ==
    /\ TypeOK
    /\ \A r \in Requests : req[r].pc = "observe" => req[r].op # "abort"

\* What most steps of a request do to it: they end it, or move it on.
LEMMA GotoTypes ==
    ASSUME TypeInv, NEW r \in Requests, req[r].pc # "idle", NEW pc \in PCs \ {"observe"},
           NEW s \in Sequences(Counts),
           \/ Goto(r, pc)
           \/ Finish(r)
           \/ req' = [req EXCEPT ![r].pc = pc, ![r].seq = s]
    PROVE  /\ req' \in [Requests -> Handling \union {Idle}]
           /\ \A q \in Requests : req'[q].pc = "observe" => req'[q].op # "abort"
<1>1. req[r] \in Handling
  BY DEF TypeInv, TypeOK, Idle
<1>2. /\ [req[r] EXCEPT !.pc = pc] \in Handling
      /\ [req[r] EXCEPT !.pc = pc].pc # "observe"
  BY <1>1 DEF Handling
<1>3. /\ [req[r] EXCEPT !.pc = pc, !.seq = s] \in Handling
      /\ [req[r] EXCEPT !.pc = pc, !.seq = s].pc # "observe"
  BY <1>1 DEF Handling
<1>4. CASE Goto(r, pc)
  BY <1>2, <1>4 DEF Goto, TypeInv, TypeOK
<1>5. CASE Finish(r)
  BY <1>5 DEF Finish, TypeInv, TypeOK, Idle
<1>6. CASE req' = [req EXCEPT ![r].pc = pc, ![r].seq = s]
  BY <1>3, <1>6 DEF TypeInv, TypeOK
<1> QED BY <1>4, <1>5, <1>6

LEMMA GiveUpTypes ==
    ASSUME TypeInv, NEW r \in Requests, req[r].pc # "idle", GiveUp(r)
    PROVE  /\ req' \in [Requests -> Handling \union {Idle}]
           /\ \A q \in Requests : req'[q].pc = "observe" => req'[q].op # "abort"
<1>1. req[r] \in Handling
  BY DEF TypeInv, TypeOK, Idle
<1>2. /\ req[r].seq \in Sequences(Counts)
      /\ FinishAbort(BeginAbort(req[r].seq)) \in Sequences(Counts)
  BY <1>1, SequenceTypes DEF Handling
<1>3. "save" \in PCs \ {"observe"}
  BY DEF PCs, SavingPCs
<1> QED BY <1>2, <1>3, GotoTypes DEF GiveUp

LEMMA FaultTypes == ASSUME TypeOK, Fault PROVE faults' \in 0..MaxFaults
BY ConstantsAssumption DEF TypeOK, Fault

LEMMA HappenedTypes ==
    ASSUME TypeOK, NEW i \in SeqIds, NEW what \in Facts, Happened(i, what)
    PROVE  fact' \in [SeqIds -> SUBSET Facts]
BY DEF TypeOK, Happened

LEMMA InitTypes == Init => TypeInv
<1> SUFFICES ASSUME Init PROVE TypeInv
  OBVIOUS
<1>1. Absent \in Rows
  BY DEF Absent, Rows, Counts
<1> QED BY <1>1, ConstantsAssumption DEF Init, TypeInv, TypeOK, Idle, RunStates, Counts

LEMMA RequestTypes ==
    ASSUME TypeInv, NEW r \in Requests, Work(r)
    PROVE  TypeInv'
<1>0. req[r].pc # "idle" /\ req[r] \in Handling
  <2>1. req[r].pc # "idle"
    BY DEF Work, ObserveStep, ObserveFails, PollStep, AuditStep, GatewayStep,
           GatewayFails, LaunchStep, LaunchFails, SaveStep, SaveFails, SavingPCs
  <2> QED BY <2>1 DEF TypeInv, TypeOK, Idle
<1>h. /\ req[r].id \in SeqIds
      /\ req[r].seq \in Sequences(Counts)
      /\ req[r].op \in Buttons \union {"start"}
  BY <1>0 DEF Handling
<1>p. {"save", "audit", "act", "poll"} \subseteq PCs \ {"observe"}
  BY DEF PCs, SavingPCs
<1>1. CASE ObserveStep(r)
  <2> USE <1>1
  <2>1. PICK answer \in StoreAnswers :
          LET s == Look(req[r].seq, answer)
              d == Decide(req[r].op, req[r].seq, s)
          IN req' = [req EXCEPT ![r] =
                 IF d[1] = "idle" THEN Idle
                 ELSE [req[r] EXCEPT !.pc = d[1], !.seq = d[2],
                                     !.dirty = (s # req[r].seq)]]
    BY DEF ObserveStep
  <2> DEFINE s == Look(req[r].seq, answer)
             d == Decide(req[r].op, req[r].seq, s)
             h == [req[r] EXCEPT !.pc = d[1], !.seq = d[2], !.dirty = (s # req[r].seq)]
  <2>2. s \in Sequences(Counts)
    BY <1>h, LookType, ConstantsAssumption DEF TypeInv
  <2>3. req[r].pc = "observe" /\ req[r].op # "abort"
    BY DEF ObserveStep, TypeInv
  <2>4. d[1] \in PCs \union {"idle"} /\ d[2] \in Sequences(Counts)
    BY <2>2, <2>3, <1>h, DecideType
  <2>5. d[1] # "idle" => h \in Handling
    <3> HIDE DEF s, d
    <3> QED BY <1>0, <2>4 DEF Handling
  <2>6. h.op = req[r].op
    <3> HIDE DEF s, d
    <3> QED BY <1>0 DEF Handling
  <2>7. req' = [req EXCEPT ![r] = IF d[1] = "idle" THEN Idle ELSE h]
    BY <2>1
  <2> HIDE DEF s, d, h
  <2>8. req' \in [Requests -> Handling \union {Idle}]
    BY <2>5, <2>7 DEF TypeInv, TypeOK
  <2>9. \A q \in Requests : req'[q].pc = "observe" => req'[q].op # "abort"
    BY <2>3, <2>6, <2>7 DEF TypeInv, TypeOK, Idle
  <2> QED BY <2>8, <2>9 DEF ObserveStep, TypeInv, TypeOK, world
<1>2. CASE PollStep(r)
  <2>1. MarkRestarted(req[r].seq) \in Sequences(Counts)
    BY <1>h, SequenceTypes
  <2>2. /\ req' \in [Requests -> Handling \union {Idle}]
        /\ \A q \in Requests : req'[q].pc = "observe" => req'[q].op # "abort"
    BY <1>2, <1>0, <1>h, <1>p, <2>1, GotoTypes DEF PollStep
  <2> QED BY <1>2, <2>2 DEF PollStep, TypeInv, TypeOK, world
<1>3. CASE AuditStep(r)
  <2>1. /\ req' \in [Requests -> Handling \union {Idle}]
        /\ \A q \in Requests : req'[q].pc = "observe" => req'[q].op # "abort"
    BY <1>3, <1>0, <1>h, <1>p, GotoTypes, GiveUpTypes DEF AuditStep
  <2>2. faults' \in 0..MaxFaults
    BY <1>3, FaultTypes DEF AuditStep, TypeInv, TypeOK
  <2> QED BY <1>3, <2>1, <2>2 DEF AuditStep, TypeInv, TypeOK, world
<1>4. CASE GatewayStep(r)
  <2>1. /\ AfterGateway(req[r]) \in Handling
        /\ AfterGateway(req[r]).pc = "observe" => AfterGateway(req[r]).op # "abort"
    <3>1. CASE req[r].op = "start"
      BY <1>0, <1>h, <3>1, SequenceTypes DEF AfterGateway, Handling, PCs, SavingPCs
    <3>2. CASE req[r].op = "complete"
      BY <1>0, <1>h, <3>2, SequenceTypes DEF AfterGateway, Handling, PCs, SavingPCs
    <3>3. CASE req[r].op = "abort"
      BY <1>0, <1>h, <3>3, SequenceTypes DEF AfterGateway, Handling, PCs, SavingPCs
    <3> QED BY <1>4, <3>1, <3>2, <3>3 DEF GatewayStep
  <2>2. req' = [req EXCEPT ![r] = AfterGateway(req[r])]
    BY <1>4 DEF GatewayStep
  <2>3. gatewayActive' \in BOOLEAN
    BY <1>4 DEF GatewayStep, Target
  <2> HIDE DEF AfterGateway
  <2> QED BY <1>4, <2>1, <2>2, <2>3 DEF GatewayStep, TypeInv, TypeOK, Idle
<1>5. CASE GatewayFails(r)
  <2>1. /\ req' \in [Requests -> Handling \union {Idle}]
        /\ \A q \in Requests : req'[q].pc = "observe" => req'[q].op # "abort"
    BY <1>5, <1>0, GiveUpTypes DEF GatewayFails
  <2>2. faults' \in 0..MaxFaults /\ gatewayActive' \in BOOLEAN
    BY <1>5, FaultTypes DEF GatewayFails, Target, TypeInv, TypeOK
  <2> QED BY <1>5, <2>1, <2>2 DEF GatewayFails, TypeInv, TypeOK
<1>6. CASE LaunchStep(r)
  <2>1. /\ req' \in [Requests -> Handling \union {Idle}]
        /\ \A q \in Requests : req'[q].pc = "observe" => req'[q].op # "abort"
    BY <1>6, <1>0, <1>h, <1>p, GotoTypes DEF LaunchStep
  <2>2. fact' \in [SeqIds -> SUBSET Facts]
    BY <1>6, <1>h, HappenedTypes DEF LaunchStep, TypeInv, Facts
  <2>3. runs' \in [SeqIds -> RunStates]
    BY <1>6, <1>h DEF LaunchStep, TypeInv, TypeOK, RunStates
  <2> QED BY <1>6, <2>1, <2>2, <2>3 DEF LaunchStep, TypeInv, TypeOK
<1>7. CASE LaunchFails(r)
  <2>1. /\ req' \in [Requests -> Handling \union {Idle}]
        /\ \A q \in Requests : req'[q].pc = "observe" => req'[q].op # "abort"
    BY <1>7, <1>0, GiveUpTypes DEF LaunchFails
  <2>2. faults' \in 0..MaxFaults
    BY <1>7, FaultTypes DEF LaunchFails, TypeInv
  <2> QED BY <1>7, <2>1, <2>2 DEF LaunchFails, TypeInv, TypeOK, world
<1>s. ASSUME Stored(req[r])
      PROVE  rows' \in [SeqIds -> Rows] /\ fact' \in [SeqIds -> SUBSET Facts]
  <2>1. Row(req[r].seq) \in Rows
    BY <1>h, RowType
  <2>2. fact' \in [SeqIds -> SUBSET Facts]
    BY <1>s, <1>h, HappenedTypes DEF Stored, Facts, TypeInv, TypeOK
  <2> QED BY <1>s, <2>1, <2>2 DEF Stored, TypeInv, TypeOK
<1>8. CASE SaveStep(r)
  <2>1. /\ req' \in [Requests -> Handling \union {Idle}]
        /\ \A q \in Requests : req'[q].pc = "observe" => req'[q].op # "abort"
    BY <1>8, <1>0, <1>h, <1>p, GotoTypes DEF SaveStep
  <2> QED BY <1>8, <1>s, <2>1 DEF SaveStep, TypeInv, TypeOK
<1>9. CASE SaveFails(r)
  <2>1. /\ req' \in [Requests -> Handling \union {Idle}]
        /\ \A q \in Requests : req'[q].pc = "observe" => req'[q].op # "abort"
    BY <1>9, <1>0, <1>h, <1>p, GotoTypes DEF SaveFails
  <2>2. faults' \in 0..MaxFaults
    BY <1>9, FaultTypes DEF SaveFails, TypeInv, TypeOK
  <2> QED BY <1>9, <1>s, <2>1, <2>2 DEF SaveFails, TypeInv, TypeOK
<1>10. CASE ObserveFails(r)
  <2>1. /\ req' \in [Requests -> Handling \union {Idle}]
        /\ \A q \in Requests : req'[q].pc = "observe" => req'[q].op # "abort"
    BY <1>10, <1>0, <1>h, <1>p, GotoTypes DEF ObserveFails
  <2>2. faults' \in 0..MaxFaults
    BY <1>10, FaultTypes DEF ObserveFails, TypeInv
  <2> QED BY <1>10, <2>1, <2>2 DEF ObserveFails, TypeInv, TypeOK, world
<1> QED BY <1>1, <1>2, <1>3, <1>4, <1>5, <1>6, <1>7, <1>8, <1>9, <1>10 DEF Work

LEMMA OpeningTypes ==
    ASSUME TypeInv, NEW r \in Requests,
           Start(r) \/ \E op \in Pressed, i \in SeqIds : Press(r, op, i)
    PROVE  TypeInv'
<1>1. CASE Start(r)
  <2>1. PICK i \in SeqIds :
          /\ rows' = [rows EXCEPT ![i] = Row(NewSequence)]
          /\ req' = [req EXCEPT ![r] =
                [pc |-> "touch", op |-> "start", id |-> i, seq |-> NewSequence,
                 dirty |-> FALSE]]
    BY <1>1 DEF Start
  <2>2. Row(NewSequence) \in Rows
    BY NewSequenceType, RowType
  <2>3. [pc |-> "touch", op |-> "start", id |-> i, seq |-> NewSequence,
         dirty |-> FALSE] \in Handling
    BY NewSequenceType DEF Handling, PCs, SavingPCs
  <2> QED BY <1>1, <2>1, <2>2, <2>3 DEF Start, TypeInv, TypeOK, world
<1>2. ASSUME NEW op \in Pressed, NEW i \in SeqIds, Press(r, op, i)
      PROVE  TypeInv'
  <2>1. Rebuild(rows[i]) \in Sequences(Counts)
    BY <1>2, RebuildType DEF Press, TypeInv, TypeOK
  <2>2. op \in Buttons
    BY ConstantsAssumption
  <2>3. \E pc \in PCs, s \in Sequences(Counts) :
          /\ pc = "observe" => op # "abort"
          /\ req' = [req EXCEPT ![r] =
                [pc |-> pc, op |-> op, id |-> i, seq |-> s, dirty |-> FALSE]]
    BY <1>2, <2>1, SequenceTypes DEF Press, PCs, SavingPCs
  <2>4. PICK pc \in PCs, s \in Sequences(Counts) :
          /\ pc = "observe" => op # "abort"
          /\ req' = [req EXCEPT ![r] =
                [pc |-> pc, op |-> op, id |-> i, seq |-> s, dirty |-> FALSE]]
    BY <2>3
  <2>5. [pc |-> pc, op |-> op, id |-> i, seq |-> s, dirty |-> FALSE] \in Handling
    BY <2>2 DEF Handling
  <2>6. fact' \in [SeqIds -> SUBSET Facts]
    BY <1>2, HappenedTypes DEF Press, TypeInv, TypeOK, Facts
  <2> QED BY <1>2, <2>4, <2>5, <2>6 DEF Press, TypeInv, TypeOK
<1> QED BY <1>1, <1>2

LEMMA EnvironmentTypes == ASSUME TypeInv, Environment PROVE TypeInv'
<1>1. CASE Crash
  BY <1>1, FaultTypes DEF Crash, TypeInv, TypeOK, RunStates, Idle
<1>2. ASSUME NEW i \in SeqIds, Bounce(i) PROVE TypeInv'
  <2>1. /\ queries' = 0 /\ freshH' = FALSE
        /\ UNCHANGED <<rows, req, gatewayActive, runs, snapQ, snapH, faults, fact>>
    BY <1>2 DEF Bounce
  <2>2. queries' \in 0..MaxQueries
    BY <2>1, ConstantsAssumption
  <2> QED BY <2>1, <2>2 DEF TypeInv, TypeOK
<1>3. ASSUME NEW i \in SeqIds, PlaybookEnds(i) PROVE TypeInv'
  <2>1. fact' \in [SeqIds -> SUBSET Facts]
    BY <1>3, HappenedTypes DEF PlaybookEnds, TypeInv, TypeOK, Facts
  <2> QED BY <1>3, <2>1 DEF PlaybookEnds, TypeInv, TypeOK, RunStates
<1>4. CASE QueryArrives \/ QueryEnds
  BY <1>4, ConstantsAssumption DEF QueryArrives, QueryEnds, TypeInv, TypeOK
<1>5. CASE CollectQueries
  BY <1>5 DEF CollectQueries, TypeInv, TypeOK, Counts
<1>6. CASE CollectHealth
  BY <1>6, ConstantsAssumption DEF CollectHealth, TypeInv, TypeOK
<1> QED BY <1>1, <1>2, <1>3, <1>4, <1>5, <1>6 DEF Environment

LEMMA StepTypes == TypeInv /\ [Next]_vars => TypeInv'
<1> SUFFICES ASSUME TypeInv, [Next]_vars PROVE TypeInv'
  OBVIOUS
<1>1. CASE Next
  BY <1>1, RequestTypes, OpeningTypes, EnvironmentTypes DEF Next
<1>2. CASE UNCHANGED vars
  BY <1>2 DEF vars, TypeInv, TypeOK
<1> QED BY <1>1, <1>2

LEMMA TypeInvariant == Spec => []TypeInv
<1> QED BY InitTypes, StepTypes, PTL DEF Spec

\* Every variable keeps its type, however many requests interleave.
THEOREM TypeCorrect == Spec => []TypeOK
<1>1. TypeInv => TypeOK
  BY DEF TypeInv
<1> QED BY <1>1, TypeInvariant, PTL

-----------------------------------------------------------------------------
(* One sequence in flight.                                                 *)

\* A row only ever takes a state the partial unique index admits.
LEMMA AdmittedRow ==
    ASSUME TypeOK, OneActivePerCluster, NEW i \in SeqIds, NEW s \in Sequences(Counts),
           UniqueIndexAdmits(i, s.state), rows' = [rows EXCEPT ![i] = Row(s)]
    PROVE  OneActivePerCluster'
<1>1. \A j \in SeqIds : rows'[j].state = IF j = i THEN s.state ELSE rows[j].state
  BY RowType DEF TypeOK
<1> QED BY <1>1 DEF OneActivePerCluster, Active, UniqueIndexAdmits

LEMMA RowsSteps ==
    ASSUME Next
    PROVE  \/ UNCHANGED rows
           \/ \E r \in Requests : Start(r)
           \/ \E r \in Requests : req[r].pc \in SavingPCs /\ Stored(req[r])
<1> USE DEF world
<1>1. ASSUME NEW r \in Requests, Work(r)
      PROVE  UNCHANGED rows \/ (req[r].pc \in SavingPCs /\ Stored(req[r]))
  BY <1>1 DEF Work, ObserveStep, ObserveFails, PollStep, AuditStep, GatewayStep,
              GatewayFails, LaunchStep, LaunchFails, SaveStep, SaveFails
<1>2. Environment => UNCHANGED rows
  BY DEF Environment, Crash, Bounce, PlaybookEnds, QueryArrives, QueryEnds,
         CollectQueries, CollectHealth
<1>3. ASSUME NEW r \in Requests, NEW op \in Pressed, NEW i \in SeqIds, Press(r, op, i)
      PROVE  UNCHANGED rows
  BY <1>3 DEF Press
<1> QED BY <1>1, <1>2, <1>3 DEF Next

LEMMA OneActiveStep ==
    TypeInv /\ OneActivePerCluster /\ [Next]_vars => OneActivePerCluster'
<1> SUFFICES ASSUME TypeInv, OneActivePerCluster, [Next]_vars
             PROVE  OneActivePerCluster'
  OBVIOUS
<1>1. CASE UNCHANGED rows
  BY <1>1 DEF OneActivePerCluster, Active
<1>2. ASSUME NEW r \in Requests, Start(r) PROVE OneActivePerCluster'
  <2>1. PICK i \in SeqIds : /\ UniqueIndexAdmits(i, NewSequence.state)
                            /\ rows' = [rows EXCEPT ![i] = Row(NewSequence)]
    BY <1>2 DEF Start, NewSequence
  <2> QED BY <2>1, NewSequenceType, AdmittedRow DEF TypeInv
<1>3. ASSUME NEW r \in Requests, req[r].pc \in SavingPCs, Stored(req[r])
      PROVE  OneActivePerCluster'
  <2>1. req[r].id \in SeqIds /\ req[r].seq \in Sequences(Counts)
    BY <1>3 DEF TypeInv, TypeOK, Idle, Handling, SavingPCs
  <2> QED BY <1>3, <2>1, AdmittedRow DEF Stored, TypeInv
<1> QED BY <1>1, <1>2, <1>3, RowsSteps DEF vars

\* However many requests save however stale copies, in whatever order and with
\* whatever faults, two sequences of one cluster are never in flight together.
THEOREM OneActive == Spec => []OneActivePerCluster
<1>1. Init => OneActivePerCluster
  BY DEF Init, Absent, OneActivePerCluster, Active
<1> QED BY <1>1, OneActiveStep, TypeInvariant, PTL DEF Spec

-----------------------------------------------------------------------------
(* No step is skipped.                                                     *)

\* What has to have happened (done) before a sequence may be in a state.
Earned(done, state) ==
    /\ state \in {"RESTARTING", "VERIFYING", "COMPLETED"} => "launched" \in done
    /\ state \in {"VERIFYING", "COMPLETED"} => done \cap {"succeeded", "confirmed"} # {}

\* The one copy that runs ahead of what has happened: a restart that has been
\* let through and has not reached the executor.
HandingOver(h) == h.op = "restart" /\ h.pc \in {"audit", "act"}

HonestCopy(h, done) ==
    /\ IF HandingOver(h) THEN h.seq.state = "RESTARTING" ELSE Earned(done, h.seq.state)
    /\ h.pc = "poll" => h.seq.state = "RESTARTING" /\ h.op = "refresh"
    /\ h.pc \in {"audit", "act"} /\ h.op = "complete" => h.seq.state = "VERIFYING"
    /\ h.pc \in {"touch", "mark"} => h.op \in {"start", "abort"}

\* NoStepSkipped is about rows only; a row is overwritten by a request's copy,
\* so the copies have to be honest as well.
StepInv ==
    /\ \A i \in SeqIds : Earned(fact[i], rows[i].state)
    /\ \A i \in SeqIds : runs[i] = "succeeded" => "succeeded" \in fact[i]
    /\ \A r \in Requests : req[r].pc # "idle" => HonestCopy(req[r], fact[req[r].id])

FactGrows == \A i \in SeqIds : fact[i] \subseteq fact'[i]

LEMMA EarnedKept ==
    ASSUME NEW done, NEW done2, done \subseteq done2, NEW state, Earned(done, state)
    PROVE  Earned(done2, state)
BY DEF Earned

LEMMA HonestKept ==
    ASSUME NEW done, NEW done2, done \subseteq done2, NEW h, HonestCopy(h, done)
    PROVE  HonestCopy(h, done2)
BY EarnedKept DEF HonestCopy

LEMMA FactsStay == ASSUME UNCHANGED fact PROVE FactGrows
BY DEF FactGrows

LEMMA HappenedGrows ==
    ASSUME TypeOK, NEW i \in SeqIds, NEW what, Happened(i, what)
    PROVE  FactGrows /\ what \in fact'[i]
BY DEF TypeOK, Happened, FactGrows

\* StepInv is kept by a step that changes at most one request and leaves it
\* idle or honest, whose rows and runs are unchanged or earned.
LEMMA OneCopy ==
    ASSUME TypeInv, StepInv, FactGrows,
           \A i \in SeqIds : rows'[i] = rows[i] \/ Earned(fact'[i], rows'[i].state),
           \A i \in SeqIds : runs'[i] = "succeeded" =>
                               runs[i] = "succeeded" \/ "succeeded" \in fact'[i],
           NEW r \in Requests, NEW h,
           req' = [req EXCEPT ![r] = h],
           h.pc # "idle" => HonestCopy(h, fact'[h.id])
    PROVE  StepInv'
<1>1. \A i \in SeqIds : Earned(fact'[i], rows'[i].state)
  BY EarnedKept DEF StepInv, FactGrows
<1>2. \A i \in SeqIds : runs'[i] = "succeeded" => "succeeded" \in fact'[i]
  BY DEF StepInv, FactGrows
<1>3. ASSUME NEW q \in Requests, req'[q].pc # "idle"
      PROVE  HonestCopy(req'[q], fact'[req'[q].id])
  <2>1. CASE q = r
    BY <1>3, <2>1 DEF TypeInv, TypeOK
  <2>2. CASE q # r
    BY <1>3, <2>2, HonestKept DEF TypeInv, TypeOK, StepInv, FactGrows, Handling, Idle
  <2> QED BY <2>1, <2>2
<1> QED BY <1>1, <1>2, <1>3 DEF StepInv

LEMMA FinishKeeps ==
    ASSUME TypeInv, StepInv, FactGrows, NEW r \in Requests, Finish(r),
           \A i \in SeqIds : rows'[i] = rows[i] \/ Earned(fact'[i], rows'[i].state),
           UNCHANGED runs
    PROVE  StepInv'
<1>1. req' = [req EXCEPT ![r] = Idle] /\ Idle.pc = "idle"
  BY DEF Finish, Idle
<1> QED BY <1>1, OneCopy

LEMMA GotoKeeps ==
    ASSUME TypeInv, StepInv, FactGrows, NEW r \in Requests, req[r].pc # "idle",
           NEW pc \in PCs \ {"poll", "touch", "mark"}, Goto(r, pc),
           HandingOver(req[r]) <=> HandingOver([req[r] EXCEPT !.pc = pc]),
           pc \in {"audit", "act"} /\ req[r].op = "complete" => req[r].seq.state = "VERIFYING",
           \A i \in SeqIds : rows'[i] = rows[i] \/ Earned(fact'[i], rows'[i].state),
           UNCHANGED runs
    PROVE  StepInv'
<1>1. req[r] \in Handling
  BY DEF TypeInv, TypeOK, Idle
<1> DEFINE h == [req[r] EXCEPT !.pc = pc]
<1>2. h.op = req[r].op /\ h.id = req[r].id /\ h.seq = req[r].seq /\ h.pc = pc
  BY <1>1 DEF Handling
<1>3. HonestCopy(req[r], fact'[req[r].id])
  BY <1>1, HonestKept DEF StepInv, FactGrows, Handling
<1>4. HonestCopy(h, fact'[h.id])
  <2>1. HandingOver(req[r]) <=> HandingOver(h)
    OBVIOUS
  <2> HIDE DEF h
  <2> QED BY <1>2, <1>3, <2>1 DEF HonestCopy
<1>5. req' = [req EXCEPT ![r] = h]
  BY DEF Goto
<1> QED BY <1>4, <1>5, OneCopy

LEMMA GiveUpKeeps ==
    ASSUME TypeInv, StepInv, NEW r \in Requests, req[r].pc \in {"audit", "act"}, GiveUp(r),
           UNCHANGED <<rows, runs, fact>>
    PROVE  StepInv'
<1>1. req[r] \in Handling
  BY DEF TypeInv, TypeOK, Idle
<1>2. CASE req[r].op = "start"
  <2> DEFINE h == [req[r] EXCEPT !.pc = "save",
                                 !.seq = FinishAbort(BeginAbort(req[r].seq))]
  <2>1. h.pc = "save" /\ h.seq.state = "ABORTED" /\ h.op = "start"
    BY <1>1, <1>2 DEF Handling, Sequences, FinishAbort, BeginAbort
  <2>2. HonestCopy(h, fact'[h.id])
    <3> HIDE DEF h
    <3> QED BY <2>1 DEF HonestCopy, HandingOver, Earned
  <2>3. req' = [req EXCEPT ![r] = h]
    BY <1>2 DEF GiveUp
  <2> QED BY <2>2, <2>3, OneCopy, FactsStay
<1>3. CASE req[r].op = "abort"
  <2>1. ~HandingOver(req[r]) /\ ~HandingOver([req[r] EXCEPT !.pc = "save"])
    BY <1>1, <1>3 DEF HandingOver, Handling
  <2>2. Goto(r, "save") /\ "save" \in PCs \ {"poll", "touch", "mark"}
    BY <1>3 DEF GiveUp, PCs, SavingPCs
  <2>3. FactGrows /\ UNCHANGED <<rows, runs>> /\ req[r].pc # "idle"
    BY FactsStay
  <2>4. HandingOver(req[r]) <=> HandingOver([req[r] EXCEPT !.pc = "save"])
    BY <2>1
  <2> HIDE DEF HandingOver
  <2> QED BY <2>2, <2>3, <2>4, GotoKeeps
<1>4. CASE req[r].op \notin {"start", "abort"}
  BY <1>4, FinishKeeps, FactsStay DEF GiveUp
<1> QED BY <1>2, <1>3, <1>4

LEMMA InitSteps == Init => StepInv
<1> SUFFICES ASSUME Init PROVE StepInv
  OBVIOUS
<1> QED BY DEF Init, Absent, StepInv, Earned, Idle

LEMMA LookState ==
    ASSUME TypeOK, NEW s \in Sequences(Counts), NEW answer
    PROVE  Look(s, answer).state = s.state
             \/ Look(s, answer).state = "DRAINED"
<1> DEFINE seen == IF snapQ # NoCount
                   THEN Observe(s, snapQ, snapH)
                   ELSE [s EXCEPT !.health = IF snapH = "none" THEN s.health ELSE snapH]
<1>1. seen.state = s.state \/ seen.state = "DRAINED"
  BY DEF Sequences, Observe
<1>2. "state" \in DOMAIN seen
  BY DEF Sequences, Observe
<1>3. ObserveConfigStore(seen, answer).state = seen.state
  BY <1>2 DEF ObserveConfigStore
<1> QED BY <1>1, <1>3 DEF Look

LEMMA DecideHonest ==
    ASSUME NEW op \in (Buttons \ {"abort"}) \union {"start"}, NEW before,
           NEW s \in Sequences(Counts), NEW done, Earned(done, s.state),
           NEW h, h.op = op, h.pc = Decide(op, before, s)[1], h.pc # "idle",
           h.seq = Decide(op, before, s)[2]
    PROVE  HonestCopy(h, done)
<1> USE DEF Decide, HonestCopy, HandingOver
<1>1. CASE op \in {"start", "restarted"}
  BY <1>1
<1>2. CASE op = "refresh"
  BY <1>2 DEF AfterRefresh
<1>3. CASE op = "force"
  BY <1>3 DEF Sequences, ForceDrained, Earned
<1>4. CASE op = "restart"
  BY <1>4 DEF Sequences, MarkRestarting
<1>5. CASE op = "complete"
  BY <1>5 DEF HealthConfirmed
<1> QED BY <1>1, <1>2, <1>3, <1>4, <1>5

LEMMA RequestSteps ==
    ASSUME TypeInv, StepInv, NEW r \in Requests, Work(r)
    PROVE  StepInv'
<1>0. req[r].pc # "idle" /\ req[r] \in Handling
  <2>1. req[r].pc # "idle"
    BY DEF Work, ObserveStep, ObserveFails, PollStep, AuditStep, GatewayStep,
           GatewayFails, LaunchStep, LaunchFails, SaveStep, SaveFails, SavingPCs
  <2> QED BY <2>1 DEF TypeInv, TypeOK, Idle
<1>h. /\ req[r].id \in SeqIds
      /\ req[r].seq \in Sequences(Counts)
      /\ req[r].op \in Buttons \union {"start"}
  BY <1>0 DEF Handling
<1>c. HonestCopy(req[r], fact[req[r].id])
  BY <1>0 DEF StepInv
<1>p. {"save", "audit", "act"} \subseteq PCs \ {"poll", "touch", "mark"}
  BY DEF PCs, SavingPCs
<1>e. \A pc : [req[r] EXCEPT !.pc = pc].op = req[r].op /\ [req[r] EXCEPT !.pc = pc].pc = pc
  BY <1>0 DEF Handling
<1>1. CASE ObserveStep(r)
  <2>1. PICK answer \in StoreAnswers :
          LET s == Look(req[r].seq, answer)
              d == Decide(req[r].op, req[r].seq, s)
          IN req' = [req EXCEPT ![r] =
                 IF d[1] = "idle" THEN Idle
                 ELSE [req[r] EXCEPT !.pc = d[1], !.seq = d[2],
                                     !.dirty = (s # req[r].seq)]]
    BY <1>1 DEF ObserveStep
  <2> DEFINE s == Look(req[r].seq, answer)
             d == Decide(req[r].op, req[r].seq, s)
             g == [req[r] EXCEPT !.pc = d[1], !.seq = d[2], !.dirty = (s # req[r].seq)]
             h == IF d[1] = "idle" THEN Idle ELSE g
  <2>2. s \in Sequences(Counts)
    BY <1>h, LookType, ConstantsAssumption DEF TypeInv
  <2>3. req[r].pc = "observe" /\ req[r].op # "abort"
    BY <1>1 DEF ObserveStep, TypeInv
  <2>4. Earned(fact[req[r].id], s.state)
    <3>1. Earned(fact[req[r].id], req[r].seq.state)
      BY <1>c, <2>3 DEF HonestCopy, HandingOver
    <3>2. s.state = req[r].seq.state \/ s.state = "DRAINED"
      BY <1>h, LookState DEF TypeInv
    <3> QED BY <3>1, <3>2 DEF Earned
  <2>5. g.op = req[r].op /\ g.pc = d[1] /\ g.seq = d[2] /\ g.id = req[r].id
    <3> HIDE DEF s, d
    <3> QED BY <1>0 DEF Handling
  <2>6. d[1] # "idle" => HonestCopy(g, fact[req[r].id])
    <3> HIDE DEF s, g
    <3> QED BY <1>h, <2>2, <2>3, <2>4, <2>5, DecideHonest
  <2>7. FactGrows /\ UNCHANGED <<rows, runs, fact>>
    BY <1>1, FactsStay DEF ObserveStep, world
  <2>8. h.pc # "idle" => HonestCopy(h, fact'[h.id])
    <3> HIDE DEF d, g
    <3> QED BY <2>5, <2>6, <2>7 DEF Idle
  <2>9. req' = [req EXCEPT ![r] = h]
    BY <2>1
  <2> HIDE DEF h
  <2> QED BY <2>7, <2>8, <2>9, OneCopy
<1>2. CASE PollStep(r)
  <2>0. FactGrows /\ UNCHANGED <<rows, runs, fact>>
    BY <1>2, FactsStay DEF PollStep, world
  <2>p. req[r].pc = "poll" /\ req[r].seq.state = "RESTARTING" /\ req[r].op = "refresh"
    BY <1>2, <1>c DEF PollStep, HonestCopy
  <2>1. CASE PollAdvances(req[r].id)
               /\ req' = [req EXCEPT ![r].pc = "save", ![r].seq = MarkRestarted(req[r].seq)]
    <3> DEFINE h == [req[r] EXCEPT !.pc = "save", !.seq = MarkRestarted(req[r].seq)]
    <3>1. /\ h.pc = "save" /\ h.op = "refresh" /\ h.id = req[r].id
          /\ h.seq.state = "VERIFYING"
      BY <1>0, <1>h, <2>p DEF Handling, Sequences, MarkRestarted
    <3>2. {"succeeded", "launched"} \subseteq fact[req[r].id]
      BY <2>1, <1>h, <1>c, <2>p DEF PollAdvances, StepInv, HonestCopy, HandingOver, Earned
    <3>3. req' = [req EXCEPT ![r] = h]
      BY <2>1
    <3> HIDE DEF h
    <3>4. HonestCopy(h, fact'[h.id])
      BY <2>0, <3>1, <3>2 DEF HonestCopy, HandingOver, Earned
    <3> QED BY <2>0, <3>3, <3>4, OneCopy
  <2>2. CASE Goto(r, "save")
    <3>1. HandingOver(req[r]) <=> HandingOver([req[r] EXCEPT !.pc = "save"])
      BY <1>e, <2>p DEF HandingOver
    <3> HIDE DEF HandingOver
    <3> QED BY <1>0, <1>p, <2>0, <2>2, <3>1, GotoKeeps
  <2>3. CASE Finish(r)
    BY <2>0, <2>3, FinishKeeps
  <2> QED BY <1>2, <2>1, <2>2, <2>3 DEF PollStep
<1>3. CASE AuditStep(r)
  <2>0. FactGrows /\ UNCHANGED <<rows, runs, fact>> /\ req[r].pc = "audit"
    BY <1>3, FactsStay DEF AuditStep, world
  <2>1. CASE GiveUp(r)
    BY <2>0, <2>1, GiveUpKeeps
  <2>2. ASSUME NEW pc, pc = IF req[r].op = "force" THEN "save" ELSE "act", Goto(r, pc)
        PROVE  StepInv'
    <3>1. HandingOver(req[r]) <=> HandingOver([req[r] EXCEPT !.pc = pc])
      BY <1>e, <2>0, <2>2 DEF HandingOver
    <3>2. req[r].op = "complete" => req[r].seq.state = "VERIFYING"
      BY <1>c, <2>0 DEF HonestCopy
    <3> HIDE DEF HandingOver
    <3> QED BY <1>0, <1>p, <2>0, <2>2, <3>1, <3>2, GotoKeeps
  <2> QED BY <1>3, <2>1, <2>2 DEF AuditStep
<1>4. CASE GatewayStep(r)
  <2> DEFINE h == AfterGateway(req[r])
  <2>1. /\ req[r].pc = "act" /\ req[r].op \in {"start", "complete", "abort"}
        /\ req' = [req EXCEPT ![r] = h]
        /\ FactGrows /\ UNCHANGED <<rows, runs, fact>>
    BY <1>4, FactsStay DEF GatewayStep
  <2>2. h.op = req[r].op /\ h.id = req[r].id /\ h.pc \in {"observe", "save"}
    BY <1>0, <2>1 DEF AfterGateway, Handling
  <2>3. Earned(fact[h.id], h.seq.state)
    <3>1. CASE req[r].op = "complete"
      <4>1. Earned(fact[req[r].id], "VERIFYING")
        BY <1>c, <2>1, <3>1 DEF HonestCopy, HandingOver
      <4>2. h.seq.state = "COMPLETED"
        BY <1>0, <1>h, <3>1 DEF AfterGateway, Handling, Sequences, Complete
      <4> HIDE DEF h
      <4> QED BY <2>2, <4>1, <4>2 DEF Earned
    <3>2. CASE req[r].op # "complete"
      <4>1. h.seq.state \in {"DRAINING", "ABORTED"}
        BY <1>0, <1>h, <2>1, <3>2 DEF AfterGateway, Handling, Sequences, Begin, FinishAbort
      <4> HIDE DEF h
      <4> QED BY <4>1 DEF Earned
    <3> QED BY <3>1, <3>2
  <2> HIDE DEF h
  <2>4. HonestCopy(h, fact'[h.id])
    BY <2>1, <2>2, <2>3 DEF HonestCopy, HandingOver
  <2> QED BY <2>1, <2>4, OneCopy
<1>5. CASE GatewayFails(r) \/ LaunchFails(r)
  BY <1>5, GiveUpKeeps DEF GatewayFails, LaunchFails, world
<1>6. CASE LaunchStep(r)
  <2> DEFINE h == [req[r] EXCEPT !.pc = "save"]
  <2>1. FactGrows /\ "launched" \in fact'[req[r].id] /\ UNCHANGED rows
    BY <1>6, <1>h, HappenedGrows DEF LaunchStep, TypeInv
  <2>2. req' = [req EXCEPT ![r] = h]
    BY <1>6 DEF LaunchStep, Goto
  <2>3. \A i \in SeqIds : runs'[i] = "succeeded" => runs[i] = "succeeded"
    BY <1>6 DEF LaunchStep, TypeInv, TypeOK
  <2>4. h.pc = "save" /\ h.op = "restart" /\ h.id = req[r].id /\ h.seq = req[r].seq
    BY <1>0, <1>6 DEF Handling, LaunchStep
  <2>5. req[r].seq.state = "RESTARTING"
    BY <1>6, <1>c DEF LaunchStep, HonestCopy, HandingOver
  <2> HIDE DEF h
  <2>6. HonestCopy(h, fact'[h.id])
    BY <2>1, <2>4, <2>5 DEF HonestCopy, HandingOver, Earned
  <2> QED BY <2>1, <2>2, <2>3, <2>6, OneCopy
<1>s. ASSUME Stored(req[r]), req[r].pc \in SavingPCs
      PROVE  /\ FactGrows
             /\ \A i \in SeqIds : rows'[i] = rows[i] \/ Earned(fact'[i], rows'[i].state)
  <2>1. FactGrows
    BY <1>s, <1>h, FactsStay, HappenedGrows DEF Stored, TypeInv
  <2>2. Earned(fact[req[r].id], req[r].seq.state)
    BY <1>s, <1>c DEF HonestCopy, HandingOver, SavingPCs
  <2>3. Earned(fact'[req[r].id], Row(req[r].seq).state)
    BY <2>1, <2>2, <1>h, EarnedKept, RowType DEF FactGrows
  <2> QED BY <1>s, <1>h, <2>1, <2>3 DEF Stored, TypeInv, TypeOK
<1>8. CASE SaveStep(r)
  <2>1. CASE Finish(r)
    BY <1>8, <1>s, <2>1, FinishKeeps DEF SaveStep
  <2>2. CASE req[r].pc \in {"touch", "mark"} /\ Goto(r, "audit")
    <3>1. req[r].op \in {"start", "abort"}
      BY <1>c, <2>2 DEF HonestCopy
    <3>2. HandingOver(req[r]) <=> HandingOver([req[r] EXCEPT !.pc = "audit"])
      BY <1>e, <3>1 DEF HandingOver
    <3> HIDE DEF HandingOver
    <3> QED BY <1>0, <1>p, <1>8, <1>s, <2>2, <3>1, <3>2, GotoKeeps DEF SaveStep
  <2> QED BY <1>8, <2>1, <2>2 DEF SaveStep, SavingPCs
<1>9. CASE SaveFails(r)
  <2>1. CASE Stored(req[r])
    BY <1>9, <1>s, <2>1, FinishKeeps DEF SaveFails
  <2>2. CASE UNCHANGED <<rows, fact>>
    BY <1>9, <2>2, FinishKeeps, FactsStay DEF SaveFails
  <2> QED BY <1>9, <2>1, <2>2 DEF SaveFails
<1>10. CASE ObserveFails(r)
  BY <1>10, FinishKeeps, FactsStay DEF ObserveFails, world
<1> QED BY <1>1, <1>2, <1>3, <1>4, <1>5, <1>6, <1>8, <1>9, <1>10 DEF Work

LEMMA OpeningSteps ==
    ASSUME TypeInv, StepInv, NEW r \in Requests,
           Start(r) \/ \E op \in Pressed, i \in SeqIds : Press(r, op, i)
    PROVE  StepInv'
<1>1. CASE Start(r)
  <2> DEFINE new(i) == [pc |-> "touch", op |-> "start", id |-> i, seq |-> NewSequence,
                        dirty |-> FALSE]
  <2>1. PICK i \in SeqIds : /\ rows' = [rows EXCEPT ![i] = Row(NewSequence)]
                            /\ req' = [req EXCEPT ![r] = new(i)]
    BY <1>1 DEF Start
  <2>2. FactGrows /\ UNCHANGED <<runs, fact>>
    BY <1>1, FactsStay DEF Start, world
  <2>3. \A j \in SeqIds : rows'[j] = rows[j] \/ Earned(fact'[j], rows'[j].state)
    BY <2>1 DEF TypeInv, TypeOK, Row, NewSequence, Earned
  <2>4. HonestCopy(new(i), fact'[new(i).id])
    BY DEF NewSequence, HonestCopy, HandingOver, Earned
  <2> HIDE DEF new
  <2> QED BY <2>1, <2>2, <2>3, <2>4, OneCopy
<1>2. ASSUME NEW op \in Pressed, NEW i \in SeqIds, Press(r, op, i)
      PROVE  StepInv'
  <2> DEFINE s == Rebuild(rows[i])
             new(pc, t) == [pc |-> pc, op |-> op, id |-> i, seq |-> t, dirty |-> FALSE]
  <2>1. s \in Sequences(Counts) /\ Earned(fact[i], s.state)
    BY <1>2, RebuildType DEF Press, TypeInv, TypeOK, StepInv
  <2>2. UNCHANGED <<rows, runs>>
    BY <1>2 DEF Press
  <2>3. CASE /\ op \in {"refresh", "force", "restart", "complete"}
             /\ req' = [req EXCEPT ![r] = new("observe", s)]
             /\ UNCHANGED fact
    <3>1. HonestCopy(new("observe", s), fact'[new("observe", s).id])
      <4> HIDE DEF s
      <4> QED BY <2>1, <2>3 DEF HonestCopy, HandingOver
    <3> HIDE DEF new, s
    <3> QED BY <2>2, <2>3, <3>1, OneCopy, FactsStay
  <2>4. CASE /\ op = "restarted" /\ MayMarkRestarted(s)
             /\ req' = [req EXCEPT ![r] = new("observe", MarkRestarted(s))]
             /\ Happened(i, "confirmed")
    <3>1. FactGrows /\ {"launched", "confirmed"} \subseteq fact'[i]
      BY <2>1, <2>4, HappenedGrows DEF FactGrows, TypeInv, MayMarkRestarted, Earned
    <3>2. MarkRestarted(s).state = "VERIFYING"
      <4> HIDE DEF s
      <4> QED BY <2>1 DEF MarkRestarted, Sequences
    <3>3. HonestCopy(new("observe", MarkRestarted(s)), fact'[new("observe", MarkRestarted(s)).id])
      <4> HIDE DEF s
      <4> QED BY <3>1, <3>2 DEF HonestCopy, HandingOver, Earned
    <3> HIDE DEF new, s
    <3> QED BY <2>2, <2>4, <3>1, <3>3, OneCopy
  <2>5. CASE /\ op = "abort"
             /\ req' = [req EXCEPT ![r] = new("mark", BeginAbort(s))]
             /\ UNCHANGED fact
    <3>1. BeginAbort(s).state = "ABORTING"
      <4> HIDE DEF s
      <4> QED BY <2>1 DEF BeginAbort, Sequences
    <3>2. HonestCopy(new("mark", BeginAbort(s)), fact'[new("mark", BeginAbort(s)).id])
      <4> HIDE DEF s
      <4> QED BY <2>5, <3>1 DEF HonestCopy, HandingOver, Earned
    <3> HIDE DEF new, s
    <3> QED BY <2>2, <2>5, <3>2, OneCopy, FactsStay
  <2> QED BY <1>2, <2>3, <2>4, <2>5 DEF Press
<1> QED BY <1>1, <1>2

LEMMA EnvironmentSteps == ASSUME TypeInv, StepInv, Environment PROVE StepInv'
<1>1. CASE Crash
  <2>1. /\ \A r \in Requests : req'[r].pc = "idle"
        /\ \A i \in SeqIds : runs'[i] = "none"
        /\ UNCHANGED <<rows, fact>>
    BY <1>1 DEF Crash, Idle
  <2> QED BY <2>1 DEF StepInv
<1>2. CASE UNCHANGED <<rows, req, runs, fact>>
  BY <1>2 DEF StepInv
<1>3. ASSUME NEW i \in SeqIds, PlaybookEnds(i) PROVE StepInv'
  <2>1. FactGrows /\ UNCHANGED <<rows, req>>
    BY <1>3, FactsStay, HappenedGrows DEF PlaybookEnds, TypeInv
  <2>2. \A j \in SeqIds : runs'[j] = "succeeded" => "succeeded" \in fact'[j]
    BY <1>3, <2>1, HappenedGrows DEF PlaybookEnds, TypeInv, TypeOK, StepInv, FactGrows
  <2>3. \A j \in SeqIds : Earned(fact'[j], rows'[j].state)
    BY <2>1, EarnedKept DEF StepInv, FactGrows
  <2>4. \A r \in Requests : req'[r].pc # "idle" => HonestCopy(req'[r], fact'[req'[r].id])
    BY <2>1, HonestKept DEF StepInv, FactGrows, TypeInv, TypeOK, Handling, Idle
  <2> QED BY <2>2, <2>3, <2>4 DEF StepInv
<1> QED BY <1>1, <1>2, <1>3 DEF Environment, Bounce, QueryArrives, QueryEnds,
                               CollectQueries, CollectHealth

LEMMA StepSteps == TypeInv /\ StepInv /\ [Next]_vars => StepInv'
<1> SUFFICES ASSUME TypeInv, StepInv, [Next]_vars PROVE StepInv'
  OBVIOUS
<1>1. CASE Next
  BY <1>1, RequestSteps, OpeningSteps, EnvironmentSteps DEF Next
<1>2. CASE UNCHANGED vars
  BY <1>2 DEF vars, StepInv
<1> QED BY <1>1, <1>2

\* In any interleaving of requests that save stale copies over each other, no
\* row stands past the restart, or past the verification, of a cluster that was
\* not restarted.
THEOREM StepsInOrder == Spec => []NoStepSkipped
<1>1. StepInv => NoStepSkipped
  BY DEF StepInv, Earned, NoStepSkipped
<1> QED BY <1>1, InitSteps, StepSteps, TypeInvariant, PTL DEF Spec
-----------------------------------------------------------------------------
(* Operators who take turns, one request at a time: the service implements *)
(* RestartProtocol, whatever fails and wherever tms-api restarts, for any  *)
(* number of sequences, queries and faults and in either restart mode.     *)

USE DEF Exposed

Turns == \A q, r \in Requests : q = r

\* The saves a request may make, with the row in state from and the cluster
\* taking queries or not: a step of the protocol, or none.  A start whose call
\* was applied and whose answer was lost is closed out all the same.
MaySave(from, to, active) ==
    \/ from = to
    \/ from \in InFlight /\ to = "ABORTING"
    \/ /\ ~active
       /\ \/ from = "PENDING" /\ to \in {"DRAINING", "DRAINED"}
          \/ from = "DRAINING" /\ to = "DRAINED"
          \/ from \in {"DRAINING", "DRAINED"} /\ to = "RESTARTING"
          \/ from = "RESTARTING" /\ to = "VERIFYING"
    \/ /\ active
       /\ \/ from = "VERIFYING" /\ to = "COMPLETED"
          \/ from = "ABORTING" /\ to = "ABORTED"
    \/ /\ active \/ LostReplies
       /\ from = "PENDING" /\ to = "ABORTED"

\* What a request h knows on its way to the save, of a row nobody else writes.
InTurn(h, row, active) ==
    /\ row # "ABSENT"
    /\ h.pc \in SavingPCs => MaySave(row, h.seq.state, active)
    /\ h.pc = "touch" => h.op = "start"
    /\ h.pc = "mark" => h.op = "abort" /\ h.seq.state = "ABORTING"
    /\ h.pc = "poll" => h.op = "refresh" /\ row = "RESTARTING" /\ h.seq.state = "RESTARTING"
    /\ h.pc = "observe" =>
          CASE h.op = "start" -> row = "PENDING" /\ h.seq.state = "DRAINING" /\ ~active
            [] h.op = "restarted" -> row = "RESTARTING" /\ h.seq.state = "VERIFYING"
            [] OTHER -> h.seq.state = row
    /\ h.pc \in {"touch", "audit", "act"} /\ h.op = "start" =>
          row = "PENDING" /\ h.seq.state = "PENDING" /\ (active \/ LostReplies)
    /\ h.pc = "audit" /\ h.op = "force" =>
          row \in {"DRAINING", "DRAINED"} /\ h.seq.state = "DRAINED"
    /\ h.pc \in {"audit", "act"} =>
          /\ h.op \in {"start", "force", "restart", "complete", "abort"}
          /\ h.op = "restart" => row \in {"DRAINING", "DRAINED"} /\ h.seq.state = "RESTARTING"
          /\ h.op = "complete" => row = "VERIFYING" /\ h.seq.state = "VERIFYING"
          /\ h.op = "abort" => row = "ABORTING" /\ h.seq.state = "ABORTING"

TurnInv ==
    /\ TypeInv
    /\ OneActivePerCluster
    /\ TrafficHeld
    /\ ~LostReplies => NoSilentOutage
    /\ \A r \in Requests :
          req[r].pc # "idle" => InTurn(req[r], rows[req[r].id].state, gatewayActive)

-----------------------------------------------------------------------------
(* What a step has to show.                                                *)

LEMMA TurnKept ==
    ASSUME Turns, TypeInv, TypeInv', OneActivePerCluster', TrafficHeld',
           ~LostReplies => NoSilentOutage',
           NEW r \in Requests, NEW h, req' = [req EXCEPT ![r] = h],
           h.pc # "idle" => InTurn(h, rows'[h.id].state, gatewayActive')
    PROVE  TurnInv'
<1>1. \A q \in Requests : req'[q] = h
  BY DEF Turns, TypeInv, TypeOK
<1> QED BY <1>1 DEF TurnInv

\* A step of a request that touches neither the rows nor the Gateway.
LEMMA TurnAside ==
    ASSUME Turns, TurnInv, TypeInv', UNCHANGED <<rows, gatewayActive>>,
           NEW r \in Requests, NEW h, req' = [req EXCEPT ![r] = h],
           h.pc # "idle" => InTurn(h, rows[h.id].state, gatewayActive)
    PROVE  TurnInv'
<1>1. /\ OneActivePerCluster' /\ TrafficHeld'
      /\ ~LostReplies => NoSilentOutage'
  BY DEF TurnInv, OneActivePerCluster, Active, TrafficHeld, NoSilentOutage
<1> QED BY <1>1, TurnKept DEF TurnInv

LEMMA TurnEnds ==
    ASSUME Turns, TurnInv, TypeInv', UNCHANGED <<rows, gatewayActive>>,
           NEW r \in Requests, Finish(r)
    PROVE  TurnInv'
BY TurnAside DEF Finish, Idle

\* A save that MaySave allows keeps what the protocol keeps.
LEMMA SaveHolds ==
    ASSUME TypeInv, OneActivePerCluster, TrafficHeld, ~LostReplies => NoSilentOutage,
           NEW h \in Handling, Stored(h), UNCHANGED gatewayActive,
           MaySave(rows[h.id].state, h.seq.state, gatewayActive)
    PROVE  /\ rows'[h.id].state = h.seq.state
           /\ TrafficHeld'
           /\ ~LostReplies => NoSilentOutage'
<1>1. /\ h.id \in SeqIds
      /\ h.seq \in Sequences(Counts)
      /\ rows' = [rows EXCEPT ![h.id] = Row(h.seq)]
  BY DEF Handling, Stored
<1>2. /\ rows'[h.id].state = h.seq.state
      /\ \A j \in SeqIds \ {h.id} : rows'[j] = rows[j]
  BY <1>1, RowType DEF TypeInv, TypeOK
<1>3. TrafficHeld'
  BY <1>1, <1>2 DEF TrafficHeld, Exposed, MaySave
<1>4. ~LostReplies => NoSilentOutage'
  <2> SUFFICES ASSUME ~LostReplies, ~gatewayActive
               PROVE  \E i \in SeqIds : rows'[i].state \in InFlight
    BY DEF NoSilentOutage, Active
  <2>1. PICK i \in SeqIds : rows[i].state \in InFlight
    BY DEF NoSilentOutage, Active
  <2>2. CASE i = h.id
    BY <1>1, <1>2, <2>1, <2>2 DEF MaySave
  <2>3. CASE i # h.id
    BY <1>2, <2>1, <2>3
  <2> QED BY <2>2, <2>3
<1> QED BY <1>2, <1>3, <1>4

-----------------------------------------------------------------------------
(* A request, step by step.                                                *)

LEMMA Opened ==
    ASSUME TurnInv, NEW r \in Requests, req[r].pc # "idle"
    PROVE  /\ req[r] \in Handling
           /\ req[r].id \in SeqIds
           /\ req[r].seq \in Sequences(Counts)
           /\ req[r].op \in Buttons \union {"start"}
           /\ InTurn(req[r], rows[req[r].id].state, gatewayActive)
           /\ \A pc, s : LET h == [req[r] EXCEPT !.pc = pc, !.seq = s] IN
                /\ h.pc = pc /\ h.seq = s
                /\ h.op = req[r].op /\ h.id = req[r].id
           /\ \A pc : LET h == [req[r] EXCEPT !.pc = pc] IN
                /\ h.pc = pc /\ h.seq = req[r].seq
                /\ h.op = req[r].op /\ h.id = req[r].id
<1>1. req[r] \in Handling
  BY DEF TurnInv, TypeInv, TypeOK, Idle
<1> QED BY <1>1 DEF Handling, TurnInv

\* start finds no sequence in flight, and so the cluster in rotation.
LEMMA StartTurn ==
    ASSUME Turns, TurnInv, TypeInv', OneActivePerCluster', NEW r \in Requests, Start(r)
    PROVE  TurnInv'
<1> DEFINE new(i) == [pc |-> "touch", op |-> "start", id |-> i, seq |-> NewSequence,
                      dirty |-> FALSE]
<1>1. PICK i \in SeqIds : /\ rows[i].state = "ABSENT"
                          /\ UniqueIndexAdmits(i, "PENDING")
                          /\ rows' = [rows EXCEPT ![i] = Row(NewSequence)]
                          /\ req' = [req EXCEPT ![r] = new(i)]
  BY DEF Start
<1>2. UNCHANGED gatewayActive
  BY DEF Start, world
<1>3. /\ rows'[i].state = "PENDING"
      /\ \A j \in SeqIds \ {i} : rows'[j] = rows[j]
  BY <1>1, NewSequenceType, RowType DEF TurnInv, TypeInv, TypeOK, NewSequence
<1>4. \A j \in SeqIds : rows[j].state \notin InFlight
  BY <1>1 DEF UniqueIndexAdmits, Active
<1>5. gatewayActive \/ LostReplies
  BY <1>4 DEF TurnInv, NoSilentOutage, Active
<1>6. TrafficHeld'
  BY <1>2, <1>3 DEF TurnInv, TrafficHeld
<1>7. NoSilentOutage'
  BY <1>3 DEF NoSilentOutage, Active
<1>8. InTurn(new(i), rows'[new(i).id].state, gatewayActive')
  BY <1>2, <1>3, <1>5 DEF InTurn, MaySave, NewSequence, SavingPCs
<1> HIDE DEF new
<1> QED BY <1>1, <1>6, <1>7, <1>8, TurnKept DEF TurnInv

LEMMA PressTurn ==
    ASSUME Turns, TurnInv, TypeInv', NEW r \in Requests, NEW op \in Pressed,
           NEW i \in SeqIds, Press(r, op, i)
    PROVE  TurnInv'
<1> DEFINE s == Rebuild(rows[i])
           new(pc, t) == [pc |-> pc, op |-> op, id |-> i, seq |-> t, dirty |-> FALSE]
<1>1. s \in Sequences(Counts) /\ s.state = rows[i].state /\ s.state # "ABSENT"
  BY RebuildType DEF Press, TurnInv, TypeInv, TypeOK
<1>2. UNCHANGED <<rows, gatewayActive>>
  BY DEF Press
<1>3. CASE /\ op \in {"refresh", "force", "restart", "complete"}
           /\ req' = [req EXCEPT ![r] = new("observe", s)]
  <2>1. InTurn(new("observe", s), rows[new("observe", s).id].state, gatewayActive)
    <3> HIDE DEF s
    <3> QED BY <1>1, <1>3 DEF InTurn, SavingPCs
  <2> HIDE DEF new, s
  <2> QED BY <1>2, <1>3, <2>1, TurnAside
<1>4. CASE /\ op = "restarted" /\ MayMarkRestarted(s)
           /\ req' = [req EXCEPT ![r] = new("observe", MarkRestarted(s))]
  <2>1. MarkRestarted(s).state = "VERIFYING" /\ s.state = "RESTARTING"
    <3> HIDE DEF s
    <3> QED BY <1>1, <1>4 DEF MarkRestarted, MayMarkRestarted, Sequences
  <2>2. InTurn(new("observe", MarkRestarted(s)),
               rows[new("observe", MarkRestarted(s)).id].state, gatewayActive)
    <3> HIDE DEF s
    <3> QED BY <1>1, <1>4, <2>1 DEF InTurn, SavingPCs
  <2> HIDE DEF new, s
  <2> QED BY <1>2, <1>4, <2>2, TurnAside
<1>5. CASE /\ op = "abort" /\ MayAbort(s)
           /\ req' = [req EXCEPT ![r] = new("mark", BeginAbort(s))]
  <2>1. BeginAbort(s).state = "ABORTING" /\ s.state \in InFlight
    <3> HIDE DEF s
    <3> QED BY <1>1, <1>5 DEF BeginAbort, MayAbort, Sequences
  <2>2. InTurn(new("mark", BeginAbort(s)), rows[new("mark", BeginAbort(s)).id].state,
               gatewayActive)
    <3> HIDE DEF s
    <3> QED BY <1>1, <1>5, <2>1 DEF InTurn, MaySave, SavingPCs
  <2> HIDE DEF new, s
  <2> QED BY <1>2, <1>5, <2>2, TurnAside
<1> QED BY <1>3, <1>4, <1>5 DEF Press

\* An observation moves a draining sequence to DRAINED and no other anywhere.
LEMMA LookMoves ==
    ASSUME TypeOK, NEW s \in Sequences(Counts), NEW answer
    PROVE  \/ Look(s, answer).state = s.state
           \/ s.state = "DRAINING" /\ Look(s, answer).state = "DRAINED"
<1> DEFINE seen == IF snapQ # NoCount
                   THEN Observe(s, snapQ, snapH)
                   ELSE [s EXCEPT !.health = IF snapH = "none" THEN s.health ELSE snapH]
<1>1. seen.state = s.state \/ (s.state = "DRAINING" /\ seen.state = "DRAINED")
  BY DEF Sequences, Observe
<1>2. ObserveConfigStore(seen, answer).state = seen.state
  BY DEF Sequences, Observe, ObserveConfigStore
<1> QED BY <1>1, <1>2 DEF Look

\* What the handler decides on what it saw.
LEMMA DecideTurn ==
    ASSUME NEW op \in (Buttons \ {"abort"}) \union {"start"}, NEW before \in Sequences(Counts),
           NEW s \in Sequences(Counts), NEW row, NEW active \in BOOLEAN, row # "ABSENT",
           row \in Exposed => ~active,
           s.state = before.state \/ (before.state = "DRAINING" /\ s.state = "DRAINED"),
           CASE op = "start" -> row = "PENDING" /\ before.state = "DRAINING" /\ ~active
             [] op = "restarted" -> row = "RESTARTING" /\ before.state = "VERIFYING"
             [] OTHER -> before.state = row,
           NEW h, h.op = op, h.pc = Decide(op, before, s)[1], h.pc # "idle",
           h.seq = Decide(op, before, s)[2]
    PROVE  InTurn(h, row, active)
<1> USE DEF Decide, InTurn, MaySave, SavingPCs
<1>1. CASE op = "start"
  BY <1>1
<1>2. CASE op = "restarted"
  BY <1>2
<1>3. CASE op = "refresh"
  BY <1>3 DEF AfterRefresh
<1>4. CASE op = "force"
  BY <1>4 DEF Sequences, MayForce, ForceDrained
<1>5. CASE op = "restart"
  BY <1>5 DEF Sequences, DrainConfirmed, MarkRestarting
<1>6. CASE op = "complete"
  BY <1>6 DEF HealthConfirmed
<1> QED BY <1>1, <1>2, <1>3, <1>4, <1>5, <1>6

LEMMA ObserveTurn ==
    ASSUME Turns, TurnInv, TypeInv', NEW r \in Requests, ObserveStep(r)
    PROVE  TurnInv'
<1>1. PICK answer \in StoreAnswers :
        LET s == Look(req[r].seq, answer)
            d == Decide(req[r].op, req[r].seq, s)
        IN req' = [req EXCEPT ![r] =
               IF d[1] = "idle" THEN Idle
               ELSE [req[r] EXCEPT !.pc = d[1], !.seq = d[2], !.dirty = (s # req[r].seq)]]
  BY DEF ObserveStep
<1> DEFINE s == Look(req[r].seq, answer)
           d == Decide(req[r].op, req[r].seq, s)
           g == [req[r] EXCEPT !.pc = d[1], !.seq = d[2], !.dirty = (s # req[r].seq)]
           h == IF d[1] = "idle" THEN Idle ELSE g
           row == rows[req[r].id].state
<1>2. /\ req[r].pc = "observe" /\ req[r].op # "abort"
      /\ UNCHANGED <<rows, gatewayActive>>
  BY DEF ObserveStep, TurnInv, TypeInv, world
<1>3. /\ req[r] \in Handling /\ req[r].id \in SeqIds
      /\ req[r].seq \in Sequences(Counts)
      /\ req[r].op \in (Buttons \ {"abort"}) \union {"start"}
      /\ InTurn(req[r], row, gatewayActive)
  BY <1>2, Opened
<1>4. /\ s \in Sequences(Counts)
      /\ s.state = req[r].seq.state \/ (req[r].seq.state = "DRAINING" /\ s.state = "DRAINED")
  BY <1>3, LookType, LookMoves, ConstantsAssumption DEF TurnInv, TypeInv
<1>5. /\ row # "ABSENT" /\ (row \in Exposed => ~gatewayActive)
      /\ gatewayActive \in BOOLEAN
      /\ CASE req[r].op = "start" ->
                 row = "PENDING" /\ req[r].seq.state = "DRAINING" /\ ~gatewayActive
           [] req[r].op = "restarted" -> row = "RESTARTING" /\ req[r].seq.state = "VERIFYING"
           [] OTHER -> req[r].seq.state = row
  BY <1>2, <1>3 DEF InTurn, TurnInv, TrafficHeld, TypeInv, TypeOK
<1>6. g.op = req[r].op /\ g.pc = d[1] /\ g.seq = d[2] /\ g.id = req[r].id
  <2> HIDE DEF s, d
  <2> QED BY <1>3 DEF Handling
<1>7. d[1] # "idle" => InTurn(g, row, gatewayActive)
  <2> HIDE DEF s, g, row
  <2> QED BY <1>3, <1>4, <1>5, <1>6, DecideTurn
<1>8. h.pc # "idle" => InTurn(h, rows[h.id].state, gatewayActive)
  <2> HIDE DEF d, g
  <2> QED BY <1>6, <1>7 DEF Idle
<1>9. req' = [req EXCEPT ![r] = h]
  BY <1>1
<1> HIDE DEF h
<1> QED BY <1>2, <1>8, <1>9, TurnAside

\* A request moves on, or ends, with neither row nor Gateway touched.
LEMMA GotoTurn ==
    ASSUME Turns, TurnInv, TypeInv', UNCHANGED <<rows, gatewayActive>>,
           NEW r \in Requests, req[r].pc # "idle", NEW pc \in {"save", "act", "audit"},
           Goto(r, pc),
           pc = "save" => MaySave(rows[req[r].id].state, req[r].seq.state, gatewayActive),
           pc \in {"audit", "act"} => req[r].pc = "audit" /\ req[r].op # "force"
    PROVE  TurnInv'
<1> DEFINE h == [req[r] EXCEPT !.pc = pc]
<1>1. /\ h.pc = pc /\ h.seq = req[r].seq /\ h.op = req[r].op /\ h.id = req[r].id
      /\ InTurn(req[r], rows[req[r].id].state, gatewayActive)
  BY Opened
<1>2. req' = [req EXCEPT ![r] = h]
  BY DEF Goto
<1> HIDE DEF h
<1>3. InTurn(h, rows[h.id].state, gatewayActive)
  BY <1>1 DEF InTurn, SavingPCs
<1> QED BY <1>2, <1>3, TurnAside

LEMMA PollTurn ==
    ASSUME Turns, TurnInv, TypeInv', NEW r \in Requests, PollStep(r)
    PROVE  TurnInv'
<1>1. /\ req[r].pc = "poll" /\ UNCHANGED <<rows, gatewayActive>>
      /\ rows[req[r].id].state = "RESTARTING" /\ req[r].seq.state = "RESTARTING"
      /\ req[r].seq \in Sequences(Counts) /\ req[r].id \in SeqIds
  BY Opened DEF PollStep, world, InTurn
<1>2. CASE req' = [req EXCEPT ![r].pc = "save", ![r].seq = MarkRestarted(req[r].seq)]
  <2> DEFINE h == [req[r] EXCEPT !.pc = "save", !.seq = MarkRestarted(req[r].seq)]
  <2>1. /\ h.pc = "save" /\ h.id = req[r].id /\ h.seq = MarkRestarted(req[r].seq)
    BY <1>1, Opened
  <2>2. h.seq.state = "VERIFYING"
    BY <1>1, <2>1 DEF MarkRestarted, Sequences
  <2>3. ~gatewayActive
    BY <1>1 DEF TurnInv, TrafficHeld
  <2>4. req' = [req EXCEPT ![r] = h]
    BY <1>2
  <2> HIDE DEF h
  <2>5. InTurn(h, rows[h.id].state, gatewayActive)
    BY <1>1, <2>1, <2>2, <2>3 DEF InTurn, MaySave, SavingPCs
  <2> QED BY <1>1, <2>4, <2>5, TurnAside
<1>3. CASE Goto(r, "save")
  BY <1>1, <1>3, GotoTurn DEF MaySave
<1>4. CASE Finish(r)
  BY <1>1, <1>4, TurnEnds
<1> QED BY <1>2, <1>3, <1>4 DEF PollStep

\* A refused start closes its row out before the cluster has been touched; an
\* abort leaves its row in ABORTING.
LEMMA GiveUpLeaves ==
    ASSUME TurnInv, NEW r \in Requests, req[r].pc \in {"audit", "act"}, GiveUp(r),
           NEW active, req[r].op = "start" => active \/ LostReplies
    PROVE  \E h : /\ req' = [req EXCEPT ![r] = h]
                  /\ h.pc # "idle" => /\ h.id = req[r].id
                                      /\ InTurn(h, rows[h.id].state, active)
<1>1. /\ InTurn(req[r], rows[req[r].id].state, gatewayActive)
      /\ req[r].seq \in Sequences(Counts)
  BY Opened
<1>2. CASE req[r].op = "start"
  <2> DEFINE h == [req[r] EXCEPT !.pc = "save",
                                 !.seq = FinishAbort(BeginAbort(req[r].seq))]
  <2>1. /\ h.pc = "save" /\ h.seq = FinishAbort(BeginAbort(req[r].seq))
        /\ h.op = "start" /\ h.id = req[r].id
    BY <1>2, Opened
  <2>2. h.seq.state = "ABORTED" /\ rows[req[r].id].state = "PENDING"
    BY <1>1, <1>2, <2>1 DEF InTurn, Sequences, FinishAbort, BeginAbort
  <2>3. req' = [req EXCEPT ![r] = h]
    BY <1>2 DEF GiveUp
  <2> HIDE DEF h
  <2>4. InTurn(h, rows[h.id].state, active)
    BY <1>2, <2>1, <2>2 DEF InTurn, MaySave, SavingPCs
  <2> QED BY <2>1, <2>3, <2>4
<1>3. CASE req[r].op = "abort"
  <2> DEFINE h == [req[r] EXCEPT !.pc = "save"]
  <2>1. h.pc = "save" /\ h.seq = req[r].seq /\ h.op = "abort" /\ h.id = req[r].id
    BY <1>3, Opened
  <2>2. h.seq.state = "ABORTING" /\ rows[req[r].id].state = "ABORTING"
    BY <1>1, <1>3, <2>1 DEF InTurn
  <2>3. req' = [req EXCEPT ![r] = h]
    BY <1>3 DEF GiveUp, Goto
  <2> HIDE DEF h
  <2>4. InTurn(h, rows[h.id].state, active)
    BY <2>1, <2>2 DEF InTurn, MaySave, SavingPCs
  <2> QED BY <2>1, <2>3, <2>4
<1>4. CASE req[r].op \notin {"start", "abort"}
  <2>1. req' = [req EXCEPT ![r] = Idle] /\ Idle.pc = "idle"
    BY <1>4 DEF GiveUp, Finish, Idle
  <2> QED BY <2>1
<1> QED BY <1>2, <1>3, <1>4

LEMMA AuditTurn ==
    ASSUME Turns, TurnInv, TypeInv', NEW r \in Requests, AuditStep(r)
    PROVE  TurnInv'
<1>1. /\ req[r].pc = "audit" /\ UNCHANGED <<rows, gatewayActive>>
      /\ InTurn(req[r], rows[req[r].id].state, gatewayActive) /\ req[r].id \in SeqIds
  BY Opened DEF AuditStep, world
<1>2. CASE Goto(r, IF req[r].op = "force" THEN "save" ELSE "act")
  <2>1. CASE req[r].op = "force"
    <3>1. MaySave(rows[req[r].id].state, req[r].seq.state, gatewayActive)
      BY <1>1, <2>1 DEF InTurn, MaySave, TurnInv, TrafficHeld
    <3> QED BY <1>1, <1>2, <2>1, <3>1, GotoTurn
  <2>2. CASE req[r].op # "force"
    BY <1>1, <1>2, <2>2, GotoTurn
  <2> QED BY <2>1, <2>2
<1>3. CASE GiveUp(r)
  <2>1. req[r].op = "start" => gatewayActive \/ LostReplies
    BY <1>1 DEF InTurn
  <2>2. PICK h : /\ req' = [req EXCEPT ![r] = h]
                 /\ h.pc # "idle" => InTurn(h, rows[h.id].state, gatewayActive)
    BY <1>1, <1>3, <2>1, GiveUpLeaves
  <2> QED BY <1>1, <2>2, TurnAside
<1> QED BY <1>2, <1>3 DEF AuditStep

\* What the row says while the Gateway is being called, and what a call that is
\* applied leaves of what the protocol keeps.
LEMMA CallHolds ==
    ASSUME TurnInv, NEW r \in Requests, req[r].pc = "act",
           req[r].op \in {"start", "complete", "abort"}
    PROVE  LET row == rows[req[r].id].state IN
           /\ req[r].op = "start" => row = "PENDING"
           /\ req[r].op # "start" =>
                 /\ row \in {"VERIFYING", "ABORTING"}
                 /\ \A i \in SeqIds : rows[i].state \notin Exposed
           /\ \E i \in SeqIds : Active(i)
<1>1. InTurn(req[r], rows[req[r].id].state, gatewayActive) /\ req[r].id \in SeqIds
  BY Opened
<1>2. /\ req[r].op = "start" => rows[req[r].id].state = "PENDING"
      /\ req[r].op # "start" => rows[req[r].id].state \in {"VERIFYING", "ABORTING"}
  BY <1>1 DEF InTurn
<1> QED BY <1>1, <1>2 DEF TurnInv, OneActivePerCluster, Active

LEMMA GatewayTurn ==
    ASSUME Turns, TurnInv, TypeInv', OneActivePerCluster', NEW r \in Requests,
           GatewayStep(r) \/ GatewayFails(r)
    PROVE  TurnInv'
<1> DEFINE row == rows[req[r].id].state
<1>1. /\ req[r].pc = "act" /\ req[r].op \in {"start", "complete", "abort"}
      /\ UNCHANGED rows
      /\ InTurn(req[r], row, gatewayActive)
      /\ req[r].id \in SeqIds /\ req[r].seq \in Sequences(Counts) /\ req[r] \in Handling
  BY Opened DEF GatewayStep, GatewayFails
<1>2. ASSUME gatewayActive' = gatewayActive \/ gatewayActive' = Target(req[r].op)
      PROVE  TrafficHeld' /\ NoSilentOutage'
  <2>1. /\ \E i \in SeqIds : rows[i].state \in InFlight
        /\ req[r].op # "start" => \A i \in SeqIds : rows[i].state \notin Exposed
    BY <1>1, CallHolds DEF Active
  <2>2. NoSilentOutage'
    BY <1>1, <2>1 DEF NoSilentOutage, Active
  <2>3. TrafficHeld
    BY DEF TurnInv
  <2>4. TrafficHeld'
    BY <1>1, <1>2, <2>1, <2>3 DEF TrafficHeld, Target
  <2> QED BY <2>2, <2>4
<1>3. CASE GatewayStep(r)
  <2> DEFINE h == AfterGateway(req[r])
  <2>1. gatewayActive' = Target(req[r].op) /\ req' = [req EXCEPT ![r] = h]
    BY <1>3 DEF GatewayStep
  <2>2. CASE req[r].op = "start"
    <3>1. h.op = "start" /\ h.id = req[r].id /\ h.pc = "observe" /\ h.seq.state = "DRAINING"
      BY <1>1, <2>2 DEF AfterGateway, Handling, Sequences, Begin
    <3>2. row = "PENDING" /\ gatewayActive' = FALSE
      BY <1>1, <2>1, <2>2, CallHolds DEF Target
    <3> HIDE DEF h
    <3>3. InTurn(h, rows'[h.id].state, gatewayActive')
      BY <1>1, <3>1, <3>2 DEF InTurn, SavingPCs
    <3> QED BY <1>2, <2>1, <3>3, TurnKept DEF TurnInv
  <2>3. CASE req[r].op = "complete"
    <3>1. h.op = "complete" /\ h.id = req[r].id /\ h.pc = "save" /\ h.seq.state = "COMPLETED"
      BY <1>1, <2>3 DEF AfterGateway, Handling, Sequences, Complete
    <3>2. row = "VERIFYING" /\ gatewayActive' = TRUE
      BY <1>1, <2>1, <2>3 DEF Target, InTurn
    <3> HIDE DEF h
    <3>3. InTurn(h, rows'[h.id].state, gatewayActive')
      BY <1>1, <3>1, <3>2 DEF InTurn, MaySave, SavingPCs
    <3> QED BY <1>2, <2>1, <3>3, TurnKept DEF TurnInv
  <2>4. CASE req[r].op = "abort"
    <3>1. h.op = "abort" /\ h.id = req[r].id /\ h.pc = "save" /\ h.seq.state = "ABORTED"
      BY <1>1, <2>4 DEF AfterGateway, Handling, Sequences, FinishAbort
    <3>2. row = "ABORTING" /\ gatewayActive' = TRUE
      BY <1>1, <2>1, <2>4 DEF Target, InTurn
    <3> HIDE DEF h
    <3>3. InTurn(h, rows'[h.id].state, gatewayActive')
      BY <1>1, <3>1, <3>2 DEF InTurn, MaySave, SavingPCs
    <3> QED BY <1>2, <2>1, <3>3, TurnKept DEF TurnInv
  <2> QED BY <1>1, <2>2, <2>3, <2>4
<1>4. CASE GatewayFails(r)
  <2>1. /\ GiveUp(r)
        /\ \/ gatewayActive' = gatewayActive
           \/ LostReplies /\ gatewayActive' = Target(req[r].op)
    BY <1>4 DEF GatewayFails
  <2>2. req[r].op = "start" => gatewayActive' \/ LostReplies
    BY <1>1, <2>1 DEF InTurn
  <2>3. PICK h : /\ req' = [req EXCEPT ![r] = h]
                 /\ h.pc # "idle" => InTurn(h, rows[h.id].state, gatewayActive')
    BY <1>1, <2>1, <2>2, GiveUpLeaves
  <2> QED BY <1>1, <1>2, <2>1, <2>3, TurnKept DEF TurnInv
<1> QED BY <1>3, <1>4

LEMMA LaunchTurn ==
    ASSUME Turns, TurnInv, TypeInv', NEW r \in Requests, LaunchStep(r) \/ LaunchFails(r)
    PROVE  TurnInv'
<1>1. /\ req[r].pc = "act" /\ req[r].op = "restart"
      /\ UNCHANGED <<rows, gatewayActive>>
      /\ InTurn(req[r], rows[req[r].id].state, gatewayActive) /\ req[r].id \in SeqIds
  BY Opened DEF LaunchStep, LaunchFails, world
<1>2. CASE LaunchStep(r)
  <2>1. MaySave(rows[req[r].id].state, req[r].seq.state, gatewayActive)
    BY <1>1 DEF InTurn, MaySave, TurnInv, TrafficHeld
  <2> QED BY <1>1, <1>2, <2>1, GotoTurn DEF LaunchStep
<1>3. CASE LaunchFails(r)
  BY <1>1, <1>3, TurnEnds DEF LaunchFails, GiveUp
<1> QED BY <1>2, <1>3

LEMMA SaveTurn ==
    ASSUME Turns, TurnInv, TypeInv', OneActivePerCluster', NEW r \in Requests,
           SaveStep(r) \/ SaveFails(r)
    PROVE  TurnInv'
<1>1. /\ req[r].pc \in SavingPCs /\ req[r].pc # "idle" /\ UNCHANGED gatewayActive
      /\ req[r] \in Handling /\ req[r].id \in SeqIds
      /\ InTurn(req[r], rows[req[r].id].state, gatewayActive)
      /\ MaySave(rows[req[r].id].state, req[r].seq.state, gatewayActive)
  BY Opened DEF SaveStep, SaveFails, SavingPCs, InTurn
<1>2. CASE Stored(req[r])
  <2>1. /\ rows'[req[r].id].state = req[r].seq.state
        /\ TrafficHeld' /\ (~LostReplies => NoSilentOutage')
    BY <1>1, <1>2, SaveHolds DEF TurnInv
  <2>2. CASE Finish(r)
    BY <2>1, <2>2, TurnKept DEF Finish, Idle, TurnInv
  <2>3. CASE req[r].pc # "save" /\ Goto(r, "audit")
    <3> DEFINE h == [req[r] EXCEPT !.pc = "audit"]
    <3>1. h.pc = "audit" /\ h.seq = req[r].seq /\ h.op = req[r].op /\ h.id = req[r].id
      BY <1>1, Opened
    <3>2. req' = [req EXCEPT ![r] = h]
      BY <2>3 DEF Goto
    <3>3. rows[req[r].id].state # "ABSENT" /\ req[r].seq.state # "ABSENT"
      BY <1>1 DEF InTurn, Handling, Sequences
    <3> HIDE DEF h
    <3>4. InTurn(h, rows'[h.id].state, gatewayActive')
      BY <1>1, <2>1, <2>3, <3>1, <3>3 DEF InTurn, SavingPCs
    <3> QED BY <2>1, <3>2, <3>4, TurnKept DEF TurnInv
  <2> QED BY <1>2, <2>2, <2>3 DEF SaveStep, SaveFails
<1>3. CASE UNCHANGED rows /\ Finish(r)
  BY <1>1, <1>3, TurnEnds
<1> QED BY <1>2, <1>3 DEF SaveStep, SaveFails

LEMMA EnvironmentTurn ==
    ASSUME TurnInv, TypeInv', Environment
    PROVE  TurnInv'
<1>1. UNCHANGED <<rows, gatewayActive>>
  BY DEF Environment, Crash, Bounce, PlaybookEnds, QueryArrives, QueryEnds,
         CollectQueries, CollectHealth
<1>2. \A r \in Requests : req'[r].pc # "idle" => req'[r] = req[r]
  BY DEF Environment, Crash, Bounce, PlaybookEnds, QueryArrives, QueryEnds,
         CollectQueries, CollectHealth, Idle
<1> QED BY <1>1, <1>2 DEF TurnInv, OneActivePerCluster, Active, TrafficHeld, NoSilentOutage

LEMMA TurnInit == Init => TurnInv
<1> SUFFICES ASSUME Init PROVE TurnInv
  OBVIOUS
<1> QED BY InitTypes DEF Init, Idle, Absent, TurnInv, OneActivePerCluster, Active, TrafficHeld,
                         NoSilentOutage

LEMMA TurnStep == ASSUME Turns, TurnInv, [Next]_vars PROVE TurnInv'
<1>1. TypeInv' /\ OneActivePerCluster'
  BY StepTypes, OneActiveStep DEF TurnInv
<1>2. ASSUME NEW r \in Requests, Work(r) PROVE TurnInv'
  <2>1. ObserveFails(r) => TurnInv'
    BY <1>1, TurnEnds DEF ObserveFails, world
  <2> QED BY <1>1, <1>2, <2>1, ObserveTurn, PollTurn, AuditTurn, GatewayTurn, LaunchTurn,
             SaveTurn DEF Work
<1>3. CASE UNCHANGED vars
  <2>1. \A r \in Requests : req'[r] = req[r]
    BY <1>3 DEF vars
  <2> QED BY <1>1, <1>3, <2>1 DEF vars, TurnInv, TrafficHeld, NoSilentOutage, Active
<1> QED BY <1>1, <1>2, <1>3, StartTurn, PressTurn, EnvironmentTurn DEF Next

LEMMA TurnInvariant == ASSUME Turns PROVE Spec => []TurnInv
<1>1. TurnInv /\ [Next]_vars => TurnInv'
  BY TurnStep
<1> QED BY <1>1, TurnInit, PTL DEF Spec

-----------------------------------------------------------------------------
(* What the invariant gives.                                               *)

\* An operator alone on the page never has queries sent to a cluster whose
\* sequence says it is draining, drained or restarting, even when the Gateway's
\* answer to a call it applied is lost (_set_gateway_active, complete, abort).
THEOREM TrafficIsHeld == Turns => (Spec => []TrafficHeld)
<1>1. TurnInv => TrafficHeld
  BY DEF TurnInv
<1>2. ASSUME Turns PROVE Spec => []TrafficHeld
  <2>1. Spec => []TurnInv
    BY <1>2, TurnInvariant
  <2> QED BY <1>1, <2>1, PTL
<1> QED BY <1>2

\* No failed save, refused call or restart of tms-api leaves the cluster out of
\* rotation with no sequence in flight to show for it, as long as a Gateway call
\* that fails has not been applied (start's abort, complete's and abort's save).
THEOREM NoOutageUnseen == Turns /\ ~LostReplies => (Spec => []NoSilentOutage)
<1>1. ASSUME Turns, ~LostReplies PROVE Spec => []NoSilentOutage
  <2>1. Spec => []TurnInv
    BY <1>1, TurnInvariant
  <2>2. TurnInv => NoSilentOutage
    BY <1>1 DEF TurnInv
  <2> QED BY <2>1, <2>2, PTL
<1> QED BY <1>1

LEMMA LaunchIsGated ==
    ASSUME TurnInv, [Next]_vars, NEW i \in SeqIds, Launches(i)
    PROVE  ~gatewayActive /\ rows[i].state \in {"DRAINING", "DRAINED"}
<1>1. PICK r \in Requests : LaunchStep(r)
  <2>1. CASE UNCHANGED vars
    BY <2>1 DEF vars, Launches
  <2>2. CASE Environment
    BY <2>2 DEF Environment, Crash, Bounce, PlaybookEnds, QueryArrives, QueryEnds,
                CollectQueries, CollectHealth, Launches, TurnInv, TypeInv, TypeOK
  <2>3. ASSUME NEW r \in Requests, UNCHANGED runs PROVE FALSE
    BY <2>3 DEF Launches
  <2> QED BY <2>1, <2>2, <2>3 DEF Next, Start, Press, Work, ObserveStep, ObserveFails, PollStep,
                AuditStep, GatewayStep, GatewayFails, LaunchFails, SaveStep, SaveFails, world
<1>2. /\ req[r].pc = "act" /\ req[r].op = "restart" /\ i = req[r].id
  BY <1>1 DEF LaunchStep, Launches, TurnInv, TypeInv, TypeOK
<1>3. InTurn(req[r], rows[i].state, gatewayActive)
  BY <1>2 DEF TurnInv
<1>4. rows[i].state \in {"DRAINING", "DRAINED"}
  BY <1>2, <1>3 DEF InTurn
<1> QED BY <1>4 DEF TurnInv, TrafficHeld

\* The executor is handed a playbook only with traffic off and the sequence's
\* row still in the drain: what execute_restart's checks are for.
THEOREM LaunchesAreGated == Turns => (Spec => LaunchGated)
<1>1. ASSUME Turns PROVE Spec => LaunchGated
  <2>1. Spec => []TurnInv
    BY <1>1, TurnInvariant
  <2>2. TurnInv /\ [Next]_vars =>
          [\A i \in SeqIds : Launches(i) =>
              ~gatewayActive /\ rows[i].state \in {"DRAINING", "DRAINED"}]_vars
    BY LaunchIsGated
  <2> QED BY <2>1, <2>2, PTL DEF Spec, LaunchGated
<1> QED BY <1>1

LEMMA BounceIsOut ==
    ASSUME TurnInv, ~Automated, [Next]_vars, freshH, ~freshH'
    PROVE  ~gatewayActive
<1>1. PICK i \in SeqIds : Bounce(i)
  <2>1. CASE UNCHANGED vars
    BY <2>1 DEF vars
  <2>2. CASE Environment
    BY <2>2 DEF Environment, Crash, Bounce, PlaybookEnds, QueryArrives, QueryEnds,
                CollectQueries, CollectHealth
  <2> QED BY <2>1, <2>2 DEF Next, Start, Press, Work, ObserveStep, ObserveFails, PollStep,
                AuditStep, GatewayStep, GatewayFails, LaunchStep, LaunchFails, SaveStep,
                SaveFails, world
<1> QED BY <1>1 DEF Bounce, UnderWay, TurnInv, TrafficHeld

\* With ManualExecutor the coordinator is bounced, by hand, only while the
\* sequence stands in RESTARTING, and so with traffic off.
THEOREM BouncesAreGated == Turns /\ ~Automated => (Spec => BouncedOutOfRotation)
<1>1. ASSUME Turns, ~Automated PROVE Spec => BouncedOutOfRotation
  <2>1. Spec => []TurnInv
    BY <1>1, TurnInvariant
  <2>2. TurnInv /\ [Next]_vars => [freshH /\ ~freshH' => ~gatewayActive]_vars
    BY <1>1, BounceIsOut
  <2> QED BY <2>1, <2>2, PTL DEF Spec, BouncedOutOfRotation
<1> QED BY <1>1

-----------------------------------------------------------------------------
(* The refinement, step by step.                                           *)

LEMMA StartMaps ==
    ASSUME TurnInv, NEW r \in Requests, Start(r)
    PROVE  [Protocol!Next]_(Protocol!vars)
<1>1. PICK i \in SeqIds : /\ rows[i].state = "ABSENT"
                          /\ UniqueIndexAdmits(i, "PENDING")
                          /\ rows' = [rows EXCEPT ![i] = Row(NewSequence)]
  BY DEF Start
<1>2. UNCHANGED gatewayActive
  BY DEF Start, world
<1>3. /\ rows'[i].state = "PENDING"
      /\ \A j \in SeqIds \ {i} : rows'[j] = rows[j]
  BY <1>1, NewSequenceType, RowType DEF TurnInv, TypeInv, TypeOK, NewSequence
<1>4. \A j \in SeqIds : rows[j].state \notin InFlight
  BY <1>1 DEF UniqueIndexAdmits, Active
<1>5. [j \in SeqIds |-> rows'[j].state]
        = [[j \in SeqIds |-> rows[j].state] EXCEPT ![i] = "PENDING"]
  BY <1>3
<1>6. \A j \in SeqIds : ~Protocol!InFlight(j)
  BY <1>4 DEF Protocol!InFlight, Protocol!Open, Protocol!Exposed
<1>7. Protocol!Begin(i)
  BY <1>1, <1>2, <1>5, <1>6 DEF Protocol!Begin, Protocol!Goes
<1> QED BY <1>7 DEF Protocol!Next

\* Every save is a step of the protocol on the sequence it saves, or none.
LEMMA SaveMaps ==
    ASSUME TurnInv, ~LostReplies, NEW h \in Handling, Stored(h), UNCHANGED gatewayActive,
           MaySave(rows[h.id].state, h.seq.state, gatewayActive)
    PROVE  [Protocol!Next]_(Protocol!vars)
<1> DEFINE i == h.id
           from == rows[i].state
           to == h.seq.state
<1>1. i \in SeqIds /\ h.seq \in Sequences(Counts) /\ rows' = [rows EXCEPT ![i] = Row(h.seq)]
  BY DEF Handling, Stored
<1>2. /\ rows'[i].state = to
      /\ \A j \in SeqIds \ {i} : rows'[j] = rows[j]
  BY <1>1, RowType DEF TurnInv, TypeInv, TypeOK
<1>3. ASSUME NEW S, from \in S PROVE Protocol!Goes(i, S, to)
  <2>1. [j \in SeqIds |-> rows'[j].state]
           = [[j \in SeqIds |-> rows[j].state] EXCEPT ![i] = to]
    <3>1. i \in SeqIds
      BY <1>1
    <3> HIDE DEF i, to
    <3> QED BY <1>2, <3>1
  <2> QED BY <1>1, <1>3, <2>1 DEF Protocol!Goes
<1>4. CASE from = to
  BY <1>1, <1>2, <1>4 DEF Protocol!vars
<1>5. CASE from \in InFlight /\ to = "ABORTING"
  <2>1. Protocol!Abandon(i)
    BY <1>3, <1>5 DEF Protocol!Abandon, Protocol!Open, Protocol!Exposed
  <2> QED BY <1>1, <2>1 DEF Protocol!Next
<1>6. CASE ~gatewayActive /\ from # to /\ to # "ABORTING" /\ to # "ABORTED"
  <2>1. \/ Protocol!Drain(i) \/ Protocol!Empty(i) \/ Protocol!Restart(i) \/ Protocol!Verify(i)
    BY <1>3, <1>6 DEF MaySave, Protocol!Drain, Protocol!Empty, Protocol!Restart,
                      Protocol!Verify
  <2> QED BY <1>1, <2>1 DEF Protocol!Next
<1>7. CASE gatewayActive /\ from # to /\ to \in {"COMPLETED", "ABORTED"}
  <2>1. Protocol!Complete(i) \/ Protocol!Abort(i)
    BY <1>3, <1>7 DEF MaySave, Protocol!Complete, Protocol!Abort
  <2> QED BY <1>1, <2>1 DEF Protocol!Next
<1> QED BY <1>4, <1>5, <1>6, <1>7 DEF MaySave

LEMMA GatewayMaps ==
    ASSUME TurnInv, NEW r \in Requests, GatewayStep(r)
    PROVE  [Protocol!Next]_(Protocol!vars)
<1>1. /\ req[r].pc = "act" /\ req[r].op \in {"start", "complete", "abort"}
      /\ UNCHANGED rows /\ gatewayActive' = Target(req[r].op)
      /\ InTurn(req[r], rows[req[r].id].state, gatewayActive) /\ req[r].id \in SeqIds
  BY Opened DEF GatewayStep
<1>2. CASE req[r].op = "start"
  <2>1. rows[req[r].id].state = "PENDING"
    BY <1>1, <1>2 DEF InTurn
  <2>2. Protocol!Withdraw
    BY <1>1, <1>2, <2>1 DEF Protocol!Withdraw, Target
  <2> QED BY <2>2 DEF Protocol!Next
<1>3. CASE req[r].op # "start"
  <2>1. rows[req[r].id].state \in {"VERIFYING", "ABORTING"}
    BY <1>1, <1>3 DEF InTurn
  <2>2. Protocol!Restore
    BY <1>1, <1>3, <2>1 DEF Protocol!Restore, Target
  <2> QED BY <2>2 DEF Protocol!Next
<1> QED BY <1>2, <1>3

LEMMA StepMaps ==
    ASSUME TurnInv, ~LostReplies, [Next]_vars
    PROVE  [Protocol!Next]_(Protocol!vars)
<1>1. CASE UNCHANGED <<rows, gatewayActive>>
  BY <1>1 DEF Protocol!vars
<1>2. ASSUME NEW r \in Requests, SaveStep(r) \/ SaveFails(r)
      PROVE  [Protocol!Next]_(Protocol!vars)
  <2>1. /\ req[r].pc \in SavingPCs /\ req[r].pc # "idle" /\ UNCHANGED gatewayActive
    BY <1>2 DEF SaveStep, SaveFails, SavingPCs
  <2>2. /\ req[r] \in Handling
        /\ MaySave(rows[req[r].id].state, req[r].seq.state, gatewayActive)
    BY <2>1, Opened DEF InTurn
  <2>3. Stored(req[r]) \/ UNCHANGED rows
    BY <1>2 DEF SaveStep, SaveFails
  <2> QED BY <1>1, <2>1, <2>2, <2>3, SaveMaps
<1>3. ASSUME NEW r \in Requests, UNCHANGED world, UNCHANGED rows
      PROVE  UNCHANGED <<rows, gatewayActive>>
  BY <1>3 DEF world
<1>4. \A r \in Requests, op \in Pressed, i \in SeqIds :
          Press(r, op, i) => UNCHANGED <<rows, gatewayActive>>
  BY DEF Press
<1>5. ASSUME NEW r \in Requests, Work(r) PROVE [Protocol!Next]_(Protocol!vars)
  <2>1. CASE GatewayStep(r)
    BY <2>1, GatewayMaps
  <2>2. CASE GatewayFails(r)
    BY <1>1, <2>2 DEF GatewayFails
  <2>3. CASE LaunchStep(r)
    BY <1>1, <2>3 DEF LaunchStep
  <2>4. CASE ObserveStep(r) \/ ObserveFails(r) \/ PollStep(r) \/ AuditStep(r) \/ LaunchFails(r)
    BY <1>1, <1>3, <2>4 DEF ObserveStep, ObserveFails, PollStep, AuditStep, LaunchFails
  <2> QED BY <1>2, <1>5, <2>1, <2>2, <2>3, <2>4 DEF Work
<1>6. Environment => UNCHANGED <<rows, gatewayActive>>
  BY DEF Environment, Crash, Bounce, PlaybookEnds, QueryArrives, QueryEnds,
         CollectQueries, CollectHealth
<1>7. UNCHANGED vars => UNCHANGED <<rows, gatewayActive>>
  BY DEF vars
<1> QED BY <1>1, <1>4, <1>5, <1>6, <1>7, StartMaps DEF Next

LEMMA InitMaps == Init => Protocol!Init
BY DEF Init, Absent, Protocol!Init

\* Requests, snapshots, storage and failures included, the service does nothing
\* the state machine at the head of sequence.py does not allow: traffic goes
\* only under a pending sequence, returns only under one that is verified or
\* abandoned, and no sequence ends before it has.
THEOREM ServiceImplementsProtocol == Turns /\ ~LostReplies => (Spec => ImplementsProtocol)
<1>1. ASSUME Turns, ~LostReplies PROVE Spec => ImplementsProtocol
  <2>1. Spec => []TurnInv
    BY <1>1, TurnInvariant
  <2>2. TurnInv /\ [Next]_vars => [Protocol!Next]_(Protocol!vars)
    BY <1>1, StepMaps
  <2> QED BY InitMaps, <2>1, <2>2, PTL DEF Spec, ImplementsProtocol, Protocol!Spec
<1> QED BY <1>1
=============================================================================
