----------------------- MODULE RestartProtocolProofs -----------------------
(* The abstract protocol of a safe restart keeps its promises.             *)
EXTENDS RestartProtocol, TLAPS

Inv == TypeOK /\ Safe

LEMMA InitSafe == Init => Inv
BY DEF Init, Inv, TypeOK, Safe, InFlight, Stages, Ended, Exposed, Open

\* A stage moved under an unchanged traffic flag.
LEMMA MoveSafe ==
    ASSUME Inv, NEW i \in SeqIds, NEW from, NEW to \in Stages, Goes(i, from, to),
           to \in Open => stage[i] \in Open \/ \A j \in SeqIds : ~InFlight(j),
           to \in Exposed => ~traffic,
           to \notin Open => traffic
    PROVE  Inv'
<1>1. \A j \in SeqIds : stage'[j] = IF j = i THEN to ELSE stage[j]
  BY DEF Inv, TypeOK, Goes
<1>2. traffic' = traffic /\ TypeOK'
  BY DEF Inv, TypeOK, Goes
<1>3. \A j, k \in SeqIds : InFlight(j)' /\ InFlight(k)' => j = k
  BY <1>1 DEF Inv, Safe, InFlight
<1>4. \A j \in SeqIds : stage'[j] \in Exposed => ~traffic'
  BY <1>1, <1>2 DEF Inv, Safe
<1>5. traffic' \/ \E j \in SeqIds : InFlight(j)'
  BY <1>1, <1>2 DEF Inv, Safe, InFlight
<1> QED BY <1>2, <1>3, <1>4, <1>5 DEF Inv, Safe

LEMMA StepSafe == Inv /\ [Next]_vars => Inv'
<1> SUFFICES ASSUME Inv, [Next]_vars PROVE Inv'
  OBVIOUS
<1> USE DEF Stages, Open, Exposed, Ended
<1>1. CASE Withdraw
  <2>1. PICK i \in SeqIds : stage[i] = "PENDING"
    BY <1>1 DEF Withdraw
  <2>2. InFlight(i)
    BY <2>1 DEF InFlight
  <2> QED BY <1>1, <2>1, <2>2 DEF Withdraw, Inv, TypeOK, Safe, InFlight
<1>2. CASE Restore
  <2>1. PICK i \in SeqIds : stage[i] \in {"VERIFYING", "ABORTING"}
    BY <1>2 DEF Restore
  <2>2. \A j \in SeqIds : stage[j] \notin Exposed
    BY <2>1 DEF Inv, Safe, InFlight
  <2> QED BY <1>2, <2>2 DEF Restore, Inv, TypeOK, Safe, InFlight
<1>3. ASSUME NEW i \in SeqIds, Begin(i) PROVE Inv'
  BY <1>3, MoveSafe DEF Begin
<1>4. ASSUME NEW i \in SeqIds, Drain(i) \/ Empty(i) \/ Restart(i) \/ Verify(i) PROVE Inv'
  BY <1>4, MoveSafe DEF Drain, Empty, Restart, Verify, Goes
<1>5. ASSUME NEW i \in SeqIds, Complete(i) \/ Abort(i) PROVE Inv'
  BY <1>5, MoveSafe DEF Complete, Abort, Goes
<1>6. ASSUME NEW i \in SeqIds, Abandon(i) PROVE Inv'
  BY <1>6, MoveSafe DEF Abandon, Goes
<1>7. CASE UNCHANGED vars
  BY <1>7 DEF vars, Inv, TypeOK, Safe, InFlight
<1> QED BY <1>1, <1>2, <1>3, <1>4, <1>5, <1>6, <1>7 DEF Next

\* Whatever implements the protocol runs one restart at a time, holds traffic
\* from the drain to the restart and never withholds it silently.
THEOREM ProtocolSafe == Spec => []Safe
<1>1. Inv => Safe
  BY DEF Inv
<1> QED BY <1>1, InitSafe, StepSafe, PTL DEF Spec
=============================================================================
