-------------------------- MODULE RestartProtocol --------------------------
(***************************************************************************)
(* What a safe restart promises about one cluster, without requests,       *)
(* snapshots or storage: the stage each restart sequence is recorded in    *)
(* and whether the Gateway routes queries to the cluster.  It is the state *)
(* machine drawn at the head of src/tms/ops/sequence.py together with its  *)
(* two promises, traffic held from the drain to the restart and traffic    *)
(* back on every exit path.  RestartService implements it when one request *)
(* runs at a time (Protocol in RestartProperties).                         *)
(***************************************************************************)
CONSTANT SeqIds

VARIABLES
    stage,    \* the recorded state of each sequence
    traffic   \* the cluster takes new queries

vars == <<stage, traffic>>

Ended == {"COMPLETED", "ABORTED"}
Exposed == {"DRAINING", "DRAINED", "RESTARTING"}
Open == Exposed \union {"PENDING", "VERIFYING", "ABORTING"}
Stages == Open \union Ended \union {"ABSENT"}

InFlight(i) == stage[i] \in Open

Init == stage = [i \in SeqIds |-> "ABSENT"] /\ traffic = TRUE

Goes(i, from, to) ==
    /\ stage[i] \in from
    /\ stage' = [stage EXCEPT ![i] = to]
    /\ UNCHANGED traffic

Begin(i) ==
    /\ \A j \in SeqIds : ~InFlight(j)
    /\ Goes(i, {"ABSENT"}, "PENDING")

\* Traffic is taken away under a sequence that is still pending, and given
\* back under one that is being verified or abandoned.
Withdraw ==
    /\ \E i \in SeqIds : stage[i] = "PENDING"
    /\ traffic' = FALSE
    /\ UNCHANGED stage

Restore ==
    /\ \E i \in SeqIds : stage[i] \in {"VERIFYING", "ABORTING"}
    /\ traffic' = TRUE
    /\ UNCHANGED stage

\* The drain, the restart and the verification, with traffic held throughout.
Drain(i) == ~traffic /\ Goes(i, {"PENDING"}, "DRAINING")
Empty(i) == ~traffic /\ Goes(i, {"PENDING", "DRAINING"}, "DRAINED")
Restart(i) == ~traffic /\ Goes(i, {"DRAINING", "DRAINED"}, "RESTARTING")
Verify(i) == ~traffic /\ Goes(i, {"RESTARTING"}, "VERIFYING")
Abandon(i) == Goes(i, Open, "ABORTING")

\* A sequence ends only with the cluster back in rotation.
Complete(i) == traffic /\ Goes(i, {"VERIFYING"}, "COMPLETED")
Abort(i) == traffic /\ Goes(i, {"PENDING", "ABORTING"}, "ABORTED")

Next ==
    \/ Withdraw
    \/ Restore
    \/ \E i \in SeqIds :
        \/ Begin(i) \/ Drain(i) \/ Empty(i) \/ Restart(i) \/ Verify(i)
        \/ Complete(i) \/ Abandon(i) \/ Abort(i)

Spec == Init /\ [][Next]_vars

-----------------------------------------------------------------------------
TypeOK == stage \in [SeqIds -> Stages] /\ traffic \in BOOLEAN

\* One sequence in flight, traffic withheld while the cluster is exposed, and
\* never withheld without a sequence in flight to say so.
Safe ==
    /\ \A i, j \in SeqIds : InFlight(i) /\ InFlight(j) => i = j
    /\ \A i \in SeqIds : stage[i] \in Exposed => ~traffic
    /\ traffic \/ \E i \in SeqIds : InFlight(i)
=============================================================================
