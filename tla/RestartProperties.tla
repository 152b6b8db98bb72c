------------------------- MODULE RestartProperties -------------------------
(***************************************************************************)
(* What RestartService is for.  The first group holds however requests     *)
(* interleave; the second when operators take turns (one request at a      *)
(* time), whatever fails in between; the third states what the sources say *)
(* and the code does not do.                                               *)
(***************************************************************************)
EXTENDS RestartService

Launches(i) == runs[i] # "running" /\ runs'[i] = "running"

-----------------------------------------------------------------------------
(* Any interleaving.                                                       *)

\* Two restarts of one cluster are never in flight together, although a late
\* save may reopen a sequence another request has closed.
OneActivePerCluster ==
    \A i, j \in SeqIds : Active(i) /\ Active(j) => i = j

\* No step is reachable except through the one before it: whatever requests
\* overwrite each other's rows, a sequence past the restart step was handed
\* to the executor, and one past the verification step was seen to come back.
NoStepSkipped ==
    \A i \in SeqIds :
        /\ rows[i].state \in {"RESTARTING", "VERIFYING", "COMPLETED"}
              => "launched" \in fact[i]
        /\ rows[i].state \in {"VERIFYING", "COMPLETED"}
              => fact[i] \cap {"succeeded", "confirmed"} # {}

-----------------------------------------------------------------------------
(* Operators taking turns.                                                 *)

\* A cluster is out of rotation only while some sequence in flight says so: a
\* sequence that ended, or was lost in a crash, with traffic still blocked is
\* an outage no screen shows.
NoSilentOutage == gatewayActive \/ \E i \in SeqIds : Active(i)

\* From the drain to the restart no new query reaches the cluster.
TrafficHeld == \A i \in SeqIds : rows[i].state \in Exposed => ~gatewayActive

\* Everything RestartProtocol promises: a row moves along the machine of
\* sequence.py, traffic is taken away only under a pending row, given back only
\* under one that is being verified or aborted, and no row ends without it.
Protocol == INSTANCE RestartProtocol WITH
    stage <- [i \in SeqIds |-> rows[i].state], traffic <- gatewayActive

ImplementsProtocol == Protocol!Spec

\* A playbook is launched on a cluster that takes no traffic, under a sequence
\* whose row still stands in the drain.
LaunchGated ==
    [][\A i \in SeqIds : Launches(i) =>
          ~gatewayActive /\ rows[i].state \in {"DRAINING", "DRAINED"}]_vars

\* The coordinator goes down only while the Gateway sends it nothing.
BouncedOutOfRotation == [][freshH /\ ~freshH' => ~gatewayActive]_vars

\* No way of failing leaves a restart nobody can get out of: an operator who
\* keeps pressing abort ends every sequence with traffic back, unless the
\* sequence ends by itself.
AbortGetsOut ==
    Abandoned => \A i \in SeqIds : Active(i) ~> ~Active(i) /\ gatewayActive

\* A watched restart moves on once its playbook has succeeded, whatever calls
\* fail meanwhile, unless tms-api restarts and loses sight of it.
SuccessNoticed ==
    \A i \in SeqIds :
        runs[i] = "succeeded" /\ rows[i].state = "RESTARTING"
            ~> rows[i].state # "RESTARTING" \/ runs[i] = "none"

-----------------------------------------------------------------------------
(* What the sources say.                                                   *)

\* force_drained, "Proceed with queries still running": when the store cannot
\* object, pressing restart on a sequence forced to DRAINED is not refused.
ForcedDrainProceeds ==
    [][\A r \in Requests :
          (/\ req[r].pc = "observe" /\ req[r].op = "restart"
           /\ req[r].seq.state = "DRAINED"
           /\ "forced" \in fact[req[r].id]
           /\ snapQ > 0 /\ "broken" \notin StoreAnswers)
          => req'[r] # Idle]_vars

\* "Two concurrent restarts of the same cluster is ... an incident to prevent".
OnePlaybook ==
    \A i, j \in SeqIds : runs[i] = "running" /\ runs[j] = "running" => i = j
=============================================================================
