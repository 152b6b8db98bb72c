----------------------------- MODULE MCRestart -----------------------------
(* Small instances of RestartService for TLC.                              *)
EXTENDS RestartProperties, TLC

Symmetry == Permutations(Requests) \union Permutations(SeqIds)

\* The history variables decide no step: the runs whose properties do not read
\* them fold the states that differ in nothing else.
WithoutHistory == <<rows, req, gatewayActive, runs, queries, snapQ, snapH, faults>>

WithoutFreshness ==
    <<rows, req, gatewayActive, runs, queries, snapQ, snapH, faults, fact>>

StoreOff == {"none"}
StoreOn == {"ready", "broken"}
AnyHealth == {"GOOD", "BAD"}
OneHealth == {"GOOD"}
AllButtons == Buttons
Core == {"refresh", "restart", "abort"}
=============================================================================
