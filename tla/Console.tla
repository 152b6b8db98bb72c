------------------------------ MODULE Console -------------------------------
(***************************************************************************)
(* What tms-api serves beside the restart, the deployments and the jobs:   *)
(* the node list, the resource groups, the routing, the fleet's buttons,   *)
(* the sessions, the audit guard, the configuration scan, the query sets,  *)
(* the work board, the groups as they run and the clock of the schedules,  *)
(* each from its own module, in one specification.                         *)
(*                                                                         *)
(* They share a process, and none reads what another writes: what one of   *)
(* them takes from outside (a snapshot, an inventory, a principal) is part *)
(* of its own module.  Their interleavings therefore show nothing that one *)
(* of them alone does not, and a behaviour here is a behaviour of one part *)
(* while the others rest: their states add up instead of multiplying.      *)
(***************************************************************************)
EXTENDS NodeList, GroupStore, Routing, Fleet, Sessions, Audit, ConfigScan, QuerySets, Board,
        Workload, ScheduleClock

VARIABLE part  \* the part that works

consoleVars ==
    <<part, nodeVars, groupVars, routeVars, fleetVars, sessionVars, auditVars, scanVars,
      setVars, boardVars, workloadVars, clockVars>>

Parts == {"nodes", "groups", "routing", "fleet", "sessions", "audit", "scan", "sets", "board",
          "workload", "clock"}

\* A part that rests does so in one of its initial states.
RestingInit ==
    /\ part # "scan" => etc = [h \in Inventory |-> NoText] /\ ~development
    /\ part # "fleet" => file = CHOOSE f \in Files : TRUE
    /\ part # "clock" => first = 0
    /\ part # "nodes" => ~behind
    /\ part # "sets" => runs = <<>>
    /\ part # "routing" => registry[1].proxyTo[1] = CHOOSE c \in Clusters : TRUE

ConsoleInit ==
    /\ part \in Parts
    /\ NodeInit /\ GroupInit /\ RouteInit /\ FleetInit /\ SessionInit /\ AuditInit
    /\ ScanInit /\ SetInit /\ BoardInit /\ WorkloadInit /\ ClockInit
    /\ RestingInit

-----------------------------------------------------------------------------
\* The parts other than p rest.
Rest(p) ==
    /\ IF p = "nodes" THEN TRUE ELSE UNCHANGED nodeVars
    /\ IF p = "groups" THEN TRUE ELSE UNCHANGED groupVars
    /\ IF p = "routing" THEN TRUE ELSE UNCHANGED routeVars
    /\ IF p = "fleet" THEN TRUE ELSE UNCHANGED fleetVars
    /\ IF p = "sessions" THEN TRUE ELSE UNCHANGED sessionVars
    /\ IF p = "audit" THEN TRUE ELSE UNCHANGED auditVars
    /\ IF p = "scan" THEN TRUE ELSE UNCHANGED scanVars
    /\ IF p = "sets" THEN TRUE ELSE UNCHANGED setVars
    /\ IF p = "board" THEN TRUE ELSE UNCHANGED boardVars
    /\ IF p = "workload" THEN TRUE ELSE UNCHANGED workloadVars
    /\ IF p = "clock" THEN TRUE ELSE UNCHANGED clockVars
    /\ UNCHANGED part

ConsoleNext ==
    \/ part = "nodes" /\ NodeNext /\ Rest("nodes")
    \/ part = "groups" /\ GroupNext /\ Rest("groups")
    \/ part = "routing" /\ RouteNext /\ Rest("routing")
    \/ part = "fleet" /\ FleetNext /\ Rest("fleet")
    \/ part = "sessions" /\ SessionNext /\ Rest("sessions")
    \/ part = "audit" /\ AuditNext /\ Rest("audit")
    \/ part = "scan" /\ ScanNext /\ Rest("scan")
    \/ part = "sets" /\ SetNext /\ Rest("sets")
    \/ part = "board" /\ BoardNext /\ Rest("board")
    \/ part = "workload" /\ WorkloadNext /\ Rest("workload")
    \/ part = "clock" /\ ClockNext /\ Rest("clock")

ConsoleSpec == ConsoleInit /\ [][ConsoleNext]_consoleVars

-----------------------------------------------------------------------------
\* Every variable of the part at work has a value the code could give it; one
\* at rest keeps a value of its initial states.
ConsoleTypeOK ==
    /\ part \in Parts
    /\ part = "nodes" => NodeTypeOK
    /\ part = "groups" => GroupTypeOK
    /\ part = "routing" => RouteTypeOK
    /\ part = "fleet" => FleetTypeOK
    /\ part = "sessions" => SessionTypeOK
    /\ part = "audit" => AuditTypeOK
    /\ part = "scan" => ScanTypeOK
    /\ part = "sets" => SetTypeOK
    /\ part = "board" => BoardTypeOK
    /\ part = "workload" => WorkloadTypeOK
    /\ part = "clock" => ClockTypeOK
=============================================================================
