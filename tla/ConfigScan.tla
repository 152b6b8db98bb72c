----------------------------- MODULE ConfigScan -----------------------------
(***************************************************************************)
(* Reading the nodes' configuration back (src/tms/ops/configservice.py,    *)
(* configscan.py): a playbook visits every host of the inventory, the      *)
(* lines it prints become a snapshot, and the screen compares the nodes of *)
(* one role with each other.                                               *)
(*                                                                         *)
(* A host holds one text for all its files: what differs in any of them is *)
(* a finding, and which file it was is left out.  So are the redaction and *)
(* the names a build accepts.  The playbook is                             *)
(* docs/templates/collect-config.yml; that ansible exits with an error     *)
(* when a host cannot be reached is external.                              *)
(***************************************************************************)
EXTENDS Naturals, FiniteSets

CONSTANTS
    Coordinators,   \* the hosts of the inventory, by the role they report
    Workers,
    Texts,          \* what a host's files may hold
    MaxScanEvents   \* bound on edits of hosts, failed saves and API restarts

ASSUME ConfigScanAssumption == MaxScanEvents \in Nat /\ Coordinators \intersect Workers = {}

VARIABLES
    etc,          \* the text on each host, or that it has none
    development,  \* whether the cluster is listed in development_clusters
    scan,         \* _running, and the playbook's output so far
    comparison,   \* the KIND_CONFIG snapshot
    scanEvents

scanVars == <<etc, development, scan, comparison, scanEvents>>

-----------------------------------------------------------------------------
Inventory == Coordinators \union Workers
RoleOf(h) == IF h \in Coordinators THEN "coordinator" ELSE "worker"
NoText == "no file"
Readings == Texts \union {NoText}

\* One host's line, read, and what parse_scan makes of one it cannot read.
Line(h, text) == [host |-> h, role |-> RoleOf(h), text |-> text, readable |-> TRUE]
Unreadable == [host |-> "?", role |-> "unknown", text |-> NoText, readable |-> FALSE]

\* Mutated form of Parsed: the lines that cannot be read are left out.
ParsedReadable(lines) == {n \in lines : n.readable}

\* parse_scan, over the tagged lines.
Parsed(lines) == lines

\* compare: peers are compared within a role and never across; two that hold
\* nothing agree.  A node that was not read is a finding of its own, except on
\* a development cluster.
Peers(nodes, role) == {n \in nodes : n.readable /\ n.role = role}
RoleFindings(nodes) ==
    {role \in {"coordinator", "worker"} :
        Cardinality({n.text : n \in Peers(nodes, role)}) > 1}
Findings(nodes) ==
    RoleFindings(nodes) \union
    IF ~development /\ \E n \in nodes : ~n.readable THEN {"unreachable"} ELSE {}
Agree(nodes) == Findings(nodes) = {}

-----------------------------------------------------------------------------
NotScanning == [on |-> FALSE, left |-> {}, lines |-> {}, failed |-> FALSE, found |-> <<>>]
NeverScanned == [nodes |-> {}, error |-> TRUE, found |-> <<>>]

ScanTypeOK ==
    /\ etc \in [Inventory -> Readings]
    /\ development \in BOOLEAN
    /\ scan.on \in BOOLEAN /\ scan.left \subseteq Inventory /\ scan.failed \in BOOLEAN
    /\ scan.lines \union comparison.nodes \subseteq
          {Line(h, t) : h \in Inventory, t \in Readings} \union {Unreadable}
    /\ comparison.error \in BOOLEAN
    /\ scanEvents \in 0..MaxScanEvents

ScanInit ==
    /\ etc \in [Inventory -> Readings]
    /\ development \in BOOLEAN
    /\ scan = NotScanning
    /\ comparison = NeverScanned
    /\ scanEvents = 0

ScanEvent == scanEvents < MaxScanEvents /\ scanEvents' = scanEvents + 1

\* The files of a host change, by hand or by a deploy.
EditHost(h) ==
    /\ ScanEvent
    /\ \E text \in Readings \ {etc[h]} : etc' = [etc EXCEPT ![h] = text]
    /\ UNCHANGED <<development, scan, comparison>>

\* scan: one at a time to a cluster.
StartScan ==
    /\ ~scan.on
    /\ scan' = [NotScanning EXCEPT !.on = TRUE, !.left = Inventory]
    /\ UNCHANGED <<etc, development, comparison, scanEvents>>

\* The playbook comes to a host.  It prints a line, which may arrive unfit to
\* be read, or the host does not answer and is only seen in the exit status.
WithNode(h) == [g \in DOMAIN scan.found \union {h} |-> IF g = h THEN etc[h] ELSE scan.found[g]]

Visit(h) ==
    /\ h \in scan.left
    /\ \/ scan' = [scan EXCEPT !.left = @ \ {h}, !.lines = @ \union {Line(h, etc[h])},
                               !.found = WithNode(h)]
       \/ scan' = [scan EXCEPT !.left = @ \ {h}, !.lines = @ \union {Unreadable}]
       \/ scan' = [scan EXCEPT !.left = @ \ {h}, !.failed = TRUE]
    /\ UNCHANGED <<etc, development, comparison, scanEvents>>

\* stream_command's watchdog: the lines printed so far are kept.
ScanTimesOut ==
    /\ scan.left # {}
    /\ scan' = [scan EXCEPT !.left = {}, !.failed = TRUE]
    /\ UNCHANGED <<etc, development, comparison, scanEvents>>

\* Mutated form of Snapshot: the exit status says nothing.
SnapshotOfLines(s) == [nodes |-> Parsed(s.lines), error |-> Parsed(s.lines) = {}, found |-> s.found]

\* _scan_now: an exit other than zero, or nothing to read, is kept as an error
\* beside what was read.
Snapshot(s) ==
    [nodes |-> Parsed(s.lines), error |-> s.failed \/ Parsed(s.lines) = {}, found |-> s.found]

\* The snapshot is saved or lost; the flag is cleared either way.
EndScan ==
    /\ scan.on
    /\ scan.left = {}
    /\ \/ comparison' = Snapshot(scan) /\ UNCHANGED scanEvents
       \/ ScanEvent /\ UNCHANGED comparison
    /\ scan' = NotScanning
    /\ UNCHANGED <<etc, development>>

\* The flag and the thread are in memory.
ScanForgotten ==
    /\ scan.on
    /\ ScanEvent
    /\ scan' = NotScanning
    /\ UNCHANGED <<etc, development, comparison>>

ScanNext ==
    \/ \E h \in Inventory : EditHost(h) \/ Visit(h)
    \/ StartScan \/ ScanTimesOut \/ EndScan \/ ScanForgotten

ScanSpec == ScanInit /\ [][ScanNext]_scanVars

-----------------------------------------------------------------------------
\* What a scan without an error says is so: the nodes are shown to agree exactly
\* when every host of the inventory was read, or the cluster is a development
\* one, and the hosts of each role that were read held the same when the
\* playbook came to them (configscan.py: "a node missing from the comparison
\* would silently read as 'everything agrees'").
ScanTellsTruth ==
    ~comparison.error =>
        (Agree(comparison.nodes) <=>
            /\ development \/ DOMAIN comparison.found = Inventory
            /\ \A g, h \in DOMAIN comparison.found :
                  RoleOf(g) = RoleOf(h) => comparison.found[g] = comparison.found[h])
=============================================================================
