------------------------------ MODULE NodeList ------------------------------
(***************************************************************************)
(* The node list of one cluster (src/tms/fleet/nodeservice.py, nodes.py,   *)
(* nodestore.py, importer.py): rows in the database, the inventory file    *)
(* rendered from them, and the calls that change both.                     *)
(*                                                                         *)
(* Statements autocommit one by one and the file is written after them,    *)
(* through one temporary path all callers share.  A machine is known by    *)
(* its name or by its address; the coordinator reports the address only.   *)
(* Roles, versions and reasons are left out.                               *)
(***************************************************************************)
EXTENDS Integers, FiniteSets

CONSTANTS
    Machines,      \* the hosts of the cluster
    Twins,         \* those that may run two Trino nodes
    Callers,       \* threads of tms-api that serve the node list
    Typed,         \* how operators enter a node: host and address, spelled
    MaxScans,      \* bound on the scans asked for
    MaxNodeFaults  \* bound on failed statements, failed writes and restarts

ASSUME NodeListAssumption ==
    /\ Twins \subseteq Machines
    /\ Typed \subseteq {<<"name", "address">>, <<"name", "name">>, <<"address", "address">>}
    /\ {MaxScans, MaxNodeFaults} \subseteq Nat

VARIABLES
    rows,        \* cluster_node
    joined,      \* the machines the coordinator reports
    inventory,   \* what the inventory path holds
    temporary,   \* what the temporary path holds
    call,        \* what each caller is at
    scans,       \* scans begun, which are their timestamps
    nodeFaults,
    behind,      \* history: a cause for the file to differ from the rows
    doubled      \* history: machines with a cause to be listed twice

nodeVars == <<rows, joined, inventory, temporary, call, scans, nodeFaults, behind, doubled>>

-----------------------------------------------------------------------------
Name(m) == <<m, "name">>
Address(m) == <<m, "address">>
Spellings == Machines \X {"name", "address"}
Machine(spelling) == spelling[1]

\* validate: a host, and an address that is the host when left blank.
Entries == {e \in [host : Spellings, address : Spellings] :
               /\ Machine(e.host) = Machine(e.address)
               /\ e.address \in {e.host, Address(Machine(e.host))}}

\* A row is `discovered` from the first scan that saw it, `manual` until then.
Never == 0
Row(e, seen) == [host |-> e.host, address |-> e.address, seen |-> seen]
Listed(h) == \E r \in rows : r.host = h

\* render_inventory, as what parse_inventory reads back from it.
Render(table) == {[host |-> r.host, address |-> r.address] : r \in table}

\* What a path holds: a whole text, a file just opened, nothing at all, or a
\* text with the end of another one after it.
Whole(view) == [is |-> "whole", text |-> view]
Opened == [is |-> "opened", text |-> {}]
Absent == [is |-> "absent", text |-> {}]
Mixed == [is |-> "mixed", text |-> {}]

Idle == [op |-> "none", at |-> "idle", entries |-> {}, touch |-> {}, stamp |-> Never,
         view |-> {}, handle |-> "none", alone |-> TRUE]

NodeTypeOK ==
    /\ rows \subseteq [host : Spellings, address : Spellings, seen : 0..MaxScans]
    /\ joined \subseteq Machines
    /\ \A path \in {inventory, temporary} :
          \/ path \in {Opened, Absent, Mixed}
          \/ path.text \subseteq Entries /\ path = Whole(path.text)
    /\ \A c \in Callers :
          /\ call[c].op \in {"none", "add", "remove", "scan"}
          /\ call[c].at \in {"idle", "rows", "read", "open", "write", "replace"}
          /\ call[c].handle \in {"none", "temporary", "inventory", "gone"}
          /\ call[c].view \subseteq Entries
    /\ scans \in 0..MaxScans
    /\ nodeFaults \in 0..MaxNodeFaults
    /\ behind \in BOOLEAN
    /\ doubled \subseteq Machines

\* Nothing is listed, and render_all has written a file with empty groups, or
\* has failed to and tms-api serves without one.
NodeInit ==
    /\ rows = {}
    /\ joined = Machines
    /\ \/ inventory = Whole({}) /\ temporary = Absent /\ behind = FALSE
       \/ inventory = Absent /\ temporary \in {Absent, Opened, Whole({})} /\ behind = TRUE
    /\ call = [c \in Callers |-> Idle]
    /\ scans = 0
    /\ nodeFaults = 0
    /\ doubled = {}

-----------------------------------------------------------------------------
NodeFault == nodeFaults < MaxNodeFaults /\ nodeFaults' = nodeFaults + 1

Busy == {c \in Callers : call[c].at # "idle"}
Set(c, r) == call' = [call EXCEPT ![c] = r]
File == <<inventory, temporary>>

\* A call begins; calls that overlap may leave the file to the older of them.
StartCall(c, r) ==
    /\ call[c].at = "idle"
    /\ call' = [d \in Callers |-> IF d = c THEN [r EXCEPT !.alone = (Busy = {})]
                                ELSE [call[d] EXCEPT !.alone = (d \notin Busy)]]
    /\ behind' = (behind \/ Busy # {})
    /\ UNCHANGED <<rows, joined, File, nodeFaults>>

\* The caller is told of an error, and the call is over where it stands.
Fails(c) ==
    /\ Set(c, Idle)
    /\ behind' = TRUE
    /\ UNCHANGED <<rows, joined, File, scans, doubled>>

-----------------------------------------------------------------------------
(* add, remove.                                                            *)

\* A second row for a machine is the operator's own doing, and so is a row
\* that does not say where the machine is.
Add(c, e) ==
    /\ StartCall(c, [Idle EXCEPT !.op = "add", !.at = "rows", !.entries = {e}])
    /\ doubled' = IF (\E r \in rows : Machine(r.host) = Machine(e.host))
                        \/ e.address # Address(Machine(e.host)) \/ Busy # {}
                  THEN doubled \union {Machine(e.host)} ELSE doubled
    /\ UNCHANGED scans

RepositoryAdd(c) ==
    LET e == CHOOSE e \in call[c].entries : TRUE
    IN /\ call[c].op = "add"
       /\ call[c].at = "rows"
       /\ \/ /\ Listed(e.host)
             /\ Set(c, Idle)
             /\ UNCHANGED rows
          \/ /\ ~Listed(e.host)
             /\ rows' = rows \union {Row(e, Never)}
             /\ Set(c, [call[c] EXCEPT !.at = "read", !.entries = {}])
       /\ UNCHANGED <<joined, File, scans, nodeFaults, behind, doubled>>

Remove(c, h) ==
    /\ StartCall(c, [Idle EXCEPT !.op = "remove", !.at = "rows",
                     !.entries = {[host |-> h, address |-> h]}])
    /\ UNCHANGED <<scans, doubled>>

RepositoryRemove(c) ==
    LET h == (CHOOSE e \in call[c].entries : TRUE).host
    IN /\ call[c].op = "remove"
       /\ call[c].at = "rows"
       /\ \/ ~Listed(h) /\ Set(c, Idle) /\ UNCHANGED rows
          \/ /\ Listed(h)
             /\ rows' = {r \in rows : r.host # h}
             /\ Set(c, [call[c] EXCEPT !.at = "read", !.entries = {}])
       /\ UNCHANGED <<joined, File, scans, nodeFaults, behind, doubled>>

-----------------------------------------------------------------------------
(* scan.                                                                   *)

\* Mutated form of Knows: a row is known by its host alone.
KnowsByHost(r, m) == r.host = Address(m)

\* plan_refresh: the address discovery reports, as a row's host or address.
Knows(r, m) == Address(m) \in {r.host, r.address}

\* Of two rows for one address the one of that very name is touched.
Touched(m) ==
    LET known == {r.host : r \in {q \in rows : Knows(q, m)}}
    IN IF Address(m) \in known THEN Address(m) ELSE CHOOSE h \in known : TRUE

\* The coordinator is asked, the rows are read, and the whole scan is stamped.
\* It touches what it finds listed and adds the rest; it removes nothing.
Scan(c) ==
    LET known == {m \in joined : \E r \in rows : Knows(r, m)}
    IN /\ scans < MaxScans
       /\ StartCall(c, [Idle EXCEPT !.op = "scan", !.at = "rows", !.stamp = scans + 1,
                        !.entries = {[host |-> Address(m), address |-> Address(m)] :
                                        m \in joined \ known},
                        !.touch = {Touched(m) : m \in known}])
       /\ scans' = scans + 1
       /\ doubled' = IF Busy = {} THEN doubled ELSE Machines

\* One INSERT after the other.  DuplicateNode is not expected here: it ends
\* the scan, also when the answer names one host for two nodes.
ScanAdds(c) ==
    /\ call[c].op = "scan"
    /\ call[c].at = "rows"
    /\ \E e \in call[c].entries :
          \/ Listed(e.host) /\ Fails(c)
          \/ /\ ~Listed(e.host)
             /\ rows' = rows \union {Row(e, call[c].stamp)}
             /\ \E again \in {FALSE, Machine(e.host) \in Twins} :
                   Set(c, [call[c] EXCEPT !.entries = IF again THEN @ ELSE @ \ {e}])
             /\ UNCHANGED <<joined, File, scans, behind, doubled>>
    /\ UNCHANGED nodeFaults

\* The UPDATE of a row that was removed meanwhile changes nothing.
ScanTouches(c) ==
    /\ call[c].op = "scan"
    /\ call[c].at = "rows"
    /\ call[c].entries = {}
    /\ rows' = {IF r.host \in call[c].touch THEN [r EXCEPT !.seen = call[c].stamp] ELSE r :
                  r \in rows}
    /\ Set(c, [call[c] EXCEPT !.at = "read", !.touch = {}])
    /\ UNCHANGED <<joined, File, scans, nodeFaults, behind, doubled>>

-----------------------------------------------------------------------------
(* _write_inventory.                                                       *)

Quiet == UNCHANGED <<rows, joined, scans, nodeFaults, behind, doubled>>

\* Mutated form of Read: the list as it was before the call's own change.
ReadEarly(c) == inventory.text

Read(c) == Render(rows)

ReadRows(c) ==
    /\ call[c].at = "read"
    /\ Set(c, [call[c] EXCEPT !.at = "open", !.view = Read(c)])
    /\ UNCHANGED File /\ Quiet

\* open(..., "w") empties what another caller has open under the same path.
OpenTemporary(c) ==
    /\ call[c].at = "open"
    /\ temporary' = Opened
    /\ Set(c, [call[c] EXCEPT !.at = "write", !.handle = "temporary"])
    /\ UNCHANGED inventory /\ Quiet

\* The text goes to the file that was opened, wherever it has been moved to;
\* the end of a longer text stays behind a shorter one.
Over(path, view) ==
    IF path = Mixed \/ Cardinality(path.text) > Cardinality(view) THEN Mixed ELSE Whole(view)

WriteText(c) ==
    /\ call[c].at = "write"
    /\ temporary' = IF call[c].handle = "temporary" THEN Over(temporary, call[c].view)
                    ELSE temporary
    /\ inventory' = IF call[c].handle = "inventory" THEN Over(inventory, call[c].view)
                    ELSE inventory
    /\ Set(c, [call[c] EXCEPT !.at = "replace"])
    /\ Quiet

\* os.replace: the callers that have the file open go with it.
Moved(handle) ==
    CASE handle = "temporary" -> "inventory"
      [] handle = "inventory" -> "gone"
      [] OTHER -> handle

Replace(c) ==
    /\ call[c].at = "replace"
    /\ \/ /\ temporary # Absent
          /\ inventory' = temporary
          /\ temporary' = Absent
          /\ call' = [d \in Callers |->
                 IF d = c THEN Idle ELSE [call[d] EXCEPT !.handle = Moved(@)]]
          /\ behind' = (behind /\ ~call[c].alone)
          /\ UNCHANGED <<rows, joined, scans, doubled>>
       \/ temporary = Absent /\ Fails(c)
    /\ UNCHANGED nodeFaults

-----------------------------------------------------------------------------
(* What happens around the calls.                                          *)

\* A statement or a write fails; what went before it stays.
CallFails(c) == call[c].at # "idle" /\ NodeFault /\ Fails(c)

\* tms-api restarts.  render_all writes the file before it serves; when that
\* fails it logs the error, and tms-api serves with the file there was.  A call
\* that was under way may then have changed a row the file does not show.
ApiRestarts ==
    /\ NodeFault
    /\ call' = [c \in Callers |-> Idle]
    /\ \/ inventory' = Whole(Render(rows)) /\ temporary' = Absent /\ behind' = FALSE
       \/ /\ inventory' = inventory
          /\ temporary' \in {temporary, Opened, Whole(Render(rows))}
          /\ behind' = (behind \/ Busy # {})
    /\ UNCHANGED <<rows, joined, scans, doubled>>

\* tms-import-inventory: rows from a file somebody kept; the inventory TMS
\* writes is not rendered from them until the next change.
Import(m) ==
    /\ Busy = {}
    /\ ~Listed(Name(m))
    /\ rows' = rows \union {Row([host |-> Name(m), address |-> Address(m)], Never)}
    /\ doubled' = IF \E r \in rows : Machine(r.host) = m THEN doubled \union {m} ELSE doubled
    /\ behind' = TRUE
    /\ UNCHANGED <<joined, File, call, scans, nodeFaults>>

MachineJoins(m) ==
    /\ joined' = IF m \in joined THEN joined \ {m} ELSE joined \union {m}
    /\ UNCHANGED <<rows, File, call, scans, nodeFaults, behind, doubled>>

-----------------------------------------------------------------------------
CallSteps(c) ==
    \/ RepositoryAdd(c) \/ RepositoryRemove(c) \/ ScanAdds(c) \/ ScanTouches(c)
    \/ ReadRows(c) \/ OpenTemporary(c) \/ WriteText(c) \/ Replace(c)

NodeNext ==
    \/ \E c \in Callers :
          \/ \E m \in Machines, t \in Typed :
                Add(c, [host |-> <<m, t[1]>>, address |-> <<m, t[2]>>])
          \/ \E r \in rows : Remove(c, r.host)
          \/ Scan(c) \/ CallSteps(c) \/ CallFails(c)
    \/ ApiRestarts
    \/ \E m \in Machines : Import(m) \/ MachineJoins(m)

NodeSpec == NodeInit /\ [][NodeNext]_nodeVars

-----------------------------------------------------------------------------
(* Properties.                                                             *)

\* The file Ansible runs against is a rendering of the list, whole and up to
\* date between calls.  Until a change by one caller alone has followed, the cause
\* to doubt it is one of these: a call failed, calls overlapped, an import was
\* made, or tms-api restarted under a call, or for the first time, and could not
\* write the file (_write_inventory after autocommitted statements: "a table that
\* has moved on while the file has not is the split this decision existed to
\* close").
InventoryFollowsList ==
    ~behind => /\ inventory.is = "whole"
               /\ Busy = {} => inventory.text = Render(rows)

\* A scan that works alone does not list a machine twice: what it finds is
\* recognised by name or address, also when the row was typed or imported
\* under an alias (plan_refresh).
NoMachineTwice ==
    \A r, q \in rows : r # q /\ Machine(r.host) = Machine(q.host) => Machine(r.host) \in doubled

\* The list, the file rendered from it and the machines stay one to one
\* (nodeservice.py, nodes.py).
ListHolds == InventoryFollowsList /\ NoMachineTwice
=============================================================================
