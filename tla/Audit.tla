------------------------------- MODULE Audit -------------------------------
(***************************************************************************)
(* The guard every write action of the console goes through                *)
(* (src/tms/core/audit.py, core/audit_postgres.py, api/permissions.py, and *)
(* the actions of api/services.py and fleet/service.py that use it).       *)
(*                                                                         *)
(* The store is probed, the action runs, and one record is written when it *)
(* ends; the three are separate steps, on one connection every thread of   *)
(* the process shares.  Records are known by the call they are about;      *)
(* reasons are blank or not, and texts, filters and pages are left out.    *)
(***************************************************************************)
EXTENDS Naturals, FiniteSets

CONSTANTS
    Clerks,         \* threads of tms-api that serve write actions
    Grades,         \* roles of the callers
    MaxCalls,       \* bound on the calls made
    MaxStoreFaults  \* bound on changes of the store for the worse, and on crashes

ASSUME AuditAssumption ==
    /\ Grades \subseteq {"viewer", "operator", "admin"}
    /\ {MaxCalls, MaxStoreFaults} \subseteq Nat

VARIABLES
    store,         \* the database: up, read only, or down
    auditSession,  \* whether the shared connection still reaches it
    records,       \* audit_action: calls with their outcome
    performed,     \* what the actions changed elsewhere, by call
    clerk,         \* what each thread is at
    calls, storeFaults,
    unaccounted    \* history: performed, ended without a record, with no cause

auditVars == <<store, auditSession, records, performed, clerk, calls, storeFaults, unaccounted>>

-----------------------------------------------------------------------------
\* _ROLE_CAPABILITIES, for the capabilities the actions ask for, and what each
\* does when the capability is missing.  Those of RecordsRefusal write a record.
Writes == {"kill", "override", "export", "groups", "shutdown"}
Capable(grade, write) ==
    \/ grade = "admin"
    \/ grade = "operator" /\ write = "kill"
RecordsRefusal == {"kill", "override", "export"}

Free == [at |-> "free", write |-> "none", id |-> 0, fails |-> FALSE, doubt |-> FALSE]

AuditTypeOK ==
    /\ store \in {"up", "readonly", "down"} /\ auditSession \in BOOLEAN
    /\ \A r \in records : r.id \in 1..calls /\ r.outcome \in {"SUCCESS", "FAILURE"}
    /\ performed \subseteq 1..calls /\ unaccounted \subseteq 1..calls
    /\ \A k \in Clerks :
          clerk[k] \in [at : {"free", "probe", "act", "record"}, write : Writes \union {"none"},
                        id : 0..MaxCalls, fails : BOOLEAN, doubt : BOOLEAN]
    /\ calls \in 0..MaxCalls /\ storeFaults \in 0..MaxStoreFaults

AuditInit ==
    /\ store = "up" /\ auditSession = TRUE
    /\ records = {} /\ performed = {} /\ unaccounted = {}
    /\ clerk = [k \in Clerks |-> Free]
    /\ calls = 0 /\ storeFaults = 0

\* A SELECT passes on a read only database; an INSERT does not, and write, unlike
\* the probe, does not reconnect.
CanRead == auditSession /\ store # "down"
CanWrite == auditSession /\ store = "up"

\* is_writable: SELECT 1, and a new connection when that fails.
IsWritableRemembered == TRUE
IsWritable == CanRead \/ store # "down"

Written(id, outcome) ==
    IF CanWrite THEN records \union {[id |-> id, outcome |-> outcome]} ELSE records

-----------------------------------------------------------------------------
\* The capability first.  record_refusal swallows a store that does not answer.
Ask(k, write, grade, blank) ==
    /\ clerk[k] = Free
    /\ calls < MaxCalls
    /\ calls' = calls + 1
    /\ \/ /\ ~Capable(grade, write)
          /\ records' = IF write \in RecordsRefusal THEN Written(calls', "FAILURE") ELSE records
          /\ UNCHANGED clerk
       \/ \* normalise_reason comes before the store is touched, and leaves no record
          /\ Capable(grade, write) /\ blank
          /\ UNCHANGED <<records, clerk>>
       \/ /\ Capable(grade, write) /\ ~blank
          /\ clerk' = [clerk EXCEPT ![k] =
                [at |-> "probe", write |-> write, id |-> calls', fails |-> FALSE, doubt |-> FALSE]]
          /\ UNCHANGED records
    /\ UNCHANGED <<store, auditSession, performed, storeFaults, unaccounted>>

\* A record that cannot be written although the probe passed has a cause when the
\* store was already read only; later causes are noted as they happen.
Probe(k) ==
    /\ clerk[k].at = "probe"
    /\ auditSession' = (store # "down")
    /\ clerk' = [clerk EXCEPT ![k] =
          IF IsWritable THEN [@ EXCEPT !.at = "act", !.doubt = (store = "readonly")]
          ELSE Free]
    /\ UNCHANGED <<store, records, performed, calls, storeFaults, unaccounted>>

\* The action does what it does, is refused, or fails after it was done.  An
\* override is written to the same database, an export only reads the records.
Possible(write) ==
    CASE write \in {"override", "groups"} -> store = "up"
      [] write = "export"                 -> CanRead
      [] OTHER                            -> TRUE

Perform(k) ==
    /\ clerk[k].at = "act"
    /\ \/ /\ Possible(clerk[k].write)
          /\ performed' = performed \union {clerk[k].id}
          /\ \E late \in IF clerk[k].write = "export" THEN {FALSE} ELSE BOOLEAN :
                clerk' = [clerk EXCEPT ![k].at = "record", ![k].fails = late]
       \/ /\ clerk' = [clerk EXCEPT ![k].at = "record", ![k].fails = TRUE]
          /\ UNCHANGED performed
    /\ UNCHANGED <<store, auditSession, records, calls, storeFaults, unaccounted>>

\* __exit__: one record with the outcome; a failure to write it is only logged.
Record(k) ==
    /\ clerk[k].at = "record"
    /\ records' = Written(clerk[k].id, IF clerk[k].fails THEN "FAILURE" ELSE "SUCCESS")
    /\ unaccounted' =
          IF clerk[k].id \in performed /\ ~CanWrite /\ ~clerk[k].doubt
          THEN unaccounted \union {clerk[k].id} ELSE unaccounted
    /\ clerk' = [clerk EXCEPT ![k] = Free]
    /\ UNCHANGED <<store, auditSession, performed, calls, storeFaults>>

-----------------------------------------------------------------------------
Doubted == [k \in Clerks |->
    IF clerk[k].at \in {"act", "record"} THEN [clerk[k] EXCEPT !.doubt = TRUE] ELSE clerk[k]]

\* A database that goes down takes the connection with it, and so may nothing but
\* the network.
StoreWorsens ==
    /\ storeFaults < MaxStoreFaults
    /\ storeFaults' = storeFaults + 1
    /\ \/ store' = "down" /\ auditSession' = FALSE
       \/ store = "up" /\ store' = "readonly" /\ UNCHANGED auditSession
       \/ auditSession /\ auditSession' = FALSE /\ UNCHANGED store
    /\ clerk' = Doubted
    /\ UNCHANGED <<records, performed, calls, unaccounted>>

StoreRecovers ==
    /\ store # "up"
    /\ store' = "up"
    /\ UNCHANGED <<auditSession, records, performed, clerk, calls, storeFaults, unaccounted>>

\* The process ends: nothing under way is recorded, and it connects anew.
ConsoleRestarts ==
    /\ storeFaults < MaxStoreFaults
    /\ storeFaults' = storeFaults + 1
    /\ store # "down"
    /\ auditSession' = TRUE
    /\ clerk' = [k \in Clerks |-> Free]
    /\ UNCHANGED <<store, records, performed, calls, unaccounted>>

AuditNext ==
    \/ \E k \in Clerks :
          \/ \E write \in Writes, grade \in Grades, blank \in BOOLEAN : Ask(k, write, grade, blank)
          \/ Probe(k) \/ Perform(k) \/ Record(k)
    \/ StoreWorsens \/ StoreRecovers \/ ConsoleRestarts

AuditSpec == AuditInit /\ [][AuditNext]_auditVars

-----------------------------------------------------------------------------
\* An action that was carried out is missing from the audit log only when the
\* store changed for the worse after the probe that let it start, was read only
\* at that probe, or the process ended: a store lost before that, or a connection
\* another thread found broken, never lets one through.
EveryActionAccounted == unaccounted = {}
=============================================================================
