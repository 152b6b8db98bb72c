------------------------------- MODULE Board -------------------------------
(***************************************************************************)
(* The work board (src/tms/work/service.py, store.py, items.py): requests  *)
(* that administrators raise, comment on and move between statuses.        *)
(*                                                                         *)
(* A move is three statements, each committed by itself: the status is     *)
(* read, the item is updated, and a row that says who moved it from where  *)
(* to where is inserted.  Items are never deleted.  Titles, bodies and the *)
(* items imported from documents are left out.                             *)
(***************************************************************************)
EXTENDS Naturals, FiniteSets, Sequences

CONSTANTS
    Members,     \* administrators
    Statuses,    \* the statuses an item is moved between, "planned" among them
    MaxItems,    \* bound on the requests raised
    MaxMoves     \* bound on the updates of items

ASSUME BoardAssumption ==
    /\ "planned" \in Statuses
    /\ {MaxItems, MaxMoves} \subseteq Nat

VARIABLES
    items,    \* the work_item rows with their events and comments
    request,  \* what each administrator's request has read so far
    moves,    \* the updates made so far
    blurred   \* history: items moved by two at once, or whose event was lost

boardVars == <<items, request, moves, blurred>>

-----------------------------------------------------------------------------
Nothing == [pc |-> "idle", key |-> 0, before |-> "planned", to |-> "planned"]
KeysTaken == {i.key : i \in items}
Keyed(key) == CHOOSE i \in items : i.key = key
Moves == [by : Members, from : Statuses, to : Statuses]

\* next_request_key: one more than the highest REQ- there is.
NextKey == CHOOSE k \in 1..MaxItems + 1 :
               /\ KeysTaken \subseteq 1..k - 1
               /\ k = 1 \/ k - 1 \in KeysTaken

BoardTypeOK ==
    /\ \A i \in items : i.key \in 1..MaxItems /\ i.status \in Statuses
    /\ \A i \in items : \A n \in DOMAIN i.events : i.events[n] \in Moves
    /\ request \in [Members -> [pc : {"idle", "create", "update", "event"}, key : 0..MaxItems + 1,
                                before : Statuses, to : Statuses]]
    /\ moves \in 0..MaxMoves
    /\ blurred \subseteq 1..MaxItems

BoardInit ==
    /\ items = {}
    /\ request = [m \in Members |-> Nothing]
    /\ moves = 0
    /\ blurred = {}

Asks(m, step) == request' = [request EXCEPT ![m] = step]
Done(m) == Asks(m, Nothing)
Put(key, i) == items' = (items \ {Keyed(key)}) \union {i}

-----------------------------------------------------------------------------
\* raise_request: the key is read before the item is inserted.
RaiseRequest(m) ==
    /\ request[m] = Nothing
    /\ NextKey <= MaxItems
    /\ Asks(m, [Nothing EXCEPT !.pc = "create", !.key = NextKey])
    /\ UNCHANGED <<items, moves, blurred>>

\* Mutated form of KeyIsFree: work_item.key is not unique.
KeyIsFreeAlways(key) == TRUE

KeyIsFree(key) == key \notin KeysTaken

\* create: a key taken meanwhile refuses the request, which is not retried; so
\* does a store that does not answer.
CreateItem(m) ==
    /\ request[m].pc = "create"
    /\ \/ /\ KeyIsFree(request[m].key)
          /\ items' = items \union
                {[key |-> request[m].key, status |-> "planned", by |-> m, events |-> <<>>]}
       \/ UNCHANGED items
    /\ Done(m)
    /\ UNCHANGED <<moves, blurred>>

\* update, first statement.  Another move of the item under way blurs both.
ReadItem(m, key, to) ==
    /\ request[m] = Nothing
    /\ moves < MaxMoves
    /\ Asks(m, [pc |-> "update", key |-> key, before |-> Keyed(key).status, to |-> to])
    /\ blurred' = blurred \union
          {k \in {key} : \E n \in Members : request[n].key = key /\ request[n].pc \in {"update", "event"}}
    /\ UNCHANGED <<items, moves>>

\* Mutated form of IsMove: only a move that closes an item is recorded.
IsMoveClosing(r) == r.to # r.before /\ r.to # "planned"

IsMove(r) == r.to # r.before

\* The UPDATE, or a statement that fails and leaves everything as it was.
UpdateItem(m) ==
    LET r == request[m]
        i == Keyed(r.key)
    IN /\ r.pc = "update"
       /\ \/ /\ moves < MaxMoves
             /\ moves' = moves + 1
             /\ Put(r.key, [i EXCEPT !.status = r.to])
             /\ Asks(m, IF IsMove(r) THEN [r EXCEPT !.pc = "event"] ELSE Nothing)
          \/ UNCHANGED <<items, moves>> /\ Done(m)
       /\ UNCHANGED blurred

\* The event's INSERT, or its loss: the status stays moved.
RecordMove(m) ==
    LET r == request[m]
        i == Keyed(r.key)
    IN /\ r.pc = "event"
       /\ \/ /\ Put(r.key, [i EXCEPT !.events =
                        Append(@, [by |-> m, from |-> r.before, to |-> r.to])])
             /\ UNCHANGED blurred
          \/ UNCHANGED items /\ blurred' = blurred \union {r.key}
       /\ Done(m)
       /\ UNCHANGED moves

BoardNext ==
    \E m \in Members :
        \/ RaiseRequest(m) \/ CreateItem(m) \/ UpdateItem(m) \/ RecordMove(m)
        \/ \E key \in KeysTaken, to \in Statuses : ReadItem(m, key, to)

BoardSpec == BoardInit /\ [][BoardNext]_boardVars

-----------------------------------------------------------------------------
\* Who moved an item and from where survives the next move: its events lead from
\* the status it was raised in to the one it has, the last step apart that is
\* being recorded, unless two moves of it overlapped or an event was lost; and
\* requests are numbered without a gap or a number given twice, by two
\* administrators at once too (store.py: "so 'who moved this and when' survives
\* the next move").
BoardRemembers ==
    /\ Cardinality(KeysTaken) = Cardinality(items)
    /\ KeysTaken = 1..Cardinality(items)
    /\ \A i \in items : i.key \notin blurred =>
          LET last == Len(i.events)
              recording == \E m \in Members : request[m].pc = "event" /\ request[m].key = i.key
          IN /\ last > 0 => i.events[1].from = "planned"
             /\ \A n \in 1..last - 1 : i.events[n].to = i.events[n + 1].from
             /\ ~recording => i.status = IF last = 0 THEN "planned" ELSE i.events[last].to
=============================================================================
