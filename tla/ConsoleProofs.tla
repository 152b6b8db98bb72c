--------------------------- MODULE ConsoleProofs ---------------------------
(***************************************************************************)
(* Proofs about the parts of Console that keep records: the audit guard,   *)
(* the clock of the schedules, the sessions, the configuration scan, the   *)
(* groups as they run, the query sets and the work board, for any number   *)
(* of operators, hosts, queries and faults.  Each part takes its own steps *)
(* or rests, so an invariant of a part alone is one of the console.  The   *)
(* last section puts the parts together, those of ClusterProofs and of     *)
(* GroupProofs included.                                                   *)
(***************************************************************************)
EXTENDS ClusterProofs, GroupProofs

-----------------------------------------------------------------------------
(* The audit guard.                                                        *)

ClerkStates == [at : {"free", "probe", "act", "record"}, write : Writes \union {"none"},
                id : Nat, fails : BOOLEAN, doubt : BOOLEAN]

\* A store that is as good as the probe found it takes the record.
AuditInv ==
    /\ store \in {"up", "readonly", "down"}
    /\ calls \in Nat
    /\ clerk \in [Clerks -> ClerkStates]
    /\ \A k \in Clerks :
          clerk[k].at \in {"act", "record"} /\ ~clerk[k].doubt => CanWrite
    /\ EveryActionAccounted

LEMMA AuditStarts == ASSUME AuditInit PROVE AuditInv
BY DEF AuditInit, AuditInv, ClerkStates, Free, EveryActionAccounted

LEMMA AskKeeps ==
    ASSUME AuditInv, NEW k \in Clerks, NEW write \in Writes, NEW grade, NEW blank \in BOOLEAN,
           Ask(k, write, grade, blank)
    PROVE  AuditInv'
<1>1. calls' \in Nat
  BY DEF AuditInv, Ask
<1> DEFINE h == [at |-> "probe", write |-> write, id |-> calls', fails |-> FALSE,
                 doubt |-> FALSE]
<1>4. h \in ClerkStates
  BY <1>1 DEF ClerkStates
<1>5. clerk' = clerk \/ clerk' = [clerk EXCEPT ![k] = h]
  BY DEF Ask
<1>2. clerk' \in [Clerks -> ClerkStates]
  <2> HIDE DEF h
  <2> QED BY <1>4, <1>5 DEF AuditInv
<1>3. \A j \in Clerks : clerk'[j] = clerk[j] \/ clerk'[j].at = "probe"
  BY DEF AuditInv, Ask
<1> QED BY <1>1, <1>2, <1>3 DEF AuditInv, Ask, CanWrite, EveryActionAccounted

\* Whoever probes leaves a working connection behind, or found the store down.
LEMMA ProbeKeeps ==
    ASSUME AuditInv, NEW k \in Clerks, Probe(k)
    PROVE  AuditInv'
<1> DEFINE h == IF IsWritable THEN [clerk[k] EXCEPT !.at = "act", !.doubt = (store = "readonly")]
                ELSE Free
<1>6. /\ h \in ClerkStates
      /\ h.at = (IF IsWritable THEN "act" ELSE "free")
      /\ IsWritable => h.doubt = (store = "readonly")
  <2>1. clerk[k] \in ClerkStates
    BY DEF AuditInv
  <2>2. CASE IsWritable
    BY <2>1, <2>2 DEF ClerkStates
  <2>3. CASE ~IsWritable
    BY <2>3 DEF ClerkStates, Free
  <2> QED BY <2>2, <2>3
<1>7. clerk' = [clerk EXCEPT ![k] = h]
  BY DEF Probe
<1> HIDE DEF h
<1>1. clerk' \in [Clerks -> ClerkStates]
  BY <1>6, <1>7 DEF AuditInv
<1>2. \A j \in Clerks \ {k} : clerk'[j] = clerk[j]
  BY <1>7 DEF AuditInv
<1>3. CanWrite => CanWrite'
  BY DEF Probe, CanWrite
<1>4. clerk'[k].at \in {"act", "record"} => IsWritable /\ clerk'[k].doubt = (store = "readonly")
  BY <1>6, <1>7 DEF AuditInv
<1>5. clerk'[k].at \in {"act", "record"} /\ ~clerk'[k].doubt => CanWrite'
  BY <1>4 DEF AuditInv, Probe, IsWritable, CanRead, CanWrite
<1> QED BY <1>1, <1>2, <1>3, <1>5 DEF AuditInv, Probe, EveryActionAccounted

LEMMA PerformKeeps ==
    ASSUME AuditInv, NEW k \in Clerks, Perform(k)
    PROVE  AuditInv'
<1>3. PICK late \in BOOLEAN :
        clerk' = [clerk EXCEPT ![k].at = "record", ![k].fails = late]
  BY DEF Perform
<1> DEFINE h == [clerk[k] EXCEPT !.at = "record", !.fails = late]
<1>4. clerk[k] \in ClerkStates /\ clerk[k].at = "act"
  BY DEF AuditInv, Perform
<1>5. h \in ClerkStates /\ h.doubt = clerk[k].doubt
  BY <1>4 DEF ClerkStates
<1>6. clerk' = [clerk EXCEPT ![k] = h]
  BY <1>3, <1>4 DEF AuditInv
<1> HIDE DEF h
<1>1. clerk' \in [Clerks -> ClerkStates]
  BY <1>5, <1>6 DEF AuditInv
<1>2. \A j \in Clerks : /\ clerk'[j].doubt = clerk[j].doubt
                        /\ clerk'[j].at \in {"act", "record"} => clerk[j].at \in {"act", "record"}
  BY <1>4, <1>5, <1>6 DEF AuditInv
<1> QED BY <1>1, <1>2 DEF AuditInv, Perform, CanWrite, EveryActionAccounted

LEMMA RecordKeeps ==
    ASSUME AuditInv, NEW k \in Clerks, Record(k)
    PROVE  AuditInv'
<1>1. clerk' \in [Clerks -> ClerkStates]
  BY DEF AuditInv, Record, ClerkStates, Free
<1>2. \A j \in Clerks : clerk'[j] = clerk[j] \/ clerk'[j].at = "free"
  BY DEF AuditInv, Record, Free
<1> QED BY <1>1, <1>2 DEF AuditInv, Record, CanWrite, EveryActionAccounted

LEMMA StoreKeeps ==
    ASSUME AuditInv, StoreWorsens \/ StoreRecovers \/ ConsoleRestarts
    PROVE  AuditInv'
<1>1. CASE StoreWorsens
  <2>1. clerk' \in [Clerks -> ClerkStates]
    BY <1>1 DEF AuditInv, StoreWorsens, Doubted, ClerkStates
  <2>2. \A j \in Clerks : clerk'[j].at \in {"act", "record"} => clerk'[j].doubt
    BY <1>1 DEF AuditInv, StoreWorsens, Doubted, ClerkStates
  <2> QED BY <1>1, <2>1, <2>2 DEF AuditInv, StoreWorsens, EveryActionAccounted
<1>2. CASE StoreRecovers
  BY <1>2 DEF AuditInv, StoreRecovers, CanWrite, EveryActionAccounted
<1>3. CASE ConsoleRestarts
  BY <1>3 DEF AuditInv, ConsoleRestarts, ClerkStates, Free, EveryActionAccounted
<1> QED BY <1>1, <1>2, <1>3

LEMMA AuditStep == ASSUME AuditInv, [AuditNext]_auditVars PROVE AuditInv'
<1>1. CASE UNCHANGED auditVars
  BY <1>1 DEF auditVars, AuditInv, CanWrite, EveryActionAccounted
<1> QED BY <1>1, AskKeeps, ProbeKeeps, PerformKeeps, RecordKeeps, StoreKeeps DEF AuditNext

LEMMA AuditPart == ASSUME [ConsoleNext]_consoleVars PROVE [AuditNext]_auditVars
BY DEF ConsoleNext, Rest, consoleVars

\* An action carried out and not in the audit log has a cause the guard cannot
\* know: no interleaving of any number of threads on the one connection they
\* share lets an action start without a store that would have taken its record
\* (AuditGuard.action, is_writable, write).
THEOREM ActionsAccounted == ConsoleSpec => []EveryActionAccounted
<1>1. ConsoleInit => AuditInv
  BY AuditStarts DEF ConsoleInit
<1>2. AuditInv /\ [ConsoleNext]_consoleVars => AuditInv'
  BY AuditPart, AuditStep
<1>3. AuditInv => EveryActionAccounted
  BY DEF AuditInv
<1> QED BY <1>1, <1>2, <1>3, PTL DEF ConsoleSpec

-----------------------------------------------------------------------------
(* The clock of the schedules.                                             *)

\* What div leaves, and what it takes away.
LEMMA DivBounds ==
    ASSUME NEW a \in Nat, NEW d \in Nat \ {0}
    PROVE  a \div d \in Nat /\ d * (a \div d) <= a /\ a < d * (a \div d) + d
OBVIOUS

LEMMA MultipleMod ==
    ASSUME NEW k \in Int, NEW d \in Nat \ {0}
    PROVE  (k * d) % d = 0
OBVIOUS

\* Every time the clock computes is whole intervals on, and still to come.
LEMMA NextTimes ==
    ASSUME NEW next \in Int, NEW at \in Int
    PROVE  /\ \E k \in Int : AdvanceSchedule(next, at) = next + k * Every
           /\ AdvanceSchedule(next, at) > at
           /\ next <= at => /\ \E k \in Int : Claimed(next, at) = next + k * Every
                            /\ Claimed(next, at) > at
<1>1. Every \in Nat \ {0}
  BY ScheduleClockAssumption
<1>2. ASSUME next <= at
      PROVE  LET q == (at - next) \div Every IN
             q \in Int /\ next + Every * (q + 1) > at
  <2>1. at - next \in Nat
    BY <1>2
  <2> DEFINE q == (at - next) \div Every
  <2>2. q \in Nat /\ at - next < Every * q + Every
    BY <1>1, <2>1, DivBounds
  <2>3. Every * (q + 1) = Every * q + Every
    <3> HIDE DEF q
    <3> QED BY <1>1, <2>2
  <2> QED BY <1>1, <2>1, <2>2, <2>3
<1>3. ASSUME NEW q \in Int PROVE Every * (q + 1) = (q + 1) * Every /\ q + 1 \in Int
  BY <1>1, <1>3
<1>4. CASE next + Every > at
  <2>1. AdvanceSchedule(next, at) = next + 1 * Every
    BY <1>1, <1>4 DEF AdvanceSchedule
  <2>2. AdvanceSchedule(next, at) > at
    BY <1>1, <1>4 DEF AdvanceSchedule
  <2>3. next <= at => /\ \E k \in Int : Claimed(next, at) = next + k * Every
                      /\ Claimed(next, at) > at
    BY <1>2, <1>3 DEF Claimed
  <2> QED BY <2>1, <2>2, <2>3
<1>5. CASE ~(next + Every > at)
  <2>1. next <= at
    BY <1>1, <1>5
  <2> QED BY <1>2, <1>3, <1>5, <2>1 DEF Claimed, AdvanceSchedule
<1> QED BY <1>4, <1>5

OnSlot(t) == \E k \in Int : t = first + k * Every

Presses == [on : BOOLEAN, enable : BOOLEAN, next : Int, at : Int]

\* The times a press holds on its way to the row are slots of the schedule.
ClockInv ==
    /\ first \in Int /\ minute \in Int /\ nextRun \in Int /\ claimed \in Int
    /\ pressed \in [Pressers -> Presses]
    /\ claimed <= minute
    /\ OnSlot(nextRun)
    /\ ~tardy => nextRun > claimed
    /\ \A o \in Pressers : pressed[o].on /\ pressed[o].enable =>
          /\ OnSlot(pressed[o].next)
          /\ pressed[o].next > pressed[o].at

LEMMA SlotAfterSlot ==
    ASSUME first \in Int, NEW t \in Int, OnSlot(t), NEW k \in Int
    PROVE  OnSlot(t + k * Every)
<1>1. PICK j \in Int : t = first + j * Every
  BY DEF OnSlot
<1>2. Every \in Int
  BY ScheduleClockAssumption
<1>3. t + k * Every = first + (j + k) * Every
  BY <1>1, <1>2
<1> QED BY <1>3 DEF OnSlot

LEMMA ClockStarts == ASSUME ClockInit PROVE ClockInv
<1>1. first \in Int /\ first = first + 0 * Every /\ first > NotClaimed
  BY ScheduleClockAssumption DEF ClockInit, NotClaimed
<1> QED BY <1>1 DEF ClockInit, ClockInv, OnSlot, Presses, Unpressed, NotClaimed

LEMMA ClaimKeeps == ASSUME ClockInv, ClaimDue PROVE ClockInv'
<1>1. PICK k \in Int : Claimed(nextRun, minute) = nextRun + k * Every
  BY NextTimes DEF ClockInv, ClaimDue
<1>2. Claimed(nextRun, minute) > minute
  BY NextTimes DEF ClockInv, ClaimDue
<1>3. Claimed(nextRun, minute) \in Int
  BY <1>1, ScheduleClockAssumption DEF ClockInv
<1>4. OnSlot(nextRun')
  BY <1>1, SlotAfterSlot DEF ClockInv, ClaimDue
<1> QED BY <1>2, <1>3, <1>4 DEF ClockInv, ClaimDue, OnSlot

LEMMA PressKeeps ==
    ASSUME ClockInv, NEW o \in Pressers, NEW enable \in BOOLEAN, PressEnabled(o, enable)
    PROVE  ClockInv'
<1> DEFINE t == IF enable THEN AdvanceSchedule(nextRun, minute) ELSE 0
           h == [on |-> TRUE, enable |-> enable, next |-> t, at |-> minute]
<1>1. PICK k \in Int : AdvanceSchedule(nextRun, minute) = nextRun + k * Every
  BY NextTimes DEF ClockInv
<1>2. AdvanceSchedule(nextRun, minute) \in Int
  BY <1>1, ScheduleClockAssumption DEF ClockInv
<1>3. enable => t > minute /\ OnSlot(t)
  BY <1>1, NextTimes, SlotAfterSlot DEF ClockInv
<1>4. t \in Int
  BY <1>2
<1> HIDE DEF t
<1>5. h \in Presses
  BY <1>4 DEF Presses, ClockInv
<1>6. pressed' = [pressed EXCEPT ![o] = h]
  BY DEF PressEnabled, t
<1>7. pressed' \in [Pressers -> Presses]
  <2> HIDE DEF h
  <2> QED BY <1>5, <1>6 DEF ClockInv
<1>8. \A p \in Pressers : pressed'[p].on /\ pressed'[p].enable =>
          /\ OnSlot(pressed'[p].next)
          /\ pressed'[p].next > pressed'[p].at
  BY <1>3, <1>6 DEF ClockInv
<1> QED BY <1>7, <1>8 DEF ClockInv, PressEnabled, OnSlot

\* Only a press whose time came before it was written can put the row behind.
LEMMA WriteKeeps ==
    ASSUME ClockInv, NEW o \in Pressers, WriteEnabled(o)
    PROVE  ClockInv'
<1>1. pressed' \in [Pressers -> Presses]
  BY DEF ClockInv, WriteEnabled, Unpressed, Presses
<1>2. \A p \in Pressers : pressed'[p].on => pressed'[p] = pressed[p]
  BY DEF ClockInv, WriteEnabled, Unpressed
<1>3. pressed[o] \in Presses /\ pressed[o].on
  BY DEF ClockInv, WriteEnabled
<1>4. /\ nextRun' \in Int /\ OnSlot(nextRun')
      /\ ~tardy' => nextRun' > claimed
  <2>1. CASE nextRun' = pressed[o].next /\ pressed[o].enable
             /\ tardy' = (tardy \/ pressed[o].next \in pressed[o].at + 1..minute)
    <3>1. OnSlot(nextRun') /\ pressed[o].next \in Int /\ pressed[o].at \in Int
          /\ pressed[o].next > pressed[o].at
      BY <1>3, <2>1 DEF ClockInv, Presses
    <3>2. ~tardy' => pressed[o].next \notin pressed[o].at + 1..minute
      BY <2>1
    <3> QED BY <2>1, <3>1, <3>2 DEF ClockInv
  <2>2. CASE UNCHANGED <<nextRun, tardy>>
    BY <2>2 DEF ClockInv
  <2> QED BY <2>1, <2>2 DEF WriteEnabled
<1> QED BY <1>1, <1>2, <1>4 DEF ClockInv, WriteEnabled, OnSlot

LEMMA ClockStep == ASSUME ClockInv, [ClockNext]_clockVars PROVE ClockInv'
<1>1. CASE UNCHANGED clockVars
  BY <1>1 DEF clockVars, ClockInv, OnSlot
<1>2. CASE MinutePasses \/ PausedByTurn
  BY <1>2 DEF MinutePasses, PausedByTurn, ClockInv, OnSlot
<1> QED BY <1>1, <1>2, ClaimKeeps, PressKeeps, WriteKeeps DEF ClockNext

LEMMA ClockPart == ASSUME [ConsoleNext]_consoleVars PROVE [ClockNext]_clockVars
BY DEF ConsoleNext, Rest, consoleVars

LEMMA ClockHolds == ASSUME ClockInv PROVE SlotsKept
<1>1. PICK k \in Int : nextRun = first + k * Every
  BY DEF ClockInv, OnSlot
<1>2. k * Every \in Int /\ nextRun - first = k * Every
  BY <1>1, ScheduleClockAssumption DEF ClockInv
<1>3. (k * Every) % Every = 0
  BY MultipleMod, ScheduleClockAssumption
<1> QED BY <1>2, <1>3 DEF ClockInv, SlotsKept

\* Whatever is missed, paused or pressed by two operators at once, a schedule is
\* due at whole intervals from its first time and never for a time that was
\* claimed, for every interval (advance, claim_due, set_schedule_enabled).
THEOREM SlotsAreKept == ConsoleSpec => []SlotsKept
<1>1. ConsoleInit => ClockInv
  BY ClockStarts DEF ConsoleInit
<1>2. ClockInv /\ [ConsoleNext]_consoleVars => ClockInv'
  BY ClockPart, ClockStep
<1>3. ClockInv => SlotsKept
  BY ClockHolds
<1> QED BY <1>1, <1>2, <1>3, PTL DEF ConsoleSpec

-----------------------------------------------------------------------------
(* Sessions.                                                               *)

Cookies == [iat : Int, seen : Int, chg : BOOLEAN, none : BOOLEAN]
Answers == [sets : {"landed", "token", "delete", "nothing", "refresh"}, token : Cookies,
            late : BOOLEAN, change : BOOLEAN]

\* Nothing was issued after a password was last accepted; a change of password
\* under way has left nobody to be asked for one.
SessionInv ==
    /\ now \in Int /\ proved \in Int
    /\ account.mustChange \in BOOLEAN
    /\ cookie \in Cookies
    /\ flight \in [Tabs -> Answers]
    /\ cookie.none \/ cookie.iat <= proved
    /\ \A t \in Tabs :
          /\ ~flight[t].late
          /\ flight[t].token.none \/ flight[t].token.iat <= proved
          /\ flight[t].sets = "refresh" => ~flight[t].token.none
          /\ flight[t].change =>
                flight[t].sets = "token" /\ ~flight[t].token.chg /\ ~account.mustChange
          /\ settled => ~flight[t].token.chg
    /\ proved <= now
    /\ settled => ~cookie.chg /\ ~account.mustChange

LEMMA SessionStarts == ASSUME SessionInit PROVE SessionInv
<1>1. NoCookie \in Cookies /\ NoCookie.none
  BY DEF Cookies, NoCookie
<1>2. /\ Landed \in Answers /\ ~Landed.late /\ ~Landed.change
      /\ Landed.token = NoCookie /\ Landed.sets = "landed"
  BY <1>1 DEF Answers, Landed
<1> QED BY <1>1, <1>2 DEF SessionInit, SessionInv, Temporary

\* A handler leaves the cookie to the answer it prepares.
LEMMA AnswerKeeps ==
    ASSUME SessionInv, NEW t \in Tabs, NEW a \in Answers,
           flight' = [flight EXCEPT ![t] = a],
           UNCHANGED <<now, cookie, settled>>,
           proved' \in {proved, now},
           account'.mustChange \in BOOLEAN,
           account'.mustChange => account.mustChange,
           ~a.late,
           a.token.none \/ a.token.iat <= proved',
           a.sets = "refresh" => ~a.token.none,
           a.change => a.sets = "token" /\ ~a.token.chg /\ ~account'.mustChange,
           settled => ~a.token.chg
    PROVE  SessionInv'
<1>1. flight' \in [Tabs -> Answers] /\ \A u \in Tabs : flight'[u] = IF u = t THEN a ELSE flight[u]
  BY DEF SessionInv
<1>2. proved' \in Int /\ proved' <= now /\ proved <= proved'
  BY DEF SessionInv
<1>3. \A u \in Tabs : flight[u] \in Answers /\ flight[u].token \in Cookies
  BY DEF SessionInv, Answers
<1>4. a.token \in Cookies
  BY DEF Answers
<1>5. \A c \in Cookies : c.iat \in Int
  BY DEF Cookies
<1>6. cookie.none \/ cookie.iat <= proved'
  BY <1>2, <1>5 DEF SessionInv
<1>7. \A u \in Tabs : flight'[u].token.none \/ flight'[u].token.iat <= proved'
  BY <1>1, <1>2, <1>3, <1>5 DEF SessionInv
<1> QED BY <1>1, <1>2, <1>6, <1>7 DEF SessionInv

LEMMA RefusalKeeps ==
    ASSUME SessionInv, NEW t \in Tabs, NEW sets \in {"delete", "nothing"},
           flight' = [flight EXCEPT ![t] = SessionAnswer(sets, NoCookie, FALSE)],
           UNCHANGED <<now, cookie, settled, account>>, proved' \in {proved, now}
    PROVE  SessionInv'
<1> DEFINE a == SessionAnswer(sets, NoCookie, FALSE)
<1>1. NoCookie \in Cookies /\ NoCookie.none /\ ~NoCookie.chg
  BY DEF Cookies, NoCookie
<1>2. a \in Answers /\ a.sets = sets /\ a.token = NoCookie /\ ~a.late /\ ~a.change
  BY <1>1 DEF SessionAnswer, Answers
<1> HIDE DEF a
<1>3. flight' = [flight EXCEPT ![t] = a]
  BY DEF a
<1> QED BY <1>1, <1>2, <1>3, AnswerKeeps DEF SessionInv

LEMMA IssuedToken ==
    ASSUME SessionInv, NEW mustChange \in BOOLEAN
    PROVE  LET token == Cookie(Issue(mustChange)) IN
           /\ token \in Cookies /\ token.iat = now /\ ~token.none
           /\ token.chg <=> mustChange
BY DEF SessionInv, Cookie, Issue, Cookies

LEMMA LoginKeeps ==
    ASSUME SessionInv, NEW t \in Tabs, NEW p, Login(t, p)
    PROVE  SessionInv'
<1>1. CASE Accepts(p)
  <2> DEFINE token == Cookie(Issue(account.mustChange))
             a == SessionAnswer("token", token, FALSE)
  <2>1. /\ token \in Cookies /\ token.iat = now /\ ~token.none
        /\ token.chg <=> account.mustChange
    BY IssuedToken DEF SessionInv
  <2> HIDE DEF token
  <2>2. a \in Answers /\ a.sets = "token" /\ a.token = token /\ ~a.late /\ ~a.change
    BY <2>1 DEF SessionAnswer, Answers
  <2>3. /\ flight' = [flight EXCEPT ![t] = a]
        /\ proved' = now /\ UNCHANGED <<now, account, cookie, settled>>
    BY <1>1 DEF Login, token
  <2> HIDE DEF a
  <2>4. proved' \in {proved, now} /\ a.token.iat <= proved' /\ account'.mustChange \in BOOLEAN
    BY <2>1, <2>2, <2>3 DEF SessionInv
  <2>5. settled => ~a.token.chg
    BY <2>1, <2>2 DEF SessionInv
  <2>6. a.sets # "refresh"
    BY <2>2
  <2> QED BY <2>2, <2>3, <2>4, <2>5, <2>6, AnswerKeeps
<1>2. CASE ~Accepts(p)
  BY <1>2, RefusalKeeps DEF Login, SessionRefused
<1> QED BY <1>1, <1>2

\* A cookie still good was issued no longer ago than the password was accepted.
LEMMA VerifiedInTime ==
    ASSUME SessionInv, Verified(cookie)
    PROVE  ~Late /\ ~cookie.none
BY SessionAssumption DEF SessionInv, Verified, Late, Cookies

LEMMA ChangeKeeps ==
    ASSUME SessionInv, NEW t \in Tabs, NEW current, NEW new, ChangePassword(t, current, new)
    PROVE  SessionInv'
<1>1. CASE Accepts(current) /\ new # current
  <2> DEFINE token == Cookie(Issue(FALSE))
             a == ChangeAnswer("token", token)
  <2>1. /\ token \in Cookies /\ token.iat = now /\ ~token.none /\ ~token.chg
    BY IssuedToken
  <2> HIDE DEF token
  <2>2. /\ a \in Answers /\ a.sets = "token" /\ a.token = token /\ (a.late <=> Late) /\ a.change
    <3>1. Late \in BOOLEAN
      BY DEF Late
    <3> QED BY <2>1, <3>1 DEF ChangeAnswer, SessionAnswer, Answers
  <2>3. /\ flight' = [flight EXCEPT ![t] = a]
        /\ proved' = now /\ UNCHANGED <<now, cookie, settled>>
        /\ account' = [password |-> new, mustChange |-> FALSE]
    BY <1>1 DEF ChangePassword, ChangedAnswer, token
  <2>4. ~a.late
    BY <2>2, VerifiedInTime DEF ChangePassword
  <2>5. ~account'.mustChange /\ account'.mustChange \in BOOLEAN
    BY <2>3
  <2> HIDE DEF a
  <2>6. proved' \in {proved, now} /\ a.token.iat <= proved'
    BY <2>1, <2>2, <2>3 DEF SessionInv
  <2>7. ~a.token.chg /\ a.sets # "refresh"
    BY <2>1, <2>2
  <2> QED BY <2>2, <2>3, <2>4, <2>5, <2>6, <2>7, AnswerKeeps
<1>2. CASE ~(Accepts(current) /\ new # current)
  BY <1>2, RefusalKeeps DEF ChangePassword, SessionRefused
<1> QED BY <1>1, <1>2

LEMMA UseKeeps ==
    ASSUME SessionInv, NEW t \in Tabs, NEW path, Use(t, path)
    PROVE  SessionInv'
<1>1. CASE Verified(cookie) /\ ~Gated(cookie, path)
  <2> DEFINE a == SessionAnswer("refresh", cookie, Late)
  <2>1. ~Late /\ ~cookie.none /\ cookie \in Cookies
    BY <1>1, VerifiedInTime DEF SessionInv
  <2>2. a \in Answers /\ a.sets = "refresh" /\ a.token = cookie /\ (a.late <=> Late) /\ ~a.change
    <3>1. Late \in BOOLEAN
      BY DEF Late
    <3> QED BY <2>1, <3>1 DEF SessionAnswer, Answers
  <2>3. flight' = [flight EXCEPT ![t] = a] /\ UNCHANGED <<now, account, cookie, proved, settled>>
    BY <1>1 DEF Use
  <2> HIDE DEF a
  <2> QED BY <2>1, <2>2, <2>3, AnswerKeeps DEF SessionInv
<1>2. CASE ~(Verified(cookie) /\ ~Gated(cookie, path))
  BY <1>2, RefusalKeeps DEF Use, SessionRefused
<1> QED BY <1>1, <1>2

LEMMA ArriveKeeps ==
    ASSUME SessionInv, NEW t \in Tabs, Arrive(t)
    PROVE  SessionInv'
<1>1. /\ flight[t] \in Answers /\ flight[t].token \in Cookies
      /\ flight' = [flight EXCEPT ![t] = Landed]
      /\ UNCHANGED <<now, account, proved>>
  BY DEF SessionInv, Arrive, Answers
<1>2. NoCookie \in Cookies /\ NoCookie.none /\ ~NoCookie.chg
  BY DEF Cookies, NoCookie
<1>3. /\ Landed \in Answers /\ ~Landed.late /\ ~Landed.change
      /\ Landed.token = NoCookie /\ Landed.sets = "landed"
  BY <1>2 DEF Answers, Landed
<1>4. /\ flight' \in [Tabs -> Answers]
      /\ \A u \in Tabs : flight'[u] = IF u = t THEN Landed ELSE flight[u]
  BY <1>1, <1>3 DEF SessionInv
<1> DEFINE slid == Cookie(Refresh(flight[t].token))
<1>5. /\ slid \in Cookies /\ slid.iat = flight[t].token.iat /\ slid.chg = flight[t].token.chg
      /\ ~slid.none
  BY <1>1 DEF SessionInv, Cookies, Cookie, Refresh
<1>6. \/ flight[t].sets = "token" /\ cookie' = flight[t].token
      \/ flight[t].sets # "token" /\ cookie' = NoCookie
      \/ flight[t].sets = "refresh" /\ cookie' = slid
      \/ flight[t].sets # "token" /\ cookie' = cookie
  BY <1>1 DEF Arrive, Answers
<1> HIDE DEF slid
<1>7. cookie' \in Cookies /\ (cookie'.none \/ cookie'.iat <= proved')
  BY <1>1, <1>2, <1>5, <1>6 DEF SessionInv
<1>8. settled' => \/ settled
                  \/ flight[t].change /\ \A u \in Tabs \ {t} : flight[u] = Landed
  BY DEF Arrive
<1>9. settled' => ~cookie'.chg /\ ~account'.mustChange
  <2>1. CASE settled
    BY <1>1, <1>2, <1>5, <1>6, <2>1 DEF SessionInv
  <2>2. CASE flight[t].change
    BY <1>1, <1>6, <2>2 DEF SessionInv
  <2> QED BY <1>8, <2>1, <2>2
<1>10. settled' => \A u \in Tabs : ~flight'[u].token.chg
  BY <1>2, <1>3, <1>4, <1>8 DEF SessionInv
<1>11. \A u \in Tabs :
          /\ ~flight'[u].late
          /\ flight'[u].token.none \/ flight'[u].token.iat <= proved
          /\ flight'[u].sets = "refresh" => ~flight'[u].token.none
          /\ flight'[u].change =>
                flight'[u].sets = "token" /\ ~flight'[u].token.chg /\ ~account.mustChange
  BY <1>2, <1>3, <1>4 DEF SessionInv
<1> QED BY <1>1, <1>4, <1>7, <1>9, <1>10, <1>11 DEF SessionInv

LEMMA AroundKeeps == ASSUME SessionInv, Advance \/ ApiRestart PROVE SessionInv'
<1>1. CASE Advance
  BY <1>1 DEF Advance, SessionInv
<1>2. CASE ApiRestart
  <2>1. NoCookie \in Cookies /\ NoCookie.none
    BY DEF Cookies, NoCookie
  <2>2. /\ Landed \in Answers /\ ~Landed.late /\ ~Landed.change
        /\ Landed.token = NoCookie /\ Landed.sets = "landed"
    BY <2>1 DEF Answers, Landed
  <2>3. account'.mustChange \in BOOLEAN
    <3>1. Temporary.mustChange \in BOOLEAN
      BY DEF Temporary
    <3> QED BY <1>2, <3>1 DEF ApiRestart, SessionInv
  <2> QED BY <1>2, <2>1, <2>2, <2>3 DEF ApiRestart, SessionInv
<1> QED BY <1>1, <1>2

LEMMA SessionStep == ASSUME SessionInv, [SessionNext]_sessionVars PROVE SessionInv'
<1>1. CASE UNCHANGED sessionVars
  BY <1>1 DEF sessionVars, SessionInv
<1>2. ASSUME NEW t \in Tabs, Logout(t) PROVE SessionInv'
  BY <1>2, RefusalKeeps DEF Logout
<1> QED BY <1>1, <1>2, LoginKeeps, ChangeKeeps, UseKeeps, ArriveKeeps, AroundKeeps
        DEF SessionNext

LEMMA SessionPart == ASSUME [ConsoleNext]_consoleVars PROVE [SessionNext]_sessionVars
BY DEF ConsoleNext, Rest, consoleVars

\* Answers that arrive in any order never move the deadline of a session nor put
\* a browser back behind the gate it has left, for every number of requests under
\* way and every timeout (slide_session, change_password, SessionCodec.refresh).
THEOREM SessionsHold == ConsoleSpec => []SessionHolds
<1>1. ConsoleInit => SessionInv
  BY SessionStarts DEF ConsoleInit
<1>2. SessionInv /\ [ConsoleNext]_consoleVars => SessionInv'
  BY SessionPart, SessionStep
<1>3. SessionInv => SessionHolds
  BY DEF SessionInv, SessionHolds, DeadlineHolds, ChangeStands
<1> QED BY <1>1, <1>2, <1>3, PTL DEF ConsoleSpec

-----------------------------------------------------------------------------
(* The configuration scan.                                                 *)

LEMMA MoreThanOne ==
    ASSUME NEW T, IsFiniteSet(T)
    PROVE  Cardinality(T) > 1 <=> \E a, b \in T : a # b
<1>1. Cardinality(T) \in Nat
  BY FS_CardinalityType
<1>2. ASSUME NEW a \in T, NEW b \in T, a # b PROVE Cardinality(T) > 1
  <2>1. Cardinality(T) # 0
    BY FS_EmptySet
  <2>2. Cardinality(T) # 1
    BY <1>2, FS_Singleton
  <2> QED BY <1>1, <2>1, <2>2
<1>3. ASSUME Cardinality(T) > 1 PROVE \E a, b \in T : a # b
  <2>1. PICK a \in T : TRUE
    BY <1>1, <1>3, FS_EmptySet
  <2>2. T # {a}
    BY <1>1, <1>3, FS_Singleton
  <2> QED BY <2>1, <2>2
<1> QED BY <1>2, <1>3

Lines == {Line(h, t) : h \in Inventory, t \in Readings} \union {Unreadable}
Founds == UNION {[hosts -> Readings] : hosts \in SUBSET Inventory}
Scans == [on : BOOLEAN, left : SUBSET Inventory, lines : SUBSET Lines, failed : BOOLEAN,
          found : Founds]

TextsOf(lines, role) == {n.text : n \in Peers(lines, role)}

\* The lines are those of the hosts that were read, and every host visited and
\* not read shows, in a line of its own or in the exit status.
Accounts(s) ==
    /\ \A h \in DOMAIN s.found : Line(h, s.found[h]) \in s.lines
    /\ \A n \in s.lines : n.readable => \E h \in DOMAIN s.found : n = Line(h, s.found[h])
    /\ DOMAIN s.found \intersect s.left = {}
    /\ ~s.failed => (Unreadable \in s.lines <=> Inventory # s.left \union DOMAIN s.found)
    /\ \A role \in {"coordinator", "worker"} : IsFiniteSet(TextsOf(s.lines, role))

ScanInv ==
    /\ etc \in [Inventory -> Readings]
    /\ scan \in Scans
    /\ IF scan.on THEN Accounts(scan) ELSE scan.left = {}
    /\ ScanTellsTruth

LEMMA LineFields ==
    ASSUME NEW h, NEW t
    PROVE  /\ Line(h, t).host = h /\ Line(h, t).role = RoleOf(h) /\ Line(h, t).text = t
           /\ Line(h, t).readable /\ ~Unreadable.readable /\ Line(h, t) # Unreadable
<1>1. Line(h, t).readable /\ ~Unreadable.readable
  BY DEF Line, Unreadable
<1> QED BY <1>1 DEF Line

LEMMA TextsGrow ==
    ASSUME NEW lines, NEW n, NEW role, IsFiniteSet(TextsOf(lines, role))
    PROVE  IsFiniteSet(TextsOf(lines \union {n}, role))
<1>1. IsFiniteSet(TextsOf(lines, role) \union {n.text})
  BY FS_AddElement
<1>2. TextsOf(lines \union {n}, role) \subseteq TextsOf(lines, role) \union {n.text}
  BY DEF TextsOf, Peers
<1> QED BY <1>1, <1>2, FS_Subset

LEMMA FoundGrows ==
    ASSUME NEW found \in Founds, NEW h \in Inventory, NEW t \in Readings,
           NEW more, more = [g \in DOMAIN found \union {h} |-> IF g = h THEN t ELSE found[g]]
    PROVE  more \in Founds
<1>1. PICK hosts \in SUBSET Inventory : found \in [hosts -> Readings]
  BY DEF Founds
<1>2. more \in [hosts \union {h} -> Readings]
  BY <1>1
<1>3. hosts \union {h} \in SUBSET Inventory
  BY <1>1
<1> QED BY <1>2, <1>3 DEF Founds

LEMMA EmptyScan ==
    ASSUME NEW s \in Scans, s.lines = {}, s.found = <<>>, ~s.failed => s.left = Inventory
    PROVE  Accounts(s)
<1>1. DOMAIN s.found = {}
  BY DEF Scans
<1>2. \A role : TextsOf(s.lines, role) = {}
  BY DEF TextsOf, Peers
<1> QED BY <1>1, <1>2, FS_EmptySet DEF Accounts

LEMMA NothingFound == <<>> \in Founds
<1>1. <<>> \in [{} -> Readings]
  OBVIOUS
<1> QED BY <1>1 DEF Founds

LEMMA ScanStarts == ASSUME ScanInit PROVE ScanInv
<1>1. NotScanning \in Scans /\ ~NotScanning.on /\ NotScanning.left = {}
  BY NothingFound DEF NotScanning, Scans
<1>3. comparison.error
  BY DEF ScanInit, NeverScanned
<1> QED BY <1>1, <1>3 DEF ScanInit, ScanInv, ScanTellsTruth

LEMMA VisitKeeps ==
    ASSUME ScanInv, NEW h \in Inventory, Visit(h)
    PROVE  ScanInv'
<1>1. /\ scan \in Scans /\ h \in scan.left /\ etc[h] \in Readings
      /\ scan.found \in Founds /\ scan.left \subseteq Inventory /\ scan.lines \subseteq Lines
      /\ UNCHANGED <<etc, development, comparison>>
  BY DEF ScanInv, Visit, Scans
<1>6. scan.on /\ Accounts(scan)
  BY <1>1 DEF ScanInv
<1>2. h \notin DOMAIN scan.found
  BY <1>1, <1>6 DEF Accounts
<1>3. CASE scan' = [scan EXCEPT !.left = @ \ {h}, !.lines = @ \union {Line(h, etc[h])},
                                !.found = WithNode(h)]
  <2>1. /\ WithNode(h) \in Founds
        /\ DOMAIN WithNode(h) = DOMAIN scan.found \union {h}
        /\ \A g \in DOMAIN WithNode(h) : WithNode(h)[g] = IF g = h THEN etc[h] ELSE scan.found[g]
    BY <1>1, FoundGrows DEF WithNode
  <2>2. Line(h, etc[h]) \in Lines
    BY <1>1 DEF Lines
  <2>3. /\ scan' \in Scans /\ scan'.on
        /\ scan'.left = scan.left \ {h} /\ scan'.lines = scan.lines \union {Line(h, etc[h])}
        /\ scan'.found = WithNode(h) /\ scan'.failed = scan.failed
    BY <1>1, <1>6, <1>3, <2>1, <2>2 DEF Scans
  <2>4. \A g \in DOMAIN scan'.found : Line(g, scan'.found[g]) \in scan'.lines
    BY <1>6, <1>2, <2>1, <2>3 DEF Accounts
  <2>5. \A n \in scan'.lines : n.readable => \E g \in DOMAIN scan'.found : n = Line(g, scan'.found[g])
    BY <1>6, <1>2, <2>1, <2>3 DEF Accounts
  <2>6. Unreadable \in scan'.lines <=> Unreadable \in scan.lines
    BY <2>3, LineFields
  <2>7. scan'.left \union DOMAIN scan'.found = scan.left \union DOMAIN scan.found
    BY <1>1, <2>1, <2>3
  <2>8. \A role \in {"coordinator", "worker"} : IsFiniteSet(TextsOf(scan'.lines, role))
    BY <1>6, <2>3, TextsGrow DEF Accounts
  <2>9. DOMAIN scan'.found \intersect scan'.left = {}
    BY <1>6, <2>1, <2>3 DEF Accounts
  <2>10. Accounts(scan')
    BY <1>6, <2>3, <2>4, <2>5, <2>6, <2>7, <2>8, <2>9 DEF Accounts
  <2> QED BY <1>1, <2>3, <2>10 DEF ScanInv, ScanTellsTruth, Agree, Findings
<1>4. CASE scan' = [scan EXCEPT !.left = @ \ {h}, !.lines = @ \union {Unreadable}]
  <2>1. /\ scan' \in Scans /\ scan'.on
        /\ scan'.left = scan.left \ {h} /\ scan'.lines = scan.lines \union {Unreadable}
        /\ scan'.found = scan.found /\ scan'.failed = scan.failed
    <3>1. Unreadable \in Lines
      BY DEF Lines
    <3> QED BY <1>1, <1>6, <1>4, <3>1 DEF Scans
  <2>2. \A n \in scan'.lines : n.readable => \E g \in DOMAIN scan'.found : n = Line(g, scan'.found[g])
    BY <1>6, <2>1, LineFields DEF Accounts
  <2>3. h \notin scan'.left \union DOMAIN scan'.found
    BY <1>2, <2>1
  <2>4. \A role \in {"coordinator", "worker"} : IsFiniteSet(TextsOf(scan'.lines, role))
    BY <1>6, <2>1, TextsGrow DEF Accounts
  <2>5. Accounts(scan')
    BY <1>6, <2>1, <2>2, <2>3, <2>4 DEF Accounts
  <2> QED BY <1>1, <2>1, <2>5 DEF ScanInv, ScanTellsTruth, Agree, Findings
<1>5. CASE scan' = [scan EXCEPT !.left = @ \ {h}, !.failed = TRUE]
  <2>1. /\ scan' \in Scans /\ scan'.on /\ scan'.failed
        /\ scan'.left = scan.left \ {h} /\ scan'.lines = scan.lines
        /\ scan'.found = scan.found
    BY <1>1, <1>6, <1>5 DEF Scans
  <2>2. Accounts(scan')
    BY <1>6, <2>1 DEF Accounts
  <2> QED BY <1>1, <2>1, <2>2 DEF ScanInv, ScanTellsTruth, Agree, Findings
<1> QED BY <1>3, <1>4, <1>5 DEF Visit

\* The snapshot of a scan that came to its end and has no error is the truth.
LEMMA EndTellsTruth ==
    ASSUME NEW s \in Scans, Accounts(s), s.left = {}, ~s.failed
    PROVE  Agree(Parsed(s.lines)) <=>
               /\ development \/ DOMAIN s.found = Inventory
               /\ \A g, h \in DOMAIN s.found :
                     RoleOf(g) = RoleOf(h) => s.found[g] = s.found[h]
<1>1. /\ \A n \in s.lines : ~n.readable => n = Unreadable
      /\ DOMAIN s.found \subseteq Inventory
  <2>1. s.lines \subseteq Lines
    BY DEF Scans
  <2>2. \A n \in Lines : ~n.readable => n = Unreadable
    BY LineFields DEF Lines
  <2>3. s.found \in Founds
    BY DEF Scans
  <2> QED BY <2>1, <2>2, <2>3 DEF Founds
<1>2. (\E n \in s.lines : ~n.readable) <=> DOMAIN s.found # Inventory
  BY <1>1, LineFields DEF Accounts
<1>3. \A role : \A a : a \in TextsOf(s.lines, role) <=>
          \E h \in DOMAIN s.found : RoleOf(h) = role /\ a = s.found[h]
  BY LineFields DEF TextsOf, Peers, Accounts
<1>4. RoleFindings(s.lines) = {} <=>
          \A g, h \in DOMAIN s.found : RoleOf(g) = RoleOf(h) => s.found[g] = s.found[h]
  <2>1. \A role \in {"coordinator", "worker"} :
            Cardinality(TextsOf(s.lines, role)) > 1 <=>
            \E a, b \in TextsOf(s.lines, role) : a # b
    BY MoreThanOne DEF Accounts
  <2>2. RoleFindings(s.lines) = {} <=>
            \A role \in {"coordinator", "worker"} :
                ~\E a, b \in TextsOf(s.lines, role) : a # b
    BY <2>1 DEF RoleFindings, TextsOf
  <2>3. \A h : RoleOf(h) \in {"coordinator", "worker"}
    BY DEF RoleOf
  <2>4. \A role \in {"coordinator", "worker"} :
            (\E a, b \in TextsOf(s.lines, role) : a # b) <=>
            \E g, h \in DOMAIN s.found :
                RoleOf(g) = role /\ RoleOf(h) = role /\ s.found[g] # s.found[h]
    <3> SUFFICES ASSUME NEW role
                 PROVE  (\E a, b \in TextsOf(s.lines, role) : a # b) <=>
                        \E g, h \in DOMAIN s.found :
                            RoleOf(g) = role /\ RoleOf(h) = role /\ s.found[g] # s.found[h]
      OBVIOUS
    <3>1. \A a : a \in TextsOf(s.lines, role) <=>
              \E h \in DOMAIN s.found : RoleOf(h) = role /\ a = s.found[h]
      BY <1>3
    <3>2. ASSUME NEW g \in DOMAIN s.found, RoleOf(g) = role
          PROVE  s.found[g] \in TextsOf(s.lines, role)
      BY <3>1, <3>2
    <3> QED BY <3>1, <3>2
  <2>5. (\E role \in {"coordinator", "worker"} : \E g, h \in DOMAIN s.found :
             RoleOf(g) = role /\ RoleOf(h) = role /\ s.found[g] # s.found[h])
        <=> \E g, h \in DOMAIN s.found : RoleOf(g) = RoleOf(h) /\ s.found[g] # s.found[h]
    BY <2>3
  <2> QED BY <2>2, <2>4, <2>5
<1>5. RoleFindings(s.lines) \subseteq {"coordinator", "worker"}
  BY DEF RoleFindings
<1> QED BY <1>2, <1>4, <1>5 DEF Agree, Findings, Parsed

LEMMA ScanStep == ASSUME ScanInv, [ScanNext]_scanVars PROVE ScanInv'
<1>1. CASE UNCHANGED scanVars
  BY <1>1 DEF scanVars, ScanInv, ScanTellsTruth, Agree, Findings
<1>2. ASSUME NEW h \in Inventory, EditHost(h) PROVE ScanInv'
  <2>1. etc' \in [Inventory -> Readings] /\ UNCHANGED <<development, scan, comparison>>
    BY <1>2 DEF EditHost, ScanInv
  <2> QED BY <2>1 DEF ScanInv, ScanTellsTruth, Agree, Findings
<1>3. CASE StartScan
  <2> DEFINE s == [NotScanning EXCEPT !.on = TRUE, !.left = Inventory]
  <2>1. s \in Scans /\ s.on /\ s.lines = {} /\ s.found = <<>> /\ s.left = Inventory
    BY NothingFound DEF NotScanning, Scans
  <2>2. scan' = s /\ UNCHANGED <<etc, development, comparison>>
    BY <1>3 DEF StartScan
  <2> HIDE DEF s
  <2>3. Accounts(s)
    BY <2>1, EmptyScan
  <2> QED BY <2>1, <2>2, <2>3 DEF ScanInv, ScanTellsTruth, Agree, Findings
<1>4. CASE ScanTimesOut
  <2>1. scan' = [scan EXCEPT !.left = {}, !.failed = TRUE] /\ UNCHANGED <<etc, development, comparison>>
    BY <1>4 DEF ScanTimesOut
  <2>4. scan.on /\ Accounts(scan)
    BY <1>4 DEF ScanTimesOut, ScanInv
  <2>2. /\ scan' \in Scans /\ scan'.failed /\ scan'.left = {} /\ scan'.on
        /\ scan'.lines = scan.lines /\ scan'.found = scan.found
    BY <2>1, <2>4 DEF ScanInv, Scans
  <2>3. Accounts(scan')
    BY <2>2, <2>4 DEF Accounts
  <2> QED BY <2>1, <2>2, <2>3 DEF ScanInv, ScanTellsTruth, Agree, Findings
<1>5. NotScanning \in Scans /\ ~NotScanning.on /\ NotScanning.left = {}
  BY NothingFound DEF NotScanning, Scans
<1>6. CASE EndScan
  <2>1. /\ scan \in Scans /\ Accounts(scan) /\ scan.left = {}
        /\ scan' = NotScanning /\ UNCHANGED <<etc, development>>
    BY <1>6 DEF EndScan, ScanInv
  <2>2. CASE UNCHANGED comparison
    BY <1>5, <2>1, <2>2 DEF ScanInv, ScanTellsTruth, Agree, Findings
  <2>3. CASE comparison' = Snapshot(scan)
    <3>1. /\ comparison'.nodes = Parsed(scan.lines) /\ comparison'.found = scan.found
          /\ ~comparison'.error => ~scan.failed
      BY <2>3 DEF Snapshot
    <3>2. ScanTellsTruth'
      BY <2>1, <3>1, EndTellsTruth DEF ScanTellsTruth, Agree, Findings
    <3> QED BY <1>5, <2>1, <3>2 DEF ScanInv
  <2> QED BY <1>6, <2>2, <2>3 DEF EndScan
<1>7. CASE ScanForgotten
  BY <1>5, <1>7 DEF ScanForgotten, ScanInv, ScanTellsTruth, Agree, Findings
<1> QED BY <1>1, <1>2, <1>3, <1>4, <1>6, <1>7, VisitKeeps DEF ScanNext

LEMMA ScanPart == ASSUME [ConsoleNext]_consoleVars PROVE [ScanNext]_scanVars
BY DEF ConsoleNext, Rest, consoleVars

\* Nodes are shown to agree exactly when every host was read, or the cluster is
\* a development one, and the hosts of a role held the same text when they were
\* read: whatever cannot be read, times out or is edited meanwhile, for any
\* inventory (_scan_now, parse_scan, compare).
THEOREM ScansTellTruth == ConsoleSpec => []ScanTellsTruth
<1>1. ConsoleInit => ScanInv
  BY ScanStarts DEF ConsoleInit
<1>2. ScanInv /\ [ConsoleNext]_consoleVars => ScanInv'
  BY ScanPart, ScanStep
<1>3. ScanInv => ScanTellsTruth
  BY DEF ScanInv
<1> QED BY <1>1, <1>2, <1>3, PTL DEF ConsoleSpec

-----------------------------------------------------------------------------
(* Resource groups as they run.                                            *)

Collections == [on : BOOLEAN, left : SUBSET GroupPaths, read : SUBSET GroupPaths,
                failed : SUBSET GroupPaths, seen : SUBSET GroupPaths]

\* A snapshot without an error misses no group that was there to be seen.
SnapshotHonest(s) ==
    /\ s.groups \subseteq GroupPaths
    /\ ~s.there => s.groups = {}
    /\ s.there /\ ~s.error => s.groups = s.seen

\* A screen read once shows what it read of the store and of the snapshot.
ShownTold(o) ==
    /\ \A g \in DOMAIN o.rows : o.rows[g] = "idle" => o.live.there
    /\ o.live.groups = {g \in DOMAIN o.rows : o.rows[g] = "running"} \union o.unmanaged

Screen(at, kept, rows_, unmanaged, live) ==
    [at |-> at, configured |-> kept, rows |-> rows_, unmanaged |-> unmanaged, live |-> live]

IsScreen(o) == \E at, kept, r, u, live : o = Screen(at, kept, r, u, live)

WorkloadInv ==
    /\ admitted \subseteq GroupPaths /\ mbeans \subseteq GroupPaths
    /\ collection \in Collections
    /\ collection.seen = collection.left \union collection.read \union collection.failed
    /\ SnapshotHonest(liveSnap)
    /\ IsScreen(opened)
    /\ ShownTold(opened)

LEMMA NothingLive == SnapshotHonest(NoLive)
BY DEF SnapshotHonest, NoLive

LEMMA NothingShown ==
    ASSUME NEW o, o.rows = <<>>, o.unmanaged = {}, o.live = NoLive
    PROVE  ShownTold(o)
<1>1. DOMAIN o.rows = {}
  OBVIOUS
<1> QED BY <1>1 DEF ShownTold, NoLive

LEMMA WorkloadStarts == ASSUME WorkloadInit PROVE WorkloadInv
<1>1. opened = Screen("closed", <<>>, <<>>, {}, NoLive)
  BY DEF WorkloadInit, Closed, Screen
<1>2. opened.rows = <<>> /\ opened.unmanaged = {} /\ opened.live = NoLive
  BY <1>1 DEF Screen
<1>3. /\ NoCollection \in Collections /\ NoCollection.seen = {} /\ NoCollection.left = {}
      /\ NoCollection.read = {} /\ NoCollection.failed = {}
  BY DEF NoCollection, Collections
<1>4. IsScreen(opened)
  BY <1>1 DEF IsScreen
<1> QED BY <1>2, <1>3, <1>4, NothingLive, NothingShown DEF WorkloadInit, WorkloadInv

\* A step that leaves the poll, the snapshot and the screens alone.
LEMMA CoordinatorKeeps ==
    ASSUME WorkloadInv, UNCHANGED <<collection, liveSnap, opened>>,
           admitted' \subseteq GroupPaths, mbeans' \subseteq GroupPaths
    PROVE  WorkloadInv'
BY DEF WorkloadInv, ShownTold, SnapshotHonest

LEMMA ListKeeps == ASSUME WorkloadInv, ListGroups PROVE WorkloadInv'
<1>1. UNCHANGED <<admitted, mbeans, opened>>
  BY DEF ListGroups
<1>2. CASE /\ collection' = [NoCollection EXCEPT !.on = TRUE, !.left = mbeans, !.seen = mbeans]
           /\ UNCHANGED liveSnap
  <2>1. /\ collection' \in Collections /\ collection'.seen = mbeans /\ collection'.left = mbeans
        /\ collection'.read = {} /\ collection'.failed = {}
    BY <1>2 DEF NoCollection, Collections, WorkloadInv
  <2> QED BY <1>1, <1>2, <2>1 DEF WorkloadInv
<1>3. CASE /\ liveSnap' = [NoLive EXCEPT !.there = TRUE, !.error = TRUE, !.seen = mbeans]
           /\ UNCHANGED collection
  <2>1. liveSnap'.groups = {} /\ liveSnap'.error
    BY <1>3 DEF NoLive
  <2> QED BY <1>1, <1>3, <2>1 DEF WorkloadInv, SnapshotHonest
<1> QED BY <1>2, <1>3 DEF ListGroups

LEMMA ReadKeeps ==
    ASSUME WorkloadInv, NEW g \in GroupPaths, ReadGroup(g)
    PROVE  WorkloadInv'
<1>1. /\ g \in collection.left /\ collection \in Collections
      /\ UNCHANGED <<admitted, mbeans, liveSnap, opened>>
  BY DEF ReadGroup, WorkloadInv
<1>2. \/ collection' = [collection EXCEPT !.left = @ \ {g}, !.read = @ \union {g}]
      \/ collection' = [collection EXCEPT !.left = @ \ {g}, !.failed = @ \union {g}]
  BY DEF ReadGroup, ReadFails
<1>3. /\ collection' \in Collections
      /\ collection'.seen = collection.seen /\ collection'.left = collection.left \ {g}
      /\ \/ collection'.read = collection.read \union {g} /\ collection'.failed = collection.failed
         \/ collection'.failed = collection.failed \union {g} /\ collection'.read = collection.read
  BY <1>1, <1>2 DEF Collections
<1> QED BY <1>1, <1>3 DEF WorkloadInv

\* What was listed was read or is among the failures by the time it is saved.
LEMMA SnapshotKeeps == ASSUME WorkloadInv, SaveGroups PROVE WorkloadInv'
<1>1. /\ collection.left = {} /\ collection' = NoCollection
      /\ UNCHANGED <<admitted, mbeans, opened>>
  BY DEF SaveGroups
<1>2. /\ NoCollection \in Collections /\ NoCollection.seen = {} /\ NoCollection.left = {}
      /\ NoCollection.read = {} /\ NoCollection.failed = {}
  BY DEF NoCollection, Collections
<1>3. SnapshotHonest(liveSnap')
  <2>1. CASE UNCHANGED liveSnap
    BY <2>1 DEF WorkloadInv
  <2>2. CASE liveSnap' = [there |-> TRUE, groups |-> collection.read, failed |-> collection.failed,
                          seen |-> collection.seen, error |-> collection.failed # {}]
    <3>1. /\ liveSnap'.there /\ liveSnap'.groups = collection.read
          /\ liveSnap'.seen = collection.seen /\ (liveSnap'.error <=> collection.failed # {})
      BY <2>2
    <3>2. collection.read \subseteq GroupPaths
      BY DEF WorkloadInv, Collections
    <3>3. collection.seen = collection.read \union collection.failed
      BY <1>1 DEF WorkloadInv
    <3> QED BY <3>1, <3>2, <3>3 DEF SnapshotHonest
  <2> QED BY <2>1, <2>2 DEF SaveGroups
<1> QED BY <1>1, <1>2, <1>3 DEF WorkloadInv

LEMMA OthersKept ==
    ASSUME WorkloadInv, UNCHANGED <<admitted, mbeans, collection, liveSnap>>,
           IsScreen(opened'), ShownTold(opened')
    PROVE  WorkloadInv'
<1>1. SnapshotHonest(liveSnap')
  BY DEF WorkloadInv
<1> QED BY <1>1 DEF WorkloadInv

LEMMA ScreenKeeps == ASSUME WorkloadInv, OpenConfig \/ ShowConfig PROVE WorkloadInv'
<1>1. CASE OpenConfig
  <2>1. opened' = Screen("reading", configured, <<>>, {}, NoLive)
    BY <1>1 DEF OpenConfig, Closed, Screen
  <2>2. opened'.rows = <<>> /\ opened'.unmanaged = {} /\ opened'.live = NoLive
    BY <2>1 DEF Screen
  <2>3. IsScreen(opened')
    BY <2>1 DEF IsScreen
  <2> QED BY <1>1, <2>2, <2>3, NothingShown, OthersKept DEF OpenConfig
<1>2. CASE ShowConfig
  <2> DEFINE kept == opened.configured
             shown == [g \in DOMAIN kept |-> StatusOf(kept[g], g, liveSnap)]
             unmanaged == liveSnap.groups \ DOMAIN kept
  <2>1. opened' = Screen("open", kept, shown, unmanaged, liveSnap)
    <3>1. PICK at, s, r, u, live : opened = Screen(at, s, r, u, live)
      BY DEF WorkloadInv, IsScreen
    <3>2. kept = s
      BY <3>1 DEF Screen
    <3>3. opened' = [opened EXCEPT !.at = "open", !.live = liveSnap, !.rows = shown,
                                   !.unmanaged = unmanaged]
      BY <1>2 DEF ShowConfig
    <3> HIDE DEF shown, unmanaged, kept
    <3> QED BY <3>1, <3>2, <3>3 DEF Screen
  <2>2. /\ opened'.rows = shown /\ opened'.unmanaged = unmanaged /\ opened'.live = liveSnap
    <3> HIDE DEF shown, unmanaged, kept
    <3> QED BY <2>1 DEF Screen
  <2>3. \A g \in DOMAIN kept :
          /\ shown[g] = "idle" => liveSnap.there /\ g \notin liveSnap.groups
          /\ shown[g] = "running" <=> liveSnap.there /\ g \in liveSnap.groups
    BY DEF StatusOf
  <2>4. DOMAIN shown = DOMAIN kept
    OBVIOUS
  <2>5. SnapshotHonest(liveSnap)
    BY DEF WorkloadInv
  <2>6. ShownTold(opened')
    <3> HIDE DEF shown, kept
    <3> QED BY <2>2, <2>3, <2>4, <2>5 DEF ShownTold, SnapshotHonest
  <2>7. IsScreen(opened')
    <3> HIDE DEF shown, unmanaged, kept
    <3> QED BY <2>1 DEF IsScreen
  <2>8. UNCHANGED <<admitted, mbeans, collection, liveSnap>>
    BY <1>2 DEF ShowConfig
  <2> HIDE DEF shown, unmanaged, kept
  <2> QED BY <2>6, <2>7, <2>8, OthersKept
<1> QED BY <1>1, <1>2

LEMMA WorkloadStep == ASSUME WorkloadInv, [WorkloadNext]_workloadVars PROVE WorkloadInv'
<1>1. CASE UNCHANGED workloadVars
  BY <1>1 DEF workloadVars, WorkloadInv
<1>2. ASSUME NEW g \in GroupPaths, Admit(g) PROVE WorkloadInv'
  <2>1. admitted' \subseteq GroupPaths /\ mbeans' \subseteq GroupPaths
    BY <1>2 DEF Admit, WorkloadInv
  <2> QED BY <1>2, <2>1, CoordinatorKeeps DEF Admit
<1>3. CASE CoordinatorRestarts \/ CoordinatorRefreshes \/ EditStore
  <2>1. admitted' \subseteq GroupPaths /\ mbeans' \subseteq GroupPaths
    BY <1>3 DEF CoordinatorRestarts, CoordinatorRefreshes, EditStore, WorkloadInv
  <2> QED BY <1>3, <2>1, CoordinatorKeeps
          DEF CoordinatorRestarts, CoordinatorRefreshes, EditStore
<1> QED BY <1>1, <1>2, <1>3, ListKeeps, ReadKeeps, SnapshotKeeps, ScreenKeeps DEF WorkloadNext

LEMMA WorkloadPart == ASSUME [ConsoleNext]_consoleVars PROVE [WorkloadNext]_workloadVars
BY DEF ConsoleNext, Rest, consoleVars

\* In the tree every group hangs in one place.
LEMMA OncePlaced ==
    ASSUME NEW tree, tree \subseteq GroupPaths, NEW g \in tree
    PROVE  Cardinality({h \in tree : g \in Children(h, tree)})
               + (IF g \in Roots(tree) THEN 1 ELSE 0) = 1
<1>1. g \in Seq(STRING) /\ g # <<>>
  BY WorkloadAssumption
<1>2. Len(g) \in Nat /\ Len(g) >= 1
  BY <1>1
<1>3. Len(g) = 1 => Parent(g) = <<>>
  BY <1>1 DEF Parent
<1>4. <<>> \notin tree
  BY WorkloadAssumption
<1>5. {h \in tree : g \in Children(h, tree)}
          = IF Len(g) > 1 /\ Parent(g) \in tree THEN {Parent(g)} ELSE {}
  BY DEF Children
<1>6. ASSUME Parent(g) \in tree PROVE Len(g) > 1
  <2>1. Len(g) # 1
    BY <1>3, <1>4, <1>6, Zenon
  <2>2. \A n \in Nat : n >= 1 /\ n # 1 => n > 1
    OBVIOUS
  <2> QED BY <1>2, <2>1, <2>2, Zenon
<1>7. CASE Parent(g) \in tree
  <2>1. {h \in tree : g \in Children(h, tree)} = {Parent(g)} /\ g \notin Roots(tree)
    BY <1>5, <1>6, <1>7 DEF Roots
  <2> QED BY <2>1, FS_Singleton
<1>8. CASE Parent(g) \notin tree
  <2>1. {h \in tree : g \in Children(h, tree)} = {} /\ g \in Roots(tree)
    BY <1>5, <1>8 DEF Roots
  <2> QED BY <2>1, FS_EmptySet
<1> QED BY <1>7, <1>8

\* A poll that reports no error has missed no group, none is called idle before a
\* poll, and none that was read is left off a screen or shown twice: for any tree
\* of groups and any changes of it during the poll (collect, reconcile,
\* build_tree).
THEOREM WorkloadIsTold == ConsoleSpec => []WorkloadTold
<1>1. ConsoleInit => WorkloadInv
  BY WorkloadStarts DEF ConsoleInit
<1>2. WorkloadInv /\ [ConsoleNext]_consoleVars => WorkloadInv'
  BY WorkloadPart, WorkloadStep
<1>3. WorkloadInv => WorkloadTold
  BY OncePlaced DEF WorkloadInv, WorkloadTold, ShownTold, SnapshotHonest
<1> QED BY <1>1, <1>2, <1>3, PTL DEF ConsoleSpec

-----------------------------------------------------------------------------
(* Query sets.                                                             *)

OneEach(rows_) == \A q, r \in rows_ : q.name = r.name => q = r

RunRows == [queries : SUBSET Rows, left : SUBSET Rows, timed : SUBSET Rows,
            state : {"starting", "RUNNING", "ended"}]

\* A run measured what it was handed, and nothing the allowlist refuses; of one
\* without a copy that cannot be seen.
CopyKept(run) ==
    /\ OneEach(run.queries)
    /\ run.left \subseteq run.queries
    /\ HasCopy(run) => run.timed \subseteq run.queries
    /\ \A q \in run.timed : Allowed(q.sql)

EditsTyped(e) ==
    /\ DOMAIN e = Editors
    /\ \A f \in Editors : e[f] = NoOne \/ (e[f].name \in Names /\ e[f].sql \in Statements)

\* A name stands for one statement in the set and in each copy of it.
SetInv ==
    /\ queries \subseteq Rows /\ OneEach(queries)
    /\ EditsTyped(edit)
    /\ runs \in Seq(RunRows)
    /\ \A i \in DOMAIN runs : CopyKept(runs[i])

LEMMA RowFields ==
    /\ \A q \in Rows : q.name \in Names /\ q.sql \in Statements
    /\ \A q, r \in Rows : q.name = r.name /\ q.sql = r.sql => q = r
    /\ \A n \in Names, t \in Statements :
          /\ [name |-> n, sql |-> t] \in Rows
          /\ [name |-> n, sql |-> t].name = n /\ [name |-> n, sql |-> t].sql = t
BY DEF Rows

LEMMA SetStarts == ASSUME SetInit PROVE SetInv
<1>1. PICK n \in Names, t \in Versions : t # RefusedText
  BY QuerySetsAssumption
<1>2. \E q \in Rows : Allowed(q.sql)
  BY <1>1, RowFields DEF Allowed, Statements
<1>3. (CHOOSE q \in Rows : Allowed(q.sql)) \in Rows
  BY <1>2
<1>4. queries \subseteq Rows /\ OneEach(queries)
  BY <1>3 DEF SetInit, OneEach
<1>5. runs \in Seq(RunRows) /\ \A i \in DOMAIN runs : CopyKept(runs[i])
  <2>1. CASE runs = <<>>
    BY <2>1
  <2>2. ASSUME NEW q \in Rows, Allowed(q.sql), runs = <<OldRun(q)>>
        PROVE  runs \in Seq(RunRows) /\ \A i \in DOMAIN runs : CopyKept(runs[i])
    <3>1. OldRun(q) \in RunRows
      BY DEF OldRun, RunRows
    <3>2. CopyKept(OldRun(q))
      BY <2>2 DEF OldRun, CopyKept, OneEach, HasCopy
    <3>3. DOMAIN runs = {1} /\ runs[1] = OldRun(q)
      BY <2>2
    <3>4. runs \in Seq(RunRows)
      BY <2>2, <3>1
    <3> QED BY <3>2, <3>3, <3>4
  <2> QED BY <2>1, <2>2 DEF SetInit
<1>6. EditsTyped(edit)
  <2>1. edit = [e \in Editors |-> NoOne]
    BY DEF SetInit
  <2>2. DOMAIN edit = Editors
    BY <2>1
  <2>3. \A f \in Editors : edit[f] = NoOne
    BY <2>1
  <2> QED BY <2>2, <2>3, Zenon DEF EditsTyped
<1> QED BY <1>4, <1>5, <1>6 DEF SetInv

\* A step that writes the set and leaves the runs alone.
LEMMA SetWritesKeep ==
    ASSUME SetInv, UNCHANGED runs, queries' \subseteq Rows, OneEach(queries'),
           UNCHANGED edit \/ \E e \in Editors : edit' = [edit EXCEPT ![e] = NoOne]
    PROVE  SetInv'
<1>1. EditsTyped(edit')
  <2>1. EditsTyped(edit)
    BY DEF SetInv
  <2>2. CASE UNCHANGED edit
    BY <2>1, <2>2
  <2>3. CASE \E e \in Editors : edit' = [edit EXCEPT ![e] = NoOne]
    <3>1. PICK e \in Editors : edit' = [edit EXCEPT ![e] = NoOne]
      BY <2>3
    <3>2. DOMAIN edit' = Editors
      BY <2>1, <3>1 DEF EditsTyped
    <3>3. \A f \in Editors : edit'[f] = NoOne \/ edit'[f] = edit[f]
      BY <2>1, <3>1 DEF EditsTyped
    <3>4. \A f \in Editors : edit'[f] = NoOne
                            \/ (edit'[f].name \in Names /\ edit'[f].sql \in Statements)
      BY <2>1, <3>3, Zenon DEF EditsTyped
    <3> QED BY <3>2, <3>4, Zenon DEF EditsTyped
  <2> QED BY <2>2, <2>3
<1>2. runs' \in Seq(RunRows) /\ \A i \in DOMAIN runs' : CopyKept(runs'[i])
  BY DEF SetInv
<1> QED BY <1>1, <1>2 DEF SetInv

LEMMA SavedQueryKeeps ==
    ASSUME SetInv, NEW e \in Editors, SaveQuery(e)
    PROVE  SetInv'
<1> DEFINE q == edit[e]
           others == queries \ Named(queries, q.from)
           new == [name |-> q.name, sql |-> q.sql]
<1>1. CASE UNCHANGED queries
  BY <1>1, SetWritesKeep DEF SaveQuery, SetInv
<1>2. CASE NameFree(others, q.name) /\ queries' = others \union {new}
  <2>1. q.name \in Names /\ q.sql \in Statements
    BY DEF SaveQuery, SetInv, EditsTyped
  <2>2. new \in Rows /\ new.name = q.name
    BY <2>1, RowFields
  <2>3. others \subseteq Rows /\ OneEach(others)
    BY DEF SetInv, OneEach
  <2>4. \A r \in others : r.name # q.name
    BY <1>2 DEF NameFree, Named
  <2>5. queries' \subseteq Rows /\ OneEach(queries')
    <3> HIDE DEF others, new
    <3> QED BY <1>2, <2>2, <2>3, <2>4 DEF OneEach
  <2> QED BY <2>5, SetWritesKeep DEF SaveQuery
<1> QED BY <1>1, <1>2 DEF SaveQuery

LEMMA OtherWritesKeep ==
    ASSUME SetInv,
           \/ \E name \in Names : DeleteQuery(name)
           \/ DeleteQuerySet
           \/ \E name \in Names, sql \in Versions : CreateQuerySet(name, sql)
           \/ \E q \in queries, sql \in Statements : ChangedByHand(q, sql)
    PROVE  SetInv'
<1>1. CASE \E name \in Names : DeleteQuery(name)
  <2>1. queries' \subseteq queries /\ UNCHANGED <<edit, runs>>
    BY <1>1 DEF DeleteQuery, Without
  <2>2. queries' \subseteq Rows /\ OneEach(queries')
    BY <2>1 DEF SetInv, OneEach
  <2> QED BY <2>1, <2>2, SetWritesKeep
<1>2. CASE DeleteQuerySet
  BY <1>2, SetWritesKeep DEF DeleteQuerySet, OneEach
<1>3. CASE \E name \in Names, sql \in Versions : CreateQuerySet(name, sql)
  <2>1. PICK name \in Names, sql \in Versions : CreateQuerySet(name, sql)
    BY <1>3
  <2>2. queries' = {} \/ queries' = {[name |-> name, sql |-> sql]}
    BY <2>1 DEF CreateQuerySet
  <2>3. [name |-> name, sql |-> sql] \in Rows
    BY RowFields DEF Statements
  <2>4. queries' \subseteq Rows /\ OneEach(queries')
    BY <2>2, <2>3 DEF OneEach
  <2> QED BY <2>1, <2>4, SetWritesKeep DEF CreateQuerySet
<1>4. CASE \E q \in queries, sql \in Statements : ChangedByHand(q, sql)
  <2>1. PICK q \in queries, sql \in Statements : ChangedByHand(q, sql)
    BY <1>4
  <2> DEFINE new == [q EXCEPT !.sql = sql]
  <2>2. q \in Rows /\ queries \subseteq Rows /\ OneEach(queries)
    BY DEF SetInv
  <2>3. new \in Rows /\ new.name = q.name
    BY <2>2 DEF Rows
  <2>4. queries' = (queries \ {q}) \union {new}
    BY <2>1 DEF ChangedByHand
  <2>5. queries' \subseteq Rows /\ OneEach(queries')
    <3> HIDE DEF new
    <3> QED BY <2>2, <2>3, <2>4 DEF OneEach
  <2> QED BY <2>1, <2>5, SetWritesKeep DEF ChangedByHand
<1> QED BY <1>1, <1>2, <1>3, <1>4

LEMMA CheckedQueryKeeps ==
    ASSUME SetInv, NEW e \in Editors, NEW name \in Names, NEW sql \in Statements,
           NEW from, CheckQuery(e, name, sql, from)
    PROVE  SetInv'
<1>1. edit' = [edit EXCEPT ![e] = [name |-> name, sql |-> sql, from |-> from]]
      /\ UNCHANGED <<queries, runs>>
  BY DEF CheckQuery
<1>2. EditsTyped(edit')
  <2> DEFINE q == [name |-> name, sql |-> sql, from |-> from]
  <2>1. q.name \in Names /\ q.sql \in Statements /\ EditsTyped(edit)
    BY DEF SetInv
  <2> HIDE DEF q
  <2>2. edit' = [edit EXCEPT ![e] = q]
    BY <1>1 DEF q
  <2> QED BY <2>1, <2>2 DEF EditsTyped
<1> QED BY <1>1, <1>2 DEF SetInv, CopyKept, HasCopy

\* One run changes, or one is added.
LEMMA RunsKeep ==
    ASSUME SetInv, UNCHANGED <<queries, edit>>,
           runs' \in Seq(RunRows), \A i \in DOMAIN runs' : CopyKept(runs'[i])
    PROVE  SetInv'
BY DEF SetInv

LEMMA StartedRunKeeps == ASSUME SetInv, StartRun PROVE SetInv'
<1> DEFINE new == [queries |-> queries, left |-> queries, timed |-> {}, state |-> "starting"]
<1>1. new \in RunRows /\ new.queries = queries /\ new.left = queries /\ new.timed = {}
  BY DEF RunRows, SetInv
<1>2. CopyKept(new)
  <2> HIDE DEF new
  <2> QED BY <1>1 DEF CopyKept, SetInv, HasCopy
<1>3. runs \in Seq(RunRows) /\ runs' = Append(runs, new) /\ UNCHANGED <<queries, edit>>
  BY DEF StartRun, SetInv
<1>4. \A i \in DOMAIN runs : CopyKept(runs[i])
  BY DEF SetInv
<1> HIDE DEF new
<1>5. runs' \in Seq(RunRows) /\ \A i \in DOMAIN runs' : runs'[i] = new \/ (i \in DOMAIN runs /\ runs'[i] = runs[i])
  <2>1. runs' \in Seq(RunRows) /\ Len(runs') = Len(runs) + 1 /\ Len(runs) \in Nat
    BY <1>1, <1>3
  <2>2. \A i \in 1..Len(runs) : runs'[i] = runs[i]
    BY <1>1, <1>3
  <2>3. runs'[Len(runs) + 1] = new
    BY <1>1, <1>3
  <2>4. DOMAIN runs' = 1..Len(runs) + 1 /\ DOMAIN runs = 1..Len(runs)
    BY <1>3, <2>1
  <2>5. \A i \in DOMAIN runs' : i = Len(runs) + 1 \/ i \in DOMAIN runs
    BY <2>1, <2>4
  <2>6. \A i \in DOMAIN runs' : runs'[i] = new \/ (i \in DOMAIN runs /\ runs'[i] = runs[i])
    BY <2>2, <2>3, <2>4, <2>5, Zenon
  <2> QED BY <2>1, <2>6
<1> QED BY <1>2, <1>3, <1>4, <1>5, RunsKeep

LEMMA RunStepKeeps ==
    ASSUME SetInv, NEW i \in DOMAIN runs, RecordRun(i) \/ Execute(i) \/ EndRun(i)
    PROVE  SetInv'
<1>1. runs \in Seq(RunRows) /\ runs[i] \in RunRows /\ CopyKept(runs[i])
  BY DEF SetInv
<1>2. UNCHANGED <<queries, edit>>
  BY DEF RecordRun, Execute, EndRun
<1>3. \E row \in RunRows : runs' = [runs EXCEPT ![i] = row] /\ CopyKept(row)
  <2>1. CASE RecordRun(i)
    <3> DEFINE row == [runs[i] EXCEPT !.state = "RUNNING"]
    <3>1. row \in RunRows /\ CopyKept(row) /\ runs' = [runs EXCEPT ![i] = row]
      BY <1>1, <2>1 DEF RecordRun, RunRows, CopyKept, HasCopy
    <3> QED BY <3>1
  <2>2. CASE EndRun(i)
    <3> DEFINE row == [runs[i] EXCEPT !.state = "ended"]
    <3>1. row \in RunRows /\ CopyKept(row) /\ runs' = [runs EXCEPT ![i] = row]
      BY <1>1, <2>2 DEF EndRun, RunRows, CopyKept, HasCopy
    <3> QED BY <3>1
  <2>3. CASE Execute(i)
    <3>1. PICK q \in runs[i].left, good \in BOOLEAN :
              runs' = [runs EXCEPT ![i].left = @ \ {q}, ![i].timed =
                  IF good /\ Allowed(Executed(q).sql) THEN @ \union {Executed(q)} ELSE @]
      BY <2>3 DEF Execute
    <3> DEFINE timed == IF good /\ Allowed(q.sql) THEN runs[i].timed \union {q} ELSE runs[i].timed
               row == [runs[i] EXCEPT !.left = @ \ {q}, !.timed = timed]
    <3>2. q \in runs[i].queries /\ q \in Rows /\ HasCopy(runs[i])
      BY <1>1 DEF CopyKept, RunRows, HasCopy
    <3>3. timed \subseteq runs[i].queries /\ timed \in SUBSET Rows /\ \A r \in timed : Allowed(r.sql)
      BY <1>1, <3>2 DEF CopyKept, RunRows
    <3>4. runs' = [runs EXCEPT ![i] = row]
      BY <1>1, <3>1 DEF Executed, RunRows
    <3> HIDE DEF timed
    <3>5. row \in RunRows /\ row.queries = runs[i].queries /\ row.left \subseteq runs[i].left
          /\ row.timed = timed
      BY <1>1, <3>3 DEF RunRows
    <3> HIDE DEF row
    <3>6. CopyKept(row)
      BY <1>1, <3>3, <3>5 DEF CopyKept
    <3> QED BY <3>4, <3>5, <3>6
  <2> QED BY <2>1, <2>2, <2>3
<1>4. PICK row \in RunRows : runs' = [runs EXCEPT ![i] = row] /\ CopyKept(row)
  BY <1>3
<1>5. runs' \in Seq(RunRows) /\ \A j \in DOMAIN runs' : j \in DOMAIN runs /\ (runs'[j] = row \/ runs'[j] = runs[j])
  BY <1>1, <1>4
<1>6. \A j \in DOMAIN runs : CopyKept(runs[j])
  BY DEF SetInv
<1> QED BY <1>2, <1>4, <1>5, <1>6, RunsKeep

LEMMA SetStep == ASSUME SetInv, [SetNext]_setVars PROVE SetInv'
<1>1. CASE UNCHANGED setVars
  <2>1. UNCHANGED <<queries, edit, runs>>
    BY <1>1 DEF setVars
  <2> QED BY <2>1 DEF SetInv, CopyKept, HasCopy
<1> QED BY <1>1, SavedQueryKeeps, OtherWritesKeep, CheckedQueryKeeps, StartedRunKeeps,
           RunStepKeeps DEF SetNext

\* What a run timed is the statement its copy has under the name.
LEMMA TimedIsNamed ==
    ASSUME SetInv, NEW i \in DOMAIN runs, HasCopy(runs[i]), NEW name \in Names,
           NEW r \in Named(runs[i].timed, name)
    PROVE  /\ r \in Rows /\ r.name = name /\ r.sql \in Statements /\ Allowed(r.sql)
           /\ StatementIn(runs[i], name) = r.sql
           /\ r \in Named(runs[i].queries, name)
<1>1. runs[i] \in RunRows /\ CopyKept(runs[i])
  BY DEF SetInv
<1>2. /\ r \in runs[i].queries /\ r.name = name /\ Allowed(r.sql)
      /\ runs[i].queries \subseteq Rows /\ OneEach(runs[i].queries)
  BY <1>1 DEF CopyKept, Named, RunRows
<1>3. r \in Rows /\ r.sql \in Statements /\ [name |-> name, sql |-> r.sql] = r
  BY <1>2 DEF Rows
<1>4. \A t \in Statements : [name |-> name, sql |-> t] \in runs[i].queries => t = r.sql
  BY <1>2, RowFields DEF OneEach
<1>5. StatementIn(runs[i], name) = r.sql
  BY <1>2, <1>3, <1>4 DEF StatementIn
<1> QED BY <1>2, <1>3, <1>5 DEF Named

\* Of runs that kept their statements, a difference without the mark is between
\* two executions of one statement, and the history of a query marks exactly
\* those of another one, for any number of queries, runs and editors, and whatever
\* runs without a copy are among them (save_query, _edited_between,
\* query_history).
THEOREM MarksTellStatements == ConsoleSpec => []UnmarkedIsOneStatement
<1>1. ConsoleInit => SetInv
  BY SetStarts DEF ConsoleInit
<1>2. SetInv /\ [ConsoleNext]_consoleVars => SetInv'
  <2>1. [ConsoleNext]_consoleVars => [SetNext]_setVars
    BY DEF ConsoleNext, Rest, consoleVars
  <2> QED BY <2>1, SetStep
<1>3. SetInv => UnmarkedIsOneStatement
  <2> SUFFICES ASSUME SetInv PROVE UnmarkedIsOneStatement
    OBVIOUS
  <2>1. ASSUME NEW i \in DOMAIN runs, NEW j \in DOMAIN runs, NEW name \in Names,
               HasCopy(runs[i]), HasCopy(runs[j]),
               name \notin EditedBetween(runs[i], runs[j]),
               NEW r \in Named(runs[i].timed, name), NEW s \in Named(runs[j].timed, name)
        PROVE  r.sql = s.sql /\ Allowed(r.sql)
    <3>1. /\ StatementIn(runs[i], name) = r.sql /\ r \in Named(runs[i].queries, name)
          /\ StatementIn(runs[j], name) = s.sql /\ s \in Named(runs[j].queries, name)
          /\ Allowed(r.sql)
      BY <2>1, TimedIsNamed
    <3>2. KnowsStatement(runs[i], name) /\ KnowsStatement(runs[j], name)
      BY <3>1 DEF KnowsStatement
    <3> QED BY <2>1, <3>1, <3>2 DEF EditedBetween
  <2>2. ASSUME NEW i \in DOMAIN runs, NEW q \in queries, HasCopy(runs[i]),
               HasTime(runs[i], q.name)
        PROVE  Differs(runs[i], q) <=> q \notin runs[i].timed
    <3>1. q \in Rows /\ q.name \in Names
      BY RowFields DEF SetInv
    <3>2. PICK r : r \in Named(runs[i].timed, q.name)
      BY <2>2 DEF HasTime
    <3>3. /\ r \in Rows /\ r.name = q.name /\ r \in runs[i].timed
          /\ StatementIn(runs[i], q.name) = r.sql /\ KnowsStatement(runs[i], q.name)
      BY <2>2, <3>1, <3>2, TimedIsNamed DEF Named, KnowsStatement
    <3>4. q \in runs[i].timed => StatementIn(runs[i], q.name) = q.sql
      BY <2>2, <3>1, TimedIsNamed DEF Named
    <3> QED BY <3>1, <3>3, <3>4, RowFields DEF Differs
  <2> QED BY <2>1, <2>2 DEF UnmarkedIsOneStatement
<1> QED BY <1>1, <1>2, <1>3, PTL DEF ConsoleSpec

-----------------------------------------------------------------------------
(* The work board.                                                         *)

ItemRows == [key : Nat, status : Statuses, by : Members, events : Seq(Moves)]
Asked == [pc : {"idle", "create", "update", "event"}, key : Nat, before : Statuses, to : Statuses]

\* Where its events leave an item, and whether they hang together.
EndOf(i) == IF Len(i.events) = 0 THEN "planned" ELSE i.events[Len(i.events)].to

Chained(i) ==
    /\ Len(i.events) > 0 => i.events[1].from = "planned"
    /\ \A n \in 1..Len(i.events) - 1 : i.events[n].to = i.events[n + 1].from

MovesOn(m, key) == request[m].pc \in {"update", "event"} /\ request[m].key = key

\* At most one move is under way, and it knows where the events leave the item.
Remembered(i) ==
    /\ Chained(i)
    /\ \A m, n \in Members : MovesOn(m, i.key) /\ MovesOn(n, i.key) => m = n
    /\ \A m \in Members : MovesOn(m, i.key) =>
          /\ request[m].before = EndOf(i)
          /\ i.status = IF request[m].pc = "event" THEN request[m].to ELSE EndOf(i)
    /\ (\A m \in Members : ~MovesOn(m, i.key)) => i.status = EndOf(i)

Numbered ==
    /\ items \subseteq ItemRows /\ IsFiniteSet(items)
    /\ \A i, j \in items : i.key = j.key => i = j
    /\ KeysTaken = 1..Cardinality(items) /\ Cardinality(items) <= MaxItems

\* A number that was read and not given is the next one still.
BoardInv ==
    /\ Numbered
    /\ request \in [Members -> Asked]
    /\ \A m \in Members : request[m].pc = "create" =>
          request[m].key \in 1..Cardinality(items) + 1 /\ request[m].key <= MaxItems
    /\ \A m \in Members : request[m].pc \in {"update", "event"} => request[m].key \in KeysTaken
    /\ \A i \in items : i.key \notin blurred => Remembered(i)

LEMMA NothingIsAsked == Nothing \in Asked /\ Nothing.pc = "idle"
BY BoardAssumption DEF Nothing, Asked

LEMMA ItemCount == ASSUME Numbered PROVE Cardinality(items) \in Nat
BY FS_CardinalityType DEF Numbered

LEMMA KeyedItem ==
    ASSUME Numbered, NEW k \in KeysTaken
    PROVE  Keyed(k) \in items /\ Keyed(k).key = k /\ Keyed(k) \in ItemRows
BY DEF Numbered, Keyed, KeysTaken

LEMMA TheNextKey == ASSUME Numbered PROVE NextKey = Cardinality(items) + 1
<1> DEFINE size == Cardinality(items)
<1>1. size \in Nat /\ size <= MaxItems /\ MaxItems \in Nat /\ KeysTaken = 1..size
  BY ItemCount, BoardAssumption DEF Numbered
<1> HIDE DEF size
<1>2. size + 1 \in 1..MaxItems + 1 /\ KeysTaken \subseteq 1..(size + 1) - 1
      /\ (size + 1 = 1 \/ (size + 1) - 1 \in KeysTaken)
  BY <1>1
<1>3. ASSUME NEW k \in 1..MaxItems + 1, KeysTaken \subseteq 1..k - 1, k = 1 \/ k - 1 \in KeysTaken
      PROVE  k = size + 1
  <2>1. k \in Nat /\ k >= 1 /\ k - 1 <= size
    BY <1>1, <1>3
  <2>2. size <= k - 1
    <3>1. CASE size = 0
      BY <2>1, <3>1
    <3>2. CASE size > 0
      <4>1. size \in 1..k - 1
        BY <1>1, <1>3, <3>2
      <4> QED BY <1>1, <2>1, <4>1
    <3> QED BY <1>1, <3>1, <3>2
  <2> QED BY <1>1, <2>1, <2>2
<1> QED BY <1>2, <1>3 DEF NextKey, size

\* An item is replaced by one of the same number.
LEMMA PutKeeps ==
    ASSUME Numbered, NEW k \in KeysTaken, NEW new \in ItemRows, new.key = k, Put(k, new)
    PROVE  /\ Numbered' /\ KeysTaken' = KeysTaken /\ Cardinality(items') = Cardinality(items)
           /\ \A i \in items' : i = new \/ (i \in items /\ i.key # k)
<1> DEFINE old == Keyed(k)
           rest == items \ {old}
<1>1. old \in items /\ old.key = k
  BY KeyedItem
<1>2. items' = rest \union {new} /\ items = rest \union {old} /\ old \notin rest
  BY <1>1 DEF Put
<1>3. \A i \in rest : i.key # k /\ i \in items
  BY <1>1 DEF Numbered
<1>4. new \notin rest
  BY <1>3
<1>5. IsFiniteSet(items) /\ IsFiniteSet(rest)
  BY FS_Subset DEF Numbered
<1>6. /\ Cardinality(items) = Cardinality(rest) + 1 /\ IsFiniteSet(items')
      /\ Cardinality(items') = Cardinality(rest) + 1
  <2> HIDE DEF rest, old
  <2> QED BY <1>2, <1>4, <1>5, FS_AddElement
<1> HIDE DEF rest, old
<1>7. KeysTaken' = KeysTaken
  BY <1>1, <1>2 DEF KeysTaken
<1>8. /\ items' \subseteq ItemRows
      /\ \A i, j \in items' : i.key = j.key => i = j
  BY <1>2, <1>3 DEF Numbered
<1>9. \A i \in items' : i = new \/ (i \in items /\ i.key # k)
  BY <1>2, <1>3
<1> QED BY <1>6, <1>7, <1>8, <1>9 DEF Numbered

\* What a request does elsewhere leaves an item alone.
LEMMA RememberedStill ==
    ASSUME NEW i, Remembered(i), request \in [Members -> Asked], NEW m \in Members, NEW q \in Asked,
           request' = [request EXCEPT ![m] = q], ~MovesOn(m, i.key),
           q.pc \notin {"update", "event"} \/ q.key # i.key
    PROVE  Remembered(i)'
<1>1. \A n \in Members : IF n = m THEN ~MovesOn(n, i.key) /\ ~MovesOn(n, i.key)'
                         ELSE request'[n] = request[n]
  BY DEF MovesOn
<1>2. \A n \in Members : MovesOn(n, i.key)' => MovesOn(n, i.key) /\ request'[n] = request[n]
  BY <1>1 DEF MovesOn
<1>3. \A n \in Members : MovesOn(n, i.key) => MovesOn(n, i.key)'
  BY <1>1 DEF MovesOn
<1> QED BY <1>2, <1>3 DEF Remembered

\* A request that is over, or has not moved anything yet.
LEMMA RequestKeeps ==
    ASSUME BoardInv, NEW m \in Members, NEW q \in Asked, Asks(m, q), UNCHANGED items,
           blurred \subseteq blurred',
           q.pc \notin {"update", "event"},
           q.pc = "create" => q.key \in 1..Cardinality(items) + 1 /\ q.key <= MaxItems,
           \A i \in items : i.key \notin blurred' => i.status = EndOf(i) \/ ~MovesOn(m, i.key)
    PROVE  BoardInv'
<1>1. request \in [Members -> Asked] /\ request' = [request EXCEPT ![m] = q]
  BY DEF BoardInv, Asks
<1>2. request' \in [Members -> Asked] /\ request'[m] = q
      /\ \A n \in Members \ {m} : request'[n] = request[n]
  BY <1>1
<1>3. Numbered' /\ KeysTaken' = KeysTaken
  BY DEF BoardInv, Numbered, KeysTaken
<1>4. ASSUME NEW i \in items, i.key \notin blurred' PROVE Remembered(i)'
  <2>1. Remembered(i)
    BY <1>4 DEF BoardInv
  <2>2. CASE ~MovesOn(m, i.key)
    BY <1>1, <2>1, <2>2, RememberedStill
  <2>3. CASE MovesOn(m, i.key) /\ i.status = EndOf(i)
    <3>1. \A n \in Members : ~MovesOn(n, i.key)'
      <4>1. \A n \in Members \ {m} : ~MovesOn(n, i.key)
        BY <2>1, <2>3 DEF Remembered
      <4> QED BY <1>2, <4>1 DEF MovesOn
    <3> QED BY <2>1, <2>3, <3>1 DEF Remembered
  <2> QED BY <1>4, <2>2, <2>3
<1>5. \A n \in Members :
          /\ request'[n].pc = "create" =>
                request'[n].key \in 1..Cardinality(items') + 1 /\ request'[n].key <= MaxItems
          /\ request'[n].pc \in {"update", "event"} => request'[n].key \in KeysTaken'
  <2>1. ASSUME NEW n \in Members \ {m}
        PROVE  /\ request'[n].pc = "create" =>
                     request'[n].key \in 1..Cardinality(items') + 1 /\ request'[n].key <= MaxItems
               /\ request'[n].pc \in {"update", "event"} => request'[n].key \in KeysTaken'
    BY <1>2, <1>3 DEF BoardInv
  <2> QED BY <1>2, <2>1
<1>6. \A i \in items' : i.key \notin blurred' => Remembered(i)'
  BY <1>4
<1>7. Numbered'
  BY <1>3
<1>8. request' \in [Members -> Asked]
  BY <1>2
<1> QED BY <1>5, <1>6, <1>7, <1>8 DEF BoardInv

LEMMA RaiseKeeps == ASSUME BoardInv, NEW m \in Members, RaiseRequest(m) PROVE BoardInv'
<1> DEFINE q == [Nothing EXCEPT !.pc = "create", !.key = NextKey]
<1>1. NextKey = Cardinality(items) + 1 /\ NextKey <= MaxItems
  BY TheNextKey DEF BoardInv, RaiseRequest
<1>2. Cardinality(items) \in Nat
  BY ItemCount DEF BoardInv
<1>3. NextKey \in 1..Cardinality(items) + 1 /\ NextKey \in Nat
  BY <1>1, <1>2
<1>4. q \in Asked /\ q.pc = "create" /\ q.key = NextKey
  BY <1>3, BoardAssumption DEF Nothing, Asked
<1>5. request[m] = Nothing /\ Asks(m, q) /\ UNCHANGED <<items, blurred>>
  BY DEF RaiseRequest
<1>6. \A i \in items : ~MovesOn(m, i.key)
  BY <1>5, NothingIsAsked DEF MovesOn
<1> HIDE DEF q
<1> QED BY <1>1, <1>3, <1>4, <1>5, <1>6, RequestKeeps

\* A number that is free when the item is inserted is the next one still.
LEMMA CreateKeeps == ASSUME BoardInv, NEW m \in Members, CreateItem(m) PROVE BoardInv'
<1> DEFINE key == request[m].key
           size == Cardinality(items)
<1>1. request[m].pc = "create" /\ Asks(m, Nothing) /\ UNCHANGED blurred
  BY DEF CreateItem, Done
<1>2. \A i \in items : ~MovesOn(m, i.key)
  BY <1>1 DEF MovesOn
<1>3. CASE UNCHANGED items
  BY <1>1, <1>2, <1>3, NothingIsAsked, RequestKeeps
<1>4. ASSUME NEW new, new = [key |-> key, status |-> "planned", by |-> m, events |-> <<>>],
             KeyIsFree(key), items' = items \union {new}
      PROVE  BoardInv'
  <2>1. key \in 1..size + 1 /\ key <= MaxItems /\ KeysTaken = 1..size /\ key \notin KeysTaken
    BY <1>1, <1>4 DEF BoardInv, Numbered, KeyIsFree
  <2>2. size \in Nat /\ IsFiniteSet(items)
    BY ItemCount DEF BoardInv, Numbered
  <2>3. key = size + 1
    BY <2>1, <2>2
  <2>4. new \in ItemRows /\ new.key = key /\ new.status = "planned" /\ new.events = <<>>
    BY <1>4, <2>2, <2>3, BoardAssumption DEF ItemRows
  <2>5. \A i \in items : i.key # key
    BY <2>1 DEF KeysTaken
  <2>6. new \notin items
    BY <2>4, <2>5
  <2>7. IsFiniteSet(items') /\ Cardinality(items') = size + 1
    BY <1>4, <2>2, <2>6, FS_AddElement
  <2>8. KeysTaken' = KeysTaken \union {key}
    BY <1>4, <2>4 DEF KeysTaken
  <2>9. KeysTaken' = 1..size + 1 /\ size + 1 <= MaxItems
    BY <2>1, <2>2, <2>3, <2>8
  <2>10. /\ items' \subseteq ItemRows
         /\ \A i, j \in items' : i.key = j.key => i = j
    BY <1>4, <2>4, <2>5 DEF BoardInv, Numbered
  <2>11. Numbered'
    BY <2>7, <2>9, <2>10 DEF Numbered
  <2>12. /\ request \in [Members -> Asked] /\ request' = [request EXCEPT ![m] = Nothing]
         /\ request' \in [Members -> Asked] /\ request'[m] = Nothing
         /\ \A n \in Members \ {m} : request'[n] = request[n]
    BY <1>1, NothingIsAsked DEF BoardInv, Asks
  <2>13. ASSUME NEW i \in items, i.key \notin blurred PROVE Remembered(i)'
    BY <1>2, <2>12, <2>13, NothingIsAsked, RememberedStill DEF BoardInv
  <2>14. Remembered(new)'
    <3>1. Len(new.events) = 0 /\ EndOf(new) = new.status
      BY <2>4 DEF EndOf
    <3>2. \A n \in Members : ~MovesOn(n, new.key)'
      <4>1. ~MovesOn(m, new.key)'
        BY <2>12, NothingIsAsked DEF MovesOn
      <4>2. \A n \in Members \ {m} : ~MovesOn(n, new.key)
        BY <2>1, <2>4 DEF BoardInv, MovesOn
      <4> QED BY <2>12, <4>1, <4>2 DEF MovesOn
    <3>3. Chained(new)
      BY <3>1 DEF Chained
    <3> QED BY <2>4, <3>1, <3>2, <3>3 DEF Remembered
  <2>15. \A i \in items' : i.key \notin blurred' => Remembered(i)'
    BY <1>1, <1>4, <2>13, <2>14
  <2>16. ASSUME NEW n \in Members
         PROVE  /\ request'[n].pc = "create" => request'[n].key \in 1..(size + 1) + 1
                                                /\ request'[n].key <= MaxItems
                /\ request'[n].pc \in {"update", "event"} => request'[n].key \in KeysTaken'
    <3>1. CASE n = m
      BY <2>12, <3>1, NothingIsAsked
    <3>2. CASE n # m
      <4>1. /\ request[n].pc = "create" => request[n].key \in 1..size + 1 /\ request[n].key <= MaxItems
            /\ request[n].pc \in {"update", "event"} => request[n].key \in KeysTaken
        BY DEF BoardInv
      <4>2. \A k \in 1..size + 1 : k \in 1..(size + 1) + 1
        BY <2>2
      <4> QED BY <2>8, <2>12, <3>2, <4>1, <4>2
    <3> QED BY <3>1, <3>2
  <2> QED BY <2>7, <2>11, <2>12, <2>15, <2>16 DEF BoardInv
<1> QED BY <1>3, <1>4 DEF CreateItem

LEMMA ReadItemKeeps ==
    ASSUME BoardInv, NEW m \in Members, NEW key \in KeysTaken, NEW to \in Statuses,
           ReadItem(m, key, to)
    PROVE  BoardInv'
<1> DEFINE q == [pc |-> "update", key |-> key, before |-> Keyed(key).status, to |-> to]
<1>1. /\ request[m] = Nothing /\ Asks(m, q) /\ UNCHANGED items
      /\ blurred \subseteq blurred'
      /\ (\E n \in Members : MovesOn(n, key)) => key \in blurred'
  BY DEF ReadItem, MovesOn
<1>2. /\ Keyed(key) \in items /\ Keyed(key).key = key /\ Keyed(key) \in ItemRows
  BY KeyedItem DEF BoardInv
<1>3. key \in Nat /\ Keyed(key).status \in Statuses
  BY <1>2 DEF ItemRows
<1>4. q \in Asked /\ q.pc = "update" /\ q.key = key /\ q.before = Keyed(key).status
  BY <1>3 DEF Asked
<1> HIDE DEF q
<1>5. /\ request \in [Members -> Asked] /\ request' = [request EXCEPT ![m] = q]
      /\ request' \in [Members -> Asked] /\ request'[m] = q
      /\ \A n \in Members \ {m} : request'[n] = request[n]
  BY <1>1, <1>4 DEF BoardInv, Asks
<1>6. Numbered' /\ KeysTaken' = KeysTaken
  BY <1>1 DEF BoardInv, Numbered, KeysTaken
<1>7. \A n \in Members :
          /\ request'[n].pc = "create" =>
                request'[n].key \in 1..Cardinality(items') + 1 /\ request'[n].key <= MaxItems
          /\ request'[n].pc \in {"update", "event"} => request'[n].key \in KeysTaken'
  <2>1. ASSUME NEW n \in Members \ {m}
        PROVE  /\ request'[n].pc = "create" =>
                     request'[n].key \in 1..Cardinality(items') + 1 /\ request'[n].key <= MaxItems
               /\ request'[n].pc \in {"update", "event"} => request'[n].key \in KeysTaken'
    BY <1>1, <1>5, <1>6 DEF BoardInv
  <2> QED BY <1>4, <1>5, <1>6, <2>1
<1>8. ASSUME NEW i \in items, i.key \notin blurred' PROVE Remembered(i)'
  <2>1. Remembered(i) /\ ~MovesOn(m, i.key)
    BY <1>1, <1>8, NothingIsAsked DEF BoardInv, MovesOn
  <2>2. CASE i.key # key
    BY <1>4, <1>5, <2>1, <2>2, RememberedStill
  <2>3. CASE i.key = key
    <3>1. i = Keyed(key)
      BY <1>2, <2>3 DEF BoardInv, Numbered
    <3>2. \A n \in Members : ~MovesOn(n, key)
      BY <1>1, <1>8, <2>3
    <3>3. i.status = EndOf(i)
      BY <2>1, <2>3, <3>2 DEF Remembered
    <3>4. \A n \in Members : MovesOn(n, key)' => n = m
      BY <1>5, <3>2 DEF MovesOn
    <3> QED BY <1>4, <1>5, <2>1, <2>3, <3>1, <3>3, <3>4 DEF Remembered
  <2> QED BY <2>2, <2>3
<1>9. \A i \in items' : i.key \notin blurred' => Remembered(i)'
  BY <1>1, <1>8
<1>10. Numbered' /\ request' \in [Members -> Asked]
  BY <1>5, <1>6
<1> QED BY <1>7, <1>9, <1>10 DEF BoardInv

\* A request writes the item it is moving.
LEMMA MoveKeeps ==
    ASSUME BoardInv, NEW m \in Members, NEW k \in KeysTaken, MovesOn(m, k), UNCHANGED blurred,
           NEW new \in ItemRows, new.key = k, Put(k, new),
           NEW q \in Asked, Asks(m, q), q = Nothing \/ (q.pc = "event" /\ q.key = k),
           k \notin blurred => /\ Chained(new)
                               /\ q = Nothing => new.status = EndOf(new)
                               /\ q # Nothing => q.before = EndOf(new) /\ new.status = q.to
    PROVE  BoardInv'
<1>1. /\ request \in [Members -> Asked] /\ request' = [request EXCEPT ![m] = q]
      /\ request' \in [Members -> Asked] /\ request'[m] = q
      /\ \A n \in Members \ {m} : request'[n] = request[n]
  BY DEF BoardInv, Asks
<1>2. /\ Numbered' /\ KeysTaken' = KeysTaken /\ Cardinality(items') = Cardinality(items)
      /\ \A i \in items' : i = new \/ (i \in items /\ i.key # k)
  BY PutKeeps DEF BoardInv
<1>3. ASSUME NEW n \in Members
      PROVE  /\ request'[n].pc = "create" =>
                   request'[n].key \in 1..Cardinality(items') + 1 /\ request'[n].key <= MaxItems
             /\ request'[n].pc \in {"update", "event"} => request'[n].key \in KeysTaken'
  <2>1. CASE n = m
    BY <1>1, <1>2, <2>1, NothingIsAsked
  <2>2. CASE n # m
    BY <1>1, <1>2, <2>2 DEF BoardInv
  <2> QED BY <2>1, <2>2
<1>4. ASSUME NEW i \in items, i.key # k, i.key \notin blurred PROVE Remembered(i)'
  <2>1. Remembered(i) /\ ~MovesOn(m, i.key)
    BY <1>4 DEF BoardInv, MovesOn
  <2>2. q.pc \notin {"update", "event"} \/ q.key # i.key
    BY <1>4, NothingIsAsked
  <2> QED BY <1>1, <2>1, <2>2, RememberedStill
<1>5. ASSUME k \notin blurred PROVE Remembered(new)'
  <2>1. PICK old \in items : old.key = k /\ Remembered(old)
    <3>1. Keyed(k) \in items /\ Keyed(k).key = k
      BY KeyedItem DEF BoardInv
    <3> QED BY <1>5, <3>1 DEF BoardInv
  <2>2. \A n \in Members \ {m} : ~MovesOn(n, k)
    BY <2>1 DEF Remembered
  <2>3. \A n \in Members : MovesOn(n, k)' => n = m /\ request'[n] = q
    BY <1>1, <2>2 DEF MovesOn
  <2>4. CASE q = Nothing
    <3>1. \A n \in Members : ~MovesOn(n, k)'
      BY <2>3, <2>4, NothingIsAsked DEF MovesOn
    <3> QED BY <1>5, <2>4, <3>1 DEF Remembered
  <2>5. CASE q # Nothing
    <3>1. q.pc = "event" /\ MovesOn(m, k)'
      BY <1>1, <2>5 DEF MovesOn
    <3>2. Chained(new) /\ q.before = EndOf(new) /\ new.status = q.to
      BY <1>5, <2>5
    <3> QED BY <2>3, <3>1, <3>2 DEF Remembered
  <2> QED BY <2>4, <2>5
<1>6. \A i \in items' : i.key \notin blurred' => Remembered(i)'
  BY <1>2, <1>4, <1>5
<1>7. Numbered' /\ request' \in [Members -> Asked]
  BY <1>1, <1>2
<1> QED BY <1>3, <1>6, <1>7 DEF BoardInv

LEMMA UpdateKeeps == ASSUME BoardInv, NEW m \in Members, UpdateItem(m) PROVE BoardInv'
<1>1. PICK r \in Asked : r = request[m]
  BY DEF BoardInv
<1>2. PICK i : i = Keyed(r.key)
  OBVIOUS
<1>3. /\ r.pc = "update" /\ r.key \in KeysTaken /\ MovesOn(m, r.key) /\ UNCHANGED blurred
      /\ r.before \in Statuses /\ r.to \in Statuses /\ r.key \in Nat
  BY <1>1 DEF UpdateItem, BoardInv, MovesOn, Asked
<1>4. i \in items /\ i.key = r.key /\ i \in ItemRows
  BY <1>2, <1>3, KeyedItem DEF BoardInv
<1>5. r.key \notin blurred => Chained(i) /\ r.before = EndOf(i) /\ i.status = EndOf(i)
  BY <1>1, <1>3, <1>4 DEF BoardInv, Remembered
<1>6. CASE /\ Put(r.key, [i EXCEPT !.status = r.to])
           /\ Asks(m, IF IsMove(r) THEN [r EXCEPT !.pc = "event"] ELSE Nothing)
  <2>1. PICK new : new = [i EXCEPT !.status = r.to]
    OBVIOUS
  <2>2. PICK q : q = IF IsMove(r) THEN [r EXCEPT !.pc = "event"] ELSE Nothing
    OBVIOUS
  <2>3. /\ new \in ItemRows /\ new.key = r.key /\ new.events = i.events /\ new.status = r.to
    BY <1>3, <1>4, <2>1 DEF ItemRows
  <2>4. EndOf(new) = EndOf(i) /\ (Chained(i) => Chained(new))
    BY <2>3 DEF EndOf, Chained
  <2>5. CASE r.to # r.before
    <3>1. q = [r EXCEPT !.pc = "event"]
      BY <2>2, <2>5 DEF IsMove
    <3>2. q \in Asked /\ q.pc = "event" /\ q.key = r.key /\ q.before = r.before /\ q.to = r.to
      BY <3>1 DEF Asked
    <3>3. q # Nothing
      BY <3>2, NothingIsAsked
    <3> QED BY <1>3, <1>5, <1>6, <2>1, <2>2, <2>3, <2>4, <3>2, <3>3, MoveKeeps
  <2>6. CASE r.to = r.before
    <3>1. q = Nothing
      BY <2>2, <2>6 DEF IsMove
    <3> QED BY <1>3, <1>5, <1>6, <2>1, <2>2, <2>3, <2>4, <2>6, <3>1, NothingIsAsked, MoveKeeps
  <2> QED BY <2>5, <2>6
<1>7. CASE UNCHANGED items /\ Done(m)
  <2>1. \A j \in items : j.key \notin blurred' => j.status = EndOf(j) \/ ~MovesOn(m, j.key)
    BY <1>1, <1>3 DEF BoardInv, Remembered
  <2> QED BY <1>3, <1>7, <2>1, NothingIsAsked, RequestKeeps DEF Done
<1> QED BY <1>1, <1>2, <1>6, <1>7 DEF UpdateItem

\* The event goes on from where the ones before it end.
LEMMA ChainGrows ==
    ASSUME NEW i \in ItemRows, NEW e \in Moves, NEW new, new = [i EXCEPT !.events = Append(@, e)],
           Chained(i), e.from = EndOf(i)
    PROVE  Chained(new) /\ EndOf(new) = e.to
<1>1. /\ i.events \in Seq(Moves) /\ new.events = Append(i.events, e)
  BY DEF ItemRows
<1>2. PICK n \in Nat : n = Len(i.events)
  BY <1>1
<1>3. /\ Len(new.events) = n + 1 /\ new.events[n + 1] = e
      /\ \A j \in 1..n : new.events[j] = i.events[j]
  BY <1>1, <1>2
<1>4. EndOf(new) = e.to
  BY <1>3 DEF EndOf
<1>5. new.events[1].from = "planned"
  <2>1. CASE n = 0
    BY <1>2, <1>3, <2>1 DEF EndOf
  <2>2. CASE n > 0
    BY <1>2, <1>3, <2>2 DEF Chained
  <2> QED BY <2>1, <2>2
<1>6. ASSUME NEW j \in 1..Len(new.events) - 1
      PROVE  new.events[j].to = new.events[j + 1].from
  <2>1. j \in 1..n
    BY <1>3
  <2>2. CASE j = n
    <3>1. EndOf(i) = i.events[n].to
      BY <1>2, <2>1, <2>2 DEF EndOf
    <3> QED BY <1>3, <2>1, <2>2, <3>1
  <2>3. CASE j # n
    <3>1. j \in 1..n - 1 /\ j + 1 \in 1..n
      BY <2>1, <2>3
    <3> QED BY <1>2, <1>3, <2>1, <3>1 DEF Chained
  <2> QED BY <2>2, <2>3
<1> QED BY <1>4, <1>5, <1>6 DEF Chained

LEMMA RecordMoveKeeps == ASSUME BoardInv, NEW m \in Members, RecordMove(m) PROVE BoardInv'
<1>1. PICK r \in Asked : r = request[m]
  BY DEF BoardInv
<1>2. PICK i : i = Keyed(r.key)
  OBVIOUS
<1>3. /\ r.pc = "event" /\ r.key \in KeysTaken /\ MovesOn(m, r.key) /\ Done(m)
      /\ r.before \in Statuses /\ r.to \in Statuses
  BY <1>1 DEF RecordMove, BoardInv, MovesOn, Asked
<1>4. i \in items /\ i.key = r.key /\ i \in ItemRows
  BY <1>2, <1>3, KeyedItem DEF BoardInv
<1>5. r.key \notin blurred => Chained(i) /\ r.before = EndOf(i) /\ i.status = r.to
  BY <1>1, <1>3, <1>4 DEF BoardInv, Remembered
<1>6. PICK e \in Moves : e = [by |-> m, from |-> r.before, to |-> r.to]
                         /\ e.from = r.before /\ e.to = r.to
  <2> DEFINE move == [by |-> m, from |-> r.before, to |-> r.to]
  <2>1. move \in Moves /\ move.from = r.before /\ move.to = r.to
    BY <1>3 DEF Moves
  <2> QED BY <2>1
<1>7. CASE /\ Put(r.key, [i EXCEPT !.events = Append(@, e)])
           /\ UNCHANGED blurred
  <2>1. PICK new : new = [i EXCEPT !.events = Append(@, e)]
    OBVIOUS
  <2>2. new \in ItemRows /\ new.key = r.key /\ new.status = i.status
    <3>1. i.events \in Seq(Moves) /\ i.key \in Nat /\ i.status \in Statuses /\ i.by \in Members
      BY <1>4 DEF ItemRows
    <3>2. Append(i.events, e) \in Seq(Moves)
      BY <3>1
    <3>3. PICK events \in Seq(Moves) : events = Append(i.events, e)
      BY <3>2
    <3>4. new = [i EXCEPT !.events = events]
      BY <2>1, <3>3
    <3>5. new = [key |-> i.key, status |-> i.status, by |-> i.by, events |-> events]
      BY <1>4, <3>4 DEF ItemRows
    <3> QED BY <1>4, <3>1, <3>5 DEF ItemRows
  <2>3. r.key \notin blurred => Chained(new) /\ new.status = EndOf(new)
    BY <1>4, <1>5, <1>6, <2>1, <2>2, ChainGrows
  <2> QED BY <1>3, <1>7, <2>1, <2>2, <2>3, NothingIsAsked, MoveKeeps DEF Done
<1>8. CASE UNCHANGED items /\ blurred' = blurred \union {r.key}
  <2>1. \A j \in items : j.key \notin blurred' => ~MovesOn(m, j.key)
    BY <1>1, <1>8 DEF MovesOn
  <2> QED BY <1>3, <1>8, <2>1, NothingIsAsked, RequestKeeps DEF Done
<1>9. \/ /\ Put(r.key, [i EXCEPT !.events = Append(@, [by |-> m, from |-> r.before, to |-> r.to])])
         /\ UNCHANGED blurred
      \/ UNCHANGED items /\ blurred' = blurred \union {r.key}
  BY <1>1, <1>2 DEF RecordMove
<1> QED BY <1>6, <1>7, <1>8, <1>9

LEMMA BoardStarts == ASSUME BoardInit PROVE BoardInv
<1>1. items = {} /\ request = [m \in Members |-> Nothing]
  BY DEF BoardInit
<1>2. IsFiniteSet(items) /\ Cardinality(items) = 0 /\ KeysTaken = {}
  BY <1>1, FS_EmptySet DEF KeysTaken
<1>3. 1..0 = {} /\ 0 <= MaxItems
  BY BoardAssumption
<1>4. \A m \in Members : request[m] = Nothing
  BY <1>1
<1> QED BY <1>1, <1>2, <1>3, <1>4, NothingIsAsked DEF BoardInv, Numbered

LEMMA BoardStep == ASSUME BoardInv, [BoardNext]_boardVars PROVE BoardInv'
<1>1. CASE UNCHANGED boardVars
  BY <1>1 DEF boardVars, BoardInv, Numbered, KeysTaken, Remembered, MovesOn
<1>2. ASSUME NEW m \in Members, RaiseRequest(m) \/ CreateItem(m) \/ UpdateItem(m) \/ RecordMove(m)
      PROVE  BoardInv'
  BY <1>2, RaiseKeeps, CreateKeeps, UpdateKeeps, RecordMoveKeeps
<1>3. ASSUME NEW m \in Members, NEW key \in KeysTaken, NEW to \in Statuses, ReadItem(m, key, to)
      PROVE  BoardInv'
  BY <1>3, ReadItemKeeps
<1> QED BY <1>1, <1>2, <1>3 DEF BoardNext

\* Who moved an item and from where survives the next move, and the numbers of
\* the requests have neither a gap nor a twin, for any number of administrators,
\* requests and moves (next_request_key, create, update).
THEOREM MovesAreRemembered == ConsoleSpec => []BoardRemembers
<1>1. ConsoleInit => BoardInv
  BY BoardStarts DEF ConsoleInit
<1>2. BoardInv /\ [ConsoleNext]_consoleVars => BoardInv'
  <2>1. [ConsoleNext]_consoleVars => [BoardNext]_boardVars
    BY DEF ConsoleNext, Rest, consoleVars
  <2> QED BY <2>1, BoardStep
<1>3. BoardInv => BoardRemembers
  <2> SUFFICES ASSUME BoardInv PROVE BoardRemembers
    OBVIOUS
  <2>1. Cardinality(KeysTaken) = Cardinality(items) /\ KeysTaken = 1..Cardinality(items)
    <3>1. Cardinality(items) \in Nat /\ KeysTaken = 1..Cardinality(items)
      BY ItemCount DEF BoardInv, Numbered
    <3>2. Cardinality(1..Cardinality(items)) = Cardinality(items)
      BY <3>1, FS_Interval
    <3> QED BY <3>1, <3>2
  <2>2. ASSUME NEW i \in items, i.key \notin blurred
        PROVE  /\ Chained(i)
               /\ ~(\E m \in Members : request[m].pc = "event" /\ request[m].key = i.key) =>
                      i.status = EndOf(i)
    BY <2>2 DEF BoardInv, Remembered, MovesOn
  <2> QED BY <2>1, <2>2 DEF BoardRemembers, Chained, EndOf
<1> QED BY <1>1, <1>2, <1>3, PTL DEF ConsoleSpec

-----------------------------------------------------------------------------
(* Types: the audit guard.                                                *)

\* Who serves a call has its number.
AuditTyped ==
    /\ AuditInv /\ AuditTypeOK
    /\ \A k \in Clerks : clerk[k].at # "free" => clerk[k].id \in 1..calls

LEMMA AuditTypeStarts == ASSUME AuditInit PROVE AuditTyped
<1>1. AuditTypeOK
  BY AuditAssumption DEF AuditInit, AuditTypeOK, Free
<1>2. \A k \in Clerks : clerk[k].at = "free"
  BY DEF AuditInit, Free
<1> QED BY <1>1, <1>2, AuditStarts DEF AuditTyped

LEMMA AskTyped ==
    ASSUME AuditTyped, NEW k \in Clerks, NEW write \in Writes, NEW grade, NEW blank \in BOOLEAN,
           Ask(k, write, grade, blank)
    PROVE  AuditTyped'
<1>1. calls \in Nat /\ calls' = calls + 1 /\ calls' \in 0..MaxCalls
  BY AuditAssumption DEF Ask, AuditTyped, AuditTypeOK
<1>2. 1..calls \subseteq 1..calls' /\ calls' \in 1..calls'
  BY <1>1
<1>3. \A r \in records' : r.id \in 1..calls' /\ r.outcome \in {"SUCCESS", "FAILURE"}
  <2>1. records' \subseteq records \union {[id |-> calls', outcome |-> "FAILURE"]}
    BY DEF Ask, Written
  <2> QED BY <1>2, <2>1 DEF AuditTyped, AuditTypeOK
<1> DEFINE h == [at |-> "probe", write |-> write, id |-> calls', fails |-> FALSE,
                 doubt |-> FALSE]
           H == [at : {"free", "probe", "act", "record"}, write : Writes \union {"none"},
                 id : 0..MaxCalls, fails : BOOLEAN, doubt : BOOLEAN]
<1>4. h \in H /\ h.id = calls'
  BY <1>1
<1>5. clerk' = clerk \/ clerk' = [clerk EXCEPT ![k] = h]
  BY DEF Ask
<1>6. \A j \in Clerks : clerk'[j] = clerk[j] \/ clerk'[j] = h
  <2> HIDE DEF h
  <2> QED BY <1>5 DEF AuditTyped, AuditInv
<1>7. \A j \in Clerks : clerk'[j] \in H /\ (clerk'[j].at # "free" => clerk'[j].id \in 1..calls')
  <2>1. \A j \in Clerks : clerk[j] \in H /\ (clerk[j].at # "free" => clerk[j].id \in 1..calls)
    BY DEF AuditTyped, AuditTypeOK
  <2> HIDE DEF h
  <2> QED BY <1>2, <1>4, <1>6, <2>1
<1>8. AuditTypeOK'
  BY <1>1, <1>2, <1>3, <1>7 DEF AuditTyped, AuditTypeOK, Ask
<1> QED BY <1>7, <1>8, AskKeeps DEF AuditTyped

\* A step on the way of a call: its thread keeps the number or is free.
LEMMA CallTyped ==
    ASSUME AuditTyped, AuditInv', UNCHANGED <<calls, auditSession>> \/ UNCHANGED calls,
           auditSession' \in BOOLEAN, storeFaults' \in 0..MaxStoreFaults,
           records' \subseteq records \union
               {[id |-> i, outcome |-> o] : i \in 1..calls, o \in {"SUCCESS", "FAILURE"}},
           performed' \subseteq 1..calls, unaccounted' \subseteq 1..calls,
           \A j \in Clerks : \/ clerk'[j].id = clerk[j].id /\ clerk[j].at # "free"
                             \/ clerk'[j].id = 0 /\ clerk'[j].at = "free"
                             \/ clerk'[j] = clerk[j]
    PROVE  AuditTyped'
<1>1. calls' = calls /\ calls \in 0..MaxCalls
  BY DEF AuditTyped, AuditTypeOK
<1>2. \A r \in records' : r.id \in 1..calls /\ r.outcome \in {"SUCCESS", "FAILURE"}
  BY DEF AuditTyped, AuditTypeOK
<1>3. \A j \in Clerks : /\ clerk'[j] \in ClerkStates
                        /\ clerk'[j].id \in 0..MaxCalls
                        /\ clerk'[j].at # "free" => clerk'[j].id \in 1..calls
  <2>1. \A j \in Clerks : clerk[j].id \in 0..MaxCalls /\ clerk'[j] \in ClerkStates
    BY DEF AuditTyped, AuditTypeOK, AuditInv
  <2>2. \A j \in Clerks : clerk[j].at # "free" => clerk[j].id \in 1..calls
    BY DEF AuditTyped
  <2>3. 0 \in 0..MaxCalls
    BY AuditAssumption
  <2> QED BY <2>1, <2>2, <2>3
<1>4. \A j \in Clerks :
          clerk'[j] \in [at : {"free", "probe", "act", "record"}, write : Writes \union {"none"},
                         id : 0..MaxCalls, fails : BOOLEAN, doubt : BOOLEAN]
  BY <1>3 DEF ClerkStates
<1> QED BY <1>1, <1>2, <1>3, <1>4 DEF AuditTyped, AuditTypeOK, AuditInv

LEMMA AuditTypeStep == ASSUME AuditTyped, [AuditNext]_auditVars PROVE AuditTyped'
<1>0. AuditInv'
  BY AuditStep DEF AuditTyped
<1>1. CASE UNCHANGED auditVars
  BY <1>0, <1>1 DEF auditVars, AuditTyped, AuditTypeOK
<1>9. /\ clerk \in [Clerks -> ClerkStates]
      /\ auditSession \in BOOLEAN /\ storeFaults \in 0..MaxStoreFaults
      /\ performed \subseteq 1..calls /\ unaccounted \subseteq 1..calls
      /\ Free.id = 0 /\ Free.at = "free"
  BY DEF AuditTyped, AuditTypeOK, AuditInv, Free
<1>2. ASSUME NEW k \in Clerks, Probe(k) PROVE AuditTyped'
  <2>1. \A j \in Clerks : \/ clerk'[j].id = clerk[j].id /\ clerk[j].at # "free"
                          \/ clerk'[j].id = 0 /\ clerk'[j].at = "free"
                          \/ clerk'[j] = clerk[j]
    BY <1>2, <1>9 DEF Probe, ClerkStates
  <2>2. UNCHANGED <<records, performed, calls, storeFaults, unaccounted>> /\ auditSession' \in BOOLEAN
    BY <1>2 DEF Probe
  <2> QED BY <1>0, <1>9, <2>1, <2>2, CallTyped
<1>3. ASSUME NEW k \in Clerks, Perform(k) PROVE AuditTyped'
  <2>1. \A j \in Clerks : \/ clerk'[j].id = clerk[j].id /\ clerk[j].at # "free"
                          \/ clerk'[j] = clerk[j]
    <3>1. PICK late \in BOOLEAN :
            clerk' = [clerk EXCEPT ![k].at = "record", ![k].fails = late]
      BY <1>3 DEF Perform
    <3>2. clerk[k].at = "act"
      BY <1>3 DEF Perform
    <3>3. clerk'[k].id = clerk[k].id /\ \A j \in Clerks \ {k} : clerk'[j] = clerk[j]
      BY <1>9, <3>1 DEF ClerkStates
    <3> QED BY <3>2, <3>3
  <2>2. UNCHANGED <<records, calls, auditSession, storeFaults, unaccounted>>
    BY <1>3 DEF Perform
  <2>3. clerk[k].id \in 1..calls
    BY <1>3 DEF Perform, AuditTyped
  <2>4. performed' \subseteq 1..calls
    BY <1>3, <1>9, <2>3 DEF Perform
  <2> QED BY <1>0, <1>9, <2>1, <2>2, <2>4, CallTyped
<1>4. ASSUME NEW k \in Clerks, Record(k) PROVE AuditTyped'
  <2>1. \A j \in Clerks : \/ clerk'[j].id = 0 /\ clerk'[j].at = "free"
                          \/ clerk'[j] = clerk[j]
    BY <1>4, <1>9 DEF Record
  <2>2. UNCHANGED <<performed, calls, auditSession, storeFaults>>
    BY <1>4 DEF Record
  <2>3. clerk[k].id \in 1..calls
    BY <1>4 DEF Record, AuditTyped
  <2>4. unaccounted' \subseteq 1..calls
    BY <1>4, <1>9, <2>3 DEF Record
  <2>5. records' \subseteq records \union
            {[id |-> i, outcome |-> o] : i \in 1..calls, o \in {"SUCCESS", "FAILURE"}}
    BY <1>4, <2>3 DEF Record, Written
  <2> QED BY <1>0, <1>9, <2>1, <2>2, <2>4, <2>5, CallTyped
<1>5. CASE StoreWorsens \/ ConsoleRestarts \/ StoreRecovers
  <2>1. \A j \in Clerks : \/ clerk'[j].id = clerk[j].id /\ clerk[j].at # "free"
                          \/ clerk'[j].id = 0 /\ clerk'[j].at = "free"
                          \/ clerk'[j] = clerk[j]
    BY <1>5, <1>9 DEF StoreWorsens, ConsoleRestarts, StoreRecovers, Doubted, ClerkStates
  <2>2. UNCHANGED <<records, performed, calls, unaccounted>>
    BY <1>5 DEF StoreWorsens, ConsoleRestarts, StoreRecovers
  <2>3. auditSession' \in BOOLEAN
    BY <1>5, <1>9 DEF StoreWorsens, ConsoleRestarts, StoreRecovers
  <2>4. storeFaults' \in 0..MaxStoreFaults
    BY <1>5, <1>9, AuditAssumption DEF StoreWorsens, ConsoleRestarts, StoreRecovers
  <2> QED BY <1>0, <1>9, <2>1, <2>2, <2>3, <2>4, CallTyped
<1> QED BY <1>1, <1>2, <1>3, <1>4, <1>5, AskTyped DEF AuditNext

-----------------------------------------------------------------------------
(* Types: the clock of the schedules.                                     *)

\* The latest time that so many presses can have put into the row.
Reach(n) == MaxMinute + (n + 1) * Every

LEMMA ReachGrows ==
    ASSUME NEW n \in Nat
    PROVE  /\ Reach(n) \in Nat /\ MaxMinute + Every <= Reach(n)
           /\ Reach(n + 1) = Reach(n) + Every
           /\ n <= MaxPresses => Reach(n) <= MaxMinute + (MaxPresses + 2) * Every
<1>1. Every \in Nat \ {0} /\ MaxMinute \in Nat /\ MaxPresses \in Nat
  BY ScheduleClockAssumption
<1>2. ASSUME NEW k \in Nat PROVE k * Every \in Nat /\ (k + 1) * Every = k * Every + Every
  BY <1>1
<1>3. ASSUME NEW a \in Nat, NEW b \in Nat PROVE (a + b) * Every = a * Every + b * Every
  BY <1>1
<1>4. Reach(n) = MaxMinute + n * Every + Every /\ n * Every \in Nat
  BY <1>1, <1>2 DEF Reach
<1>5. Reach(n + 1) = Reach(n) + Every
  <2>1. (n + 1 + 1) * Every = (n + 1) * Every + Every
    BY <1>2
  <2> QED BY <1>1, <1>2, <2>1 DEF Reach
<1>6. ASSUME n <= MaxPresses PROVE Reach(n) <= MaxMinute + (MaxPresses + 2) * Every
  <2>1. PICK b \in Nat : MaxPresses + 2 = (n + 1) + b
    <3>1. MaxPresses + 1 - n \in Nat /\ MaxPresses + 2 = (n + 1) + (MaxPresses + 1 - n)
      BY <1>1, <1>6
    <3> QED BY <3>1
  <2>2. (MaxPresses + 2) * Every = (n + 1) * Every + b * Every
    BY <1>3, <2>1
  <2>3. (n + 1) * Every \in Nat /\ b * Every \in Nat
    BY <1>2
  <2> QED BY <1>1, <2>2, <2>3 DEF Reach
<1> QED BY <1>1, <1>4, <1>5, <1>6

\* No time is further than one interval from what was, or from now.
LEMMA NextTimesNear ==
    ASSUME NEW next \in Nat, NEW at \in Nat
    PROVE  /\ AdvanceSchedule(next, at) \in Nat
           /\ AdvanceSchedule(next, at) <= next + Every \/ AdvanceSchedule(next, at) <= at + Every
           /\ next <= at => Claimed(next, at) \in Nat /\ Claimed(next, at) <= at + Every
<1>1. Every \in Nat \ {0}
  BY ScheduleClockAssumption
<1>2. ASSUME next <= at
      PROVE  LET q == (at - next) \div Every IN
             /\ next + Every * (q + 1) \in Nat
             /\ next + Every * (q + 1) <= at + Every
             /\ 1 + q = q + 1
  <2>1. at - next \in Nat
    BY <1>2
  <2> DEFINE q == (at - next) \div Every
  <2>2. q \in Nat /\ Every * q <= at - next
    BY <1>1, <2>1, DivBounds
  <2>3. Every * (q + 1) = Every * q + Every /\ Every * q \in Nat /\ 1 + q = q + 1
    <3> HIDE DEF q
    <3> QED BY <1>1, <2>2
  <2> QED BY <1>1, <2>1, <2>2, <2>3
<1>3. CASE next + Every > at
  BY <1>1, <1>2, <1>3 DEF AdvanceSchedule, Claimed
<1>4. CASE ~(next + Every > at)
  <2>1. next <= at
    BY <1>1, <1>4
  <2> QED BY <1>2, <1>4, <2>1 DEF AdvanceSchedule, Claimed
<1> QED BY <1>3, <1>4

\* A press reaches at most one interval past what it read.
ClockTyped ==
    /\ ClockTypeOK
    /\ nextRun <= Reach(presses)
    /\ \A o \in Pressers : pressed[o].next <= Reach(presses)

LEMMA ReachableSlots ==
    ASSUME presses \in 0..MaxPresses, NEW t \in Nat, t <= Reach(presses)
    PROVE  t \in Slots
<1>1. presses \in Nat /\ presses <= MaxPresses
  BY ScheduleClockAssumption
<1>2. Reach(presses) \in Nat /\ Reach(presses) <= MaxMinute + (MaxPresses + 2) * Every
  BY <1>1, ReachGrows
<1>3. MaxMinute + (MaxPresses + 2) * Every \in Int
  BY ScheduleClockAssumption
<1> QED BY <1>2, <1>3 DEF Slots

LEMMA ClockTypeStarts == ASSUME ClockInit PROVE ClockTyped
<1>1. Every \in Nat \ {0} /\ MaxMinute \in Nat \ {0} /\ MaxPresses \in Nat
  BY ScheduleClockAssumption
<1>2. presses = 0 /\ Reach(0) \in Nat /\ MaxMinute + Every <= Reach(0)
  BY ReachGrows DEF ClockInit
<1>3. nextRun \in Nat /\ nextRun <= Reach(0)
  BY <1>1, <1>2 DEF ClockInit
<1>4. nextRun \in Slots /\ 0 \in Slots
  BY <1>1, <1>2, <1>3, ReachableSlots
<1>5. Unpressed \in [on : BOOLEAN, enable : BOOLEAN, next : Slots, at : 0..MaxMinute]
      /\ Unpressed.next = 0
  BY <1>1, <1>4 DEF Unpressed
<1>6. \A o \in Pressers : pressed[o] = Unpressed /\ pressed[o].next = 0
  BY <1>5 DEF ClockInit
<1>7. minute \in 0..MaxMinute /\ first \in 0..Every /\ presses \in 0..MaxPresses
  BY <1>1 DEF ClockInit
<1>8. pressed \in [Pressers -> [on : BOOLEAN, enable : BOOLEAN, next : Slots, at : 0..MaxMinute]]
  BY <1>5 DEF ClockInit
<1>9. ClockTypeOK
  BY <1>4, <1>7, <1>8 DEF ClockInit, ClockTypeOK
<1> QED BY <1>2, <1>3, <1>6, <1>9 DEF ClockTyped

LEMMA ClockTypeStep == ASSUME ClockTyped, [ClockNext]_clockVars PROVE ClockTyped'
<1> DEFINE P == [on : BOOLEAN, enable : BOOLEAN, next : Slots, at : 0..MaxMinute]
<1>1. /\ Every \in Nat \ {0} /\ MaxMinute \in Nat \ {0} /\ MaxPresses \in Nat
      /\ presses \in Nat /\ minute \in 0..MaxMinute /\ nextRun \in Nat
      /\ Reach(presses) \in Nat /\ MaxMinute + Every <= Reach(presses)
      /\ Reach(presses + 1) = Reach(presses) + Every
      /\ pressed \in [Pressers -> P]
  BY ScheduleClockAssumption, ReachGrows DEF ClockTyped, ClockTypeOK, Slots
<1>2. CASE UNCHANGED clockVars
  BY <1>2 DEF clockVars, ClockTyped, ClockTypeOK
<1>3. CASE MinutePasses \/ PausedByTurn
  <2>1. minute' \in 0..MaxMinute
    BY <1>1, <1>3 DEF MinutePasses, PausedByTurn
  <2>2. enabled' \in BOOLEAN
    BY <1>3 DEF MinutePasses, PausedByTurn, ClockTyped, ClockTypeOK
  <2> QED BY <1>3, <2>1, <2>2 DEF MinutePasses, PausedByTurn, ClockTyped, ClockTypeOK
<1>4. CASE ClaimDue
  <2>1. nextRun' \in Nat /\ nextRun' <= Reach(presses)
    BY <1>1, <1>4, NextTimesNear DEF ClaimDue
  <2>2. nextRun' \in Slots
    BY <2>1, ReachableSlots DEF ClockTyped, ClockTypeOK
  <2> QED BY <1>4, <2>1, <2>2 DEF ClaimDue, ClockTyped, ClockTypeOK
<1>5. ASSUME NEW o \in Pressers, NEW enable \in BOOLEAN, PressEnabled(o, enable)
      PROVE  ClockTyped'
  <2>1. presses' \in 0..MaxPresses /\ presses' = presses + 1
    BY <1>1, <1>5 DEF PressEnabled
  <2>2. Reach(presses') = Reach(presses) + Every
    BY <1>1, <2>1
  <2> DEFINE t == IF enable THEN AdvanceSchedule(nextRun, minute) ELSE 0
             h == [on |-> TRUE, enable |-> enable, next |-> t, at |-> minute]
  <2>3. t \in Nat /\ t <= Reach(presses')
    <3>0. minute \in Nat
      BY <1>1
    <3>1. AdvanceSchedule(nextRun, minute) \in Nat
      BY <1>1, <3>0, NextTimesNear
    <3>2. \/ AdvanceSchedule(nextRun, minute) <= nextRun + Every
          \/ AdvanceSchedule(nextRun, minute) <= minute + Every
      BY <1>1, <3>0, NextTimesNear
    <3>3. nextRun <= Reach(presses)
      BY DEF ClockTyped
    <3> QED BY <1>1, <2>2, <3>1, <3>2, <3>3
  <2> HIDE DEF t
  <2>4. t \in Slots
    <3>1. PICK p \in 0..MaxPresses : p = presses'
      BY <2>1
    <3>2. Reach(p) <= MaxMinute + (MaxPresses + 2) * Every /\ Reach(p) \in Nat
      BY <1>1, <3>1, ReachGrows
    <3>3. MaxMinute + (MaxPresses + 2) * Every \in Int
      BY <1>1
    <3> QED BY <2>3, <3>1, <3>2, <3>3 DEF Slots
  <2>5. h \in P /\ h.next = t
    BY <1>1, <2>4
  <2>6. pressed' = [pressed EXCEPT ![o] = h]
    BY <1>5 DEF PressEnabled, t
  <2> HIDE DEF h
  <2>7. pressed' \in [Pressers -> P]
    BY <1>1, <2>5, <2>6
  <2>8. \A p \in Pressers : pressed'[p] = pressed[p] \/ pressed'[p] = h
    BY <1>1, <2>6
  <2>9. \A p \in Pressers : pressed[p].next \in Int /\ pressed[p].next <= Reach(presses)
    BY <1>1 DEF ClockTyped, Slots
  <2>10. \A p \in Pressers : pressed'[p].next <= Reach(presses')
    BY <1>1, <2>2, <2>3, <2>5, <2>8, <2>9
  <2>11. nextRun <= Reach(presses')
    BY <1>1, <2>2 DEF ClockTyped
  <2> QED BY <1>5, <2>1, <2>7, <2>10, <2>11 DEF PressEnabled, ClockTyped, ClockTypeOK
<1>6. ASSUME NEW o \in Pressers, WriteEnabled(o) PROVE ClockTyped'
  <2>1. pressed[o] \in P /\ pressed[o].next <= Reach(presses)
    BY <1>1 DEF ClockTyped
  <2>2. 0 \in Slots
    BY <1>1, ReachableSlots DEF ClockTyped, ClockTypeOK
  <2>3. Unpressed \in P /\ Unpressed.next = 0
    BY <1>1, <2>2 DEF Unpressed
  <2>4. pressed' = [pressed EXCEPT ![o] = Unpressed]
    BY <1>6 DEF WriteEnabled
  <2>5. /\ pressed' \in [Pressers -> P]
        /\ \A p \in Pressers : pressed'[p] = pressed[p] \/ pressed'[p] = Unpressed
    BY <1>1, <2>3, <2>4
  <2>6. \A p \in Pressers : pressed'[p].next <= Reach(presses)
    BY <1>1, <2>3, <2>5 DEF ClockTyped
  <2>7. /\ nextRun' \in Slots /\ nextRun' <= Reach(presses)
        /\ enabled' \in BOOLEAN /\ tardy' \in BOOLEAN
    BY <1>6, <2>1 DEF WriteEnabled, ClockTyped, ClockTypeOK
  <2> QED BY <1>6, <2>5, <2>6, <2>7 DEF WriteEnabled, ClockTyped, ClockTypeOK
<1> QED BY <1>2, <1>3, <1>4, <1>5, <1>6 DEF ClockNext

-----------------------------------------------------------------------------
(* Types: the sessions.                                                   *)

IsToken(c) == c = NoCookie \/ c \in {Cookie(claims) : claims \in Claims}

\* What is under way carries what the console issued.
SessionTyped ==
    /\ SessionInv /\ SessionTypeOK
    /\ IsFiniteSet(failures)
    /\ \A t \in Tabs : IsToken(flight[t].token)

LEMMA SessionTypeStarts == ASSUME SessionInit PROVE SessionTyped
<1>1. 0 \in Times
  BY SessionAssumption DEF Times
<1>2. \A t \in Tabs : flight[t] = Landed
  BY DEF SessionInit
<1>3. Landed.sets = "landed" /\ Landed.token = NoCookie
  BY DEF Landed
<1>4. account \in [password : Passwords, mustChange : BOOLEAN]
  BY DEF SessionInit, Temporary, Passwords
<1>5. \A t \in Tabs : flight[t].sets \in {"landed", "token", "delete", "nothing", "refresh"}
  BY <1>2, <1>3
<1>6. apiRestarts \in 0..MaxApiRestarts
  BY SessionAssumption DEF SessionInit
<1>7. SessionTypeOK
  BY <1>1, <1>4, <1>5, <1>6 DEF SessionInit, SessionTypeOK
<1> QED BY <1>2, <1>3, <1>7, SessionStarts, FS_EmptySet DEF SessionInit, SessionTyped, IsToken

\* An attempt is numbered below the limit: at the limit none is counted.
LEMMA AttemptTyped ==
    ASSUME SessionTyped, NEW p
    PROVE  /\ AfterAttempt(p) \subseteq [at : Times, nth : 0..FailedAttempts]
           /\ IsFiniteSet(AfterAttempt(p))
<1>1. Recent \subseteq failures /\ IsFiniteSet(Recent)
  BY FS_Subset DEF Recent, SessionTyped
<1>2. Recent \subseteq [at : Times, nth : 0..FailedAttempts]
  BY <1>1 DEF SessionTyped, SessionTypeOK
<1>3. ASSUME ~Locked PROVE Cardinality(Recent) \in 0..FailedAttempts
  BY <1>1, <1>3, FS_CardinalityType, SessionAssumption DEF Locked
<1> DEFINE new == [at |-> now, nth |-> Cardinality(Recent)]
<1>4. ASSUME ~Locked PROVE new \in [at : Times, nth : 0..FailedAttempts]
  BY <1>3, <1>4 DEF SessionTyped, SessionTypeOK
<1>5. IsFiniteSet(Recent \union {new}) /\ IsFiniteSet({})
  BY <1>1, FS_AddElement, FS_EmptySet
<1> QED BY <1>1, <1>2, <1>4, <1>5 DEF AfterAttempt

LEMMA IssuedIsToken ==
    ASSUME SessionTyped, NEW mustChange \in BOOLEAN
    PROVE  IsToken(Cookie(Issue(mustChange)))
<1>1. Issue(mustChange) \in Claims
  BY DEF SessionTyped, SessionTypeOK, Issue, Claims
<1> QED BY <1>1 DEF IsToken

LEMMA SlidIsToken ==
    ASSUME SessionTyped, NEW c, IsToken(c)
    PROVE  IsToken(Cookie(Refresh(c)))
<1>1. 0 \in Times /\ now \in Times
  BY SessionAssumption DEF SessionTyped, SessionTypeOK, Times
<1>2. CASE c = NoCookie
  <2>1. Refresh(c) \in Claims
    BY <1>1, <1>2 DEF Refresh, NoCookie, Claims
  <2> QED BY <2>1 DEF IsToken
<1>3. ASSUME NEW claims \in Claims, c = Cookie(claims) PROVE IsToken(Cookie(Refresh(c)))
  <2>1. Refresh(c) \in Claims
    BY <1>1, <1>3 DEF Refresh, Cookie, Claims
  <2> QED BY <2>1 DEF IsToken
<1> QED BY <1>2, <1>3 DEF IsToken

\* What a handler leaves is well typed when its answer is.
LEMMA AnswerTyped ==
    ASSUME SessionTyped, SessionInv', NEW t \in Tabs, NEW a,
           flight' = [flight EXCEPT ![t] = a],
           IsToken(a.token), a.sets \in {"landed", "token", "delete", "nothing", "refresh"},
           IsToken(cookie'), account' \in [password : Passwords, mustChange : BOOLEAN],
           failures' = failures \/ (\E p : failures' = AfterAttempt(p)),
           UNCHANGED <<now, apiRestarts>>, proved' \in {proved, now}, settled' \in BOOLEAN
    PROVE  SessionTyped'
<1>1. \A u \in Tabs : flight'[u] = IF u = t THEN a ELSE flight[u]
  BY DEF SessionTyped, SessionInv
<1>2. IsFiniteSet(failures') /\ failures' \subseteq [at : Times, nth : 0..FailedAttempts]
  BY AttemptTyped DEF SessionTyped, SessionTypeOK
<1>3. \A u \in Tabs : /\ IsToken(flight'[u].token)
                      /\ flight'[u].sets \in {"landed", "token", "delete", "nothing", "refresh"}
  BY <1>1 DEF SessionTyped, SessionTypeOK
<1>4. SessionTypeOK'
  BY <1>2, <1>3 DEF SessionTyped, SessionTypeOK, IsToken
<1> QED BY <1>2, <1>3, <1>4 DEF SessionTyped

LEMMA SessionTypeStep == ASSUME SessionTyped, [SessionNext]_sessionVars PROVE SessionTyped'
<1>0. SessionInv'
  BY SessionStep DEF SessionTyped
<1> DEFINE Sets == {"landed", "token", "delete", "nothing", "refresh"}
<1>1. CASE UNCHANGED sessionVars
  BY <1>0, <1>1 DEF sessionVars, SessionTyped, SessionTypeOK
<1>2. /\ account \in [password : Passwords, mustChange : BOOLEAN] /\ settled \in BOOLEAN
      /\ IsToken(cookie) /\ IsToken(NoCookie)
  BY DEF SessionTyped, SessionTypeOK, IsToken
<1>3. SessionRefused.token = NoCookie /\ SessionRefused.sets = "nothing"
  BY DEF SessionRefused, SessionAnswer
<1>4. ASSUME NEW t \in Tabs, NEW p \in Passwords, Login(t, p) PROVE SessionTyped'
  <2>1. /\ failures' = AfterAttempt(p) /\ proved' \in {proved, now}
        /\ UNCHANGED <<now, account, cookie, apiRestarts, settled>>
    BY <1>4 DEF Login
  <2> DEFINE token == Cookie(Issue(account.mustChange))
             a == IF Accepts(p) THEN SessionAnswer("token", token, FALSE) ELSE SessionRefused
  <2>2. flight' = [flight EXCEPT ![t] = a]
    BY <1>4 DEF Login
  <2>3. IsToken(token)
    BY <1>2, IssuedIsToken
  <2> HIDE DEF token
  <2>4. IsToken(a.token) /\ a.sets \in Sets
    BY <1>2, <1>3, <2>3 DEF SessionAnswer
  <2> HIDE DEF a
  <2> QED BY <1>0, <1>2, <2>1, <2>2, <2>4, AnswerTyped
<1>5. ASSUME NEW t \in Tabs, NEW p \in Passwords, NEW q \in Passwords, ChangePassword(t, p, q)
      PROVE  SessionTyped'
  <2>1. /\ failures' = AfterAttempt(p) /\ proved' \in {proved, now}
        /\ UNCHANGED <<now, cookie, apiRestarts, settled>>
    BY <1>5 DEF ChangePassword
  <2> DEFINE a == IF Accepts(p) /\ q # p THEN ChangedAnswer ELSE SessionRefused
  <2>2. flight' = [flight EXCEPT ![t] = a]
    BY <1>5 DEF ChangePassword
  <2>3. account' \in [password : Passwords, mustChange : BOOLEAN]
    <3>1. [password |-> q, mustChange |-> FALSE] \in [password : Passwords, mustChange : BOOLEAN]
      OBVIOUS
    <3> QED BY <1>2, <1>5, <3>1 DEF ChangePassword
  <2>4. ChangedAnswer.token = Cookie(Issue(FALSE)) /\ ChangedAnswer.sets = "token"
    BY DEF ChangedAnswer, ChangeAnswer, SessionAnswer
  <2>5. IsToken(Cookie(Issue(FALSE)))
    BY IssuedIsToken
  <2>6. IsToken(a.token) /\ a.sets \in Sets
    BY <1>2, <1>3, <2>4, <2>5
  <2> HIDE DEF a
  <2> QED BY <1>0, <1>2, <2>1, <2>2, <2>3, <2>6, AnswerTyped
<1>6. ASSUME NEW t \in Tabs, NEW path, Use(t, path) PROVE SessionTyped'
  <2>1. UNCHANGED <<now, account, failures, cookie, apiRestarts, proved, settled>>
    BY <1>6 DEF Use
  <2> DEFINE a == IF Verified(cookie) /\ ~Gated(cookie, path)
                  THEN SessionAnswer("refresh", cookie, Late) ELSE SessionRefused
  <2>2. flight' = [flight EXCEPT ![t] = a]
    BY <1>6 DEF Use
  <2>3. IsToken(a.token) /\ a.sets \in Sets
    BY <1>2, <1>3 DEF SessionAnswer
  <2> HIDE DEF a
  <2> QED BY <1>0, <1>2, <2>1, <2>2, <2>3, AnswerTyped
<1>7. ASSUME NEW t \in Tabs, Logout(t) PROVE SessionTyped'
  <2>1. UNCHANGED <<now, account, failures, cookie, apiRestarts, proved, settled>>
    BY <1>7 DEF Logout
  <2> DEFINE a == SessionAnswer("delete", NoCookie, FALSE)
  <2>2. flight' = [flight EXCEPT ![t] = a]
    BY <1>7 DEF Logout
  <2>3. IsToken(a.token) /\ a.sets \in Sets
    BY <1>2 DEF SessionAnswer
  <2> HIDE DEF a
  <2> QED BY <1>0, <1>2, <2>1, <2>2, <2>3, AnswerTyped
<1>8. ASSUME NEW t \in Tabs, Arrive(t) PROVE SessionTyped'
  <2>1. /\ UNCHANGED <<now, account, failures, apiRestarts, proved>>
        /\ flight' = [flight EXCEPT ![t] = Landed]
    BY <1>8 DEF Arrive
  <2>2. IsToken(Landed.token) /\ Landed.sets \in Sets
    BY <1>2 DEF Landed
  <2>3. IsToken(flight[t].token)
    BY DEF SessionTyped
  <2>4. cookie' \in {flight[t].token, NoCookie, Cookie(Refresh(flight[t].token)), cookie}
    BY <1>8 DEF Arrive
  <2>5. IsToken(cookie')
    BY <1>2, <2>3, <2>4, SlidIsToken
  <2>6. settled' \in BOOLEAN
    BY <1>8 DEF Arrive
  <2> QED BY <1>0, <1>2, <2>1, <2>2, <2>5, <2>6, AnswerTyped
<1>9. CASE Advance
  <2>1. now' \in Times
    BY <1>9, SessionAssumption DEF Advance, SessionTyped, SessionTypeOK, Times
  <2>2. failures' \subseteq failures
    BY <1>9 DEF Advance
  <2>3. IsFiniteSet(failures')
    BY <2>2, FS_Subset DEF SessionTyped
  <2> QED BY <1>0, <1>9, <2>1, <2>2, <2>3 DEF Advance, SessionTyped, SessionTypeOK
<1>10. CASE ApiRestart
  <2>1. /\ UNCHANGED <<now, cookie, proved>> /\ settled' = FALSE /\ failures' = {}
        /\ apiRestarts' \in 0..MaxApiRestarts
    BY <1>10, SessionAssumption DEF ApiRestart, SessionTyped, SessionTypeOK
  <2>2. \A t \in Tabs : flight'[t] = Landed
    BY <1>10 DEF ApiRestart
  <2>3. Landed.token = NoCookie /\ Landed.sets = "landed"
    BY DEF Landed
  <2>4. account' \in [password : Passwords, mustChange : BOOLEAN]
    <3>1. Temporary \in [password : Passwords, mustChange : BOOLEAN]
      BY DEF Temporary, Passwords
    <3> QED BY <1>2, <1>10, <3>1 DEF ApiRestart
  <2>5. SessionTypeOK'
    BY <2>1, <2>2, <2>3, <2>4 DEF SessionTyped, SessionTypeOK
  <2> QED BY <1>0, <1>2, <2>1, <2>2, <2>3, <2>5, FS_EmptySet DEF SessionTyped
<1> QED BY <1>1, <1>4, <1>5, <1>6, <1>7, <1>8, <1>9, <1>10 DEF SessionNext

-----------------------------------------------------------------------------
(* Types: the configuration scan.                                         *)

ScanTyped == ScanInv /\ ScanTypeOK

LEMMA ScanTypeStarts == ASSUME ScanInit PROVE ScanTyped
BY ScanStarts, ConfigScanAssumption
   DEF ScanInit, ScanTyped, ScanTypeOK, NotScanning, NeverScanned

LEMMA ScanTypeStep == ASSUME ScanTyped, [ScanNext]_scanVars PROVE ScanTyped'
<1>0. ScanInv'
  BY ScanStep DEF ScanTyped
<1>1. CASE UNCHANGED scanVars
  BY <1>0, <1>1 DEF scanVars, ScanTyped, ScanTypeOK
<1>2. CASE ScanNext
  <2>1. scan' \in Scans /\ etc' \in [Inventory -> Readings]
    BY <1>0 DEF ScanInv
  <2>2. /\ scan'.on \in BOOLEAN /\ scan'.left \subseteq Inventory /\ scan'.failed \in BOOLEAN
        /\ scan'.lines \subseteq Lines
    BY <2>1 DEF Scans
  <2>3. scanEvents' \in 0..MaxScanEvents /\ UNCHANGED development
    <3>1. (UNCHANGED scanEvents \/ ScanEvent) /\ UNCHANGED development
      BY <1>2 DEF ScanNext, EditHost, Visit, StartScan, ScanTimesOut, EndScan, ScanForgotten
    <3> QED BY <3>1, ConfigScanAssumption DEF ScanEvent, ScanTyped, ScanTypeOK
  <2>4. comparison' = comparison \/ comparison' = Snapshot(scan)
    BY <1>2 DEF ScanNext, EditHost, Visit, StartScan, ScanTimesOut, EndScan, ScanForgotten
  <2>5. Snapshot(scan).nodes = scan.lines /\ Snapshot(scan).error \in BOOLEAN
    <3>1. scan.failed \in BOOLEAN
      BY DEF ScanTyped, ScanTypeOK
    <3> QED BY <3>1 DEF Snapshot, Parsed
  <2>6. comparison'.nodes \subseteq Lines /\ comparison'.error \in BOOLEAN
    BY <2>4, <2>5 DEF ScanTyped, ScanTypeOK, Lines
  <2>7. ScanTypeOK'
    BY <2>1, <2>2, <2>3, <2>6 DEF ScanTyped, ScanTypeOK, Lines
  <2> QED BY <1>0, <2>7 DEF ScanTyped
<1> QED BY <1>1, <1>2

-----------------------------------------------------------------------------
(* Types: the groups as they run.                                         *)

WorkloadTyped == WorkloadInv /\ WorkloadTypeOK

LiveSnaps == [there : BOOLEAN, groups : SUBSET GroupPaths, failed : SUBSET GroupPaths,
              seen : SUBSET GroupPaths, error : BOOLEAN]

LEMMA StatusTyped == ASSUME NEW e, NEW g, NEW live PROVE StatusOf(e, g, live) \in GroupStatuses
BY DEF StatusOf, GroupStatuses

LEMMA WorkloadTypeStarts == ASSUME WorkloadInit PROVE WorkloadTyped
<1>1. configured \in Stores
  BY DEF WorkloadInit, Stores
<1>2. NoLive \in LiveSnaps
  BY DEF NoLive, LiveSnaps
<1>3. Closed.at = "closed" /\ DOMAIN Closed.rows = {}
  BY DEF Closed
<1>4. NoCollection.left = {} /\ NoCollection.read = {} /\ NoCollection.failed = {}
  BY DEF NoCollection
<1>5. WorkloadTypeOK
  BY <1>1, <1>2, <1>3, <1>4, WorkloadAssumption DEF WorkloadInit, WorkloadTypeOK, LiveSnaps
<1> QED BY <1>5, WorkloadStarts DEF WorkloadTyped

LEMMA WorkloadTypeStep == ASSUME WorkloadTyped, [WorkloadNext]_workloadVars PROVE WorkloadTyped'
<1>0. WorkloadInv'
  BY WorkloadStep DEF WorkloadTyped
<1>1. CASE UNCHANGED workloadVars
  BY <1>0, <1>1 DEF workloadVars, WorkloadTyped, WorkloadTypeOK
<1>2. CASE WorkloadNext
  <2>1. collection'.left \union collection'.read \union collection'.failed \subseteq GroupPaths
    BY <1>0 DEF WorkloadInv, Collections
  <2>2. workloadEvents' \in 0..MaxWorkloadEvents
    <3>1. UNCHANGED workloadEvents \/ WorkloadEvent
      BY <1>2 DEF WorkloadNext, Admit, ReadGroup, CoordinatorRestarts, CoordinatorRefreshes,
                  EditStore, ListGroups, SaveGroups, OpenConfig, ShowConfig
    <3> QED BY <3>1, WorkloadAssumption DEF WorkloadEvent, WorkloadTyped, WorkloadTypeOK
  <2>3. mbeans' \subseteq admitted' /\ admitted' \subseteq GroupPaths
    <3>1. ASSUME NEW path \in GroupPaths, Admit(path)
          PROVE  mbeans' \subseteq admitted' /\ admitted' \subseteq GroupPaths
      BY <3>1 DEF Admit, WorkloadTyped, WorkloadTypeOK
    <3>2. CASE CoordinatorRefreshes
      BY <3>2 DEF CoordinatorRefreshes, WorkloadTyped, WorkloadTypeOK
    <3>3. CASE CoordinatorRestarts
      BY <3>3 DEF CoordinatorRestarts
    <3>4. CASE UNCHANGED <<admitted, mbeans>>
      BY <3>4 DEF WorkloadTyped, WorkloadTypeOK
    <3> QED BY <1>2, <3>1, <3>2, <3>3, <3>4
            DEF WorkloadNext, ReadGroup, EditStore, ListGroups, SaveGroups, OpenConfig, ShowConfig
  <2>4. configured' \in Stores
    <3>1. CASE EditStore
      <4>1. PICK g \in GroupPaths :
               \/ configured' = [h \in DOMAIN configured \ {g} |-> configured[h]]
               \/ \E export \in BOOLEAN :
                     configured' = [h \in DOMAIN configured \union {g} |->
                                       IF h = g THEN export ELSE configured[h]]
        BY <3>1 DEF EditStore
      <4>2. PICK some \in SUBSET GroupPaths : configured \in [some -> BOOLEAN]
        BY DEF WorkloadTyped, WorkloadTypeOK, Stores
      <4>3. configured' \in [some \ {g} -> BOOLEAN] \/ configured' \in [some \union {g} -> BOOLEAN]
        BY <4>1, <4>2
      <4>4. some \ {g} \in SUBSET GroupPaths /\ some \union {g} \in SUBSET GroupPaths
        BY <4>1, <4>2
      <4> QED BY <4>3, <4>4 DEF Stores
    <3>2. CASE UNCHANGED configured
      BY <3>2 DEF WorkloadTyped, WorkloadTypeOK
    <3> QED BY <1>2, <3>1, <3>2
            DEF WorkloadNext, Admit, ReadGroup, CoordinatorRestarts, CoordinatorRefreshes,
                ListGroups, SaveGroups, OpenConfig, ShowConfig
  <2>5. liveSnap' \in LiveSnaps
    <3>1. liveSnap \in LiveSnaps /\ collection \in Collections /\ mbeans \subseteq GroupPaths
      BY DEF WorkloadTyped, WorkloadTypeOK, LiveSnaps, WorkloadInv
    <3>2. CASE ListGroups
      BY <3>1, <3>2 DEF ListGroups, NoLive, LiveSnaps
    <3>3. CASE SaveGroups
      <4>1. /\ collection.read \in SUBSET GroupPaths /\ collection.failed \in SUBSET GroupPaths
            /\ collection.seen \in SUBSET GroupPaths
        BY <3>1 DEF Collections
      <4>2. [there |-> TRUE, groups |-> collection.read, failed |-> collection.failed,
             seen |-> collection.seen, error |-> collection.failed # {}] \in LiveSnaps
        BY <4>1 DEF LiveSnaps
      <4> QED BY <3>1, <3>3, <4>2 DEF SaveGroups
    <3>4. CASE UNCHANGED liveSnap
      BY <3>1, <3>4
    <3> QED BY <1>2, <3>2, <3>3, <3>4
            DEF WorkloadNext, Admit, ReadGroup, CoordinatorRestarts, CoordinatorRefreshes,
                EditStore, OpenConfig, ShowConfig
  <2>6. /\ opened'.at \in {"closed", "reading", "open"}
        /\ \A g \in DOMAIN opened'.rows : opened'.rows[g] \in GroupStatuses
    <3>1. CASE OpenConfig
      <4>1. opened'.at = "reading" /\ DOMAIN opened'.rows = {}
        BY <3>1 DEF OpenConfig, Closed
      <4> QED BY <4>1
    <3>2. CASE ShowConfig
      <4>1. PICK at, kept, r, u, live : opened = Screen(at, kept, r, u, live)
        BY DEF WorkloadTyped, WorkloadInv, IsScreen
      <4>2. /\ opened'.at = "open"
            /\ opened'.rows = [g \in DOMAIN opened.configured |->
                                  StatusOf(opened.configured[g], g, liveSnap)]
        BY <3>2, <4>1 DEF ShowConfig, Screen
      <4> QED BY <4>2, StatusTyped
    <3>3. CASE UNCHANGED opened
      BY <3>3 DEF WorkloadTyped, WorkloadTypeOK
    <3> QED BY <1>2, <3>1, <3>2, <3>3
            DEF WorkloadNext, Admit, ReadGroup, CoordinatorRestarts, CoordinatorRefreshes,
                EditStore, ListGroups, SaveGroups
  <2>7. WorkloadTypeOK'
    BY <2>1, <2>2, <2>3, <2>4, <2>5, <2>6 DEF WorkloadTypeOK, LiveSnaps
  <2> QED BY <1>0, <2>7 DEF WorkloadTyped
<1> QED BY <1>1, <1>2

-----------------------------------------------------------------------------
(* Types: the query sets.                                                 *)

Edits == [name : Names, sql : Versions, from : Names \union {"new"}]

\* What is checked is allowed, so that what waits to be written is.
SetTyped ==
    /\ SetInv
    /\ setKnown \in BOOLEAN
    /\ edit \in [Editors -> Edits \union {NoOne}]
    /\ Len(runs) <= MaxRuns
    /\ writes \in 0..MaxWrites

LEMMA SetTypePromises == ASSUME SetTyped PROVE SetTypeOK
<1>1. ASSUME NEW i \in DOMAIN runs
      PROVE  /\ runs[i].queries \union runs[i].left \union runs[i].timed \subseteq Rows
             /\ runs[i].state \in {"starting", "RUNNING", "ended"}
  <2>1. runs[i] \in RunRows
    BY DEF SetTyped, SetInv
  <2> QED BY <2>1 DEF RunRows
<1> QED BY <1>1 DEF SetTyped, SetTypeOK, SetInv, Edits

LEMMA SetTypeStarts == ASSUME SetInit PROVE SetTyped
<1>1. edit \in [Editors -> Edits \union {NoOne}]
  BY DEF SetInit
<1>2. Len(runs) <= MaxRuns /\ MaxWrites \in Nat
  <2>1. MaxRuns \in Nat /\ MaxRuns > 0 /\ MaxWrites \in Nat
    BY QuerySetsAssumption
  <2>2. runs = <<>> \/ \E old : runs = <<old>>
    BY DEF SetInit
  <2>3. Len(runs) = 0 \/ Len(runs) = 1
    BY <2>2
  <2> QED BY <2>1, <2>3
<1> QED BY <1>1, <1>2, SetStarts DEF SetInit, SetTyped

LEMMA SetTypeStep == ASSUME SetTyped, [SetNext]_setVars PROVE SetTyped'
<1>0. SetInv'
  BY SetStep DEF SetTyped
<1>1. CASE UNCHANGED setVars
  BY <1>0, <1>1 DEF setVars, SetTyped
<1>2. CASE SetNext
  <2>1. setKnown' \in BOOLEAN
    BY <1>2 DEF SetNext, CheckQuery, SaveQuery, DeleteQuery, DeleteQuerySet, CreateQuerySet,
                ChangedByHand, StartRun, RecordRun, Execute, EndRun, SetTyped
  <2>2. writes' \in 0..MaxWrites
    <3>1. UNCHANGED writes \/ SetWritten
      BY <1>2 DEF SetNext, CheckQuery, SaveQuery, DeleteQuery, DeleteQuerySet, CreateQuerySet,
                  ChangedByHand, StartRun, RecordRun, Execute, EndRun
    <3> QED BY <3>1, QuerySetsAssumption DEF SetWritten, SetTyped
  <2>3. edit' \in [Editors -> Edits \union {NoOne}]
    <3>1. ASSUME NEW e \in Editors, NEW name \in Names, NEW sql \in Statements,
                 NEW from \in Names \union {"new"}, CheckQuery(e, name, sql, from)
          PROVE  edit' \in [Editors -> Edits \union {NoOne}]
      <4> DEFINE q == [name |-> name, sql |-> sql, from |-> from]
      <4>1. sql \in Versions
        BY <3>1 DEF CheckQuery, Allowed, Statements
      <4>2. q \in Edits
        BY <3>1, <4>1 DEF Edits
      <4>3. edit' = [edit EXCEPT ![e] = q]
        BY <3>1 DEF CheckQuery
      <4> HIDE DEF q
      <4> QED BY <4>2, <4>3 DEF SetTyped
    <3>2. ASSUME NEW e \in Editors, SaveQuery(e)
          PROVE  edit' \in [Editors -> Edits \union {NoOne}]
      <4>1. edit' = [edit EXCEPT ![e] = NoOne]
        BY <3>2 DEF SaveQuery
      <4> QED BY <4>1 DEF SetTyped
    <3>3. CASE UNCHANGED edit
      BY <3>3 DEF SetTyped
    <3> QED BY <1>2, <3>1, <3>2, <3>3
            DEF SetNext, DeleteQuery, DeleteQuerySet, CreateQuerySet, ChangedByHand, StartRun,
                RecordRun, Execute, EndRun
  <2>4. Len(runs') <= MaxRuns
    <3>0. runs \in Seq(RunRows) /\ Len(runs) \in Nat /\ Len(runs) <= MaxRuns
      BY DEF SetTyped, SetInv
    <3>1. CASE StartRun
      <4>1. Len(runs') = Len(runs) + 1 /\ Len(runs) < MaxRuns
        BY <3>0, <3>1 DEF StartRun
      <4> QED BY <3>0, <4>1, QuerySetsAssumption
    <3>2. ASSUME NEW i \in DOMAIN runs, RecordRun(i) \/ Execute(i) \/ EndRun(i)
          PROVE  Len(runs') <= MaxRuns
      <4>1. runs' \in Seq(RunRows) /\ Len(runs') \in Nat
        BY <1>0 DEF SetInv
      <4>2. DOMAIN runs' = DOMAIN runs
        BY <3>2 DEF RecordRun, Execute, EndRun
      <4>3. Len(runs') = Len(runs)
        BY <3>0, <4>1, <4>2
      <4> QED BY <3>0, <4>3
    <3>3. CASE UNCHANGED runs
      BY <3>0, <3>3
    <3> QED BY <1>2, <3>1, <3>2, <3>3
            DEF SetNext, CheckQuery, SaveQuery, DeleteQuery, DeleteQuerySet, CreateQuerySet,
                ChangedByHand
  <2> QED BY <1>0, <2>1, <2>2, <2>3, <2>4 DEF SetTyped
<1> QED BY <1>1, <1>2

-----------------------------------------------------------------------------
(* Types: the work board.                                                 *)

BoardTyped ==
    /\ BoardInv
    /\ \A m \in Members : request[m].key \in 0..MaxItems + 1
    /\ moves \in 0..MaxMoves
    /\ blurred \subseteq 1..MaxItems

LEMMA NumbersGiven == ASSUME BoardInv PROVE KeysTaken \subseteq 1..MaxItems
BY ItemCount, BoardAssumption DEF BoardInv, Numbered

LEMMA BoardTypePromises == ASSUME BoardTyped PROVE BoardTypeOK
<1>1. ASSUME NEW i \in items
      PROVE  /\ i.key \in 1..MaxItems /\ i.status \in Statuses
             /\ \A n \in DOMAIN i.events : i.events[n] \in Moves
  <2>1. i \in ItemRows /\ i.key \in KeysTaken
    BY DEF BoardTyped, BoardInv, Numbered, KeysTaken
  <2>2. i.status \in Statuses /\ i.events \in Seq(Moves)
    BY <2>1 DEF ItemRows
  <2> QED BY <2>1, <2>2, NumbersGiven DEF BoardTyped
<1>2. request \in [Members -> [pc : {"idle", "create", "update", "event"}, key : 0..MaxItems + 1,
                               before : Statuses, to : Statuses]]
  <2>1. request \in [Members -> Asked] /\ \A m \in Members : request[m].key \in 0..MaxItems + 1
    BY DEF BoardTyped, BoardInv
  <2>2. \A m \in Members : request[m] \in
            [pc : {"idle", "create", "update", "event"}, key : 0..MaxItems + 1,
             before : Statuses, to : Statuses]
    BY <2>1 DEF Asked
  <2> QED BY <2>1, <2>2
<1> QED BY <1>1, <1>2 DEF BoardTyped, BoardTypeOK

LEMMA BoardTypeStarts == ASSUME BoardInit PROVE BoardTyped
<1>1. \A m \in Members : request[m].key = 0
  BY DEF BoardInit, Nothing
<1>2. 0 \in 0..MaxItems + 1 /\ 0 \in 0..MaxMoves
  BY BoardAssumption
<1> QED BY <1>1, <1>2, BoardStarts DEF BoardInit, BoardTyped

LEMMA BoardTypeStep == ASSUME BoardTyped, [BoardNext]_boardVars PROVE BoardTyped'
<1>0. BoardInv'
  BY BoardStep DEF BoardTyped
<1>1. CASE UNCHANGED boardVars
  BY <1>0, <1>1 DEF boardVars, BoardTyped
<1>2. /\ KeysTaken \subseteq 1..MaxItems /\ MaxItems \in Nat /\ MaxMoves \in Nat
      /\ request \in [Members -> Asked]
      /\ \A n \in Members : request[n].pc \in {"update", "event"} => request[n].key \in KeysTaken
      /\ moves \in 0..MaxMoves /\ blurred \subseteq 1..MaxItems
      /\ \A n \in Members : request[n].key \in 0..MaxItems + 1
  BY NumbersGiven, BoardAssumption DEF BoardTyped, BoardInv
<1>3. ASSUME NEW m \in Members, NEW q, Asks(m, q), q.key \in 0..MaxItems + 1
      PROVE  \A n \in Members : request'[n].key \in 0..MaxItems + 1
  <2>1. \A n \in Members : request'[n] = IF n = m THEN q ELSE request[n]
    BY <1>2, <1>3 DEF Asks
  <2> QED BY <1>2, <1>3, <2>1
<1>4. Nothing.key \in 0..MaxItems + 1
  BY <1>2 DEF Nothing
<1>5. ASSUME NEW m \in Members, RaiseRequest(m) PROVE BoardTyped'
  <2> DEFINE q == [Nothing EXCEPT !.pc = "create", !.key = NextKey]
  <2>1. NextKey = Cardinality(items) + 1 /\ NextKey <= MaxItems /\ Cardinality(items) \in Nat
    BY <1>5, TheNextKey, ItemCount DEF RaiseRequest, BoardTyped, BoardInv
  <2>2. q.key = NextKey
    BY DEF Nothing
  <2>3. q.key \in 0..MaxItems + 1
    BY <1>2, <2>1, <2>2
  <2>4. Asks(m, q) /\ UNCHANGED <<moves, blurred>>
    BY <1>5 DEF RaiseRequest
  <2> HIDE DEF q
  <2> QED BY <1>0, <1>2, <1>3, <2>3, <2>4 DEF BoardTyped
<1>6. ASSUME NEW m \in Members, CreateItem(m) PROVE BoardTyped'
  <2>1. Asks(m, Nothing) /\ UNCHANGED <<moves, blurred>>
    BY <1>6 DEF CreateItem, Done
  <2> QED BY <1>0, <1>2, <1>3, <1>4, <2>1 DEF BoardTyped
<1>7. ASSUME NEW m \in Members, UpdateItem(m) PROVE BoardTyped'
  <2> DEFINE r == request[m]
             q == IF IsMove(r) THEN [r EXCEPT !.pc = "event"] ELSE Nothing
  <2>1. Asks(m, q) \/ Asks(m, Nothing)
    BY <1>7 DEF UpdateItem, Done
  <2>2. q.key = r.key \/ q = Nothing
    BY <1>2 DEF Asked
  <2>3. \A n \in Members : request'[n].key \in 0..MaxItems + 1
    <3> HIDE DEF q
    <3> QED BY <1>2, <1>3, <1>4, <2>1, <2>2
  <2>4. moves' \in 0..MaxMoves /\ UNCHANGED blurred
    BY <1>2, <1>7 DEF UpdateItem
  <2> QED BY <1>0, <1>2, <2>3, <2>4 DEF BoardTyped
<1>8. ASSUME NEW m \in Members, RecordMove(m) PROVE BoardTyped'
  <2>1. Asks(m, Nothing) /\ UNCHANGED moves /\ request[m].pc = "event"
    BY <1>8 DEF RecordMove, Done
  <2>2. blurred' \subseteq blurred \union {request[m].key}
    BY <1>8 DEF RecordMove
  <2>3. request[m].key \in 1..MaxItems
    BY <1>2, <2>1
  <2>4. \A n \in Members : request'[n].key \in 0..MaxItems + 1
    BY <1>3, <1>4, <2>1
  <2> QED BY <1>0, <1>2, <2>1, <2>2, <2>3, <2>4 DEF BoardTyped
<1>9. ASSUME NEW m \in Members, NEW key \in KeysTaken, NEW to \in Statuses, ReadItem(m, key, to)
      PROVE  BoardTyped'
  <2> DEFINE q == [pc |-> "update", key |-> key, before |-> Keyed(key).status, to |-> to]
  <2>1. Asks(m, q) /\ UNCHANGED moves
    BY <1>9 DEF ReadItem
  <2>2. q.key = key /\ key \in 1..MaxItems /\ key \in 0..MaxItems + 1
    BY <1>2
  <2>3. blurred' \subseteq blurred \union {key}
    BY <1>9 DEF ReadItem
  <2> HIDE DEF q
  <2>4. \A n \in Members : request'[n].key \in 0..MaxItems + 1
    BY <1>3, <2>1, <2>2
  <2> QED BY <1>0, <1>2, <2>1, <2>2, <2>3, <2>4 DEF BoardTyped
<1> QED BY <1>1, <1>5, <1>6, <1>7, <1>8, <1>9 DEF BoardNext

-----------------------------------------------------------------------------
(* The console.                                                            *)

\* Every part at once, also those that rest.
PartsTyped ==
    /\ part \in Parts
    /\ NodeEntered /\ GroupInv /\ RouteTyped /\ FleetTypeOK /\ SessionTyped /\ AuditTyped
    /\ ScanTyped /\ SetTyped /\ BoardTyped /\ WorkloadTyped /\ ClockTyped

\* The history of every environment's resource groups is a chain that ends in
\* what is stored, and an environment with groups keeps a catch-all, whatever the
\* other parts of the console do (ResourceGroupStore._apply).
THEOREM TreesAreKept == ConsoleSpec => []GroupTreeKept
<1>1. ConsoleInit => GroupInv
  BY GroupStarts DEF ConsoleInit
<1>2. GroupInv /\ [ConsoleNext]_consoleVars => GroupInv'
  <2>1. [ConsoleNext]_consoleVars => [GroupNext]_groupVars
    BY DEF ConsoleNext, Rest, consoleVars
  <2> QED BY <2>1, GroupStep
<1>3. GroupInv => GroupTreeKept
  BY GroupPromises
<1> QED BY <1>1, <1>2, <1>3, PTL DEF ConsoleSpec

\* No part of the console ever holds a value its code could not give it, at work
\* or at rest: every row was validated (nodeservice.py, config_store.py,
\* setstore.py), every call under way holds what it may have read, every token
\* was issued (sessions.py), every number was given (store.py), and no time lies
\* beyond what the presses can reach (schedules.py).
THEOREM ConsoleTyped == ConsoleSpec => []ConsoleTypeOK
<1>1. ASSUME ConsoleInit PROVE PartsTyped
  <2>1. /\ NodeEntered /\ GroupInv /\ RouteTyped /\ FleetTypeOK
    BY <1>1, NodeTypeStarts, GroupStarts, RouteTypeStarts, FleetTypeStarts DEF ConsoleInit
  <2>2. /\ SessionTyped /\ AuditTyped /\ ScanTyped /\ SetTyped
    BY <1>1, SessionTypeStarts, AuditTypeStarts, ScanTypeStarts, SetTypeStarts DEF ConsoleInit
  <2>3. BoardTyped /\ WorkloadTyped /\ ClockTyped /\ part \in Parts
    BY <1>1, BoardTypeStarts, WorkloadTypeStarts, ClockTypeStarts DEF ConsoleInit
  <2> QED BY <2>1, <2>2, <2>3 DEF PartsTyped
<1>2. ASSUME PartsTyped, [ConsoleNext]_consoleVars PROVE PartsTyped'
  <2>1. /\ [NodeNext]_nodeVars /\ [GroupNext]_groupVars /\ [FleetNext]_fleetVars
        /\ [SetNext]_setVars /\ [BoardNext]_boardVars
    BY <1>2 DEF ConsoleNext, Rest, consoleVars
  <2>2. NodeEntered' /\ GroupInv' /\ FleetTypeOK'
    BY <1>2, <2>1, NodeTypeStep, GroupStep, FleetTypeStep DEF PartsTyped
  <2>3. SetTyped' /\ BoardTyped'
    BY <1>2, <2>1, SetTypeStep, BoardTypeStep DEF PartsTyped
  <2>4. RouteTyped' /\ SessionTyped' /\ AuditTyped'
    BY <1>2, RoutePart, SessionPart, AuditPart, RouteTypeStep, SessionTypeStep, AuditTypeStep
       DEF PartsTyped
  <2>5. ScanTyped' /\ WorkloadTyped' /\ ClockTyped'
    BY <1>2, ScanPart, WorkloadPart, ClockPart, ScanTypeStep, WorkloadTypeStep, ClockTypeStep
       DEF PartsTyped
  <2>6. part' = part
    BY <1>2 DEF ConsoleNext, Rest, consoleVars
  <2> QED BY <1>2, <2>2, <2>3, <2>4, <2>5, <2>6 DEF PartsTyped
<1>3. ASSUME PartsTyped PROVE ConsoleTypeOK
  <2>1. NodeTypeOK /\ GroupTypeOK /\ RouteTypeOK /\ FleetTypeOK
    BY <1>3, NodeTypePromises, GroupPromises, RouteTypePromises DEF PartsTyped
  <2>2. SessionTypeOK /\ AuditTypeOK /\ ScanTypeOK /\ SetTypeOK
    BY <1>3, SetTypePromises DEF PartsTyped, SessionTyped, AuditTyped, ScanTyped
  <2>3. BoardTypeOK /\ WorkloadTypeOK /\ ClockTypeOK
    BY <1>3, BoardTypePromises DEF PartsTyped, WorkloadTyped, ClockTyped
  <2> QED BY <1>3, <2>1, <2>2, <2>3 DEF PartsTyped, ConsoleTypeOK
<1> QED BY <1>1, <1>2, <1>3, PTL DEF ConsoleSpec
=============================================================================
