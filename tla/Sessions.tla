------------------------------ MODULE Sessions ------------------------------
(***************************************************************************)
(* One local account and one browser (src/tms/core/sessions.py,            *)
(* core/localauth.py, the login, logout and password routes and the        *)
(* slide_session middleware of api/main.py).  Tokens are signed and kept   *)
(* by the browser alone; the account's hash and its failures live in the   *)
(* process and are gone when it restarts.                                  *)
(*                                                                         *)
(* The browser has several requests under way; each is one step when the   *)
(* handler runs and one when the answer, with its cookie, arrives.         *)
(* Signatures, hashes and password strength are left out.                  *)
(***************************************************************************)
EXTENDS Integers, FiniteSets

CONSTANTS
    Tabs,             \* requests the browser may have under way
    IdleTimeout,      \* session_idle_timeout_minutes
    AbsoluteTimeout,  \* session_absolute_timeout_hours
    LockoutTime,      \* LOCKOUT_SECONDS
    FailedAttempts,   \* MAX_FAILED_ATTEMPTS
    MaxClock,         \* bound on the clock
    MaxApiRestarts    \* bound on restarts of tms-api

ASSUME SessionAssumption ==
    /\ {IdleTimeout, AbsoluteTimeout, LockoutTime, FailedAttempts} \subseteq Nat \ {0}
    /\ {MaxClock, MaxApiRestarts} \subseteq Nat

VARIABLES
    now,
    account,      \* the password the process accepts, and must_change_password
    failures,     \* when attempts failed
    cookie,       \* the browser's session cookie
    flight,       \* the answer each tab waits for
    apiRestarts,
    proved,       \* history: when a password was last accepted
    settled       \* history: a change of password was answered with nothing else under way

sessionVars ==
    <<now, account, failures, cookie, flight, apiRestarts, proved, settled>>

-----------------------------------------------------------------------------
Passwords == {"temporary", "own"}
Temporary == [password |-> "temporary", mustChange |-> TRUE]
Times == 0..MaxClock

Claims == [iat : Times, seen : Times, chg : BOOLEAN]
NoCookie == [iat |-> 0, seen |-> 0, chg |-> FALSE, none |-> TRUE]
Cookie(token) == [iat |-> token.iat, seen |-> token.seen, chg |-> token.chg, none |-> FALSE]

\* SessionCodec.issue, verify and refresh.
Issue(mustChange) == [iat |-> now, seen |-> now, chg |-> mustChange]
Verified(c) ==
    /\ ~c.none
    /\ now - c.iat <= AbsoluteTimeout
    /\ now - c.seen <= IdleTimeout
RefreshFromNow(c) == [iat |-> now, seen |-> now, chg |-> c.chg]
Refresh(c) == [iat |-> c.iat, seen |-> now, chg |-> c.chg]

\* current_principal: the gate a temporary password puts up.
Gated(c, path) == c.chg /\ path = "other"

\* LocalAuthenticator: _is_locked and _record_failure drop what is too old.
Recent == {f \in failures : now - f.at < LockoutTime}
Locked == Cardinality(Recent) >= FailedAttempts
Accepts(password) == ~Locked /\ account.password = password

\* Mutated form of AfterAttempt: attempts count while the account is locked.
AfterAttemptAlways(password) ==
    IF Accepts(password) THEN {}
    ELSE Recent \union {[at |-> now, nth |-> Cardinality(Recent)]}

AfterAttempt(password) ==
    IF Accepts(password) THEN {}
    ELSE IF Locked THEN Recent
    ELSE Recent \union {[at |-> now, nth |-> Cardinality(Recent)]}

-----------------------------------------------------------------------------
Landed == [sets |-> "landed", token |-> NoCookie, late |-> FALSE, change |-> FALSE]

\* An answer either carries a token of its own, deletes the cookie, leaves it
\* alone, or is left to slide_session, which carries the request's claims.
Late == now - proved > AbsoluteTimeout
SessionAnswer(sets, token, late) == [sets |-> sets, token |-> token, late |-> late, change |-> FALSE]
ChangeAnswer(sets, token) == [SessionAnswer(sets, token, Late) EXCEPT !.change = TRUE]
SessionRefused == SessionAnswer("nothing", NoCookie, FALSE)

SessionTypeOK ==
    /\ now \in Times
    /\ account \in [password : Passwords, mustChange : BOOLEAN]
    /\ failures \subseteq [at : Times, nth : 0..FailedAttempts]
    /\ cookie = NoCookie \/ cookie \in {Cookie(c) : c \in Claims}
    /\ \A t \in Tabs : flight[t].sets \in {"landed", "token", "delete", "nothing", "refresh"}
    /\ apiRestarts \in 0..MaxApiRestarts
    /\ proved \in Times /\ settled \in BOOLEAN

SessionInit ==
    /\ now = 0
    /\ account = Temporary
    /\ failures = {}
    /\ cookie = NoCookie
    /\ flight = [t \in Tabs |-> Landed]
    /\ apiRestarts = 0
    /\ proved = 0
    /\ settled = FALSE

Login(t, password) ==
    /\ flight[t] = Landed
    /\ failures' = AfterAttempt(password)
    /\ IF Accepts(password)
       THEN /\ flight' = [flight EXCEPT ![t] =
                   SessionAnswer("token", Cookie(Issue(account.mustChange)), FALSE)]
            /\ proved' = now
       ELSE flight' = [flight EXCEPT ![t] = SessionRefused] /\ UNCHANGED proved
    /\ UNCHANGED <<now, account, cookie, apiRestarts, settled>>

Logout(t) ==
    /\ flight[t] = Landed
    /\ flight' = [flight EXCEPT ![t] = SessionAnswer("delete", NoCookie, FALSE)]
    /\ UNCHANGED <<now, account, failures, cookie, apiRestarts, proved, settled>>

\* change_password authenticates first, then refuses the same password again.
\* The answer carries a token of its own, so slide_session leaves it alone.
ChangedAnswerSlid == ChangeAnswer("refresh", cookie)
ChangedAnswer == ChangeAnswer("token", Cookie(Issue(FALSE)))

ChangePassword(t, current, new) ==
    /\ flight[t] = Landed
    /\ Verified(cookie)
    /\ failures' = AfterAttempt(current)
    /\ IF Accepts(current)
       THEN /\ proved' = now
            /\ IF new # current
               THEN /\ account' = [password |-> new, mustChange |-> FALSE]
                    /\ flight' = [flight EXCEPT ![t] = ChangedAnswer]
               ELSE /\ UNCHANGED account
                    /\ flight' = [flight EXCEPT ![t] = SessionRefused]
       ELSE /\ flight' = [flight EXCEPT ![t] = SessionRefused]
            /\ UNCHANGED <<account, proved>>
    /\ UNCHANGED <<now, cookie, apiRestarts, settled>>

\* Any other request: served and left to slide_session, or refused.
Use(t, path) ==
    /\ flight[t] = Landed
    /\ flight' = [flight EXCEPT ![t] =
          IF Verified(cookie) /\ ~Gated(cookie, path)
          THEN SessionAnswer("refresh", cookie, Late)
          ELSE SessionRefused]
    /\ UNCHANGED <<now, account, failures, cookie, apiRestarts, proved, settled>>

\* slide_session runs as the answer leaves, however long the handler took.
Arrive(t) ==
    /\ flight[t] # Landed
    /\ cookie' = CASE flight[t].sets = "token"   -> flight[t].token
                   [] flight[t].sets = "delete"  -> NoCookie
                   [] flight[t].sets = "refresh" -> Cookie(Refresh(flight[t].token))
                   [] OTHER                      -> cookie
    /\ settled' = \/ settled
                  \/ /\ flight[t].change
                     /\ \A u \in Tabs \ {t} : flight[u] = Landed
    /\ flight' = [flight EXCEPT ![t] = Landed]
    /\ UNCHANGED <<now, account, failures, apiRestarts, proved>>

Advance ==
    /\ now < MaxClock
    /\ now' = now + 1
    /\ failures' = {f \in failures : now' - f.at < LockoutTime}
    /\ UNCHANGED <<account, cookie, flight, apiRestarts, proved, settled>>

\* The process starts again with the file's accounts, into which an operator may
\* have copied the new hash as persist_note asks; answers under way are lost.
ApiRestart ==
    /\ apiRestarts < MaxApiRestarts
    /\ apiRestarts' = apiRestarts + 1
    /\ account' \in {Temporary, account}
    /\ failures' = {}
    /\ flight' = [t \in Tabs |-> Landed]
    /\ settled' = FALSE
    /\ UNCHANGED <<now, cookie, proved>>

SessionNext ==
    \/ \E t \in Tabs :
          \/ \E p \in Passwords : Login(t, p)
          \/ \E p, q \in Passwords : ChangePassword(t, p, q)
          \/ \E path \in {"me", "other"} : Use(t, path)
          \/ Logout(t) \/ Arrive(t)
    \/ Advance \/ ApiRestart

SessionSpec == SessionInit /\ [][SessionNext]_sessionVars

-----------------------------------------------------------------------------
\* No session is served longer than its absolute lifetime after a password was
\* last accepted: sliding the idle window, from whichever of several answers,
\* never moves the deadline.
DeadlineHolds == \A t \in Tabs : ~flight[t].late

\* Once a change of password was answered, no answer puts the browser back
\* behind the gate of the temporary password.  The exceptions are an answer
\* already under way beside it, and a restart that forgot the change.
ChangeStands == settled => ~cookie.chg

\* What a browser holds is never worth more, nor less, than the last answers
\* gave it (slide_session, change_password).
SessionHolds == DeadlineHolds /\ ChangeStands
=============================================================================
