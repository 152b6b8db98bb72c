------------------------------ MODULE Upstream ------------------------------
(***************************************************************************)
(* How TMS calls out: the error taxonomy of src/tms/clients/errors.py, the *)
(* circuit breaker of circuit.py and the retry loop TrinoClient._call and  *)
(* GatewayClient._call share, as functions on a breaker record.            *)
(*                                                                         *)
(* A breaker's clock runs backwards: coolFor is what is left of            *)
(* reset_seconds, and the caller's module lets it pass.                    *)
(***************************************************************************)
EXTENDS Integers, Sequences

CONSTANTS
    FailureThreshold, \* circuit_breaker_failures
    ResetTime,        \* circuit_breaker_reset_seconds, in units of time
    ReadRetries       \* read_retries

ASSUME UpstreamAssumption ==
    /\ FailureThreshold \in Nat \ {0}
    /\ ResetTime \in Nat \ {0}
    /\ ReadRetries \in Nat

-----------------------------------------------------------------------------
(* Errors.                                                                 *)

\* What one attempt may meet: a 2xx, a status, or no HTTP answer at all.
Attempts == {"2xx", "401", "403", "404", "500", "503", "refused"}

\* classify_status: airlift answers 500 for an MBean it does not have.
ClassifyStatus(answer, mbeanPath) ==
    CASE answer = "2xx" -> "ok"
      [] answer = "401" -> "unauthorized"
      [] answer = "403" -> "forbidden"
      [] answer = "404" -> "notFound"
      [] answer = "500" /\ mbeanPath -> "notRegistered"
      [] OTHER -> "unavailable"

Transient(result) == result \in {"unavailable", "circuitOpen"}

-----------------------------------------------------------------------------
(* The breaker.                                                            *)

Breakers ==
    [state : {"closed", "open", "halfOpen"}, failures : 0..FailureThreshold,
     coolFor : 0..ResetTime]

ClosedBreaker == [state |-> "closed", failures |-> 0, coolFor |-> 0]

\* The state property, which turns OPEN into HALF_OPEN when it is looked at.
Looked(b) ==
    IF b.state = "open" /\ b.coolFor = 0 THEN [b EXCEPT !.state = "halfOpen"] ELSE b

\* Mutated form of AllowsRequest: an open breaker is never tried again.
AllowsRequestNever(b) == b.state = "closed"

AllowsRequest(b) == Looked(b).state # "open"

RecordSuccess(b) == ClosedBreaker

\* Mutated form of RecordFailure: a permanent failure counts like any other.
RecordFailureAny(b, transient) ==
    LET n == IF b.failures < FailureThreshold THEN b.failures + 1 ELSE b.failures
    IN IF n = FailureThreshold THEN [state |-> "open", failures |-> n, coolFor |-> ResetTime]
       ELSE [b EXCEPT !.failures = n]

\* A failure that will be the same next time neither counts nor resets the
\* count.  The code's count goes on past the threshold; no test tells.
RecordFailure(b, transient) ==
    LET n == IF b.failures < FailureThreshold THEN b.failures + 1 ELSE b.failures
    IN IF ~transient THEN b
       ELSE IF n = FailureThreshold
       THEN [state |-> "open", failures |-> n, coolFor |-> ResetTime]
       ELSE [b EXCEPT !.failures = n]

CoolDown(b, elapsed) ==
    [b EXCEPT !.coolFor = IF b.coolFor > elapsed THEN b.coolFor - elapsed ELSE 0]

-----------------------------------------------------------------------------
(* A call.                                                                 *)

\* The attempts of one call: the first that is not transient is the answer,
\* the last one if none is.
Answer(answers, mbeanPath) ==
    LET decided == {i \in DOMAIN answers : ~Transient(ClassifyStatus(answers[i], mbeanPath))}
    IN IF decided = {} THEN "unavailable"
       ELSE ClassifyStatus(
                answers[CHOOSE i \in decided : \A j \in decided : i <= j], mbeanPath)

\* _call: the breaker is asked once, before the first attempt, and told once,
\* after the last.  A parse error comes after the breaker was told of success.
Call(b, answers, mbeanPath) ==
    LET result == Answer(answers, mbeanPath)
    IN IF ~AllowsRequest(b) THEN [result |-> "circuitOpen", breaker |-> Looked(b)]
       ELSE [result |-> result,
             breaker |-> IF result = "ok" THEN RecordSuccess(Looked(b))
                         ELSE RecordFailure(Looked(b), Transient(result))]

\* What a server in one condition answers to the attempts of a read: the same
\* each time, except that a flapping one may recover between two of them.
ReadAnswers(condition) ==
    IF condition = "flapping" THEN [1..(ReadRetries + 1) -> {"503", "2xx"}]
    ELSE {[i \in 1..(ReadRetries + 1) |-> condition]}
=============================================================================
