------------------------------- MODULE Breaker -------------------------------
(***************************************************************************)
(* The state of one circuit breaker and the operations on it, as           *)
(* server/circuitbreaker/circuitbreaker.go configures and uses the         *)
(* sony/gobreaker library.  Each operation runs under the library's mutex, *)
(* so each is one step of the modules that use this one.                   *)
(*                                                                         *)
(* The library numbers the generations of its counts and ignores a result  *)
(* whose call began in an earlier one; here a breaker has the set of calls *)
(* of its generation that have not ended.  Requests and successes matter,  *)
(* and are counted, in the half-open state only.                           *)
(***************************************************************************)
EXTENDS Integers, FiniteSets

CONSTANTS MaxRequests,       \* Config.MaxRequests
          FailureThreshold,  \* Config.FailureThreshold
          HasInterval        \* whether Config.Interval > 0

ASSUME BreakerAssumption == /\ MaxRequests \in Nat \ {0}
                            /\ FailureThreshold \in Nat
                            /\ HasInterval \in BOOLEAN

States == {"closed", "half-open", "open"}

\* The breakers whose calls are among those of a set.
Breakers(callers) == [state    : States,
                      calls    : SUBSET callers,
                      requests : 0..MaxRequests,
                      fails    : Nat,
                      succs    : Nat,
                      expired  : BOOLEAN]

\* What BreakerContract knows of a breaker.
Gate(b) == [phase |-> b.state, counted |-> b.calls, wins |-> b.succs]

\* toNewGeneration: the counts are cleared and the expiry is set anew.
NewGeneration(state) == [state    |-> state,
                         calls    |-> {},
                         requests |-> 0,
                         fails    |-> 0,
                         succs    |-> 0,
                         expired  |-> FALSE]

\* The state runs out: an open one after Timeout, a closed one after Interval.
MayExpire(b) == ~b.expired /\ (b.state = "open" \/ (b.state = "closed" /\ HasInterval))

\* currentState: what every operation does first.
Current(b) == IF b.expired /\ b.state = "open" THEN NewGeneration("half-open")
              ELSE IF b.expired /\ b.state = "closed" THEN NewGeneration("closed")
              ELSE b

\* Faulty variant: the probes of the half-open state are not limited.
RefusesOpenOnly(b) == Current(b).state = "open"

\* beforeRequest returns ErrOpenState or ErrTooManyRequests.
Refuses(b) == \/ Current(b).state = "open"
              \/ Current(b).state = "half-open" /\ Current(b).requests >= MaxRequests

\* beforeRequest lets the call c through.
Entered(b, c) ==
    LET now == Current(b) IN
    [now EXCEPT !.calls = @ \cup {c},
                !.requests = IF now.state = "half-open" THEN @ + 1 ELSE @]

\* The ReadyToTrip function that configureCircuitBreaker installs.
ReadyToTrip(fails) == fails >= FailureThreshold

\* Faulty variant: the first probe that succeeds closes the breaker.
SucceededOnce(now) ==
    IF now.state # "half-open" THEN [now EXCEPT !.fails = 0] ELSE NewGeneration("closed")

Succeeded(now) ==
    IF now.state # "half-open" THEN [now EXCEPT !.fails = 0]
    ELSE IF now.succs + 1 >= MaxRequests THEN NewGeneration("closed")
    ELSE [now EXCEPT !.fails = 0, !.succs = @ + 1]

Failed(now) ==
    IF now.state = "half-open" \/ ReadyToTrip(now.fails + 1)
    THEN NewGeneration("open")
    ELSE [now EXCEPT !.fails = @ + 1]

\* Faulty variant: the generation of the call is not looked at.
LeftAnyGeneration(b, c, ok) ==
    LET now == [Current(b) EXCEPT !.calls = @ \ {c}]
    IN  IF ok THEN Succeeded(now) ELSE Failed(now)

\* Faulty variant: a call that failed keeps its place among the probes.
LeftKeepingPlace(b, c, ok) ==
    LET now == Current(b) IN
    IF c \notin now.calls THEN now
    ELSE IF ok THEN Succeeded([now EXCEPT !.calls = @ \ {c}])
    ELSE IF now.state = "half-open" THEN now
    ELSE Failed(now)

\* afterRequest: the result of the call c counts unless the generation in
\* which it began is over.
Left(b, c, ok) ==
    LET now  == Current(b)
        left == [now EXCEPT !.calls = @ \ {c}]
    IN  IF c \notin now.calls THEN now
        ELSE IF ok THEN Succeeded(left) ELSE Failed(left)
=============================================================================
