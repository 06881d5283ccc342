--------------------------- MODULE CircuitBreaker ---------------------------
(***************************************************************************)
(* One circuit breaker of server/circuitbreaker/circuitbreaker.go, the     *)
(* goroutines that call Execute on it, the passing of its Timeout and      *)
(* Interval, and its metrics.                                              *)
(***************************************************************************)
EXTENDS Breaker

CONSTANTS Callers   \* the goroutines that call Execute, again and again

ASSUME CallersAssumption == IsFiniteSet(Callers)

VARIABLES b,          \* the breaker
          running,    \* the callers that are executing their operation
          stateGauge, \* the metric circuit_breaker_state
          began,      \* history: the state in which each call began
          backendUp,  \* the environment: whether operations that start now succeed
          mayFail     \* the environment: the operations that met the backend down

env  == <<backendUp, mayFail>>
vars == <<b, running, stateGauge, began, backendUp, mayFail>>

GaugeOf(state) == CASE state = "closed" -> 0 [] state = "half-open" -> 1 [] state = "open" -> 2

Init == /\ b = NewGeneration("closed")
        /\ running = {}
        /\ stateGauge = 0
        /\ began = [c \in Callers |-> "closed"]
        /\ backendUp \in BOOLEAN
        /\ mayFail = {}

\* Faulty variant: the gauge follows the trips only.
BecomesTripsOnly(new) ==
    /\ b' = new
    /\ stateGauge' = IF new.state = "open" THEN 2 ELSE stateGauge

\* The breaker changes, and OnStateChange sets the gauge if its state does.
Becomes(new) ==
    /\ b' = new
    /\ stateGauge' = IF new.state # b.state THEN GaugeOf(new.state) ELSE stateGauge

\* Execute is let through by beforeRequest and starts the operation.
Begin(c) ==
    /\ c \notin running
    /\ ~Refuses(b)
    /\ Becomes(Entered(b, c))
    /\ running' = running \cup {c}
    /\ began' = [began EXCEPT ![c] = Current(b).state]
    /\ mayFail' = IF backendUp THEN mayFail ELSE mayFail \cup {c}
    /\ UNCHANGED backendUp

\* Execute returns ErrOpenState or ErrTooManyRequests.
Refuse(c) ==
    /\ c \notin running
    /\ Refuses(b)
    /\ Becomes(Current(b))
    /\ UNCHANGED <<running, began, env>>

\* The operation returns or panics; a panic counts as a failure and goes on
\* to the caller of Execute.
End(c, ok) ==
    /\ c \in running
    /\ ok \/ c \in mayFail
    /\ Becomes(Left(b, c, ok))
    /\ running' = running \ {c}
    /\ mayFail' = mayFail \ {c}
    /\ UNCHANGED <<began, backendUp>>

\* State, which also moves an expired breaker on.
State == /\ Becomes(Current(b))
         /\ UNCHANGED <<running, began, env>>

\* The Timeout of the open or the Interval of the closed state passes.
Expire == /\ MayExpire(b)
          /\ b' = [b EXCEPT !.expired = TRUE]
          /\ UNCHANGED <<running, stateGauge, began, env>>

BackendChanges == /\ backendUp' = ~backendUp
                  /\ mayFail' = IF backendUp THEN running ELSE mayFail
                  /\ UNCHANGED <<b, running, stateGauge, began>>

Next == \/ \E c \in Callers : Begin(c) \/ Refuse(c) \/ \E ok \in BOOLEAN : End(c, ok)
        \/ State \/ Expire \/ BackendChanges

Spec == Init /\ [][Next]_vars

(***************************************************************************)
(* Fairness: time passes, operations end, and the callers keep calling.    *)
(***************************************************************************)
Fairness == /\ WF_vars(Expire)
            /\ \A c \in Callers : /\ WF_vars(\E ok \in BOOLEAN : End(c, ok))
                                 /\ SF_vars(Begin(c))

FairSpec == Spec /\ Fairness

-----------------------------------------------------------------------------
\* Every variable holds a value of its type; the counters that the state
\* can reach are bounded by the configuration.
TypeOK == /\ b \in Breakers(Callers)
          /\ running \subseteq Callers
          /\ stateGauge \in 0..2
          /\ began \in [Callers -> States]
          /\ backendUp \in BOOLEAN
          /\ mayFail \subseteq running

\* In the half-open state at most MaxRequests operations of the current
\* generation run at once, though operations that began before the breaker
\* opened may still be running beside them.
ProbesBounded == b.state = "half-open" => Cardinality(b.calls) <= MaxRequests

\* A half-open breaker that refuses every call has a probe under way, whose
\* end will decide: no slot is lost to a panic or to a late result.
HalfOpenDecides ==
    b.state = "half-open" /\ b.requests = MaxRequests => b.calls \cap running # {}

\* The gauge shows the state: changes happen under the breaker's mutex.
GaugeFollowsState == stateGauge = GaugeOf(b.state)

\* The half-open state ends only by an operation that began as its probe: a
\* slow operation from before the breaker opened neither closes nor trips it.
OnlyProbesDecide ==
    [][ b.state = "half-open" /\ b'.state # "half-open"
          => \E c \in running \ running' : began[c] = "half-open" ]_vars

Contract == INSTANCE BreakerContract WITH gate <- Gate(b)

\* The breaker keeps its contract.
KeepsContract == Contract!Spec

\* When the backend stays up the breaker closes and stays closed, whatever
\* was running when it recovered.
RecoversWithBackend == <>[]backendUp => <>[](b.state = "closed")
=============================================================================
