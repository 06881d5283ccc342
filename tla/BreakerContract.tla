--------------------------- MODULE BreakerContract ---------------------------
(***************************************************************************)
(* What a circuit breaker of server/circuitbreaker/ promises to those who  *)
(* call it, without failure counts, requests, expiry flags or generations: *)
(* whose results count, how many probes it admits, and what can open or    *)
(* close it.  CircuitBreaker implements this specification, and so does    *)
(* each provider's breaker in ProviderManager.                             *)
(***************************************************************************)
EXTENDS Naturals, FiniteSets

CONSTANTS Callers,      \* those who run operations through the breaker
          MaxRequests,  \* how many probes decide
          HasInterval   \* whether a closed breaker starts over now and then

VARIABLES gate,    \* its phase, whose results count, how many probes succeeded
          running  \* the callers that are running an operation

vars == <<gate, running>>

Fresh(phase) == [phase |-> phase, counted |-> {}, wins |-> 0]

Init == /\ gate = Fresh("closed")
        /\ running = {}

\* Time makes an open breaker half-open, and may let a closed one start over.
Lapses(to) == \/ gate.phase = "open" /\ to = "half-open"
              \/ gate.phase = "closed" /\ HasInterval /\ to = "closed"

\* The gate as the next call may find it.
Found == {gate} \cup {Fresh(to) : to \in {p \in {"half-open", "closed"} : Lapses(p)}}

Admits(g) == \/ g.phase = "closed"
             \/ g.phase = "half-open" /\ Cardinality(g.counted) + g.wins < MaxRequests

Begin(c) == /\ c \notin running
            /\ \E g \in Found : /\ Admits(g)
                                /\ gate' = [g EXCEPT !.counted = @ \cup {c}]
            /\ running' = running \cup {c}

\* A result that counts.  Failures may open a closed breaker; a probe opens it,
\* is one success of several, or closes it.
Decide(g, ok) == \/ ~ok /\ gate' = Fresh("open")
                 \/ g.phase = "closed" /\ gate' = g
                 \/ /\ g.phase = "half-open" /\ ok
                    /\ gate' = IF g.wins + 1 = MaxRequests THEN Fresh("closed")
                               ELSE [g EXCEPT !.wins = @ + 1]

End(c, ok) == /\ c \in running
              /\ \E g \in Found :
                    \/ c \notin g.counted /\ gate' = g
                    \/ c \in g.counted /\ Decide([g EXCEPT !.counted = @ \ {c}], ok)
              /\ running' = running \ {c}

Look == /\ gate' \in Found
        /\ UNCHANGED running

Next == \/ \E c \in Callers : Begin(c) \/ \E ok \in BOOLEAN : End(c, ok)
        \/ Look

Spec == Init /\ [][Next]_vars
=============================================================================
