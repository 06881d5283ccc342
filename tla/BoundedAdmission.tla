-------------------------- MODULE BoundedAdmission --------------------------
(***************************************************************************)
(* What the request queue of server/middleware/queue.go promises to the    *)
(* clients of the server, without locks, counters or channels: a set of    *)
(* requests that are inside, a limit that may be changed at any time, and  *)
(* the rule that a request is let in exactly when fewer than limit         *)
(* requests are inside and is refused exactly when that is not so.         *)
(* RequestQueue implements this specification.                             *)
(***************************************************************************)
EXTENDS Integers, FiniteSets

CONSTANTS Requests,     \* the HTTP requests
          Sizes,        \* the limits that may be set
          InitialSize   \* the limit at the start

VARIABLES inside,   \* the requests that are let in and have not left
          limit,    \* the limit in force
          refused,  \* the requests that got 503 "Queue is full"
          gone      \* the requests that have left

vars == <<inside, limit, refused, gone>>

Init == /\ inside = {}
        /\ limit = InitialSize
        /\ refused = {}
        /\ gone = {}

Fresh(r) == r \notin inside \cup refused \cup gone

Admit(r) == /\ Fresh(r)
            /\ Cardinality(inside) < limit
            /\ inside' = inside \cup {r}
            /\ UNCHANGED <<limit, refused, gone>>

Refuse(r) == /\ Fresh(r)
             /\ Cardinality(inside) >= limit
             /\ refused' = refused \cup {r}
             /\ UNCHANGED <<inside, limit, gone>>

Leave(r) == /\ r \in inside
            /\ inside' = inside \ {r}
            /\ gone' = gone \cup {r}
            /\ UNCHANGED <<limit, refused>>

SetLimit(s) == /\ limit' = s
               /\ UNCHANGED <<inside, refused, gone>>

Next == \/ \E r \in Requests : Admit(r) \/ Refuse(r) \/ Leave(r)
        \/ \E s \in Sizes : SetLimit(s)

Spec == Init /\ [][Next]_vars
=============================================================================
