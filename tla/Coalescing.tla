------------------------------ MODULE Coalescing ------------------------------
(***************************************************************************)
(* What Execute of server/provider/execution.go promises to its callers,   *)
(* without prompts, providers, breakers or contexts: a call begins an      *)
(* execution of its key exactly when none is under way, and shares that    *)
(* one otherwise; an execution settles once, with one outcome for all who  *)
(* share it by then.  ProviderManager implements this specification.       *)
(***************************************************************************)
CONSTANTS Callers,   \* the goroutines that call, again and again
          Keys,      \* the request keys
          Outcomes,  \* how an execution can end
          Pending    \* the outcome of a call that has none yet

VARIABLES key,      \* the key of each call, {} outside of calls
          with,     \* the caller whose execution a call has
          outcome   \* the outcome of each call

vars == <<key, with, outcome>>

Init == /\ key = [c \in Callers |-> {}]
        /\ with = [c \in Callers |-> c]
        /\ outcome = [c \in Callers |-> Pending]

\* Those who execute the key k.
UnderWay(k) == {c \in Callers : key[c] = {k} /\ with[c] = c /\ outcome[c] = Pending}

Begin(k) == /\ UnderWay(k) = {}
            /\ UNCHANGED with

Share(c, k) == \E l \in UnderWay(k) : with' = [with EXCEPT ![c] = l]

Call(c) == /\ key[c] = {}
           /\ \E k \in Keys : /\ key' = [key EXCEPT ![c] = {k}]
                              /\ Begin(k) \/ Share(c, k)
           /\ UNCHANGED outcome

Settle(c) ==
    LET sharers == {d \in Callers : key[d] # {} /\ with[d] = c /\ outcome[d] = Pending} IN
    /\ c \in sharers
    /\ \E o \in Outcomes :
          outcome' = [d \in Callers |-> IF d \in sharers THEN o ELSE outcome[d]]
    /\ UNCHANGED <<key, with>>

Return(c) == /\ outcome[c] # Pending
             /\ key' = [key EXCEPT ![c] = {}]
             /\ with' = [with EXCEPT ![c] = c]
             /\ outcome' = [outcome EXCEPT ![c] = Pending]

Next == \E c \in Callers : Call(c) \/ Settle(c) \/ Return(c)

Spec == Init /\ [][Next]_vars
=============================================================================
