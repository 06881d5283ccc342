------------------------------ MODULE RateLimit ------------------------------
(***************************************************************************)
(* server/middleware/ratelimit.go: one limiter per address, shared by all  *)
(* routes and all routers of the process. The limiter is the token bucket  *)
(* of golang.org/x/time/rate; its tokens are counted whole.                *)
(***************************************************************************)
EXTENDS Integers

CONSTANTS Requesters,  \* the goroutines that serve requests
          Addresses,   \* the remote addresses without their ports
          Nobody,      \* no address
          Burst,       \* the capacity of a limiter, 10 in the code
          MaxMinutes   \* bound: for how long requests are counted

ASSUME BurstAssumption     == Burst \in Nat \ {0}
ASSUME MinutesAssumption   == MaxMinutes \in Nat
ASSUME AddressesAssumption == Nobody \notin Addresses

VARIABLES tokens,   \* the tokens of each address's limiter; -1: not in visitors
          serving,  \* the address whose limiter a request has got, or Nobody
          passed,   \* history: requests passed per address since counting began
          minutes   \* history: and the minutes since then

limitVars == <<tokens, serving, passed, minutes>>

LimitTypeOK == /\ tokens \in [Addresses -> -1..Burst]
               /\ serving \in [Requesters -> Addresses \union {Nobody}]
               /\ passed \in [Addresses -> Nat]
               /\ minutes \in 0..MaxMinutes

LimitInit == /\ tokens = [a \in Addresses |-> -1]
             /\ serving = [q \in Requesters |-> Nobody]
             /\ passed = [a \in Addresses |-> 0]
             /\ minutes = 0

\* Faulty variant: a limiter is made for every request.
AlwaysCreate(a) == tokens' = [tokens EXCEPT ![a] = Burst]

\* GetOrCreate, under the lock of the map; a new limiter is full.
GetOrCreate(a) == tokens' = [tokens EXCEPT ![a] = IF @ = -1 THEN Burst ELSE @]

\* A request looks up the limiter of its address.
Lookup(q, a) ==
    /\ serving[q] = Nobody
    /\ GetOrCreate(a)
    /\ serving' = [serving EXCEPT ![q] = a]
    /\ UNCHANGED <<passed, minutes>>

Leave(q) == serving' = [serving EXCEPT ![q] = Nobody]

\* Outside that lock, Allow takes a token and the next handler runs.
Allow(q) ==
    LET a == serving[q] IN
    /\ a # Nobody /\ tokens[a] > 0
    /\ tokens' = [tokens EXCEPT ![a] = @ - 1]
    /\ passed' = [passed EXCEPT ![a] = @ + 1]
    /\ Leave(q)
    /\ UNCHANGED minutes

\* Or there is none: 429.
Refuse(q) ==
    /\ serving[q] # Nobody /\ tokens[serving[q]] = 0
    /\ Leave(q)
    /\ UNCHANGED <<tokens, passed, minutes>>

\* A minute passes: every limiter gets one token, up to its burst.
Refill ==
    /\ minutes < MaxMinutes
    /\ minutes' = minutes + 1
    /\ tokens' = [a \in Addresses |-> IF tokens[a] \in 0..Burst - 1 THEN tokens[a] + 1
                                      ELSE tokens[a]]
    /\ UNCHANGED <<serving, passed>>

\* An observer begins to count anew, at any time.
CountFromNow ==
    /\ passed' = [a \in Addresses |-> 0]
    /\ minutes' = 0
    /\ UNCHANGED <<tokens, serving>>

LimitNext == \/ \E q \in Requesters, a \in Addresses : Lookup(q, a)
             \/ \E q \in Requesters : Allow(q) \/ Refuse(q)
             \/ Refill
             \/ CountFromNow

LimitSpec == LimitInit /\ [][LimitNext]_limitVars

-----------------------------------------------------------------------------

\* From any moment on, an address passes at most the burst and one request for
\* every minute: so up to eleven in some periods of one minute, not the ten
\* that the error's details announce, and never more.
PassesBounded == \A a \in Addresses : passed[a] <= Burst + minutes
=============================================================================
