----------------------------- MODULE RouteHealth -----------------------------
(***************************************************************************)
(* server/routing/router.go: the configured routes, the middleware in      *)
(* front of them, and the health checks, one goroutine per route. A check  *)
(* is a request to this same server, so it passes the middleware and takes *)
(* tokens of the local address (RateLimit). Interval is positive, paths    *)
(* are plain, handlers are known and answer GET, and the server listens.   *)
(***************************************************************************)
EXTENDS RateLimit, Sequences

Sets == INSTANCE FiniteSetsExt

CONSTANTS N,        \* how many routes the configuration has
          Local,    \* the address from which the checks come
          Guests,   \* other goroutines that serve requests from Local
          Paths,    \* the paths of routes, as sequences of segments
          Versions, \* their versions: none, or one segment
          Chains,   \* their middleware; a required header refuses like "auth"
          Tables,   \* the configurations to choose from
          Enough    \* bound: failures are counted up to this number

Routes == 1..N

\* The checks of a route: none configured, none of type http, or http too.
RouteConfigs == [path : Paths, version : Versions, chain : Chains,
                 check : {"none", "tcp", "http"}, threshold : 1..Enough]

ASSUME RoutesAssumption ==
    /\ N \in Nat /\ Enough \in Nat
    /\ Routes \subseteq Requesters /\ Guests \subseteq Requesters \ Routes
    /\ Local \in Addresses
    /\ Chains \subseteq Seq({"auth", "ratelimit"})
    /\ Tables \subseteq [Routes -> RouteConfigs]

VARIABLES routes,    \* cfg.Routes
          broken,    \* the routes whose handler does not answer 200 in time
          probe,     \* how far each route's check has come
          unread,    \* the entries that the handler it came to has yet to read
          failures,  \* the counter of each route's goroutine
          health,    \* healthState: per path; what is not stored is not unhealthy
          streak     \* history: the failed checks of a route since one succeeded

stored     == <<failures, health, streak>>
checkVars  == <<probe, unread, stored>>
healthVars == <<limitVars, routes, broken, checkVars>>

Stages == {"off", "waiting", "sent", "limited", "passed", "good", "bad"}

HealthTypeOK == /\ LimitTypeOK
                /\ routes \in Tables
                /\ broken \subseteq Routes
                /\ probe \in [Routes -> Stages]
                /\ unread \in [Routes -> SUBSET Paths]
                /\ failures \in [Routes -> 0..Enough]
                /\ streak \in [Routes -> 0..Enough]
                /\ health \in [Paths -> BOOLEAN]

HealthInit == /\ LimitInit
              /\ routes \in Tables
              /\ broken = {}
              /\ probe = [r \in Routes |-> "off"]
              /\ unread = [r \in Routes |-> {}]
              /\ failures = [r \in Routes |-> 0]
              /\ streak = [r \in Routes |-> 0]
              /\ health = [p \in Paths |-> TRUE]

-----------------------------------------------------------------------------
(***************************************************************************)
(* What the router has under a path.                                       *)
(***************************************************************************)
PathOf(r)   == routes[r].path
Checked(r)  == routes[r].check # "none"
HealthPath  == <<"health">>
MetricsPath == <<"metrics">>

\* A route with checks has two endpoints, behind the same middleware.
Full(r)   == routes[r].version \o PathOf(r)
At(r, p)  == Full(r) = p \/ (Checked(r) /\ Full(r) \o HealthPath = p)
Having(p) == {r \in Routes : At(r, p)}

\* What a check of r comes to, as checkHTTPHealth asks for the path without the
\* version: what was registered last, and the router's own endpoints were.
Kind(r)   == CASE PathOf(r) = HealthPath  -> "global"
               [] PathOf(r) = MetricsPath -> "metrics"
               [] OTHER -> IF Having(PathOf(r)) = {} THEN "nothing" ELSE "route"
Target(r) == Sets!Max(Having(PathOf(r)))
Handled(r) == Kind(r) = "route" /\ Full(Target(r)) = PathOf(r)

Chain(r)   == IF Kind(r) = "route" THEN routes[Target(r)].chain ELSE <<>>
Uses(r, m) == \E i \in DOMAIN Chain(r) : Chain(r)[i] = m

\* The entries that the endpoint answers from: the global one asks for all, a
\* route's health endpoint for that of its path.
Needs(r) == CASE Kind(r) = "global" -> Paths
              [] Kind(r) = "route" /\ ~Handled(r) -> {PathOf(Target(r))}
              [] OTHER -> {}

-----------------------------------------------------------------------------
(***************************************************************************)
(* The goroutines of startHealthCheck.                                     *)
(***************************************************************************)
Setup == /\ \A r \in Routes : probe[r] = "off"
         /\ probe' = [r \in Routes |-> IF Checked(r) THEN "waiting" ELSE "off"]
         /\ UNCHANGED <<limitVars, routes, broken, unread, stored>>

Up(n) == IF n < Enough THEN n + 1 ELSE Enough

\* Faulty variants: the counter is not set to zero; the recovery is not stored.
SucceedUncounted(r) == /\ UNCHANGED failures
                       /\ streak' = [streak EXCEPT ![r] = 0]
                       /\ health' = [health EXCEPT ![PathOf(r)] = TRUE]
SucceedUnstored(r)  == /\ failures' = [failures EXCEPT ![r] = 0]
                       /\ streak' = [streak EXCEPT ![r] = 0]
                       /\ UNCHANGED health

\* A check has succeeded: the counter starts anew.
Succeed(r) == /\ failures' = [failures EXCEPT ![r] = 0]
              /\ streak' = [streak EXCEPT ![r] = 0]
              /\ health' = [health EXCEPT ![PathOf(r)] = TRUE]

\* Faulty variant: the state is stored only when the threshold is met exactly.
FailOnce(r) == /\ failures' = [failures EXCEPT ![r] = Up(@)]
               /\ streak' = [streak EXCEPT ![r] = Up(@)]
               /\ health' = IF failures[r] + 1 = routes[r].threshold
                            THEN [health EXCEPT ![PathOf(r)] = FALSE] ELSE health

\* Or failed: routes of one path share one entry of healthState.
Fail(r) == /\ failures' = [failures EXCEPT ![r] = Up(@)]
           /\ streak' = [streak EXCEPT ![r] = Up(@)]
           /\ health' = IF Up(failures[r]) >= routes[r].threshold
                        THEN [health EXCEPT ![PathOf(r)] = FALSE] ELSE health

Reaches(r, stage) == probe' = [probe EXCEPT ![r] = stage]

\* The ticker fires. Without an http check the result is always good.
Tick(r) ==
    /\ probe[r] = "waiting"
    /\ Reaches(r, IF routes[r].check = "http" THEN "sent" ELSE "good")
    /\ UNCHANGED <<limitVars, routes, broken, unread, stored>>

\* Refused before any rate limit: nothing is registered (404), or the check
\* carries no key (401).
Dismissed(r) == Kind(r) = "nothing" \/ (Chain(r) # <<>> /\ Head(Chain(r)) = "auth")

Dismiss(r) ==
    /\ probe[r] = "sent" /\ Dismissed(r)
    /\ Reaches(r, "bad")
    /\ UNCHANGED <<limitVars, routes, broken, unread, stored>>

\* The check comes to the limiter of the local address.
EnterLimit(r) ==
    /\ probe[r] = "sent" /\ ~Dismissed(r) /\ Uses(r, "ratelimit")
    /\ Lookup(r, Local)
    /\ Reaches(r, "limited")
    /\ UNCHANGED <<routes, broken, unread, stored>>

Pass(r) == Reaches(r, "passed") /\ unread' = [unread EXCEPT ![r] = Needs(r)]

\* It is refused with 429, or gets a token and comes to what follows.
LeaveLimit(r) ==
    /\ probe[r] = "limited"
    /\ \/ Refuse(r) /\ Reaches(r, "bad") /\ UNCHANGED unread
       \/ Allow(r) /\ Uses(r, "auth") /\ Reaches(r, "bad") /\ UNCHANGED unread
       \/ Allow(r) /\ ~Uses(r, "auth") /\ Pass(r)
    /\ UNCHANGED <<routes, broken, stored>>

Unlimited(r) ==
    /\ probe[r] = "sent" /\ ~Dismissed(r) /\ ~Uses(r, "ratelimit")
    /\ Pass(r)
    /\ UNCHANGED <<limitVars, routes, broken, stored>>

\* A health endpoint reads an entry, and answers 503 if it is false.
ReadEntry(r) ==
    /\ probe[r] = "passed"
    /\ \E p \in unread[r] :
          \/ health[p] /\ unread' = [unread EXCEPT ![r] = @ \ {p}] /\ UNCHANGED probe
          \/ ~health[p] /\ unread' = [unread EXCEPT ![r] = {}] /\ Reaches(r, "bad")
    /\ UNCHANGED <<limitVars, routes, broken, stored>>

\* All entries were true; or a handler answers, or not with 200 within Timeout.
Answered(r) ==
    /\ probe[r] = "passed" /\ unread[r] = {}
    /\ Reaches(r, IF Handled(r) /\ Target(r) \in broken THEN "bad" ELSE "good")
    /\ UNCHANGED <<limitVars, routes, broken, unread, stored>>

\* The loop of startHealthCheck takes the result of the check.
Take(r) ==
    /\ probe[r] \in {"good", "bad"}
    /\ Reaches(r, "waiting")
    /\ IF probe[r] = "good" THEN Succeed(r) ELSE Fail(r)
    /\ UNCHANGED <<limitVars, routes, broken, unread>>

Check(r) == \/ Tick(r) \/ Dismiss(r) \/ EnterLimit(r) \/ LeaveLimit(r) \/ Unlimited(r)
            \/ ReadEntry(r) \/ Answered(r) \/ Take(r)

\* A handler breaks, or works again.
Break(s) == s \notin broken /\ broken' = broken \union {s}
Mend(s)  == s \in broken /\ broken' = broken \ {s}

\* Other requests from the local address, and time.
Guest == \/ \E q \in Guests : Lookup(q, Local) \/ Allow(q) \/ Refuse(q)
         \/ Refill
         \/ CountFromNow

HealthNext == \/ Setup
              \/ \E r \in Routes : Check(r)
              \/ \E s \in Routes : (Break(s) \/ Mend(s))
                                   /\ UNCHANGED <<limitVars, routes, checkVars>>
              \/ Guest /\ UNCHANGED <<routes, broken, checkVars>>

HealthSpec == HealthInit /\ [][HealthNext]_healthVars

\* Tickers fire and checks have a timeout.
HealthFairness == \A r \in Routes : WF_healthVars(Check(r))

-----------------------------------------------------------------------------

\* A path is reported unhealthy only while one of its routes has failed as many
\* checks in a row as its threshold asks for.
UnhealthyHasCause ==
    \A p \in Paths : ~health[p] =>
        \E r \in Routes : PathOf(r) = p /\ streak[r] >= routes[r].threshold

\* r has an http check, and it runs.
Runs(r) == routes[r].check = "http" /\ probe[r] # "off"

\* Whatever healthState holds, the checks of r fail: they come to nothing, to
\* a middleware that asks for a key, or to a broken handler.
Blocked(r) == \/ Kind(r) = "nothing" \/ Uses(r, "auth")
              \/ Handled(r) /\ Target(r) \in broken

\* A route whose checks fail from some time on has its path reported unhealthy
\* again and again, whatever other routes of that path report. The checks fail
\* if they are blocked or come to an endpoint that answers from an unhealthy
\* entry; the route's own handler may be another and work well.
FailureReported ==
    \A r \in Routes, p \in Paths :
        <>[](Runs(r) /\ (Blocked(r) \/ (p \in Needs(r) /\ ~health[p])))
            => []<>~health[PathOf(r)]

\* When at last the checks of a path come to endpoints that work, through no
\* middleware, the path is reported healthy for good. Of a check that comes to
\* the global endpoint, that asks for all paths to be healthy, its own as well.
RecoveryReported ==
    \A p \in Paths :
        <>[](\A r \in Routes : PathOf(r) = p /\ routes[r].check = "http" =>
                 /\ Runs(r) /\ ~Blocked(r) /\ Chain(r) = <<>>
                 /\ \A q \in Needs(r) : health[q])
            => <>[]health[p]

=============================================================================
