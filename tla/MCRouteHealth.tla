---------------------------- MODULE MCRouteHealth ----------------------------
(***************************************************************************)
(* Instances of RouteHealth and of RateLimit alone for TLC.                *)
(***************************************************************************)
EXTENDS RouteHealth, TLC

VARIABLE part \* what runs

vars == <<part, healthVars>>

\* Paths of routes that meet other endpoints of the router, or none.
Chat       == <<"chat">>
V1Chat     == <<"v1", "chat">>
OfV1Chat   == <<"v1", "chat", "health">>
FivePaths  == {Chat, V1Chat, OfV1Chat, HealthPath, MetricsPath}
NoneOrV1   == {<<>>, <<"v1">>}
FiveChains == {<<>>, <<"auth">>, <<"ratelimit">>, <<"ratelimit", "auth">>,
               <<"auth", "ratelimit">>}

Route(version, path, chain, check, threshold) ==
    [version |-> version, path |-> path, chain |-> chain, check |-> check,
     threshold |-> threshold]

\* Two routes of one path, of different thresholds: behind every middleware; and
\* with and without versions, so that one hides the other or neither is found.
OnePath ==
    {<<Route(<<>>, Chat, c, "http", 1), Route(<<"v1">>, Chat, <<>>, k, 2)>> :
        c \in FiveChains, k \in {"tcp", "http"}}
    \union
    {<<Route(v, Chat, <<"auth">>, "http", 1), Route(w, Chat, <<>>, k, 2)>> :
        v \in NoneOrV1, w \in NoneOrV1, k \in {"tcp", "http"}}

\* A route and one whose check comes to another endpoint than its own.
Meeting ==
    {<<Route(<<"v1">>, Chat, c, k, 1), Route(v, p, <<>>, "http", 2)>> :
        v \in NoneOrV1, c \in {<<>>, <<"ratelimit">>}, k \in {"none", "http"},
        p \in {V1Chat, OfV1Chat, HealthPath, MetricsPath}}

SomeTables == OnePath \union Meeting

\* The limiters alone serve all requesters and addresses, whatever the table.
Init == /\ part \in {"limit", "health"}
        /\ HealthInit
        /\ part = "limit" => routes = CHOOSE t \in Tables : TRUE

\* Where no check comes to a limiter, other requests do not matter to it.
Next == \/ part = "limit" /\ LimitNext /\ UNCHANGED <<part, routes, broken, checkVars>>
        \/ part = "health" /\ HealthNext /\ UNCHANGED part
           /\ (limitVars' = limitVars \/ \E r \in Routes : Uses(r, "ratelimit"))

\* Where no check was set up none is fair.
FairSpec == Init /\ [][Next]_vars /\ HealthFairness
=============================================================================
