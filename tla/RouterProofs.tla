---------------------------- MODULE RouterProofs ----------------------------
(***************************************************************************)
(* What the routers of server.go and routing/ promise of their requests,   *)
(* for any number of them. The bound on what passes the rate limit, for    *)
(* every burst: what has passed and what may still pass is paid for by the *)
(* burst and the minutes. The health checks only use the operations of the *)
(* limit, so its bound holds for the composition. The cause of an          *)
(* unhealthy path, for every route table. Who passes the replay protection *)
(* of each router, with requests of several routers under way.             *)
(***************************************************************************)
EXTENDS RouteHealth, ReplayProtection, TLAPS

\* What an address can pass without waiting.
Credit(a) == IF tokens[a] = -1 THEN Burst ELSE tokens[a]

LimitInv == LimitTypeOK /\ \A a \in Addresses : passed[a] + Credit(a) <= Burst + minutes

\* The limiters never hand out more than was paid in, however requests
\* interleave between the lookup of a limiter and its use.
THEOREM LimitInvariance == LimitSpec => []LimitInv
<1> USE BurstAssumption, MinutesAssumption, AddressesAssumption
    DEF LimitInv, LimitTypeOK, Credit
<1>1. LimitInit => LimitInv
  BY DEF LimitInit
<1>2. LimitInv /\ [LimitNext]_limitVars => LimitInv'
  <2> SUFFICES ASSUME LimitInv, [LimitNext]_limitVars PROVE LimitInv'
    OBVIOUS
  <2>1. ASSUME NEW q \in Requesters, NEW a \in Addresses, Lookup(q, a) PROVE LimitInv'
    BY <2>1 DEF Lookup, GetOrCreate
  <2>2. ASSUME NEW q \in Requesters, Allow(q) PROVE LimitInv'
    <3>1. serving[q] \in Addresses
      BY <2>2 DEF Allow
    <3> QED BY <2>2, <3>1 DEF Allow, Leave
  <2>3. ASSUME NEW q \in Requesters, Refuse(q) PROVE LimitInv'
    BY <2>3 DEF Refuse, Leave
  <2>4. CASE Refill
    BY <2>4 DEF Refill
  <2>5. CASE CountFromNow
    BY <2>5 DEF CountFromNow
  <2>6. CASE UNCHANGED limitVars
    BY <2>6 DEF limitVars
  <2> QED BY <2>1, <2>2, <2>3, <2>4, <2>5, <2>6 DEF LimitNext
<1> QED BY <1>1, <1>2, PTL DEF LimitSpec

\* In every period, an address passes at most the burst and one request per
\* minute.
THEOREM LimitPassesBounded == LimitSpec => []PassesBounded
<1>1. LimitInv => PassesBounded
  <2> SUFFICES ASSUME LimitInv, NEW a \in Addresses PROVE passed[a] <= Burst + minutes
    BY DEF PassesBounded
  <2>1. passed[a] \in Nat /\ minutes \in Nat /\ Burst \in Nat /\ tokens[a] \in -1..Burst
    BY BurstAssumption, MinutesAssumption DEF LimitInv, LimitTypeOK
  <2>2. passed[a] + Credit(a) <= Burst + minutes
    BY DEF LimitInv
  <2> QED BY <2>1, <2>2 DEF Credit
<1> QED BY <1>1, LimitInvariance, PTL

-----------------------------------------------------------------------------

\* The requests of health checks and guests are requests to the rate limit.
THEOREM HealthImplementsLimit == HealthSpec => LimitSpec
<1>1. HealthInit => LimitInit
  BY DEF HealthInit
<1>2. [HealthNext]_healthVars => [LimitNext]_limitVars
  <2> SUFFICES ASSUME HealthNext PROVE LimitNext \/ UNCHANGED limitVars
    BY DEF healthVars
  <2> USE RoutesAssumption DEF RoutesAssumption
  <2>1. CASE Setup
    BY <2>1 DEF Setup
  <2>2. ASSUME NEW r \in Routes, Check(r) PROVE LimitNext \/ UNCHANGED limitVars
    <3>1. r \in Requesters
      OBVIOUS
    <3>2. CASE Tick(r) \/ Dismiss(r) \/ Unlimited(r) \/ ReadEntry(r) \/ Answered(r) \/ Take(r)
      BY <3>2 DEF Tick, Dismiss, Unlimited, ReadEntry, Answered, Take
    <3>3. CASE EnterLimit(r) \/ LeaveLimit(r)
      BY <3>1, <3>3 DEF EnterLimit, LeaveLimit, LimitNext
    <3> QED BY <2>2, <3>2, <3>3 DEF Check
  <2>3. CASE Guest
    BY <2>3 DEF Guest, LimitNext
  <2> QED BY <2>1, <2>2, <2>3 DEF HealthNext
<1> QED BY <1>1, <1>2, PTL DEF HealthSpec, LimitSpec

\* What passes the rate limit is bounded also with health checks among it.
THEOREM HealthPassesBounded == HealthSpec => []PassesBounded
BY HealthImplementsLimit, LimitPassesBounded, PTL

\* The counters of the goroutines are the numbers of failed checks in a row,
\* and an unhealthy path has a route whose counter has reached its threshold.
CheckInv == /\ routes \in [Routes -> RouteConfigs]
            /\ failures \in [Routes -> 0..Enough] /\ streak = failures
            /\ health \in [Paths -> BOOLEAN]
            /\ UnhealthyHasCause

\* A result taken by the loop of startHealthCheck keeps the invariant.
LEMMA ResultKeepsCheckInv ==
  ASSUME CheckInv, NEW r \in Routes, Take(r)
  PROVE  CheckInv'
<1> USE RoutesAssumption DEF RoutesAssumption, CheckInv
<1>1. /\ routes' = routes
      /\ \A s \in Routes : PathOf(s) \in Paths /\ PathOf(s)' = PathOf(s)
      /\ \A s \in Routes : routes[s].threshold \in 1..Enough
  BY DEF Take, PathOf, RouteConfigs
<1>2. CASE Succeed(r)
  <2>1. failures' \in [Routes -> 0..Enough] /\ streak' = failures' /\ health' \in [Paths -> BOOLEAN]
    BY <1>1, <1>2 DEF Succeed
  <2>2. ASSUME NEW p \in Paths, ~health'[p]
        PROVE  \E s \in Routes : PathOf(s) = p /\ streak'[s] >= routes[s].threshold
    <3>1. p # PathOf(r) /\ ~health[p]
      BY <1>1, <1>2, <2>2 DEF Succeed
    <3>2. PICK s \in Routes : PathOf(s) = p /\ streak[s] >= routes[s].threshold
      BY <3>1 DEF UnhealthyHasCause
    <3>3. streak'[s] = streak[s]
      BY <1>2, <3>1, <3>2 DEF Succeed
    <3> QED BY <3>2, <3>3
  <2> QED BY <1>1, <2>1, <2>2 DEF UnhealthyHasCause
<1>3. CASE Fail(r)
  <2>1. Up(failures[r]) \in 0..Enough /\ Up(failures[r]) >= failures[r]
    BY DEF Up
  <2>2. failures' \in [Routes -> 0..Enough] /\ streak' = failures' /\ health' \in [Paths -> BOOLEAN]
    BY <1>1, <1>3, <2>1 DEF Fail
  <2>3. ASSUME NEW p \in Paths, ~health'[p]
        PROVE  \E s \in Routes : PathOf(s) = p /\ streak'[s] >= routes[s].threshold
    <3>1. CASE health[p]
      <4>1. p = PathOf(r) /\ Up(failures[r]) >= routes[r].threshold
        BY <1>1, <1>3, <2>3, <3>1 DEF Fail
      <4> QED BY <1>3, <4>1 DEF Fail
    <3>2. CASE ~health[p]
      <4>1. PICK s \in Routes : PathOf(s) = p /\ streak[s] >= routes[s].threshold
        BY <3>2 DEF UnhealthyHasCause
      <4>2. streak'[s] >= streak[s] /\ streak'[s] \in Int
        BY <1>3, <2>1 DEF Fail
      <4>3. routes[s].threshold \in Int /\ streak[s] \in Int
        BY <1>1
      <4> QED BY <4>1, <4>2, <4>3
    <3> QED BY <3>1, <3>2
  <2> QED BY <1>1, <2>2, <2>3 DEF UnhealthyHasCause
<1> QED BY <1>2, <1>3 DEF Take

\* A path is reported unhealthy only for a route that has failed as many checks
\* in a row as its threshold asks for.
THEOREM HealthUnhealthyHasCause == HealthSpec => []UnhealthyHasCause
<1>1. HealthInit => CheckInv
  BY RoutesAssumption DEF HealthInit, CheckInv, UnhealthyHasCause, RoutesAssumption
<1>2. CheckInv /\ [HealthNext]_healthVars => CheckInv'
  <2> SUFFICES ASSUME CheckInv, [HealthNext]_healthVars PROVE CheckInv'
    OBVIOUS
  <2>1. CASE UNCHANGED <<routes, stored>>
    BY <2>1 DEF CheckInv, UnhealthyHasCause, PathOf, stored
  <2>2. ASSUME NEW r \in Routes, Check(r) PROVE CheckInv'
    <3>1. CASE Take(r)
      BY <3>1, ResultKeepsCheckInv
    <3>2. UNCHANGED <<routes, stored>> \/ Take(r)
      BY <2>2 DEF Check, Tick, Dismiss, EnterLimit, LeaveLimit, Unlimited, ReadEntry, Answered
    <3> QED BY <2>1, <3>1, <3>2
  <2> QED BY <2>1, <2>2 DEF HealthNext, Setup, healthVars, checkVars
<1>3. CheckInv => UnhealthyHasCause
  BY DEF CheckInv
<1> QED BY <1>1, <1>2, <1>3, PTL DEF HealthSpec

-----------------------------------------------------------------------------

\* What a router accepted within five minutes is in its map, unless it is lost.
Remembered == \A r \in Routers : \A h \in recent[r] \ lost[r] : seen[r][h] = "fresh"

\* What a clean-up is about to visit or to delete is old, unless another
\* clean-up of the same router was there first.
Aimed == \A s \in Senders :
    /\ at[s] # "cleaning" => todo[s] = {} /\ doomed[s] = {}
    /\ \A h \in todo[s] : seen[router[s]][h] = "old"
    /\ s \notin beaten => \A h \in doomed[s] : seen[router[s]][h] = "old"

\* A clean-up deletes one entry at a time, and has that to visit no more.
Single == \A s \in Senders : \A h \in doomed[s] : doomed[s] = {h} /\ h \notin todo[s]

ReplayInv == /\ ReplayTypeOK /\ Remembered /\ Aimed /\ Single
             /\ beaten \subseteq {s \in Senders : doomed[s] # {}}

\* The steps of a request, the passing of time and a reload keep the invariant.
LEMMA ReplayInvStep == ReplayInv /\ [ReplayNext]_replayVars => ReplayInv'
<1> SUFFICES ASSUME ReplayInv, [ReplayNext]_replayVars PROVE ReplayInv'
  OBVIOUS
<1> DEFINE Late == beaten \subseteq {s \in Senders : doomed[s] # {}}
<1> USE RoutersAssumption, HashesAssumption DEF ReplayInv, Places
<1>0. \A s \in Senders : at[s] # "idle" => router[s] \in Routers /\ hash[s] \in Hashes
  BY DEF ReplayTypeOK
<1>1. ASSUME NEW s \in Senders, NEW h \in Hashes, Arrive(s, h) PROVE ReplayInv'
  <2>1. ReplayTypeOK'
    BY <1>1 DEF Arrive, Goto, ReplayTypeOK, Routers
  <2>2. Remembered' /\ Aimed' /\ Single' /\ Late'
    BY <1>1 DEF Arrive, Goto, ReplayTypeOK, Remembered, Aimed, Single
  <2> QED BY <2>1, <2>2
<1>2. ASSUME NEW s \in Senders, at[s] \notin {"idle", "cleaning"}, Return(s) PROVE ReplayInv'
  <2>1. ReplayTypeOK'
    BY <1>2 DEF Return, Goto, ReplayTypeOK
  <2>2. Remembered' /\ Aimed' /\ Single' /\ Late'
    BY <1>2 DEF Return, Goto, ReplayTypeOK, Remembered, Aimed, Single
  <2> QED BY <2>1, <2>2
<1>3. ASSUME NEW s \in Senders, Admit(s) PROVE ReplayInv'
  <2>1. ReplayTypeOK'
    BY <1>0, <1>3 DEF Admit, Store, Goto, ReplayTypeOK
  <2>2. Remembered'
    BY <1>0, <1>3 DEF Admit, Store, ReplayTypeOK, Remembered
  \* What a clean-up aims at is in the map, and what is stored was not.
  <2>3. Aimed'
    <3> SUFFICES ASSUME NEW t \in Senders
                 PROVE  /\ at'[t] # "cleaning" => todo[t] = {} /\ doomed[t] = {}
                        /\ \A h \in todo[t] : seen'[router[t]][h] = "old"
                        /\ t \notin beaten => \A h \in doomed[t] : seen'[router[t]][h] = "old"
      BY <1>3 DEF Admit, Store, Aimed
    <3>1. at'[t] # "cleaning" => at[t] # "cleaning"
      BY <1>3 DEF Admit, Store, Goto, ReplayTypeOK
    <3>2. ASSUME NEW h \in Hashes, seen[router[t]][h] = "old", router[t] \in Routers
          PROVE  seen'[router[t]][h] = "old"
      BY <1>0, <1>3, <3>2 DEF Admit, Store, ReplayTypeOK
    <3>3. todo[t] \subseteq Hashes /\ doomed[t] \subseteq Hashes
      BY DEF ReplayTypeOK
    <3>4. todo[t] # {} \/ doomed[t] # {} => router[t] \in Routers
      BY <1>0 DEF Aimed
    <3> QED BY <3>1, <3>2, <3>3, <3>4 DEF Aimed
  <2>4. Single' /\ Late'
    BY <1>3 DEF Admit, Store, Single
  <2> QED BY <2>1, <2>2, <2>3, <2>4
<1>4. ASSUME NEW s \in Senders, BeginCleanup(s) PROVE ReplayInv'
  <2>1. ReplayTypeOK'
    BY <1>4 DEF BeginCleanup, Old, Goto, ReplayTypeOK
  <2>2. Remembered' /\ Single' /\ Late'
    BY <1>4 DEF BeginCleanup, Remembered, Single, Aimed, ReplayTypeOK
  <2>3. Aimed'
    BY <1>4 DEF BeginCleanup, Old, Goto, ReplayTypeOK, Aimed
  <2> QED BY <2>1, <2>2, <2>3
<1>5. ASSUME NEW s \in Senders, NEW h \in Hashes, Visit(s, h) PROVE ReplayInv'
  <2>1. ReplayTypeOK'
    BY <1>5 DEF Visit, ReplayTypeOK
  <2>2. Remembered'
    BY <1>5 DEF Visit, Remembered
  <2>3. Aimed' /\ Single' /\ Late'
    BY <1>5 DEF Visit, ReplayTypeOK, Aimed, Single
  <2> QED BY <2>1, <2>2, <2>3
<1>6. ASSUME NEW s \in Senders, Delete(s) PROVE ReplayInv'
  <2>1. router[s] \in Routers /\ doomed[s] \subseteq Hashes
    BY <1>0, <1>6 DEF Delete, ReplayTypeOK
  <2>2. ASSUME NEW r \in Routers, NEW h \in Hashes, seen'[r][h] # seen[r][h]
        PROVE  r = router[s] /\ h \in doomed[s]
    BY <1>6, <2>1, <2>2 DEF Delete, ReplayTypeOK
  <2>3. ReplayTypeOK'
    BY <1>6, <2>1 DEF Delete, Beside, ReplayTypeOK
  \* A fresh entry goes only if the clean-up was beaten, and is lost then.
  <2>4. Remembered'
    <3> SUFFICES ASSUME NEW r \in Routers, NEW h \in Hashes, h \in recent[r], h \notin lost'[r]
                 PROVE  seen'[r][h] = "fresh"
      BY <1>6 DEF Delete, Remembered, ReplayTypeOK
    <3>1. h \notin lost[r] /\ (r = router[s] /\ s \in beaten => h \notin doomed[s])
      BY <1>6, <2>1 DEF Delete, ReplayTypeOK
    <3>2. seen[r][h] = "fresh"
      BY <3>1 DEF Remembered
    <3>3. ~(r = router[s] /\ h \in doomed[s])
      BY <3>1, <3>2 DEF Aimed
    <3> QED BY <2>2, <3>2, <3>3
  <2>5. Single' /\ Late'
    BY <1>6 DEF Delete, Beside, ReplayTypeOK, Single
  \* Who aims at the deleted entry has it no more, or is beaten.
  <2>6. Aimed'
    <3>0. at' = at /\ router' = router
      BY <1>6 DEF Delete
    <3> SUFFICES ASSUME NEW t \in Senders
                 PROVE  /\ at[t] # "cleaning" => todo'[t] = {} /\ doomed'[t] = {}
                        /\ \A h \in todo'[t] : seen'[router[t]][h] = "old"
                        /\ t \notin beaten' => \A h \in doomed'[t] : seen'[router[t]][h] = "old"
      BY <3>0 DEF Aimed
    <3>1. todo'[t] \subseteq todo[t] /\ doomed'[t] \subseteq doomed[t]
      BY <1>6 DEF Delete, Beside, ReplayTypeOK
    <3>2. todo[t] \subseteq Hashes /\ doomed[t] \subseteq Hashes
      BY DEF ReplayTypeOK
    <3>3. todo[t] # {} \/ doomed[t] # {} => router[t] \in Routers
      BY <1>0 DEF Aimed
    <3>4. ASSUME NEW h \in todo'[t] PROVE seen'[router[t]][h] = "old"
      <4>1. ~(router[t] = router[s] /\ h \in doomed[s])
        BY <1>6, <3>4 DEF Delete, Beside, ReplayTypeOK, Single
      <4>2. seen[router[t]][h] = "old"
        BY <3>1 DEF Aimed
      <4> QED BY <2>2, <3>1, <3>2, <3>3, <4>1, <4>2
    <3>5. ASSUME t \notin beaten', NEW h \in doomed'[t] PROVE seen'[router[t]][h] = "old"
      <4>1. t # s /\ t \notin beaten
        BY <1>6, <3>5 DEF Delete, ReplayTypeOK
      <4>2. ~(router[t] = router[s] /\ doomed[t] = doomed[s])
        BY <1>6, <3>5, <4>1 DEF Delete, Beside
      <4>3. seen[router[t]][h] = "old"
        BY <3>1, <4>1 DEF Aimed
      <4>4. ~(router[t] = router[s] /\ h \in doomed[s])
        BY <3>1, <4>2 DEF Single
      <4> QED BY <2>2, <3>1, <3>2, <3>3, <4>3, <4>4
    <3> QED BY <3>1, <3>4, <3>5 DEF Aimed
  <2> QED BY <2>3, <2>4, <2>5, <2>6
<1>7. ASSUME NEW s \in Senders, Handle(s) PROVE ReplayInv'
  <2>1. ReplayTypeOK'
    BY <1>7 DEF Handle, Goto, ReplayTypeOK
  <2>2. Remembered' /\ Aimed' /\ Single' /\ Late'
    BY <1>7 DEF Handle, Goto, ReplayTypeOK, Remembered, Aimed, Single
  <2> QED BY <2>1, <2>2
<1>8. ASSUME NEW r \in Routers, NEW h \in Hashes, Age(r, h) PROVE ReplayInv'
  <2>1. ReplayTypeOK'
    BY <1>8 DEF Age, ReplayTypeOK
  <2>2. Remembered' /\ Single' /\ Late'
    BY <1>8 DEF Age, ReplayTypeOK, Remembered, Single
  <2>3. \A q \in Routers : \A g \in Hashes : seen[q][g] = "old" => seen'[q][g] = "old"
    BY <1>8 DEF Age, ReplayTypeOK
  <2>4. Aimed'
    <3>1. \A t \in Senders : todo[t] # {} \/ doomed[t] # {} => router[t] \in Routers
      BY <1>0 DEF Aimed
    <3> QED BY <1>8, <2>3, <3>1 DEF Age, Aimed, ReplayTypeOK
  <2> QED BY <2>1, <2>2, <2>4
<1>9. CASE NewRouter
  <2>1. ReplayTypeOK'
    BY <1>9 DEF NewRouter, ReplayTypeOK, Routers
  <2> QED BY <1>9, <2>1 DEF NewRouter, Remembered, Aimed, Single
<1>10. CASE UNCHANGED replayVars
  BY <1>10 DEF replayVars, ReplayTypeOK, Remembered, Aimed, Single
<1>11. ASSUME NEW s \in Senders, Serve(s) PROVE ReplayInv'
  <2>1. CASE BodyError(s) \/ Reject(s) \/ Finish(s)
    BY <1>2, <2>1 DEF BodyError, Reject, Finish
  <2>2. CASE CleanUp(s)
    BY <1>4, <1>5, <1>6, <1>7, <2>2 DEF CleanUp
  <2> QED BY <1>3, <1>11, <2>1, <2>2 DEF Serve
<1> QED BY <1>1, <1>8, <1>9, <1>10, <1>11 DEF ReplayNext

\* The memory of each router is complete but for the entries taken away: its map
\* holds a fresh entry for every hash that it accepted within five minutes.
THEOREM ReplayInvariance == ReplaySpec => []ReplayInv
<1>1. ReplayInit => ReplayInv
  BY RoutersAssumption, HashesAssumption
  DEF ReplayInit, ReplayInv, ReplayTypeOK, Remembered, Aimed, Single, Places, Routers
<1> QED BY <1>1, ReplayInvStep, PTL DEF ReplaySpec

\* Concurrent and later copies of a request are turned away for five minutes by
\* a router that accepted one, in every interleaving with the clean-ups of other
\* requests, and with requests of older and newer routers beside.
THEOREM ReplayAcceptedOnce == ReplaySpec => AcceptedOncePerWindow
<1>1. ReplayInv /\ [ReplayNext]_replayVars
        => [\A s \in Senders : at[s] # "stored" /\ at'[s] = "stored"
               => hash[s] \notin recent[router[s]] \ lost[router[s]]]_replayVars
  <2> SUFFICES ASSUME ReplayInv, ReplayNext, NEW s \in Senders,
                      at[s] # "stored", at'[s] = "stored",
                      hash[s] \in recent[router[s]] \ lost[router[s]]
               PROVE FALSE
    OBVIOUS
  <2> USE DEF ReplayInv, ReplayTypeOK
  <2>1. PICK t \in Senders : Serve(t) \/ \E h \in Hashes : Arrive(t, h)
    BY DEF ReplayNext, Age, NewRouter
  <2>2. ASSUME NEW p, p # "stored", Goto(t, p) PROVE FALSE
    BY <2>2 DEF Goto
  <2>3. Admit(t)
    BY <2>1, <2>2 DEF Serve, CleanUp, Arrive, BodyError, Reject, Return, BeginCleanup, Visit,
                       Delete, Handle, Finish
  <2>4. t = s
    BY <2>3 DEF Admit, Store, Goto
  <2>5. router[s] \in Routers
    BY <2>3, <2>4 DEF Admit
  <2> QED BY <2>3, <2>4, <2>5 DEF Admit, Remembered
<1> QED BY <1>1, ReplayInvariance, PTL DEF ReplaySpec, AcceptedOncePerWindow
=============================================================================
