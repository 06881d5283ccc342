-------------------------- MODULE ReplayProtection --------------------------
(***************************************************************************)
(* server/server.go: the replayProtectionHandler of each router. A reload  *)
(* makes a new router with a map of its own, while requests of the old one *)
(* may still run: a shutdown that times out is only logged. The time       *)
(* stamps of a map are modelled by an age: an entry is fresh for the five  *)
(* minutes after it was stored, then old. Hashes stand for the requests    *)
(* that have URL, two headers and body in common.                          *)
(***************************************************************************)
EXTENDS Integers, FiniteSets

CONSTANTS Senders,    \* the goroutines that serve POST requests
          Hashes,     \* the values of calculateRequestHash
          NoHash,     \* no such value
          MaxRouters  \* bound: how many routers the reloads build

ASSUME RoutersAssumption == MaxRouters \in Nat
ASSUME HashesAssumption  == NoHash \notin Hashes

VARIABLES at,      \* where each sender's request is
          hash,    \* the hash of that request
          router,  \* the router that serves it, or 0
          todo,    \* the old entries its clean-up has yet to visit
          doomed,  \* the entry it has found old and is about to delete
          seen,    \* the map of each router: the age of each entry, or "absent"
          routers, \* how many routers were built so far
          beaten,  \* history: who found an entry old that another then deleted
          recent,  \* history: what each router accepted within five minutes
          lost     \* history: of these, what such a late Delete took away

replayVars == <<at, hash, router, todo, doomed, seen, routers, beaten, recent, lost>>

Places  == {"idle", "arrived", "checked", "stored", "cleaning", "handling"}
Routers == 1..MaxRouters + 1

ReplayTypeOK == /\ at \in [Senders -> Places]
                /\ hash \in [Senders -> Hashes \union {NoHash}]
                /\ router \in [Senders -> Routers \union {0}]
                /\ \A s \in Senders : /\ at[s] = "idle" <=> hash[s] = NoHash
                                      /\ at[s] = "idle" <=> router[s] = 0
                /\ todo \in [Senders -> SUBSET Hashes]
                /\ doomed \in [Senders -> SUBSET Hashes]
                /\ seen \in [Routers -> [Hashes -> {"absent", "fresh", "old"}]]
                /\ routers \in Routers
                /\ beaten \subseteq Senders
                /\ recent \in [Routers -> SUBSET Hashes]
                /\ lost \in [Routers -> SUBSET Hashes]

ReplayInit == /\ at = [s \in Senders |-> "idle"]
              /\ hash = [s \in Senders |-> NoHash]
              /\ router = [s \in Senders |-> 0]
              /\ todo = [s \in Senders |-> {}]
              /\ doomed = [s \in Senders |-> {}]
              /\ seen = [r \in Routers |-> [h \in Hashes |-> "absent"]]
              /\ routers = 1
              /\ beaten = {}
              /\ recent = [r \in Routers |-> {}]
              /\ lost = [r \in Routers |-> {}]

Goto(s, place) == at' = [at EXCEPT ![s] = place]

\* The newest router's server has accepted a POST request; its body is read and
\* its hash computed, which may last until after the next reload.
Arrive(s, h) ==
    /\ at[s] = "idle"
    /\ Goto(s, "arrived")
    /\ hash' = [hash EXCEPT ![s] = h]
    /\ router' = [router EXCEPT ![s] = routers]
    /\ UNCHANGED <<todo, doomed, seen, routers, beaten, recent, lost>>

Return(s) ==
    /\ Goto(s, "idle")
    /\ hash' = [hash EXCEPT ![s] = NoHash]
    /\ router' = [router EXCEPT ![s] = 0]
    /\ UNCHANGED <<todo, doomed, seen, routers, beaten, recent, lost>>

\* The body cannot be read: 500, and nothing is stored. Or the hash is in the
\* map: 425, whatever the age of the entry and the end of the first request.
BodyError(s) == at[s] = "arrived" /\ Return(s)
Reject(s)    == at[s] = "arrived" /\ seen[router[s]][hash[s]] # "absent" /\ Return(s)

Store(s) == /\ seen' = [seen EXCEPT ![router[s]][hash[s]] = "fresh"]
            /\ recent' = [recent EXCEPT ![router[s]] = @ \union {hash[s]}]
            /\ lost' = [lost EXCEPT ![router[s]] = @ \ {hash[s]}]
            /\ Goto(s, "stored")
            /\ UNCHANGED <<hash, router, todo, doomed, routers, beaten>>

\* Faulty variant: a Load and then a Store.
AdmitTwoSteps(s) ==
    \/ /\ at[s] = "arrived" /\ seen[router[s]][hash[s]] = "absent"
       /\ Goto(s, "checked")
       /\ UNCHANGED <<hash, router, todo, doomed, seen, routers, beaten, recent, lost>>
    \/ at[s] = "checked" /\ Store(s)

\* LoadOrStore finds no entry and stores one.
Admit(s) == at[s] = "arrived" /\ seen[router[s]][hash[s]] = "absent" /\ Store(s)

Old(r) == {h \in Hashes : seen[r][h] = "old"}

\* Faulty variant: only what is stored under the request's own hash is visited.
BeginOwn(s) ==
    /\ at[s] = "stored"
    /\ Goto(s, "cleaning")
    /\ todo' = [todo EXCEPT ![s] = Old(router[s]) \intersect {hash[s]}]
    /\ UNCHANGED <<hash, router, doomed, seen, routers, beaten, recent, lost>>

\* cleanupOldEntries: the entries older than five minutes now.
BeginCleanup(s) ==
    /\ at[s] = "stored"
    /\ Goto(s, "cleaning")
    /\ todo' = [todo EXCEPT ![s] = Old(router[s])]
    /\ UNCHANGED <<hash, router, doomed, seen, routers, beaten, recent, lost>>

\* Range comes to an old entry.
Visit(s, h) ==
    /\ at[s] = "cleaning" /\ doomed[s] = {} /\ h \in todo[s]
    /\ todo' = [todo EXCEPT ![s] = @ \ {h}]
    /\ doomed' = [doomed EXCEPT ![s] = {h}]
    /\ UNCHANGED <<at, hash, router, seen, routers, beaten, recent, lost>>

\* The other clean-ups of the same router.
Beside(s) == {t \in Senders \ {s} : router[t] = router[s]}

\* Delete removes whatever the map now has under the key. An entry stored later
\* is younger than any clean-up that runs now, so nobody visits it.
Delete(s) ==
    /\ at[s] = "cleaning" /\ doomed[s] # {}
    /\ seen' = [seen EXCEPT ![router[s]] =
                    [h \in Hashes |-> IF h \in doomed[s] THEN "absent" ELSE @[h]]]
    /\ lost' = [lost EXCEPT ![router[s]] =
                    @ \union (IF s \in beaten THEN doomed[s] ELSE {})]
    /\ beaten' = (beaten \ {s}) \union {t \in Beside(s) : doomed[t] = doomed[s]}
    /\ todo' = [t \in Senders |-> IF t \in Beside(s) THEN todo[t] \ doomed[s] ELSE todo[t]]
    /\ doomed' = [doomed EXCEPT ![s] = {}]
    /\ UNCHANGED <<at, hash, router, routers, recent>>

\* The completion handler runs after the clean-up; whether it succeeds is not
\* recorded anywhere.
Handle(s) ==
    /\ at[s] = "cleaning" /\ doomed[s] = {} /\ todo[s] = {}
    /\ Goto(s, "handling")
    /\ UNCHANGED <<hash, router, todo, doomed, seen, routers, beaten, recent, lost>>
Finish(s) == at[s] = "handling" /\ Return(s)

\* Five minutes pass since r last accepted h. Nobody can tell the age of an
\* entry of a router that serves no request any more.
Age(r, h) ==
    /\ h \in recent[r]
    /\ r = routers \/ \E s \in Senders : router[s] = r
    /\ seen' = [seen EXCEPT ![r][h] = IF @ = "fresh" THEN "old" ELSE @]
    /\ recent' = [recent EXCEPT ![r] = @ \ {h}]
    /\ UNCHANGED <<at, hash, router, todo, doomed, routers, beaten, lost>>

\* A reload makes a handler with an empty map. Requests of the old router need
\* not have ended: the time-out of their server's shutdown is only logged.
NewRouter ==
    /\ routers <= MaxRouters
    /\ routers' = routers + 1
    /\ UNCHANGED <<at, hash, router, todo, doomed, seen, beaten, recent, lost>>

\* What a request does by itself once it was admitted, up to the handler.
CleanUp(s) == BeginCleanup(s) \/ (\E h \in Hashes : Visit(s, h)) \/ Delete(s) \/ Handle(s)

Serve(s) == BodyError(s) \/ Reject(s) \/ Admit(s) \/ CleanUp(s) \/ Finish(s)

ReplayNext == \/ \E s \in Senders : Serve(s) \/ \E h \in Hashes : Arrive(s, h)
              \/ \E r \in Routers, h \in Hashes : Age(r, h)
              \/ NewRouter

ReplaySpec == ReplayInit /\ [][ReplayNext]_replayVars

\* A clean-up goes on. A body need not end, nor a handler return.
ReplayFairness == \A s \in Senders : WF_replayVars(CleanUp(s))

-----------------------------------------------------------------------------

\* No router accepts a request twice within five minutes: one LoadOrStore
\* decides among concurrent copies, also while a reload leaves two routers at
\* work, which accept one copy each. The only exception is the entry that a
\* clean-up found old, another clean-up deleted, and the late Delete of the
\* first took away again after a copy had been accepted in between.
AcceptedOncePerWindow ==
    [][\A s \in Senders : at[s] # "stored" /\ at'[s] = "stored"
           => hash[s] \notin recent[router[s]] \ lost[router[s]]]_replayVars

\* While a router admits requests for ever, the clean-ups they run remove every
\* entry of it that has become old.
StoreShrinks ==
    \A r \in Routers :
        []<><<\E s \in Senders : router[s] = r /\ Admit(s)>>_replayVars
            => \A h \in Hashes : seen[r][h] = "old" ~> seen[r][h] # "old"
=============================================================================
