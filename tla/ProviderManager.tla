-------------------------- MODULE ProviderManager --------------------------
(***************************************************************************)
(* The provider manager of server/provider/: concurrent calls of Execute,  *)
(* which share one execution per request key (singleflight), try the       *)
(* providers in preference order through a circuit breaker each, and       *)
(* record the health of the provider that answered, beside the health      *)
(* checks that record it too.                                              *)
(*                                                                         *)
(* Every provider of the preference list is configured; replacing them     *)
(* with SetProviders is not modelled.  Of a health status only Healthy is  *)
(* read by the program.                                                    *)
(***************************************************************************)
EXTENDS Breaker, Sequences

CONSTANTS Callers,       \* the goroutines that call Execute, again and again
          Providers,     \* the names of the providers
          Preference,    \* cfg.ProviderPreference
          Prompts,       \* the prompts
          NoPrompt,      \* what a goroutine has that is not in a call
          FirstMessage,  \* the first message of each prompt
          Checkers       \* the goroutines that run health checks

ASSUME ManagerAssumption == /\ IsFiniteSet(Callers)
                            /\ Preference \in Seq(Providers)
                            /\ NoPrompt \notin Prompts
                            /\ DOMAIN FirstMessage = Prompts

VARIABLES breaker,   \* m.breakers
          healthy,   \* m.healthStates, field Healthy
          flights,   \* m.group: the callers whose function singleflight is running
          pc,        \* where each caller is in Execute
          prompt,    \* the prompt of each call
          leader,    \* the caller whose execution a call shares
          index,     \* the position in the preference list of the current provider
          result,    \* the error of the last result
          cancelled, \* the callers whose context is cancelled
          answer     \* the answer a health check has got and not recorded

health   == <<healthy, answer>>
callVars == <<flights, pc, prompt, leader, index, result, cancelled>>
vars     == <<breaker, healthy, flights, pc, prompt, leader, index, result,
              cancelled, answer>>

CallStates == {"idle", "waiting", "choosing", "attempting", "running", "failed",
               "finishing", "delivering"}
Results    == {"none", "ok", "error", "refused", "cancelled", "panic"}

Init == /\ breaker = [p \in Providers |-> NewGeneration("closed")]
        /\ healthy = [p \in Providers |-> TRUE]
        /\ flights = {}
        /\ pc = [c \in Callers |-> "idle"]
        /\ prompt = [c \in Callers |-> NoPrompt]
        /\ leader = [c \in Callers |-> c]
        /\ index = [c \in Callers |-> 1]
        /\ result = [c \in Callers |-> "none"]
        /\ cancelled = {}
        /\ answer = [k \in Checkers |-> <<>>]

Goto(c, from, to) == /\ pc[c] = from
                     /\ pc' = [pc EXCEPT ![c] = to]

Exhausted(c) == index[c] > Len(Preference)

\* The provider at which the loop of executeWithRetries is.
At(c) == Preference[index[c]]

\* It is called like the last provider of the list.
AtLast(c) == At(c) = Preference[Len(Preference)]

-----------------------------------------------------------------------------
(***************************************************************************)
(* Execute and singleflight.                                               *)
(***************************************************************************)

\* generateRequestKey: the content and role of the first message only.
Key(p) == FirstMessage[p]

\* The executions under way for a key.
FlightsOf(key) == {c \in flights : Key(prompt[c]) = key}

\* Do finds no execution of the key and begins one.
Lead(c, p) ==
    /\ Goto(c, "idle", "choosing")
    /\ FlightsOf(Key(p)) = {}
    /\ flights' = flights \cup {c}
    /\ prompt' = [prompt EXCEPT ![c] = p]
    /\ UNCHANGED <<breaker, health, leader, index, result, cancelled>>

\* Do finds an execution of the key and waits for its result.
Join(c, p) ==
    /\ Goto(c, "idle", "waiting")
    /\ \E l \in FlightsOf(Key(p)) : leader' = [leader EXCEPT ![c] = l]
    /\ prompt' = [prompt EXCEPT ![c] = p]
    /\ UNCHANGED <<breaker, health, flights, index, result, cancelled>>

\* Faulty variant: the sharers are not told.
FinishAlone(c) ==
    /\ Goto(c, "finishing", "delivering")
    /\ flights' = flights \ {c}
    /\ cancelled' = cancelled \ {c}
    /\ UNCHANGED <<breaker, health, prompt, leader, index, result>>

\* The function given to Do has returned or panicked: the key is free again,
\* and everyone who shares the execution gets its result.
Finish(c) ==
    LET sharing == {d \in Callers : leader[d] = c /\ pc[d] = "waiting"} IN
    /\ pc[c] = "finishing"
    /\ pc' = [d \in Callers |-> IF d \in sharing \cup {c} THEN "delivering" ELSE pc[d]]
    /\ index' = [d \in Callers |-> IF d \in sharing THEN index[c] ELSE index[d]]
    /\ result' = [d \in Callers |-> IF d \in sharing THEN result[c] ELSE result[d]]
    /\ flights' = flights \ {c}
    /\ cancelled' = cancelled \ {c}
    /\ UNCHANGED <<breaker, health, prompt, leader>>

\* Execute returns.  Only a result without an error reaches processResult,
\* where UpdateHealthStatus marks its provider healthy.
Deliver(c) ==
    /\ Goto(c, "delivering", "idle")
    /\ healthy' = IF result[c] = "ok" THEN [healthy EXCEPT ![At(c)] = TRUE] ELSE healthy
    /\ prompt' = [prompt EXCEPT ![c] = NoPrompt]
    /\ leader' = [leader EXCEPT ![c] = c]
    /\ index' = [index EXCEPT ![c] = 1]
    /\ result' = [result EXCEPT ![c] = "none"]
    /\ UNCHANGED <<breaker, answer, flights, cancelled>>

\* The client of a call goes away.  Only the context of a leader is looked at:
\* a call that waits for a shared result goes on waiting.
Cancel(c) ==
    /\ c \in flights \ cancelled
    /\ pc[c] # "finishing"
    /\ cancelled' = cancelled \cup {c}
    /\ UNCHANGED <<breaker, health, flights, pc, prompt, leader, index, result>>

-----------------------------------------------------------------------------
(***************************************************************************)
(* executeWithRetries, run by the leader, and executeOperation.            *)
(***************************************************************************)

\* getProviderResources: the provider is healthy and will be tried, or not.
Choose(c) ==
    /\ pc[c] = "choosing"
    /\ ~Exhausted(c)
    /\ \/ /\ healthy[At(c)]
          /\ pc' = [pc EXCEPT ![c] = "attempting"]
          /\ UNCHANGED index
       \/ /\ ~healthy[At(c)]
          /\ index' = [index EXCEPT ![c] = @ + 1]
          /\ UNCHANGED pc
    /\ UNCHANGED <<breaker, health, flights, prompt, leader, result, cancelled>>

\* The loop is over: the last result, or "no healthy provider available".
GiveUp(c) ==
    /\ Exhausted(c)
    /\ Goto(c, "choosing", "finishing")
    /\ result' = [result EXCEPT ![c] = IF @ = "none" THEN "error" ELSE @]
    /\ UNCHANGED <<breaker, health, flights, prompt, leader, index, cancelled>>

\* The breaker returns an error of its own, or lets the operation through,
\* which looks at the leader's context first.
Attempt(c) ==
    /\ \/ /\ Goto(c, "attempting", "running")
          /\ ~Refuses(breaker[At(c)])
          /\ breaker' = [breaker EXCEPT ![At(c)] = Entered(@, c)]
          /\ result' = [result EXCEPT ![c] = IF c \in cancelled THEN "cancelled" ELSE "none"]
       \/ /\ Goto(c, "attempting", "failed")
          /\ Refuses(breaker[At(c)])
          /\ breaker' = [breaker EXCEPT ![At(c)] = Current(@)]
          /\ result' = [result EXCEPT ![c] = "refused"]
    /\ UNCHANGED <<health, flights, prompt, leader, index, cancelled>>

\* The operation of a call can end so: with ctx.Err() only if the leader's
\* context is cancelled, and surely if it was on entry.
MayEnd(c, how) == IF how = "cancelled" THEN c \in cancelled ELSE result[c] = "none"

\* Faulty variant: a cancelled operation is not reported to the breaker.
EndUnlessCancelled(c, how) ==
    /\ Goto(c, "running", IF how \in {"ok", "panic"} THEN "finishing" ELSE "failed")
    /\ MayEnd(c, how)
    /\ breaker' = IF how = "cancelled" THEN breaker
                  ELSE [breaker EXCEPT ![At(c)] = Left(@, c, how = "ok")]
    /\ result' = [result EXCEPT ![c] = how]
    /\ UNCHANGED <<health, flights, prompt, leader, index, cancelled>>

\* The operation ends.  The breaker counts everything but success as a
\* failure; a panic leaves the loop.
End(c, how) ==
    /\ Goto(c, "running", IF how \in {"ok", "panic"} THEN "finishing" ELSE "failed")
    /\ MayEnd(c, how)
    /\ breaker' = [breaker EXCEPT ![At(c)] = Left(@, c, how = "ok")]
    /\ result' = [result EXCEPT ![c] = how]
    /\ UNCHANGED <<health, flights, prompt, leader, index, cancelled>>

\* Faulty variant: the same provider is tried again as long as it fails.
RetrySame(c) ==
    /\ Goto(c, "failed", "choosing")
    /\ breaker' = [breaker EXCEPT ![At(c)] = Current(@)]
    /\ UNCHANGED <<health, flights, prompt, leader, index, result, cancelled>>

\* After a failure the next provider is tried if the breaker is now open and
\* not that of the last provider, else the error is returned.
AfterFailure(c) ==
    /\ pc[c] = "failed"
    /\ LET now == Current(breaker[At(c)]) IN
       /\ breaker' = [breaker EXCEPT ![At(c)] = now]
       /\ IF now.state = "open" /\ ~AtLast(c)
          THEN /\ pc' = [pc EXCEPT ![c] = "choosing"]
               /\ index' = [index EXCEPT ![c] = @ + 1]
          ELSE /\ pc' = [pc EXCEPT ![c] = "finishing"]
               /\ UNCHANGED index
    /\ UNCHANGED <<health, flights, prompt, leader, result, cancelled>>

\* (Breaker states read only to be logged are left out: the next use of the
\* breaker reads them too.)
Step(c) == Choose(c) \/ GiveUp(c) \/ Attempt(c) \/ AfterFailure(c) \/ Finish(c) \/ Deliver(c)

EndSomehow(c) == \E how \in {"ok", "error", "cancelled", "panic"} : End(c, how)

-----------------------------------------------------------------------------
(***************************************************************************)
(* Health checks (checkAllProviders, PerformHealthCheck) and time.         *)
(***************************************************************************)

\* A provider answers the prompt "health check", or fails to in five seconds.
CheckAnswered(k, p, ok) ==
    /\ answer[k] = <<>>
    /\ answer' = [answer EXCEPT ![k] = <<p, ok>>]
    /\ UNCHANGED <<breaker, healthy, callVars>>

\* UpdateHealthStatus with that answer.
CheckRecorded(k) ==
    /\ answer[k] # <<>>
    /\ healthy' = [healthy EXCEPT ![answer[k][1]] = answer[k][2]]
    /\ answer' = [answer EXCEPT ![k] = <<>>]
    /\ UNCHANGED <<breaker, callVars>>

Expire(p) ==
    /\ MayExpire(breaker[p])
    /\ breaker' = [breaker EXCEPT ![p].expired = TRUE]
    /\ UNCHANGED <<health, callVars>>

Next == \/ \E c \in Callers, p \in Prompts : Lead(c, p) \/ Join(c, p)
        \/ \E c \in Callers : Step(c) \/ EndSomehow(c) \/ Cancel(c)
        \/ \E k \in Checkers, p \in Providers, ok \in BOOLEAN : CheckAnswered(k, p, ok)
        \/ \E k \in Checkers : CheckRecorded(k)
        \/ \E p \in Providers : Expire(p)

Spec == Init /\ [][Next]_vars

(***************************************************************************)
(* Fairness: a goroutine goes on, and an operation ends, as the time limit *)
(* on the backend request makes it do.  Nobody has to call, to cancel or   *)
(* to check, and a breaker may stay open.                                  *)
(***************************************************************************)
Fairness == \A c \in Callers : WF_vars(Step(c)) /\ WF_vars(EndSomehow(c))

FairSpec == Spec /\ Fairness

-----------------------------------------------------------------------------
\* Every variable holds a value of the code's type for it.
TypeOK == /\ breaker \in [Providers -> Breakers(Callers)]
          /\ healthy \in [Providers -> BOOLEAN]
          /\ flights \subseteq Callers
          /\ pc \in [Callers -> CallStates]
          /\ prompt \in [Callers -> Prompts \cup {NoPrompt}]
          /\ leader \in [Callers -> Callers]
          /\ index \in [Callers -> 1..(Len(Preference) + 1)]
          /\ result \in [Callers -> Results]
          /\ cancelled \subseteq Callers
          /\ answer \in [Checkers -> {<<>>} \cup (Providers \X BOOLEAN)]

\* Requests with the same key are executed once at a time, through
\* failover, refusals, panics and cancellations.
OneExecutionPerKey ==
    \A c, d \in Callers :
        /\ pc[c] \in {"choosing", "attempting", "running", "failed", "finishing"}
        /\ pc[d] \in {"choosing", "attempting", "running", "failed", "finishing"}
        /\ Key(prompt[c]) = Key(prompt[d])
        => c = d

\* A call that waits for a shared result has a leader that is executing the
\* same key and will hand it over: it is not left behind by the next one.
NobodyLeftBehind ==
    \A c \in Callers : pc[c] = "waiting" =>
        leader[c] \in FlightsOf(Key(prompt[c])) /\ pc[leader[c]] # "delivering"

\* The calls that a breaker waits for are running at its provider, and a
\* half-open breaker that refuses everyone waits for one: no probe is lost
\* to a failover, a cancellation or a panic.
NoLostProbe ==
    \A p \in Providers :
        /\ \A c \in breaker[p].calls : pc[c] = "running" /\ At(c) = p
        /\ breaker[p].state = "half-open" /\ breaker[p].requests = MaxRequests
             => breaker[p].calls # {}

\* What a caller sees of its call: its key, and its outcome.
CallKey == [c \in Callers |-> IF pc[c] = "idle" THEN {} ELSE {Key(prompt[c])}]
Outcome == [c \in Callers |-> IF pc[c] = "delivering" THEN result[c] ELSE "none"]

Coalesced == INSTANCE Coalescing WITH
                 Keys     <- {Key(p) : p \in Prompts},
                 Outcomes <- Results \ {"none"},
                 Pending  <- "none",
                 key      <- CallKey,
                 with     <- leader,
                 outcome  <- Outcome

\* The manager implements the shared calls its callers see: nobody begins a
\* second execution of a key, and everyone who joined one gets its outcome and
\* no other, whatever the leader goes through.
ImplementsCoalescing == Coalesced!Spec

\* What the callers see of the breaker of a provider.
Contract(p) == INSTANCE BreakerContract WITH
                   gate    <- Gate(breaker[p]),
                   running <- {c \in Callers : pc[c] = "running" /\ At(c) = p}

\* The breaker of each provider keeps its contract, through everything that the
\* manager does between its calls.
BreakersKeepContract ==
    /\ \A p \in Providers : Contract(p)!Init
    /\ [][ \A p \in Providers : UNCHANGED Contract(p)!vars \/ Contract(p)!Next ]_vars

\* Every call of Execute returns.
EveryCallReturns == \A c \in Callers : pc[c] # "idle" ~> pc[c] = "idle"

-----------------------------------------------------------------------------
(***************************************************************************)
(* What the documents and comments say and the code does not do.           *)
(***************************************************************************)

\* docs/configuration.md:209: if a provider fails, the next one is tried.
FailureTriesNext ==
    \A c \in Callers : pc[c] = "finishing" /\ result[c] = "error"
                         => Exhausted(c) \/ AtLast(c)

\* provider.go:26: the group is for deduplicating identical requests.
DifferentNotShared ==
    \A c \in Callers : pc[c] = "waiting" => prompt[c] = prompt[leader[c]]
=============================================================================
