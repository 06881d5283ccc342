# A TLA+ model of hapax

hapax is a gateway in Go between HTTP clients and providers of large language
models. This directory holds TLA+ modules that model its concurrent parts, the
TLC configurations that check them on small instances, and theorems about them
that TLAPS checks for every instance. `PROJECT.json` lists the runs, the lines
of the source that each definition models, the hazards, and what was found.

Contents: [the system](#the-system) · [modules](#modules) ·
[runs](#runs-and-bounds) · [findings](#what-the-violated-runs-show) ·
[fairness](#fairness) · [proofs](#proofs) ·
[not modelled](#what-is-not-modelled) · [plan](#plan)

## The system

A request enters `server/server.go`'s router and passes, in this order,
RequestID, the request queue (if enabled), RequestTimer, PanicRecovery and
CORS; `/v1/completions` then passes the replay protection, the completion
handler and the processor, which calls the LLM. The provider manager with its
circuit breakers, the route table of `server/routing/`, the timeout and the
rate-limit middleware and the validation middleware are complete, tested parts
of the repository that `server.go` does not wire in.

| component | state | operations | interacts with |
|---|---|---|---|
| request queue, `middleware/queue.go` | FIFO of done channels, `maxSize`, `processing`, gauges, `done` | `Handler`, `SetMaxSize`, `Shutdown` | wraps every later handler; its state file |
| queue persistence, `middleware/queue.go` | state file, its `.tmp`, ticker | `loadState`, `saveState`, `persistStateRoutine` | called by the ticker, by each `SetMaxSize`, by `Shutdown`, by a restart |
| circuit breaker, `circuitbreaker/` | gobreaker's state, counts, generation, expiry; a state gauge | `Execute`, `State` | one per provider, used by the manager |
| provider manager, `provider/` | breakers, health states, singleflight group | `Execute`, health checks, `GetProvider`, `SetProviders` | breakers; providers |
| server lifecycle, `server.go` | `httpServer`, `http3Server`, `running`, `llm`, a lock | `NewServer`, `Start`, `applyConfigUpdate`, `updateServerConfig` | configuration watcher; builds a router, with a new queue, at each reload |
| replay protection, `server.go` | map of request hashes with times, one per router | `ServeHTTP`, `cleanupOldEntries` | in front of the completion handler; replaced by each reload |
| configuration watcher, `config/config_watcher.go` | the current configuration, subscriber channels of capacity 1 | `handleConfigChange`, `Subscribe` | feeds the server |
| configuration, `config/config.go` | none | `Load`, `expandEnvVars`, `Validate` | watcher |
| route table, `routing/router.go` | route health map, a failure counter per route | `setupRoutes`, `startHealthCheck`, health handlers | its own HTTP server |
| timeout, `middleware/timeout.go` | a `written` flag and a goroutine per request | `Timeout` | later handlers, the response writer |
| rate limit and auth, `middleware/` | a token bucket per address | `RateLimit`, `Authentication` | metrics |
| completion path, `handlers/`, `processing/` | templates, default prompt | `ServeHTTP`, `ProcessRequest` | LLM, error responses |
| validation, `validation/` | the validator, the configuration | `ValidateCompletion`, `ValidateOptions` | token counter |
| errors, logging, request id, metrics, mocks | none, or counters only | | everyone |

What is hard in each:

* **Request queue.** The counter changes outside the lock, a finishing request
  removes the *head* of the queue instead of its own element, the limit changes
  under the requests' feet, requests keep arriving during a shutdown, handlers
  panic or never return. Correct means: places are neither lost nor given
  twice, the limit holds for every admission, and "drained" means that nobody
  was inside.
* **Persistence.** Savers race on one temporary file and the process may stop
  anywhere. Correct means: a restart finds a limit that was really in force,
  the state file is never half written, and it is up to date in the end.
* **Circuit breaker.** Operations outlive the states they began in; expiry is
  noticed lazily. Correct means: bounded probes, no probe slot lost, only
  probes decide, recovery after an outage.
* **Provider manager.** Sharers depend on a leader that may fail over, be
  cancelled or panic; health and breaker states change between being read and
  used. Correct means: one execution per key, nobody left waiting, no probe
  lost, every call returns.
* **Lifecycle and watcher.** A reload, a start and a shutdown interleave around
  a lock that is released in between, and the channel that announces reloads
  holds one configuration. Correct means: no server of an older generation
  listens, the newest configuration is served in the end, a reload ends.
* **Replay protection.** Copies of a request race for one map entry, while
  clean-ups of other requests delete entries by key after looking at their age,
  and requests of the router before a reload run on beside those of the new one.
  Correct means: each router lets one of the copies pass in five minutes, old
  entries go.
* **Timeout and completion path.** Two goroutines write one response, and a
  one-place channel tells one of them whether the other has begun. Correct
  means: an answer that was in time arrives whole, nobody gets an empty one, and
  everybody gets one in time.
* **Rate limit and route health.** Lookup and use of a limiter are two steps;
  the checks of a route's health come to whatever the router has under the path
  without its version, pass the middleware of that and take tokens of the same
  limiters; the routes of one path share one entry. Correct means:
  the limit holds over every period, a bad verdict has a cause, failure and
  recovery are reported.
* **Configuration.** Variables stand in variables. Correct means: the expansion
  ends, with every reference replaced by what it finally means.

## Modules

| module | models | needs |
|---|---|---|
| `BoundedAdmission` | what the queue promises: let in exactly when fewer than the limit are inside | |
| `RequestQueue` | `Handler`, `SetMaxSize`, `Shutdown` of `queue.go` | implements `BoundedAdmission` |
| `RequestQueueProofs` | its theorems | `RequestQueue` |
| `QueueState` | `saveState`, `loadState`, `persistStateRoutine`, crash, restart | |
| `QueueStateProofs` | its theorems | `QueueState` |
| `Breaker` | one breaker as a record and the operations on it | |
| `BreakerContract` | what a breaker promises: whose results count, how many probes it admits, what opens and closes it | |
| `CircuitBreaker` | callers, time, gauge and backend around one breaker | `Breaker`; implements `BreakerContract` |
| `CircuitBreakerProofs` | its theorems | `CircuitBreaker`, `BreakerProofs` |
| `BreakerProofs` | lemmas about the operations of a breaker, for any user of it | `Breaker` |
| `Coalescing` | what `Execute` promises: a call begins an execution of its key, or shares the one under way and its outcome | |
| `ProviderManager` | `Execute`, failover, health checks, a breaker per provider | `Breaker`; implements `Coalescing`, and `BreakerContract` once per provider |
| `ProviderManagerProofs` | its theorems | `ProviderManager`, `BreakerProofs` |
| `ConfigWatcher` | `handleConfigChange`, `Subscribe`, the subscriber's channel | |
| `ServerLifecycle` | `NewServer`, `Start`, reloads and their goroutines in `server.go` | composes with `ConfigWatcher` |
| `ServerLifecycleProofs` | its theorems | `ServerLifecycle` |
| `ReplayProtection` | `replayProtectionHandler` of `server.go` | |
| `CompletionPath` | `Timeout`, `CompletionHandler`, `ProcessRequest`, `WriteError` around one response | |
| `CompletionPathProofs` | its theorems | `CompletionPath` |
| `RateLimit` | `GetOrCreate`, `Allow` per address | |
| `RouteHealth` | the route table and its health checks | composes with `RateLimit` |
| `RouterProofs` | theorems about the three | `RouteHealth`, `ReplayProtection` |
| `EnvExpansion` | `expandEnvVars` in `Load` | |
| `MC...` | instances for TLC | |

**RequestQueue.** `pc[r]` is where request `r` is in `Handler`. The critical
section `queue.go:348-369` is one action, `Admit` or `Refuse`; the increment
(`Start`), the end of the inner handler by return or panic (`Unwind`), the
decrement (`Stop`) and the removal under the lock (`Remove`) are one action
each, since other goroutines can run in between. `queue` holds the done
channels, each named by the request that made it, so that one can see whose
element is removed. `Shutdown` is split at every point where others can run:
test of the channel, closing, test of the deadline, poll (one step, because the
read lock stops the queue; the counter falls outside the lock but
before its element leaves the queue), and the 100 ms wait. The five seconds pass
at any moment (`Expire`).

**QueueState.** A saver runs `Capture` (the read lock), `Open` (which truncates
the `.tmp`), `Write` and `Rename`; any of the three file operations may fail and
the process may stop between any two steps. A file's text is reduced to what
`loadState` can tell: absent, empty, whole, or torn (bytes of two texts). An open
descriptor stays with its file when that file is renamed, which is how a second
saver comes to write into the live state file. A restart keeps the files and
runs `loadState`.

**Breaker, CircuitBreaker.** The library numbers generations and ignores results
of older ones; the model keeps the set of calls of the current generation, which
is the same test. The counters are kept in the states in which they decide
something. `configureCircuitBreaker` supplies `ReadyToTrip` and `OnStateChange`;
the library's own part is marked external in the map and follows from how
`circuitbreaker.go` configures it. `BreakerContract` sees of a breaker its *gate*
(`Gate`): the phase, the calls whose results count, and the successes of the
half-open phase. It has no failure counts, no requests and no expiry flag: that
an open breaker has expired shows at its next use, so the contract's steps act
on the gate as found (`Found`). `Begin` and `End` are steps of the contract of
the same names, `State` and `Refuse` its `Look`, and the passing of time and the
gauge are stutters.

**ProviderManager.** Callers make calls again and again. `Lead`, `Join` and
`Finish` are singleflight; `Choose`, `Attempt`, `End` and `AfterFailure` are one
round of the loop of `executeWithRetries`, split where locks are released;
`Deliver` is the return of `Execute` with `processResult`. A health check is a
request and, later, a record of its answer, so verdicts can be recorded out of
order. Prompts are model values with a first message each, which is all that the
key has of them. `Coalescing` sees of a call its key, whose execution it has and
its outcome (`CallKey`, `leader`, `Outcome`); `Lead` and `Join` are its `Call`,
`Finish` its `Settle`, `Deliver` its `Return`, and all else stutters. The
contract of a provider's breaker is entered by `Attempt` and left by `End`;
a look at the state (`AfterFailure`) may move it as `State` does.

**ConfigWatcher, ServerLifecycle.** A write of the file leaves an event; the
event is handled later and loads the file as it is then, stores it (`Load`) and
offers it to the channel (`Notify`). In the server every critical section of
`s.mu` is one action. A *generation* is the pair of servers that one call of
`updateServerConfig` makes; `ref` is `httpServer` and `http3Server`, 0 for nil,
and `calls` holds the goroutines on their way into `ListenAndServe`, which may
run at any later moment, after their server was shut down or while another
server has the port. `handle` follows the goroutine of the reloads through
`applyConfigUpdate`, `start` follows the one call of `Start`. A `Start` that
calls `updateServerConfig` with the lock held is the state `"nested"`, in which
nobody gets the lock again. A cancellation reads the references under the lock
(`SelectDone`); a nil reference is used later, in a goroutine (`Dereference`),
which sets `crashed`, and nothing happens afterwards. The shutdown of a server is one step: a reload holds the lock
meanwhile, and `Start` only counts the answers.

**ReplayProtection.** `at[s]` is where the request of goroutine `s` is and
`router[s]` which router serves it. The
operations of `sync.Map` are one step each: `LoadOrStore` (`Admit`, `Reject`),
and of the clean-up the test of an entry's age (`Visit`) and the `Delete` that
follows it, since other goroutines run in between. An entry's time stamp is its
age, fresh or old. A reload (`NewRouter`) makes a router with an empty map, at any
moment: requests of the old router, whose server's shutdown may have timed out,
go on with the old map. `beaten` and `lost` follow the one sequence in which a
clean-up removes what it should not have.

**CompletionPath.** What the handler and the middleware do to the response is a
list of calls (`todo_h`, `todo_m`), worked off one at a time: content type,
status, body, and the signal in `tw.written` after the last two. The request is
a record of what the checks of `ServeHTTP` ask; `handler` and `guard` are where
the two goroutines are. The LLM returns with an answer or an error, panics, or
does not return.

**RateLimit, RouteHealth.** A limiter is its number of whole tokens. A request
has got a limiter (`Lookup`) and later takes a token from it (`Allow`) or not
(`Refuse`). `routes` is the configured table. `setupRoutes` registers of each
route its handler under version and path (`Full`) and, if it has checks, a health
endpoint below that, in the order of the table, and at last the router's own
`/health` and `/metrics`; what is registered last under a path is what a request
finds (`Having`, `Kind`, `Target`). A health check is a request from the local
address with the route's path *without* its version, as `checkHTTPHealth` builds
it. `EnterLimit`, `LeaveLimit` and `Dismiss` are its way through the middleware of
what it finds. A health endpoint then reads the entries it answers from, one per
step (`Needs`, `ReadEntry`). `probe`, `failures` and `health` are the goroutine of
`startHealthCheck`, its counter and `healthState`; the answer of a check and its
entry in `healthState` (`Take`) are two steps.

**EnvExpansion.** A text is a sequence of plain pieces, references and
references with a default. `ReadFile` is the pass with defaults, `ExpandAgain`
one pass of the loop, `Stop` its end.

Every operator marked "Faulty variant" is a plausible mistake in the code. No
specification uses it; `PROJECT.json` pairs it with the property that finds it.

## Runs and bounds

One run per module and question; safety and liveness share a run where the
instance is small enough for both.

| cfg | checks | bounds and why they are enough |
|---|---|---|
| `RequestQueue` | types, accounting, removal, counter, gauge, admission, drained shutdown; refinement of `BoundedAdmission`; places given back; `Shutdown` ends | 3 requests, so that two are inside, one overtakes the other and one arrives late or is refused; limits 0 and 2 (below and above the number inside); 2 shutdowns that race for the channel |
| `QueueState` | types, only known limits, the ticker's file, the file becomes right | 2 setters, 1 shutdown and the ticker: four savers at once; 1 crash, 1 fault; 2 limits |
| `CircuitBreaker` | types, who decides, gauge, recovery; refinement of `BreakerContract` | 4 callers, 2 probes, threshold 2: two probes beside two late operations |
| `ProviderFlights` | types, nobody left behind, no lost probe; refinement of `Coalescing`, and of `BreakerContract` by each provider's breaker | 3 callers: a leader, a sharer and another leader; 2 keys, 2 providers, threshold 1 so that failover, open and half-open breakers come early; symmetric callers and prompts |
| `ProviderManagerLive` | every call returns | 2 callers of one key, 2 providers, a health checker that changes both verdicts at any moment |
| `ServerLifecycle` | types, no orphan, newest unless missed, what breaks `Start`; a reload ends, and serves | 2 writes of valid and invalid contents: two reloads that overlap each other's listeners, a Start and its shutdown; 2 configurations of one port, one with HTTP/3, so that listeners of different generations meet |
| `RouteHealth` | `RateLimit`, alone and under the health checks: the bound on what passes; an unhealthy path has a cause, failure and recovery are reported | burst 2, three goroutines and one minute, alone with two addresses; tables of 2 routes with thresholds 1 and 2: of one path with and without versions, every middleware list, another check of type http or tcp; or of a path where the router has the first route's handler (`/v1/chat`), its health endpoint (`/v1/chat/health`) or its own `/health` and `/metrics`; a guest who takes their tokens, where a check comes to a limiter at all |
| `ServerParts` | `ReplayProtection`: accepted once per window and router; the store shrinks. `CompletionPath`: whole if in time, never empty, answered. `EnvExpansion`: acyclic variables are expanded to the end | one part per behaviour (`part`), since they share nothing. 2 requests at a time, of 3 hashes to one router, so that two clean-ups meet at one entry while a third request stores another; or of 2 hashes while one reload (`MaxRouters`) brings a second router, so that each router works on its own map with requests of the other beside. Every kind of completion request; every assignment of eight values to 3 variables, two files, texts of up to 9 pieces |

`ProbesBounded` and `HalfOpenDecides` of `CircuitBreaker` and `OneExecutionPerKey`
of `ProviderManager` have no run: they follow from the refinements that the runs
check, and are proved.

`MaxCrashes`, `MaxFaults`, `MaxWrites`, `MaxRouters`, `MaxMinutes`, `Enough` (how
far failures are counted) and `MaxLength` (of a growing text) are the only bounds
in guards. They are constants, and the theorems hold for every value of them.
`MaxMinutes` counts from any moment on (`CountFromNow`), so every period is seen.
Deadlock is checked everywhere but in the configurations of `QueueState`,
`ServerLifecycle` and `ServerParts`: a process whose savers are all over, or that
a nil pointer ended, has nothing left to do, nor has a request that was answered
or a file that was read.

## What the violated runs show

Each checks one sentence of a comment, a document or a test that the code does
not keep; TLC's counterexample is the explanation.

| cfg | the sentence | what happens |
|---|---|---|
| `QueueStateRace` | "ensures state file consistency" (`queue.go:169`) | a saver truncates the file that another is about to rename |
| `ProviderFailover` | "If a provider fails, automatically try the next one" (`docs/configuration.md:209`) | only if the failure finds the breaker open |
| `ProviderSharing` | "deduplicating identical requests" (`provider.go:26`) | the key has the first message only |
| `ServerStale` | "safely applies updates without restart" (`docs/configuration.md:279`) | the second of two quick changes finds the channel full; the first one is applied and stays |

The models also show, without a run of their own:

* a `Shutdown` of the queue that times out returns nil, like one that found it
  drained (`TestDeadline`), although `queue.go:239` says "recording a metric and
  returning an error";
* two concurrent calls of `Shutdown` both find `done` open and the second close
  panics (`CloseDone`, outcome `"panic"`), although `queue.go:242` says that the
  channel is closed only once; the program itself never calls `Shutdown`;
* `Remove` takes the head, so the element of a completed request can stay in
  the queue while that of a running one goes (`queue.go:36` says otherwise);
  `Accounting` shows that it does no harm;
* two saves can end in the order opposite to their `SetMaxSize`, and the file
  then keeps the replaced limit until something saves again (`Capture` and
  `Rename` are steps of each saver); `FileHeals` says that the ticker ends this;
* a failed execution skips `processResult`, so only a health check marks a
  provider unhealthy (`Deliver`), although `docs/api.md:236` says "after any
  failure";
* the early return of `execution.go:104` is taken in the half-open state too, not
  only in the closed one as its comment says (`AfterFailure`);
* a change between the server's first reading of the configuration and its
  `Subscribe` is never applied (`Notify` with nobody subscribed);
* a `Start` that begins while a reload has cleared the references waits for its
  own lock for ever (`Enter`, `"nested"`), and a cancellation in the same window
  reads a nil pointer that ends the process when a goroutine uses it, perhaps
  after the reload (`SelectDone`, `Dereference`); `OnlyReloadsBreakStart` says that
  neither is read at any other moment;
* a reload that completes before `Start`'s goroutine reads `httpServer` leaves
  two goroutines that serve one server; if the reload's listens first, `Start`
  returns an error (`Lookup`, `Listen`);
* a failing shutdown counts twice (`ShutdownOne`), so `Start` may return while
  the other server is still being shut down;
* a `Start` that clears the references after a reload has built new servers
  leaves one that listens and that nothing refers to (`EndStop`), which is why
  `NoOrphan` ends there;
* a timeout that comes between two calls of the handler on the response leaves
  half an answer (status without body), and one that comes before its first
  call can mix two: the handler's 200 with the middleware's body after its own
  (`SeesTimeout`, `MiddlewareWrites`), although `timeout.go:97` says "Only write
  error if nothing has been written yet": the test is true when it is made;
* both then write the map of headers, which may end the process (`HeaderRace`),
  and so does a panic in the handler's goroutine (`Panic`, `timeout.go:79`), which
  the recovery middleware outside cannot catch;
* of a request with a wrong content type or body, the status is written before
  `WriteError` sets the content type, which is then too late (`Begin`);
* a clean-up that found an entry old deletes what the key has by then, so it
  can remove a fresh entry (`Delete`), although `server.go:664` says "Remove
  entries older than 5 minutes"; it takes another clean-up that deletes the old
  entry first and a copy that is accepted in between, and `AcceptedOncePerWindow`
  excepts exactly that sequence;
* around a reload a copy can pass once through each of the routers, since each has
  a map of its own and the old one may still serve requests (`NewRouter`);
* a retry of a request that failed is rejected like a copy (`Reject` does not ask
  what became of the first), and rejected requests run no clean-up, so a map
  whose requests are all rejected does not shrink (`StoreShrinks` asks for
  admissions);
* a bucket of ten with one more token per minute lets eleven requests pass in a
  minute, not "10 requests per minute" (`ratelimit.go:63`), and about one per
  minute in the long run;
* the http check of a route that has a version, which `Validate` demands of every
  route, goes to the path without it (`Target`), although `router.go:243` says
  "returns true if the route is healthy". Mostly nothing is
  registered there, and the path is unhealthy from the `Threshold`-th check on,
  however well the handler works; so it is if what is there asks for a key.
  `FailureReported` says that this shows in the path's entry, and so at the global
  endpoint. But there may also be another route, a route's health endpoint or the
  router's own: the check of a versioned route with path `/health` or `/metrics`
  succeeds whatever its handler does;
* a route with a check and the path `/health` is judged by the global endpoint,
  which asks for all entries, its own too (`Needs`). When another path was
  unhealthy for long enough its entry turns false, and then it stays so, and
  `/health` at 503, for ever after everything works again; `RecoveryReported`
  promises nothing of such a path unless its entry is true;
* a bare route with path `/health` or `/metrics` is hidden by the router's own;
* variables that refer to themselves or grow never settle, so `Load` does not
  return; a default in the value of a variable is lost, since only the first
  pass knows defaults (`Getenv`).

Found on the way, and outside of what the models say: a route's
`HealthCheck.Enabled` is read nowhere, and an `Interval` of zero makes
`NewTicker` panic; the default configuration lists "rate-limit"
(`config.go:422`) where `router.go:73` knows "ratelimit"; the default timeout is
five seconds, and thirty in `docs/api.md:364`; limiters of addresses that are
gone stay in the map.

## Fairness

Weak fairness is assumed of steps that a goroutine takes by itself and of the
passing of time (Go's scheduler and clock): in the queue the steps after the
inner handler has returned and the steps of a shutdown that has begun, in the
persistence the ticker and each saver, in the server the goroutine of the
reloads and the listeners it starts, in the manager each step of a call and
the end of an operation (the backend request has a time limit). In the small
parts: the clean-up of a request that the replay protection has admitted goes on,
the timeout middleware goes on and its deadline passes, tickers fire and health checks end
(they have a timeout), the expansion loop runs. `StoreShrinks` assumes besides
that requests are admitted for ever, and says so. Not assumed:
that a request arrives, that its body can be read to the end, that a handler or
the LLM returns, that the file is written, that
`Start` is called or goes on, that anyone calls `Shutdown`,
that a client cancels, that a health check runs, that a breaker expires, except
in `CircuitBreaker`. Its question is recovery, which needs traffic: it assumes
that the timeout passes and, strongly, that callers go on calling.

## Proofs

The theorems hold for every value of the constants under the named assumptions
of the modules (finite sets of requests and callers, integer sizes, a positive
`MaxRequests`), which TLC also evaluates on every instance.

* `RequestQueueProofs`. The inductive invariant is `TypeOK /\ Accounting`.
  `Accounting` relates the queue's length and the counter to the sets of
  requests by where they are in `Handler`; `RemoveFindsElement` is not
  inductive without it, because it speaks of a length and a place and nothing
  else ties the two together. The lemmas
  `SidesMove` and `FiniteSides` say how one request's step moves it between
  those sets. From the invariant follow the admission bound, the meaning of a
  drained shutdown, and `Refinement`, where `Admit`, `Refuse`, `Remove` and
  `SetMaxSize` map to the abstract steps and all others stutter.
* `QueueStateProofs`. `Provenance`, that every size in memory, in a saver's
  hands or in a whole file was in force, is inductive and yields
  `OnlyKnownLimits` for any number of racing savers. `TickerFileConsistent` is
  about the behaviours up to the first save that is not the ticker's. Until then
  the position of the routine determines what the temporary file holds, which
  is the inductive strengthening; the lemma `OthersQuiet` says that a step that
  leaves the ticker alone moves no other saver. Without `TickerAlone` the
  formula is false (`QueueStateRace`). `SerialSavesKeepFileConsistent` says what
  would make it true: if no two savers are between the opening of the temporary
  file and the renaming at once (`Serial`, what a mutex there would give), the
  file is consistent for any number of savers, through crashes and failing
  operations. The hypothesis is about behaviours, not about constants, and holds
  of all those in which saves do not overlap; what the lone saver relies on is
  that it has truncated what the one before may have left (`SerialInv`).
* `BreakerProofs` and `CircuitBreakerProofs`. `BreakerInv` counts the half-open
  state: probes that run, plus successes, make the requests let through; an open
  breaker holds no calls; and only a breaker whose time means something can have
  expired. Each operation of `Breaker` has a lemma (`EnteredOK`, `LeftGate`,
  `ExpiredOK`, ...) that it preserves this and how it moves the gate, so that
  the steps of `CircuitBreaker` and of `ProviderManager` only cite lemmas.
  `ContractKept` is the refinement of `BreakerContract`: `ContractStep` maps every
  step, and it needs the count, because the contract admits by what is under way
  and the code by what it has let through. `ContractBoundsProbes` is about the
  contract alone: whoever keeps it never has more probes and successes than
  decide, and a half-open gate that admits nobody still waits for a result.
* `ProviderManagerProofs`. The invariant says who is in singleflight's map:
  exactly the callers between `Lead` and `Finish`. From it follows that no two
  execute one key and that a waiter's leader is still there, because `Finish`
  takes the leader out and serves the waiters in one step. For `NoLostProbe` it
  names the calls that a breaker holds: their callers are running an operation
  at that very provider, so a failover, a cancellation or a panic, which all come
  after `End`, leaves none behind. `Settling`, that an execution that ends has an
  outcome and that whoever does not wait would lead, is what the refinement of
  `Coalescing` needs besides; `UnderWayIsFlights` is its heart.
  `ManagerKeepsContracts` shows that each step of the manager is a step of the
  contract of one provider's breaker and leaves those of the others alone:
  `AttemptContract`, `EndContract` and `LookContract` are the steps that touch a
  breaker, and `RunsKept` says that no other changes who runs where.
* `ServerLifecycleProofs`. `NoOrphan` speaks of servers that listen, but a
  goroutine that was started long ago may begin to listen now. `Reachable`
  adds those: each is of the current generation or its server was shut down.
  It survives a new generation only because the references are nil when one is
  built, which is the rest of `OrphanInv`. `StoppedForGood` says that `Start`
  does not leave the state in which it cleared the references.
  `NewestUnlessMissed` speaks of a moment when nothing is under way; `OnItsWay`
  follows the stored configuration through the channel and the reload to it.
  `StartBreaksOnlyInReload` locates the reads that let `Start` fail for good. It is
  a property of steps, since the process ends later than it reads; `WindowInv` is
  the invariant behind it: a server that was built is referred to, outside of the
  window, until `Start` clears the references.
* `CompletionPathProofs`. Neither `CompleteIfInTime` nor `NeverEmpty` is
  inductive: they speak of a response that is finished, and what it will be is
  hidden in the calls that the two goroutines have yet to make. `PathInv`
  (`PathInvariance`) says what those lists can hold at each place of the handler
  and the middleware, that the signal in the channel follows a status, and what
  the response together with the calls to come amounts to (`Answering`, `Kept`).
* `RouterProofs`. `Remembered` says that the map of each router has a fresh entry
  for every hash that it accepted within five minutes and that is not `lost`, and
  `Admit` finds that entry. It is inductive with `Aimed`: what a clean-up is about
  to delete is old, unless another clean-up of the same router was there first.
  No step of another router's requests disturbs either, so nothing is assumed of
  what a reload leaves behind.
  Of the limiters: what has passed a limiter and what it still has never
  exceed the burst and the minutes: the sum is the invariant, the bound its
  consequence. `HealthImplementsLimit` shows that each step of the health checks
  is a step of the rate limit or leaves it alone, so the bound holds of both.
  `UnhealthyHasCause` rests on the counter of a route being its streak, and holds
  of every table.

Model-checked only: all liveness (`PlaceIsGivenBack`, `ShutdownEnds`,
`FileHeals`, `RecoversWithBackend`, `EveryCallReturns`, `ReloadEnds`,
`ReloadServes`, `StoreShrinks`, `RequestAnswered`, `FailureReported`,
`RecoveryReported`, `AcyclicExpanded`), since liveness under fairness and ENABLED
are beyond the prover. Every invariant and every action property of the passing
runs is a theorem.

## What is not modelled

* Pure data: token counting, templates, JSON and YAML, the defaults and
  comparisons of `Validate` (`ConfigWatcher` has their verdict, `RouteHealth` what
  they demand of routes), the rendering of errors and log lines. The request
  validation is struct tags of a library, without state, and not wired in.
* Libraries and the system: TLS, QUIC, `fsnotify`, and `net/http`'s reaction to
  writes on a response whose `ServeHTTP` has returned, which do not reach the
  client whose answer `CompletionPath` describes.
* Counters that nothing in the program reads, and the metrics registry, which
  only holds them; request ids, CORS, timing, logging; the LLM mock.
* A failing write that leaves part of a text behind counts as one that wrote
  nothing: neither can be parsed.
* `SetProviders` (used by tests) while calls run, `GetProvider`, and the fields
  of `HealthStatus` that no decision reads.
* A second `Start` after the first has ended; requests to a server while it is
  reloaded; the queue that each reload's router brings along, whose saving
  goroutine outlives it.
* Routes with required headers other than as authentication, without GET, with
  unknown handlers or with patterns in their paths; a server that does not listen
  when its routes are checked; an `Interval` of zero; fractions of tokens.
* The error of `config.go:539` for one malformed text, which ends `Load` before
  anything is stored, and the fallback answers for JSON that cannot be encoded.

## Plan

Done: everything in the table of modules. What would come next, by importance:

1. `ServerLifecycle` composed with `QueueState`: each reload's router has a queue
   whose saving goroutine is never stopped, so several of them share a file.
2. `SetProviders` beside running calls, and `LastCheck`, which
   `UpdateHealthStatus` ignores, in `ProviderManager`.
3. The option checks of `validation/` and `Validate` as pure modules against
   reference definitions.
4. A run about the route with path `/health` whose entry stays false.
5. Of proofs: what `Coalescing` ensures by itself, as `ContractBoundsProbes` says
   it of the breakers; and that a clean-up of the replay protection under a lock
   would make the exception of `AcceptedOncePerWindow` unnecessary, as `Serial`
   does for the state file.
