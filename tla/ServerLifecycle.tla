--------------------------- MODULE ServerLifecycle ---------------------------
(***************************************************************************)
(* The lifecycle of the Server of server/server.go: NewServer, the calls   *)
(* of Start with their goroutines, the goroutine handleConfigUpdates that  *)
(* replaces the listeners at each reload, and the configuration watcher    *)
(* they hear from.  Each critical section of s.mu is one step.             *)
(*                                                                         *)
(* A generation is a pair of servers made by one updateServerConfig: the   *)
(* n-th generation has the configuration built[n].  Requests, certificates *)
(* and ports taken by other programs are left out.                         *)
(***************************************************************************)
EXTENDS ConfigWatcher

CONSTANTS PortOf,    \* the port of each configuration
          WithHTTP3  \* the configurations that enable HTTP/3

ASSUME LifecycleAssumption == DOMAIN PortOf = Configs /\ WithHTTP3 \subseteq Configs

VARIABLES built,     \* the configurations of the generations
          ref,       \* s.httpServer and s.http3Server: a generation, or 0 for nil
          listening, \* the servers that listen: <<generation, protocol>>
          closed,    \* the servers that were shut down
          calls,     \* ListenAndServe on its way: <<goroutine, generation, protocol>>
          running,   \* s.running
          start,     \* where the call of Start is
          lookup,    \* whether its HTTP goroutine has yet to read s.httpServer
          failed,    \* whether its errChan holds an error
          cancelled, \* whether its context is cancelled
          toClose,   \* the servers, or nil, its goroutines have to shut down
          owed,      \* how many values of shutdownErrChan it still waits for
          handle,    \* where handleConfigUpdates is
          applying,  \* the configuration that it applies
          skipped,   \* history: whether the last configuration was not applied
          crashed    \* whether a nil pointer has ended the process

serverVars  == <<built, ref, listening, closed, calls>>
startVars   == <<running, start, lookup, failed, cancelled, toClose, owed, crashed>>
updateVars  == <<handle, applying, skipped>>
vars == <<file, writes, events, current, sending, subscribed, channel, missed,
          built, ref, listening, closed, calls,
          running, start, lookup, failed, cancelled, toClose, owed, crashed,
          handle, applying, skipped>>

Protocols == {"http", "http3"}

\* How Start ends, by where it is when it leaves.
Ends == [erring |-> "failed", cleared |-> "stopped", late |-> "timedout"]

\* A Start that calls updateServerConfig waits, with the lock held, for that
\* lock.
LockFree == start # "nested"

Referenced == {p \in Protocols : ref[p] # 0}

\* What a goroutine of Start shuts down when s.httpServer was nil.
Nil == <<0, "http">>

Init == /\ WatcherInit
        /\ built = <<>>
        /\ ref = [p \in Protocols |-> 0]
        /\ listening = {} /\ closed = {} /\ calls = {}
        /\ running = FALSE
        /\ start = "idle"
        /\ lookup = FALSE /\ failed = FALSE /\ cancelled = FALSE
        /\ toClose = {}
        /\ owed = 0
        /\ handle = "idle"
        /\ applying = Initial
        /\ skipped = FALSE
        /\ crashed = FALSE

-----------------------------------------------------------------------------
(***************************************************************************)
(* updateServerConfig.  It is never reached with a server to shut down:    *)
(* NewServer has none and applyConfigUpdate has cleared both references.   *)
(***************************************************************************)
updateServerConfig(config) ==
    /\ LockFree
    /\ built' = Append(built, config)
    /\ ref' = [p \in Protocols |-> IF p = "http" \/ config \in WithHTTP3
                                   THEN Len(built) + 1 ELSE ref[p]]
    /\ UNCHANGED <<listening, closed, calls>>

\* NewServer subscribes after the server is made.
NewServer ==
    \/ /\ built = <<>>
       /\ updateServerConfig(current)
       /\ UNCHANGED <<watcherVars, startVars, updateVars>>
    \/ /\ built # <<>>
       /\ Subscribe
       /\ UNCHANGED <<serverVars, startVars, updateVars>>

-----------------------------------------------------------------------------
(***************************************************************************)
(* Listening.                                                              *)
(***************************************************************************)
Busy(g, p) == \E e \in listening : e[2] = p /\ PortOf[built[e[1]]] = PortOf[built[g]]

\* ListenAndServe: ErrServerClosed after a shutdown, an error if the port is
\* in use, also by the same server.  Only an error of a goroutine of Start
\* goes further than the log.
Listen(who, g, p) ==
    /\ <<who, g, p>> \in calls
    /\ calls' = calls \ {<<who, g, p>>}
    /\ listening' = IF <<g, p>> \in closed \/ Busy(g, p) THEN listening
                    ELSE listening \cup {<<g, p>>}
    /\ failed' = (failed \/ (who = "Start" /\ <<g, p>> \notin closed /\ Busy(g, p)))
    /\ UNCHANGED <<watcherVars, updateVars, built, ref, closed,
                   running, start, lookup, cancelled, toClose, owed, crashed>>

Close(endpoints) == /\ listening' = listening \ endpoints
                    /\ closed' = closed \cup endpoints

-----------------------------------------------------------------------------
(***************************************************************************)
(* handleConfigUpdates and applyConfigUpdate.                              *)
(***************************************************************************)

\* A configuration is received; NewLLM may fail for its provider.
Receive(ok) ==
    /\ handle = "idle"
    /\ \E config \in Configs : Received(config) /\ applying' = config
    /\ handle' = IF ok THEN "stopping" ELSE "idle"
    /\ skipped' = ~ok
    /\ UNCHANGED <<serverVars, startVars>>

\* Faulty variant: the references are cleared but no server is shut down.
StopOldUnclosed ==
    /\ handle = "stopping" /\ LockFree
    /\ handle' = "building"
    /\ ref' = [p \in Protocols |-> 0]
    /\ UNCHANGED <<watcherVars, startVars, built, listening, closed, calls, applying, skipped>>

\* Faulty variant: an error of the shutdown ends the reload.
StopOldOrGiveUp ==
    /\ handle = "stopping" /\ LockFree
    /\ handle' \in {"building", "idle"}
    /\ Close({<<ref[p], p>> : p \in Referenced})
    /\ ref' = [p \in Protocols |-> 0]
    /\ UNCHANGED <<watcherVars, startVars, built, calls, applying, skipped>>

\* Both servers are shut down, or time runs out, and the references cleared.
StopOld ==
    /\ handle = "stopping" /\ LockFree
    /\ handle' = "building"
    /\ Close({<<ref[p], p>> : p \in Referenced})
    /\ ref' = [p \in Protocols |-> 0]
    /\ UNCHANGED <<watcherVars, startVars, built, calls, applying, skipped>>

\* After 100 ms.
BuildNew ==
    /\ handle = "building"
    /\ handle' = "verifying"
    /\ updateServerConfig(applying)
    /\ UNCHANGED <<watcherVars, startVars, applying, skipped>>

\* The references are read again; their servers are started.
StartNew ==
    /\ handle = "verifying" /\ LockFree
    /\ handle' = IF ref["http"] = 0 THEN "idle" ELSE "waiting"
    /\ calls' = IF ref["http"] = 0 THEN calls
                ELSE calls \cup {<<"Updater", ref[p], p>> : p \in Referenced}
    /\ UNCHANGED <<watcherVars, startVars, built, ref, listening, closed, applying, skipped>>

\* Faulty variant: the port must answer.
WaitedForAnswer ==
    /\ handle = "waiting"
    /\ \E e \in listening : PortOf[built[e[1]]] = PortOf[applying]
    /\ handle' = "idle"
    /\ UNCHANGED <<watcherVars, serverVars, startVars, applying, skipped>>

\* waitForServer: the port answers, or five seconds pass.
Waited ==
    /\ handle = "waiting"
    /\ handle' = "idle"
    /\ UNCHANGED <<watcherVars, serverVars, startVars, applying, skipped>>

Update == (\E ok \in BOOLEAN : Receive(ok)) \/ StopOld \/ BuildNew \/ StartNew \/ Waited

-----------------------------------------------------------------------------
(***************************************************************************)
(* Start, called once, as the main functions do.                           *)
(***************************************************************************)
Goto(from, to) == start = from /\ start' = to

\* Another call is rejected while the first one runs.
Reject == running /\ LockFree /\ UNCHANGED vars

\* The first critical section: Start calls updateServerConfig because there
\* is no server, or goes on.
Enter ==
    /\ subscribed /\ ~running
    /\ \/ /\ ref["http"] = 0
          /\ Goto("idle", "nested")
          /\ UNCHANGED <<running, lookup>>
       \/ /\ ref["http"] # 0
          /\ Goto("idle", "spawning")
          /\ running' = TRUE
          /\ lookup' = TRUE
    /\ UNCHANGED <<watcherVars, serverVars, updateVars, failed, cancelled,
                   toClose, owed, crashed>>

\* Faulty variant: without the test for nil.
LookupUnchecked ==
    /\ lookup /\ lookup' = FALSE
    /\ calls' = calls \cup {<<"Start", ref["http"], "http">>}
    /\ UNCHANGED <<watcherVars, updateVars, built, ref, listening, closed,
                   running, start, failed, cancelled, toClose, owed, crashed>>

\* The HTTP goroutine reads s.httpServer.
Lookup ==
    /\ lookup /\ lookup' = FALSE
    /\ IF ref["http"] = 0
       THEN failed' = TRUE /\ UNCHANGED calls
       ELSE calls' = calls \cup {<<"Start", ref["http"], "http">>} /\ UNCHANGED failed
    /\ UNCHANGED <<watcherVars, updateVars, built, ref, listening, closed,
                   running, start, cancelled, toClose, owed, crashed>>

\* The stored configuration and s.http3Server together decide on HTTP/3.
StartHTTP3 ==
    /\ Goto("spawning", "selecting")
    /\ calls' = IF current \in WithHTTP3 /\ ref["http3"] # 0
                THEN calls \cup {<<"Start", ref["http3"], "http3">>} ELSE calls
    /\ UNCHANGED <<watcherVars, updateVars, built, ref, listening, closed,
                   running, lookup, failed, cancelled, toClose, owed, crashed>>

\* case err := <-errChan
SelectError ==
    /\ failed
    /\ Goto("selecting", "erring")
    /\ UNCHANGED <<watcherVars, serverVars, updateVars, running, lookup, failed,
                   cancelled, toClose, owed, crashed>>

\* case <-ctx.Done(): the references are read, and the lock is given back; a
\* goroutine for HTTP, and one for HTTP/3 if there is such a server, follow.
SelectDone ==
    /\ cancelled
    /\ Goto("selecting", "stopping")
    /\ toClose' = {<<ref[p], p>> : p \in {"http"} \cup Referenced}
    /\ owed' = IF ref["http3"] # 0 THEN 2 ELSE 1
    /\ UNCHANGED <<watcherVars, serverVars, updateVars, running, lookup, failed,
                   cancelled, crashed>>

\* The goroutine for HTTP comes to shut a nil server down: the process ends.
Dereference ==
    /\ Nil \in toClose
    /\ crashed' = TRUE
    /\ UNCHANGED <<watcherVars, serverVars, updateVars, running, start, lookup, failed,
                   cancelled, toClose, owed>>

\* A server is shut down; a failure puts two values in shutdownErrChan.
ShutdownOne(g, p, fails) ==
    /\ <<g, p>> \in toClose
    /\ toClose' = toClose \ {<<g, p>>}
    /\ Close({<<g, p>>})
    /\ owed' = owed - (IF fails THEN 2 ELSE 1)
    /\ UNCHANGED <<watcherVars, updateVars, built, ref, calls,
                   running, start, lookup, failed, cancelled, crashed>>

\* Enough values have come, and the references are cleared, whatever they
\* refer to by now; or time is out.
EndStop ==
    /\ \/ /\ owed <= 0
          /\ Goto("stopping", "cleared")
          /\ ref' = [p \in Protocols |-> 0]
       \/ /\ Goto("stopping", "late")
          /\ UNCHANGED ref
    /\ UNCHANGED <<watcherVars, updateVars, built, listening, closed, calls,
                   running, lookup, failed, cancelled, toClose, owed, crashed>>

\* The deferred function, and the return of Start.
Leave ==
    /\ \E from \in DOMAIN Ends : Goto(from, Ends[from])
    /\ running' = FALSE
    /\ UNCHANGED <<watcherVars, serverVars, updateVars, lookup, failed,
                   cancelled, toClose, owed, crashed>>

Cancel ==
    /\ running /\ ~cancelled
    /\ cancelled' = TRUE
    /\ UNCHANGED <<watcherVars, serverVars, updateVars, running, start, lookup,
                   failed, toClose, owed, crashed>>

StartStep == Lookup \/ StartHTTP3 \/ SelectError \/ SelectDone \/ EndStop \/ Leave

-----------------------------------------------------------------------------
Generations == 1..Len(built)

Listens(who) == \E g \in Generations, p \in Protocols : Listen(who, g, p)

Shutdowns == \E g \in Generations, p \in Protocols, fails \in BOOLEAN : ShutdownOne(g, p, fails)

\* The watcher's steps, and writing the file, touch nothing else.
Apart(A) == A /\ UNCHANGED <<serverVars, startVars, updateVars>>

Alive == ~crashed

Next == \/ Alive /\ \E content \in Configs \cup {Invalid} : Apart(WriteFile(content))
        \/ Alive /\ Apart(Load)
        \/ Alive /\ Apart(Notify)
        \/ Alive /\ NewServer
        \/ Alive /\ Update
        \/ Alive /\ Enter
        \/ Alive /\ Reject
        \/ Alive /\ StartStep
        \/ Alive /\ Shutdowns
        \/ Alive /\ Dereference
        \/ Alive /\ Cancel
        \/ Alive /\ \E who \in {"Start", "Updater"} : Listens(who)

Spec == Init /\ [][Next]_vars

(***************************************************************************)
(* Fairness: the goroutine of the reloads and those it starts go on.       *)
(* Nobody has to write the file, to call Start or to cancel, and after a   *)
(* crash nothing happens.                                                  *)
(***************************************************************************)
Fairness == WF_vars(Alive /\ Update) /\ WF_vars(Alive /\ Listens("Updater"))

FairSpec == Spec /\ Fairness

-----------------------------------------------------------------------------
(***************************************************************************)
(* Properties.                                                             *)
(***************************************************************************)
StartStates == {"idle", "nested", "spawning", "selecting", "stopping"}
                  \cup DOMAIN Ends \cup {Ends[from] : from \in DOMAIN Ends}

HandleStates == {"idle", "stopping", "building", "verifying", "waiting"}

Servers == Generations \X Protocols

\* Every variable holds a value of the code's type for it.
TypeOK == /\ WatcherTypeOK
          /\ built \in Seq(Configs)
          /\ ref \in [Protocols -> 0..Len(built)]
          /\ listening \subseteq Servers /\ closed \subseteq Servers
          /\ calls \subseteq {"Start", "Updater"} \X Generations \X Protocols
          /\ start \in StartStates
          /\ running \in BOOLEAN /\ lookup \in BOOLEAN /\ failed \in BOOLEAN
          /\ cancelled \in BOOLEAN /\ crashed \in BOOLEAN /\ skipped \in BOOLEAN
          /\ toClose \subseteq Servers \cup {Nil}
          /\ owed \in Int
          /\ handle \in HandleStates
          /\ applying \in Configs

\* Start has not cleared the references.
NotStopped == start \notin {"cleared", "stopped"}

\* Until Start stops, every server that listens is one that the Server refers
\* to, so that the next reload or shutdown closes it: a server of an older
\* generation never comes up late, or stays.
NoOrphan == NotStopped => \A e \in listening : ref[e[2]] = e[1]

\* Nothing of a change is under way.
Settled == /\ subscribed /\ events = 0 /\ sending = <<>> /\ channel = <<>>
           /\ handle = "idle"

\* When all has settled the server is built from the stored configuration,
\* unless the last change could not be sent or its provider not be used.
NewestUnlessMissed ==
    Settled /\ ~missed /\ ~skipped /\ NotStopped => built[ref["http"]] = current

\* Start waits for its own lock, or has read or used a nil reference.
Doomed == ~LockFree \/ Nil \in toClose \/ crashed

\* What makes Start lock itself out for ever, or end the process, it reads
\* between a reload's closing of the old servers and its building of the new:
\* at no other moment before it stops is s.httpServer nil.  The process may end
\* later, when the goroutine comes to use what was read.
OnlyReloadsBreakStart == [][~Doomed /\ Doomed' => handle = "building"]_vars

\* A reload ends, whatever Start does meanwhile, unless a Start that found no
\* server waits for ever with the lock held, or the process has crashed.
ReloadEnds == handle # "idle" ~> handle = "idle" \/ ~LockFree \/ crashed

\* The server of a reload comes to listen or is replaced by the next: the
\* listeners of older generations and the goroutines of Start, which may try
\* to serve the same one, do not keep it from its port for good.
ReloadServes ==
    \A g \in 2..(MaxWrites + 1) :
        <<"Updater", g, "http">> \in calls
            ~> <<g, "http">> \in listening \cup closed \/ ~NotStopped \/ crashed

-----------------------------------------------------------------------------
\* docs/configuration.md:279: changes of the file are applied without restart.
NewestIsApplied == Settled /\ ~skipped /\ NotStopped => built[ref["http"]] = current
=============================================================================
