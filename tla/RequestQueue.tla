---------------------------- MODULE RequestQueue ----------------------------
(***************************************************************************)
(* The request queue of server/middleware/queue.go: the goroutines of      *)
(* QueueMiddleware.Handler (one per HTTP request), the callers of          *)
(* SetMaxSize, and the goroutines that call Shutdown, interleaved at the   *)
(* granularity of the code's critical sections and atomic operations.      *)
(* Saving the state to disk is the subject of QueueState.                  *)
(***************************************************************************)
EXTENDS Integers, Sequences, FiniteSets

CONSTANTS Requests,     \* the HTTP requests; each runs Handler once
          Closers,      \* the goroutines that call Shutdown, once each
          Sizes,        \* the arguments SetMaxSize may get, any int64
          InitialSize   \* QueueConfig.InitialSize, or the size loadState restored

ASSUME RequestsAssumption == IsFiniteSet(Requests)
ASSUME SizesAssumption == InitialSize \in Int /\ Sizes \subseteq Int

VARIABLES queue,       \* qm.queue: the done channels, each named by the request that made it
          maxSize,     \* qm.maxSize
          processing,  \* qm.processing
          queuedGauge, \* the gauge ActiveRequests{queued}
          pc,          \* where each request is in Handler
          done,        \* whether the channel qm.done is closed
          closer,      \* where each caller of Shutdown is
          expired,     \* whether the five seconds of a Shutdown call are over
          outcome      \* how a Shutdown call ended

handlerVars  == <<queue, processing, queuedGauge, pc>>
shutdownVars == <<done, closer, expired, outcome>>
vars         == <<queue, maxSize, processing, queuedGauge, pc,
                  done, closer, expired, outcome>>

RequestStates == {"new", "refused", "admitted", "serving", "leaving", "stopped", "gone"}
CloserStates  == {"idle", "closing", "looping", "polling", "waiting", "ended"}
Outcomes      == {"none", "drained", "cancelled", "deadline", "panic"}

(***************************************************************************)
(* The requests whose Add has happened and whose Remove has not, and those *)
(* that are counted in qm.processing.                                      *)
(***************************************************************************)
Inside     == {r \in Requests : pc[r] \in {"admitted", "serving", "leaving", "stopped"}}
Processing == {r \in Requests : pc[r] \in {"serving", "leaving"}}

Init == /\ queue = <<>>
        /\ maxSize = InitialSize
        /\ processing = 0
        /\ queuedGauge = 0
        /\ pc = [r \in Requests |-> "new"]
        /\ done = FALSE
        /\ closer = [c \in Closers |-> "idle"]
        /\ expired = [c \in Closers |-> FALSE]
        /\ outcome = [c \in Closers |-> "none"]

Move(r, from, to) == /\ pc[r] = from
                     /\ pc' = [pc EXCEPT ![r] = to]

-----------------------------------------------------------------------------
(***************************************************************************)
(* Handler.  The body of the first critical section is one step: the gauge *)
(* gets the length read before the addition, and the request is added or   *)
(* refused.                                                                *)
(***************************************************************************)

\* Faulty variant: the limit is compared with the requests that are running
\* instead of the queue's length.
AdmitByProcessing(r) ==
    /\ Move(r, "new", "admitted")
    /\ processing < maxSize
    /\ queuedGauge' = Len(queue)
    /\ queue' = Append(queue, r)
    /\ UNCHANGED <<maxSize, processing, shutdownVars>>

\* Faulty variant: the queue may grow one past its limit.
AdmitOffByOne(r) ==
    /\ Move(r, "new", "admitted")
    /\ Len(queue) <= maxSize
    /\ queuedGauge' = Len(queue)
    /\ queue' = Append(queue, r)
    /\ UNCHANGED <<maxSize, processing, shutdownVars>>

Admit(r) ==
    /\ Move(r, "new", "admitted")
    /\ Len(queue) < maxSize
    /\ queuedGauge' = Len(queue)
    /\ queue' = Append(queue, r)
    /\ UNCHANGED <<maxSize, processing, shutdownVars>>

Refuse(r) ==
    /\ Move(r, "new", "refused")
    /\ Len(queue) >= maxSize
    /\ queuedGauge' = Len(queue)
    /\ UNCHANGED <<queue, maxSize, processing, shutdownVars>>

\* atomic.AddInt32(&qm.processing, 1), after the lock is released
Start(r) ==
    /\ Move(r, "admitted", "serving")
    /\ processing' = processing + 1
    /\ UNCHANGED <<queue, maxSize, queuedGauge, shutdownVars>>

\* Faulty variant: the cleanup is not deferred, and a panic skips it.
UnwindUnlessPanic(r, panics) ==
    /\ Move(r, "serving", IF panics THEN "gone" ELSE "leaving")
    /\ UNCHANGED <<queue, maxSize, processing, queuedGauge, shutdownVars>>

\* next.ServeHTTP returns, or panics: the deferred function runs either way
Unwind(r, panics) ==
    /\ Move(r, "serving", "leaving")
    /\ UNCHANGED <<queue, maxSize, processing, queuedGauge, shutdownVars>>

\* Faulty variant: the element is removed here and again by Remove.
StopAndRemove(r) ==
    /\ Move(r, "leaving", "stopped")
    /\ processing' = processing - 1
    /\ queue' = IF queue = <<>> THEN <<>> ELSE Tail(queue)
    /\ UNCHANGED <<maxSize, queuedGauge, shutdownVars>>

\* atomic.AddInt32(&qm.processing, -1); the done channel is closed, which
\* nothing in the program receives from
Stop(r) ==
    /\ Move(r, "leaving", "stopped")
    /\ processing' = processing - 1
    /\ UNCHANGED <<queue, maxSize, queuedGauge, shutdownVars>>

\* Faulty variant: the gauge is not refreshed after a removal.
RemoveKeepGauge(r) ==
    /\ Move(r, "stopped", "gone")
    /\ queue # <<>>
    /\ queue' = Tail(queue)
    /\ UNCHANGED <<queuedGauge, maxSize, processing, shutdownVars>>

\* qm.queue.Remove() takes the head of the queue, whoever added it.  It would
\* panic on an empty queue: see RemoveFindsElement.
Remove(r) ==
    /\ Move(r, "stopped", "gone")
    /\ queue # <<>>
    /\ queue' = Tail(queue)
    /\ queuedGauge' = Len(queue) - 1
    /\ UNCHANGED <<maxSize, processing, shutdownVars>>

Handler(r) ==
    \/ Admit(r)
    \/ Refuse(r)
    \/ Start(r)
    \/ \E panics \in BOOLEAN : Unwind(r, panics)
    \/ Stop(r)
    \/ Remove(r)

\* Faulty variant: the argument is added to the limit.
SetMaxSizeAdds(size) ==
    /\ maxSize' = maxSize + size
    /\ UNCHANGED <<handlerVars, shutdownVars>>

SetMaxSize(size) ==
    /\ maxSize' = size
    /\ UNCHANGED <<handlerVars, shutdownVars>>

-----------------------------------------------------------------------------
(***************************************************************************)
(* Shutdown.  The test of the channel and its closing are two steps.  The  *)
(* loop tests the clock, polls the queue under the read lock, and waits    *)
(* 100ms or until the caller's context ends.                               *)
(***************************************************************************)
CloserMove(c, from, to) == /\ closer[c] = from
                           /\ closer' = [closer EXCEPT ![c] = to]

End(c, from, how) == /\ CloserMove(c, from, "ended")
                     /\ outcome' = [outcome EXCEPT ![c] = how]

SelectDone(c) ==
    /\ CloserMove(c, "idle", IF done THEN "looping" ELSE "closing")
    /\ UNCHANGED <<handlerVars, maxSize, done, expired, outcome>>

\* close(qm.done): closing a closed channel panics
CloseDone(c) ==
    /\ \/ done /\ End(c, "closing", "panic")
       \/ ~done /\ CloserMove(c, "closing", "looping") /\ UNCHANGED outcome
    /\ done' = TRUE
    /\ UNCHANGED <<handlerVars, maxSize, expired>>

\* five seconds pass
Expire(c) ==
    /\ closer[c] \in {"looping", "polling", "waiting"}
    /\ ~expired[c]
    /\ expired' = [expired EXCEPT ![c] = TRUE]
    /\ UNCHANGED <<handlerVars, maxSize, done, closer, outcome>>

\* Faulty variant: the deadline is never tested.
TestDeadlineNever(c) ==
    /\ CloserMove(c, "looping", "polling")
    /\ UNCHANGED <<handlerVars, maxSize, done, expired, outcome>>

\* time.Now().Before(deadline); past the deadline Shutdown returns nil
TestDeadline(c) ==
    /\ \/ expired[c] /\ End(c, "looping", "deadline")
       \/ ~expired[c] /\ CloserMove(c, "looping", "polling") /\ UNCHANGED outcome
    /\ UNCHANGED <<handlerVars, maxSize, done, expired>>

\* Faulty variant: only the counter is tested, not the queue.
PollProcessing(c) ==
    /\ \/ processing = 0 /\ End(c, "polling", "drained")
       \/ processing # 0 /\ CloserMove(c, "polling", "waiting") /\ UNCHANGED outcome
    /\ UNCHANGED <<handlerVars, maxSize, done, expired>>

Drained == queue = <<>> /\ processing = 0

\* The read lock keeps the queue unchanged while the counter is read, so the
\* two tests are one step.  When both hold the state is saved (QueueState)
\* and Shutdown returns nil.
Poll(c) ==
    /\ \/ Drained /\ End(c, "polling", "drained")
       \/ ~Drained /\ CloserMove(c, "polling", "waiting") /\ UNCHANGED outcome
    /\ UNCHANGED <<handlerVars, maxSize, done, expired>>

\* ctx.Done() or the 100ms timer, whichever select takes
Wait(c) ==
    /\ \/ End(c, "waiting", "cancelled")
       \/ CloserMove(c, "waiting", "looping") /\ UNCHANGED outcome
    /\ UNCHANGED <<handlerVars, maxSize, done, expired>>

ShutdownStep(c) == CloseDone(c) \/ TestDeadline(c) \/ Poll(c) \/ Wait(c)

Shutdown(c) == SelectDone(c) \/ ShutdownStep(c) \/ Expire(c)

-----------------------------------------------------------------------------
Next == \/ \E r \in Requests : Handler(r)
        \/ \E size \in Sizes : SetMaxSize(size)
        \/ \E c \in Closers : Shutdown(c)

Spec == Init /\ [][Next]_vars

(***************************************************************************)
(* Fairness: a goroutine that is able to go on does so, and the clock      *)
(* advances.  Nothing says that a client sends its request, that somebody  *)
(* calls Shutdown, or that next.ServeHTTP ever returns.                    *)
(***************************************************************************)
Fairness ==
    /\ \A r \in Requests : WF_vars(Start(r)) /\ WF_vars(Stop(r)) /\ WF_vars(Remove(r))
    /\ \A c \in Closers : WF_vars(ShutdownStep(c)) /\ WF_vars(Expire(c))

FairSpec == Spec /\ Fairness

-----------------------------------------------------------------------------
(***************************************************************************)
(* Properties.                                                             *)
(***************************************************************************)

\* Every variable holds a value of the code's type for it.
TypeOK == /\ queue \in Seq(Requests)
          /\ maxSize \in Sizes \cup {InitialSize}
          /\ processing \in Int
          /\ queuedGauge \in Int
          /\ pc \in [Requests -> RequestStates]
          /\ done \in BOOLEAN
          /\ closer \in [Closers -> CloserStates]
          /\ expired \in [Closers -> BOOLEAN]
          /\ outcome \in [Closers -> Outcomes]

\* The queue has one element for each request between Add and Remove, though
\* a request removes the head and not its own element, and the counter
\* changed outside the lock counts the requests that are being served.
Accounting == /\ Len(queue) = Cardinality(Inside)
              /\ processing = Cardinality(Processing)

\* qm.queue.Remove() never meets an empty queue, on which it would panic
\* inside the deferred function with the mutex held.
RemoveFindsElement == \A r \in Requests : pc[r] = "stopped" => queue # <<>>

\* The gauge shows the length of the queue, or one less while the last
\* change of the queue is the addition of a request (the gauge is set before
\* it); with an empty queue it is exact.
GaugeLag == /\ queuedGauge \in {Len(queue), Len(queue) - 1}
            /\ queue = <<>> => queuedGauge = 0

\* A step that brings a request in leaves at most maxSize requests inside:
\* SetMaxSize takes effect immediately for new requests, also when the
\* limit is lowered below the number already inside.
AdmissionBounded ==
    [][ Inside' \subseteq Inside \/ Cardinality(Inside') <= maxSize ]_vars

\* When Shutdown ends because the queue is drained, no request is anywhere
\* between Add and Remove, although requests keep arriving meanwhile.
DrainedMeansIdle ==
    [][ \A c \in Closers :
           outcome[c] # "drained" /\ outcome'[c] = "drained" => Inside = {} ]_vars

\* A request whose handler returned or panicked gives its place back.
PlaceIsGivenBack == \A r \in Requests : pc[r] = "leaving" ~> pc[r] = "gone"

\* Every call of Shutdown ends, even when some handler never returns.
ShutdownEnds == \A c \in Closers : closer[c] # "idle" ~> closer[c] = "ended"

\* The queue implements the bounded admission its clients see.
Abstract == INSTANCE BoundedAdmission WITH
                inside  <- Inside,
                limit   <- maxSize,
                refused <- {r \in Requests : pc[r] = "refused"},
                gone    <- {r \in Requests : pc[r] = "gone"}

Implements == Abstract!Spec

=============================================================================
