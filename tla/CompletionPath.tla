--------------------------- MODULE CompletionPath ---------------------------
(***************************************************************************)
(* One request through middleware/timeout.go, handlers/completion.go and   *)
(* processing/processor.go: the middleware and the handler that it runs in *)
(* a goroutine of its own write to one response.                           *)
(***************************************************************************)
EXTENDS Integers, Sequences

VARIABLES handler,   \* where CompletionHandler.ServeHTTP is
          guard,     \* where the Timeout middleware is
          ctx,       \* the request's context
          todo_h,    \* what the handler has yet to do to the response
          todo_m,    \* and the middleware
          token,     \* whether there is a value in tw.written
          response,  \* what has been written
          crashed,   \* whether the process died
          wanted,    \* history: the answer the handler decided on
          inTime     \* history: whether it wrote all of it in time

pathVars == <<handler, guard, ctx, todo_h, todo_m, token, response, crashed, wanted, inTime>>

\* What a completion request can look like; the sizes are compared with 5 KB
\* and 512 KB.
Requests == [post : BOOLEAN, json : BOOLEAN, parses : BOOLEAN, messages : BOOLEAN,
             function : {"none", "some", "large"}, input : {"none", "some", "large"}]

-----------------------------------------------------------------------------
(* What is done to the response, one call at a time. WriteHeader and Write *)
(* of timeoutWriter pass on the call and then signal it.                   *)

Op(name, status) == [do |-> name, status |-> status]
SetType          == Op("type", 0)
Signal           == Op("signal", 0)
\* Faulty variant: the call is signalled before it is made.
SignalFirst(status) == <<Signal, Op("status", status)>>

\* WriteHeader and Write of timeoutWriter.
WriteHeader(status) == <<Op("status", status), Signal>>

Write == <<Op("body", 200), Signal>>

\* errors.WriteError, with the status of the error.
WriteError(status) == <<SetType>> \o WriteHeader(status) \o Write

\* http.ResponseWriter: headers count until the status is written, the first
\* status stands, a Write without one implies 200.
Apply(op, by, r) ==
    CASE op.do = "type"   -> [r EXCEPT !.json = @ \/ r.status = 0]
      [] op.do = "status" -> [r EXCEPT !.status = IF @ = 0 THEN op.status ELSE @]
      [] op.do = "body"   -> [r EXCEPT !.status = IF @ = 0 THEN 200 ELSE @,
                                       !.body = Append(@, by)]
      [] OTHER            -> r

Answer(status, json, body) == [status |-> status, json |-> json, body |-> body]
Nothing == Answer(0, FALSE, <<>>)

-----------------------------------------------------------------------------

PathInit == /\ handler = "idle"
            /\ guard = "idle"
            /\ ctx = "live"
            /\ todo_h = <<>>
            /\ todo_m = <<>>
            /\ token = FALSE
            /\ response = Nothing
            /\ crashed = FALSE
            /\ wanted = Nothing
            /\ inTime = FALSE

\* The checks of ServeHTTP after the one of the method. Messages take
\* precedence over the input, whose size then does not matter; a function
\* description alone is no input.
Refused(r) == \/ ~r.json \/ ~r.parses
              \/ r.function = "large"
              \/ ~r.messages /\ r.input # "some"

\* The handler begins to write an answer. The early WriteHeader(400) makes
\* WriteError's content type and status come too late.
Reply(script, status, json) ==
    /\ handler' = "writing"
    /\ todo_h' = script
    /\ wanted' = Answer(status, json, <<"handler">>)

\* Timeout starts the goroutine; the handler reads and checks the request.
Begin(r) ==
    /\ handler = "idle" /\ guard = "idle"
    /\ guard' = "waiting"
    /\ CASE ~r.post             -> Reply(WriteError(400), 400, TRUE)
         [] r.post /\ Refused(r) -> Reply(WriteHeader(400) \o WriteError(400), 400, FALSE)
         [] OTHER -> handler' = "calling" /\ UNCHANGED <<todo_h, wanted>>
    /\ UNCHANGED <<ctx, todo_m, token, response, crashed, inTime>>

\* What the handler makes of the result: an error becomes a 504 when the
\* deadline has passed, and a 500 otherwise.
Conclude(ok) ==
    CASE ok -> Reply(<<SetType>> \o Write, 200, TRUE)
      [] ~ok /\ ctx = "deadline" -> Reply(WriteError(504), 504, TRUE)
      [] ~ok /\ ctx # "deadline" -> Reply(WriteError(500), 500, TRUE)

\* ProcessRequest: what the handler passes on always has messages, so no
\* template is executed, and the call of the LLM decides.
ProcessRequest(ok) ==
    /\ ~crashed
    /\ handler = "calling"
    /\ Conclude(ok)
    /\ UNCHANGED <<guard, ctx, todo_m, token, response, crashed, inTime>>

\* The goroutine of Timeout recovers from nothing: a panic ends the process.
Panic ==
    /\ ~crashed
    /\ handler = "calling"
    /\ crashed' = TRUE
    /\ UNCHANGED <<handler, guard, ctx, todo_h, todo_m, token, response, wanted, inTime>>

\* Faulty variant: the channel has no buffer, so a signal finds nobody waiting.
SignalUnbuffered == UNCHANGED token

\* The signal of tw.written, a channel of capacity one.
Send == token' = TRUE

\* The handler's next call. What it writes after the middleware has returned
\* does not reach this client.
HandlerWrites ==
    /\ ~crashed
    /\ handler = "writing" /\ todo_h # <<>>
    /\ todo_h' = Tail(todo_h)
    /\ response' = IF guard = "returned" THEN response
                   ELSE Apply(Head(todo_h), "handler", response)
    /\ IF Head(todo_h) = Signal THEN Send ELSE UNCHANGED token
    /\ inTime' = (Tail(todo_h) = <<>> /\ ctx = "live")
    /\ UNCHANGED <<handler, guard, ctx, todo_m, crashed, wanted>>

\* The handler returns and done is closed.
HandlerReturns ==
    /\ ~crashed
    /\ handler = "writing" /\ todo_h = <<>>
    /\ handler' = "finished"
    /\ UNCHANGED <<guard, ctx, todo_h, todo_m, token, response, crashed, wanted, inTime>>

\* The timeout elapses, or the client goes away.
ContextEnds(how) ==
    /\ guard = "waiting" /\ ctx = "live"
    /\ ctx' = how
    /\ UNCHANGED <<handler, guard, todo_h, todo_m, token, response, crashed, wanted, inTime>>

\* The middleware's select takes <-done.
SeesDone ==
    /\ ~crashed
    /\ guard = "waiting" /\ handler = "finished"
    /\ guard' = "returned"
    /\ UNCHANGED <<handler, ctx, todo_h, todo_m, token, response, crashed, wanted, inTime>>

\* Faulty variant: the timeout is noticed once the handler has returned.
SeesTimeoutLate ==
    /\ ~crashed
    /\ guard = "waiting" /\ ctx # "live" /\ handler = "finished"
    /\ guard' = "writing"
    /\ UNCHANGED <<handler, ctx, todo_h, todo_m, token, response, crashed, wanted, inTime>>

\* It takes <-ctx.Done(); hasWritten takes the token, and without one the
\* middleware writes its own 504.
SeesTimeout ==
    /\ ~crashed
    /\ guard = "waiting" /\ ctx # "live"
    /\ guard' = "writing"
    /\ token' = FALSE
    /\ todo_m' = IF token THEN <<>> ELSE WriteError(504)
    /\ UNCHANGED <<handler, ctx, todo_h, response, crashed, wanted, inTime>>

MiddlewareWrites ==
    /\ ~crashed
    /\ guard = "writing" /\ todo_m # <<>>
    /\ todo_m' = Tail(todo_m)
    /\ response' = Apply(Head(todo_m), "middleware", response)
    /\ IF Head(todo_m) = Signal THEN Send ELSE UNCHANGED token
    /\ UNCHANGED <<handler, guard, ctx, todo_h, crashed, wanted, inTime>>

MiddlewareReturns ==
    /\ ~crashed
    /\ guard = "writing" /\ todo_m = <<>>
    /\ guard' = "returned"
    /\ UNCHANGED <<handler, ctx, todo_h, todo_m, token, response, crashed, wanted, inTime>>

\* Two goroutines at the map of the headers, one of them to write it: the
\* runtime may end the process. Until there is a status, any call reads it.
Touches(todo) == /\ todo # <<>>
                 /\ \/ Head(todo) = SetType
                    \/ Head(todo) # Signal /\ response.status = 0
HeaderRace ==
    /\ ~crashed
    /\ guard = "writing" /\ Touches(todo_h) /\ Touches(todo_m)
    /\ SetType \in {Head(todo_h), Head(todo_m)}
    /\ crashed' = TRUE
    /\ UNCHANGED <<handler, guard, ctx, todo_h, todo_m, token, response, wanted, inTime>>

Middleware == SeesDone \/ SeesTimeout \/ MiddlewareWrites \/ MiddlewareReturns

PathNext == \/ \E r \in Requests : Begin(r)
            \/ \E ok \in BOOLEAN : ProcessRequest(ok)
            \/ Panic
            \/ HandlerWrites \/ HandlerReturns
            \/ ContextEnds("deadline") \/ ContextEnds("cancelled")
            \/ Middleware
            \/ HeaderRace

PathSpec == PathInit /\ [][PathNext]_pathVars

\* The middleware runs on, and its context expires; nothing is asked of the
\* handler and of the LLM.
PathFairness == WF_pathVars(Middleware) /\ WF_pathVars(ContextEnds("deadline"))

-----------------------------------------------------------------------------

\* A handler that has written its whole answer before the context ends is not
\* disturbed, even when the middleware sees the timeout before it sees done:
\* the client gets that answer and nothing else.
CompleteIfInTime == guard = "returned" /\ inTime => response = wanted

\* The middleware returns only after a status was written: it takes a signal
\* for an answer, and a signal follows what it stands for.
NeverEmpty == guard = "returned" => response.status # 0

\* Every request is answered within the timeout, also when the LLM never
\* returns, unless the process dies.
RequestAnswered == guard = "waiting" ~> guard = "returned" \/ crashed
=============================================================================
