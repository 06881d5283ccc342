------------------------ MODULE CompletionPathProofs ------------------------
(***************************************************************************)
(* Who answers the client: the handler, whose answer stands once it is     *)
(* written in time, or the middleware, and never nobody. The argument is   *)
(* about what the calls still to be made will do to the response, for      *)
(* every list of calls that the two can have.                              *)
(***************************************************************************)
EXTENDS CompletionPath, TLAPS

(***************************************************************************)
(* What a list of calls has yet to do to a response: the first call that   *)
(* sets the status decides it, content types count before that, and there  *)
(* is one body.                                                            *)
(***************************************************************************)
Body == Op("body", 200)
Ops  == {SetType, Signal, Body} \cup {Op("status", s) : s \in {400, 500, 504}}

Sets(op) == op.do \in {"status", "body"}

\* The first call of todo that sets the status is the i-th.
FirstSets(todo, i) == /\ i \in DOMAIN todo /\ Sets(todo[i])
                      /\ \A j \in 1..(i - 1) : ~Sets(todo[j])

\* Done by the handler to the response r, the calls of todo yield the answer w.
Yields(todo, r, w) ==
    /\ r.status # 0 => r.status = w.status /\ r.json = w.json
    /\ r.status = 0 => \E i \in DOMAIN todo :
                          /\ FirstSets(todo, i)
                          /\ w.status = todo[i].status
                          /\ w.json = (r.json \/ \E j \in 1..(i - 1) : todo[j] = SetType)
    /\ w.body = <<"handler">>
    /\ \/ r.body = <<"handler">> /\ \A i \in DOMAIN todo : todo[i] # Body
       \/ r.body = <<>> /\ \E i \in DOMAIN todo : \A j \in DOMAIN todo : todo[j] = Body <=> j = i

\* A signal follows what it stands for.
Follows(todo, r) ==
    \A i \in DOMAIN todo : todo[i] = Signal =>
        r.status # 0 \/ \E j \in 1..(i - 1) : Sets(todo[j])

\* The calls of todo leave a status, and end with a signal.
Settles(todo, r) == r.status # 0 \/ \E i \in DOMAIN todo : Sets(todo[i])
EndsSignalled(todo) == todo = <<>> \/ todo[Len(todo)] = Signal

Responses == [status : {0, 200, 400, 500, 504}, json : BOOLEAN,
              body : Seq({"handler", "middleware"})]

\* The calls differ in what they do; those that set a status have one.
LEMMA OpFields ==
  ASSUME NEW op \in Ops
  PROVE  /\ op.do \in {"type", "signal", "status", "body"}
         /\ op.do = "type" <=> op = SetType
         /\ op.do = "signal" <=> op = Signal
         /\ op.do = "body" <=> op = Body
         /\ Sets(op) => op.status \in {200, 400, 500, 504}
         /\ ~Sets(op) <=> op \in {SetType, Signal}
BY DEF Ops, Op, SetType, Signal, Body, Sets

\* What one call does to a response.
LEMMA ApplyOp ==
  ASSUME NEW op \in Ops, NEW by \in {"handler", "middleware"}, NEW r \in Responses
  PROVE  /\ Apply(op, by, r) \in Responses
         /\ r.status # 0 => /\ Apply(op, by, r).status = r.status
                            /\ Apply(op, by, r).json = r.json
         /\ r.status = 0 => /\ Apply(op, by, r).status = IF Sets(op) THEN op.status ELSE 0
                            /\ Apply(op, by, r).json = (r.json \/ op = SetType)
         /\ Apply(op, by, r).body = IF op = Body THEN Append(r.body, by) ELSE r.body
<1>1. CASE op = SetType
  BY <1>1 DEF Apply, SetType, Op, Responses, Sets, Body
<1>2. CASE op = Signal
  BY <1>2 DEF Apply, SetType, Signal, Op, Responses, Sets, Body
<1>3. CASE op = Body
  <2>1. Append(r.body, by) \in Seq({"handler", "middleware"})
    BY DEF Responses
  <2>2. Apply(op, by, r) = [r EXCEPT !.status = IF @ = 0 THEN 200 ELSE @, !.body = Append(@, by)]
    BY <1>3 DEF Apply, Body, Op
  <2>3. Sets(op) /\ op.status = 200 /\ op # SetType
    BY <1>3 DEF SetType, Op, Sets, Body
  <2> DEFINE body == Append(r.body, by)
  <2>4. r = [status |-> r.status, json |-> r.json, body |-> r.body]
    BY DEF Responses
  <2>5. Apply(op, by, r) = [r EXCEPT !.status = IF r.status = 0 THEN 200 ELSE r.status,
                                     !.body = body]
    BY <2>2
  <2> HIDE DEF body
  <2>6. Apply(op, by, r) = [status |-> IF r.status = 0 THEN 200 ELSE r.status,
                            json |-> r.json, body |-> body]
    BY <2>4, <2>5
  <2>7. body \in Seq({"handler", "middleware"}) /\ body = Append(r.body, by)
    BY <2>1 DEF body
  <2> QED BY <1>3, <2>3, <2>6, <2>7 DEF Responses
<1>4. ASSUME NEW s \in {400, 500, 504}, op = Op("status", s)
      PROVE  /\ Apply(op, by, r) = [r EXCEPT !.status = IF @ = 0 THEN op.status ELSE @]
             /\ Sets(op) /\ op.status = s /\ op # SetType /\ op # Body
  BY <1>4 DEF Apply, SetType, Op, Sets, Body
<1>5. CASE \E s \in {400, 500, 504} : op = Op("status", s)
  BY <1>4, <1>5 DEF Responses
<1> QED BY <1>1, <1>2, <1>3, <1>5 DEF Ops

\* The calls that remain after one, by position.
LEMMA Remaining ==
  ASSUME NEW todo \in Seq(Ops), todo # <<>>
  PROVE  /\ Tail(todo) \in Seq(Ops) /\ Head(todo) \in Ops /\ Head(todo) = todo[1]
         /\ Len(todo) \in Nat \ {0} /\ Len(Tail(todo)) = Len(todo) - 1
         /\ DOMAIN todo = 1..Len(todo) /\ DOMAIN Tail(todo) = 1..(Len(todo) - 1)
         /\ \A i \in DOMAIN Tail(todo) : i + 1 \in DOMAIN todo /\ Tail(todo)[i] = todo[i + 1]
         /\ \A i \in DOMAIN todo : todo[i] \in Ops
OBVIOUS

\* A call of the handler is a step towards its answer: the rest of the list
\* yields that answer from what the call leaves.
LEMMA YieldsStep ==
  ASSUME NEW todo \in Seq(Ops), todo # <<>>, NEW r \in Responses, NEW w \in Responses,
         Yields(todo, r, w)
  PROVE  Yields(Tail(todo), Apply(Head(todo), "handler", r), w)
<1> DEFINE rest == Tail(todo)
           new  == Apply(Head(todo), "handler", r)
<1>1. /\ rest \in Seq(Ops) /\ Head(todo) \in Ops /\ Head(todo) = todo[1]
      /\ Len(todo) \in Nat \ {0}
      /\ DOMAIN todo = 1..Len(todo) /\ DOMAIN rest = 1..(Len(todo) - 1)
      /\ \A i \in DOMAIN rest : i + 1 \in DOMAIN todo /\ rest[i] = todo[i + 1]
  BY Remaining
<1>2. /\ new \in Responses
      /\ r.status # 0 => new.status = r.status /\ new.json = r.json
      /\ r.status = 0 => /\ new.status = IF Sets(Head(todo)) THEN Head(todo).status ELSE 0
                         /\ new.json = (r.json \/ Head(todo) = SetType)
      /\ new.body = IF Head(todo) = Body THEN Append(r.body, "handler") ELSE r.body
  BY <1>1, ApplyOp
<1>3. Sets(Head(todo)) => Head(todo).status # 0 /\ Head(todo) # SetType
  BY <1>1, OpFields DEF Sets, SetType, Op
<1> HIDE DEF rest, new
<1>4. new.status # 0 => new.status = w.status /\ new.json = w.json
  <2>1. CASE r.status # 0
    BY <1>2, <2>1 DEF Yields
  <2>2. CASE r.status = 0
    <3>1. PICK i \in DOMAIN todo :
                  /\ FirstSets(todo, i)
                  /\ w.status = todo[i].status
                  /\ w.json = (r.json \/ \E j \in 1..(i - 1) : todo[j] = SetType)
      BY <2>2 DEF Yields
    <3>2. CASE Sets(Head(todo))
      <4>1. i = 1
        BY <1>1, <3>1, <3>2 DEF FirstSets
      <4> QED BY <1>1, <1>2, <1>3, <2>2, <3>1, <3>2, <4>1 DEF Responses
    <3>3. CASE ~Sets(Head(todo))
      BY <1>2, <2>2, <3>3
    <3> QED BY <3>2, <3>3
  <2> QED BY <2>1, <2>2
<1>5. ASSUME new.status = 0
      PROVE  \E i \in DOMAIN rest :
                /\ FirstSets(rest, i)
                /\ w.status = rest[i].status
                /\ w.json = (new.json \/ \E j \in 1..(i - 1) : rest[j] = SetType)
  <2>1. r.status = 0 /\ ~Sets(Head(todo))
    BY <1>2, <1>3, <1>5
  <2>2. PICK i \in DOMAIN todo :
                /\ FirstSets(todo, i)
                /\ w.status = todo[i].status
                /\ w.json = (r.json \/ \E j \in 1..(i - 1) : todo[j] = SetType)
    BY <2>1 DEF Yields
  <2>3. i # 1 /\ i - 1 \in DOMAIN rest /\ rest[i - 1] = todo[i]
    BY <1>1, <2>1, <2>2 DEF FirstSets
  <2>4. FirstSets(rest, i - 1)
    <3>1. ASSUME NEW j \in 1..((i - 1) - 1) PROVE ~Sets(rest[j])
      <4>1. j + 1 \in 1..(i - 1) /\ j \in DOMAIN rest
        BY <1>1, <2>3
      <4> QED BY <1>1, <2>2, <4>1 DEF FirstSets
    <3>2. Sets(rest[i - 1])
      BY <2>2, <2>3 DEF FirstSets
    <3> QED BY <2>3, <3>1, <3>2 DEF FirstSets
  <2>5. (\E j \in 1..(i - 1) : todo[j] = SetType)
          <=> Head(todo) = SetType \/ \E j \in 1..(i - 2) : rest[j] = SetType
    <3>1. ASSUME NEW j \in 1..(i - 1), todo[j] = SetType, Head(todo) # SetType
          PROVE  \E k \in 1..(i - 2) : rest[k] = SetType
      <4>1. i \in Nat /\ j \in Nat /\ j # 1
        BY <1>1, <3>1
      <4>2. j - 1 \in 1..(i - 2) /\ j - 1 \in DOMAIN rest /\ (j - 1) + 1 = j
        BY <1>1, <2>3, <4>1
      <4>3. rest[j - 1] = todo[j]
        BY <1>1, <4>2
      <4> QED BY <3>1, <4>2, <4>3
    <3>2. ASSUME NEW j \in 1..(i - 2), rest[j] = SetType
          PROVE  \E k \in 1..(i - 1) : todo[k] = SetType
      <4>1. j \in DOMAIN rest /\ j + 1 \in 1..(i - 1)
        BY <1>1, <2>3
      <4> QED BY <1>1, <3>2, <4>1
    <3>3. Head(todo) = SetType => \E k \in 1..(i - 1) : todo[k] = SetType
      BY <1>1, <2>3
    <3> QED BY <3>1, <3>2, <3>3
  <2>6. i - 2 = (i - 1) - 1
    BY <1>1
  <2> QED BY <1>2, <2>1, <2>2, <2>3, <2>4, <2>5, <2>6
<1>6. \/ new.body = <<"handler">> /\ \A i \in DOMAIN rest : rest[i] # Body
      \/ new.body = <<>> /\ \E i \in DOMAIN rest : \A j \in DOMAIN rest : rest[j] = Body <=> j = i
  <2>1. CASE r.body = <<"handler">> /\ \A i \in DOMAIN todo : todo[i] # Body
    BY <1>1, <1>2, <2>1
  <2>2. CASE r.body = <<>> /\ \E i \in DOMAIN todo : \A j \in DOMAIN todo : todo[j] = Body <=> j = i
    <3>1. PICK i \in DOMAIN todo : \A j \in DOMAIN todo : todo[j] = Body <=> j = i
      BY <2>2
    <3>2. CASE i = 1
      <4>1. new.body = <<"handler">>
        BY <1>1, <1>2, <2>2, <3>1, <3>2
      <4> QED BY <1>1, <3>1, <3>2, <4>1
    <3>3. CASE i # 1
      <4>1. new.body = <<>> /\ i - 1 \in DOMAIN rest
        BY <1>1, <1>2, <2>2, <3>1, <3>3
      <4>2. \A j \in DOMAIN rest : rest[j] = Body <=> j = i - 1
        BY <1>1, <3>1, <3>3
      <4> QED BY <4>1, <4>2
    <3> QED BY <3>2, <3>3
  <2> QED BY <2>1, <2>2 DEF Yields
<1>7. w.body = <<"handler">>
  BY DEF Yields
<1> QED BY <1>4, <1>5, <1>6, <1>7 DEF Yields, rest, new

\* One call, by whomever, leaves the rest of a list well signalled, and
\* another list too.
LEMMA SignalsStep ==
  ASSUME NEW todo \in Seq(Ops), todo # <<>>, NEW by \in {"handler", "middleware"},
         NEW r \in Responses, Follows(todo, r)
  PROVE  /\ Apply(Head(todo), by, r) \in Responses
         /\ Follows(Tail(todo), Apply(Head(todo), by, r))
         /\ Head(todo) = Signal => r.status # 0 /\ Apply(Head(todo), by, r).status # 0
         /\ EndsSignalled(todo) => /\ EndsSignalled(Tail(todo))
                                   /\ Tail(todo) = <<>> => Head(todo) = Signal
         /\ Settles(todo, r) => Settles(Tail(todo), Apply(Head(todo), by, r))
         /\ \A other : Follows(other, r) => Follows(other, Apply(Head(todo), by, r))
         /\ \A other : Settles(other, r) => Settles(other, Apply(Head(todo), by, r))
         /\ r.status # 0 => Apply(Head(todo), by, r).status # 0
<1> DEFINE rest == Tail(todo)
           new  == Apply(Head(todo), by, r)
<1>1. /\ rest \in Seq(Ops) /\ Head(todo) \in Ops /\ Head(todo) = todo[1]
      /\ Len(todo) \in Nat \ {0} /\ Len(rest) = Len(todo) - 1
      /\ DOMAIN todo = 1..Len(todo) /\ DOMAIN rest = 1..(Len(todo) - 1)
      /\ \A i \in DOMAIN rest : i + 1 \in DOMAIN todo /\ rest[i] = todo[i + 1]
  BY Remaining
<1>2. /\ new \in Responses
      /\ r.status # 0 => new.status = r.status
      /\ Sets(Head(todo)) => new.status # 0
  BY <1>1, ApplyOp, OpFields
<1> HIDE DEF rest, new
<1>3. ASSUME NEW i \in DOMAIN rest, rest[i] = Signal
      PROVE  new.status # 0 \/ \E j \in 1..(i - 1) : Sets(rest[j])
  <2>1. r.status # 0 \/ \E j \in 1..((i + 1) - 1) : Sets(todo[j])
    BY <1>1, <1>3 DEF Follows
  <2>2. ASSUME NEW j \in 1..((i + 1) - 1), Sets(todo[j]), j # 1
        PROVE  \E k \in 1..(i - 1) : Sets(rest[k])
    <3>1. i \in Nat /\ j - 1 \in 1..(i - 1) /\ j - 1 \in DOMAIN rest /\ (j - 1) + 1 = j
      BY <1>1, <2>2
    <3>2. rest[j - 1] = todo[j]
      BY <1>1, <3>1
    <3> QED BY <2>2, <3>1, <3>2
  <2> QED BY <1>1, <1>2, <2>1, <2>2
<1>4. Head(todo) = Signal => r.status # 0
  BY <1>1 DEF Follows
<1>5. EndsSignalled(todo) => EndsSignalled(rest) /\ (rest = <<>> => Head(todo) = Signal)
  <2> SUFFICES ASSUME todo[Len(todo)] = Signal
               PROVE  EndsSignalled(rest) /\ (rest = <<>> => Head(todo) = Signal)
    BY DEF EndsSignalled
  <2>1. CASE Len(todo) = 1
    BY <1>1, <2>1 DEF EndsSignalled
  <2>2. CASE Len(todo) # 1
    <3>1. Len(rest) \in DOMAIN rest /\ Len(rest) + 1 = Len(todo) /\ rest # <<>>
      BY <1>1, <2>2
    <3> QED BY <1>1, <3>1 DEF EndsSignalled
  <2> QED BY <2>1, <2>2
<1>6. Settles(todo, r) => Settles(rest, new)
  <2>1. ASSUME NEW i \in DOMAIN todo, Sets(todo[i]), i # 1 PROVE Settles(rest, new)
    <3>1. i - 1 \in DOMAIN rest /\ (i - 1) + 1 = i
      BY <1>1, <2>1
    <3>2. rest[i - 1] = todo[i]
      BY <1>1, <3>1
    <3> QED BY <2>1, <3>1, <3>2 DEF Settles
  <2> QED BY <1>1, <1>2, <2>1 DEF Settles
<1>7. /\ \A other : Follows(other, r) => Follows(other, new)
      /\ \A other : Settles(other, r) => Settles(other, new)
  BY <1>2 DEF Follows, Settles
<1>8. Follows(rest, new)
  BY <1>3 DEF Follows
<1> QED BY <1>2, <1>4, <1>5, <1>6, <1>7, <1>8 DEF rest, new

-----------------------------------------------------------------------------

(***************************************************************************)
(* The invariant.                                                          *)
(***************************************************************************)
PathTypeOK == /\ handler \in {"idle", "calling", "writing", "finished"}
              /\ guard \in {"idle", "waiting", "writing", "returned"}
              /\ ctx \in {"live", "deadline", "cancelled"}
              /\ todo_h \in Seq(Ops) /\ todo_m \in Seq(Ops)
              /\ token \in BOOLEAN /\ crashed \in BOOLEAN /\ inTime \in BOOLEAN
              /\ response \in Responses /\ wanted \in Responses

\* Who writes when.
Turns == /\ handler = "idle" <=> guard = "idle"
         /\ handler # "writing" => todo_h = <<>>
         /\ guard # "writing" => todo_m = <<>>
         /\ guard = "writing" => ctx # "live"
         /\ guard = "returned" => ctx # "live" \/ handler = "finished"

\* What the handler does while the middleware waits makes its answer.
Answering ==
    guard \in {"idle", "waiting"} =>
        IF handler \in {"idle", "calling"} THEN response = Nothing
        ELSE Yields(todo_h, response, wanted)

\* A signal means that there is a status.
Signalling == /\ token => response.status # 0
              /\ Follows(todo_h, response) /\ Follows(todo_m, response)
              /\ EndsSignalled(todo_h)
              /\ guard = "writing" => Settles(todo_m, response)
              /\ guard = "returned" => response.status # 0

\* An answer that was given in time is signalled, and then kept.
Kept == inTime => /\ handler \in {"writing", "finished"} /\ todo_h = <<>>
                  /\ guard = "waiting" => token
                  /\ guard # "waiting" => todo_m = <<>> /\ response = wanted

PathInv == PathTypeOK /\ Turns /\ Answering /\ Signalling /\ Kept

-----------------------------------------------------------------------------
(***************************************************************************)
(* The answers that are written, call by call.                             *)
(***************************************************************************)
St(s) == Op("status", s)

\* The single calls: what they are in Ops, and which of them set a status.
LEMMA Calls ==
  /\ SetType \in Ops /\ Signal \in Ops /\ Body \in Ops /\ \A s \in {400, 500, 504} : St(s) \in Ops
  /\ ~Sets(SetType) /\ ~Sets(Signal) /\ Sets(Body) /\ \A s \in {400, 500, 504} : Sets(St(s))
  /\ Body.status = 200 /\ \A s \in {400, 500, 504} : St(s).status = s
  /\ SetType # Signal /\ SetType # Body /\ Signal # Body
  /\ \A s \in {400, 500, 504} : St(s) # SetType /\ St(s) # Signal /\ St(s) # Body
BY DEF Ops, Op, SetType, Signal, Body, Sets, St

\* A single call, and what WriteHeader and Write are.
LEMMA ShortCalls ==
  /\ <<SetType>> \in Seq(Ops) /\ Len(<<SetType>>) = 1 /\ <<SetType>>[1] = SetType
  /\ Write \in Seq(Ops) /\ Len(Write) = 2 /\ Write[1] = Body /\ Write[2] = Signal
  /\ \A s \in {400, 500, 504} :
        /\ WriteHeader(s) \in Seq(Ops) /\ Len(WriteHeader(s)) = 2
        /\ WriteHeader(s)[1] = St(s) /\ WriteHeader(s)[2] = Signal
<1>1. <<SetType>> \in Seq(Ops) /\ Len(<<SetType>>) = 1 /\ <<SetType>>[1] = SetType
  BY Calls
<1>2. Write = <<Body, Signal>> /\ \A s \in {400, 500, 504} : WriteHeader(s) = <<St(s), Signal>>
  BY DEF Write, WriteHeader, Body, St
<1>3. Write \in Seq(Ops) /\ Len(Write) = 2 /\ Write[1] = Body /\ Write[2] = Signal
  BY <1>2, Calls
<1>4. ASSUME NEW s \in {400, 500, 504}
      PROVE  /\ WriteHeader(s) \in Seq(Ops) /\ Len(WriteHeader(s)) = 2
             /\ WriteHeader(s)[1] = St(s) /\ WriteHeader(s)[2] = Signal
  <2>1. WriteHeader(s) = <<St(s), Signal>> /\ St(s) \in Ops /\ Signal \in Ops
    BY <1>2, Calls
  <2> HIDE DEF WriteHeader
  <2> QED BY <2>1
<1> QED BY <1>1, <1>3, <1>4

\* The calls of two lists, one after the other.
Chained(both, first, second) ==
    /\ both \in Seq(Ops) /\ Len(both) = Len(first) + Len(second)
    /\ \A i \in 1..Len(first) : both[i] = first[i]
    /\ \A i \in 1..Len(second) : both[Len(first) + i] = second[i]

\* The standard facts about \o, for two lists of calls.
LEMMA Joined ==
  ASSUME NEW first \in Seq(Ops), NEW second \in Seq(Ops)
  PROVE  Chained(first \o second, first, second)
BY DEF Chained

\* WriteError is five calls: type, status, signal, body, signal.
LEMMA ErrorCalls ==
  ASSUME NEW s \in {400, 500, 504}
  PROVE  /\ WriteError(s) \in Seq(Ops) /\ Len(WriteError(s)) = 5
         /\ WriteError(s)[1] = SetType /\ WriteError(s)[2] = St(s) /\ WriteError(s)[3] = Signal
         /\ WriteError(s)[4] = Body /\ WriteError(s)[5] = Signal
<1> DEFINE one  == <<SetType>>
           head == WriteHeader(s)
           half == one \o head
           all  == half \o Write
<1>1. /\ one \in Seq(Ops) /\ Len(one) = 1 /\ one[1] = SetType
      /\ head \in Seq(Ops) /\ Len(head) = 2 /\ head[1] = St(s) /\ head[2] = Signal
      /\ Write \in Seq(Ops) /\ Len(Write) = 2 /\ Write[1] = Body /\ Write[2] = Signal
  BY ShortCalls
<1>2. WriteError(s) = all
  BY DEF WriteError
<1> HIDE DEF one, head
<1>3. Chained(half, one, head)
  BY <1>1, Joined
<1> HIDE DEF half
<1>4. half \in Seq(Ops)
  BY <1>3 DEF Chained
<1>5. Chained(all, half, Write)
  BY <1>1, <1>4, Joined
<1> HIDE DEF all
<1>6. Len(half) = 3 /\ half[1] = SetType /\ half[1 + 1] = St(s) /\ half[1 + 2] = Signal
  BY <1>1, <1>3 DEF Chained
<1>7. /\ Len(all) = 5 /\ all[1] = SetType /\ all[2] = St(s) /\ all[3] = Signal
      /\ all[3 + 1] = Body /\ all[3 + 2] = Signal
  BY <1>1, <1>5, <1>6 DEF Chained
<1>8. all \in Seq(Ops) /\ all[4] = Body /\ all[5] = Signal
  BY <1>5, <1>7 DEF Chained
<1> QED BY <1>2, <1>7, <1>8

\* Each list of calls is well signalled, and yields the answer it is for.
WellSignalled(todo) == /\ todo \in Seq(Ops) /\ EndsSignalled(todo)
                       /\ \A r \in Responses : Follows(todo, r) /\ Settles(todo, r)

\* The answer of a list whose i-th call is the first to set the status.
LEMMA YieldsFromStart ==
  ASSUME NEW todo \in Seq(Ops), NEW i, FirstSets(todo, i),
         NEW b \in DOMAIN todo, \A j \in DOMAIN todo : todo[j] = Body <=> j = b,
         NEW json \in BOOLEAN, json <=> \E j \in 1..(i - 1) : todo[j] = SetType
  PROVE  Yields(todo, Nothing, Answer(todo[i].status, json, <<"handler">>))
<1> DEFINE w == Answer(todo[i].status, json, <<"handler">>)
<1>1. w.status = todo[i].status /\ w.json = json /\ w.body = <<"handler">>
  BY DEF Answer
<1>2. Nothing.status = 0 /\ Nothing.json = FALSE /\ Nothing.body = <<>>
  BY DEF Answer, Nothing
<1>3. json = (FALSE \/ \E j \in 1..(i - 1) : todo[j] = SetType)
  OBVIOUS
<1> HIDE DEF w
<1>4. Yields(todo, Nothing, w)
  BY <1>1, <1>2, <1>3 DEF Yields, FirstSets
<1> QED BY <1>4 DEF w

\* An answer of the handler is a response.
LEMMA AnswerType ==
  ASSUME NEW s \in {200, 400, 500, 504}, NEW json \in BOOLEAN
  PROVE  Answer(s, json, <<"handler">>) \in Responses
BY DEF Answer, Responses

\* WriteError alone: its status with a content type.
LEMMA ErrorScript ==
  ASSUME NEW s \in {400, 500, 504}
  PROVE  /\ WellSignalled(WriteError(s))
         /\ Yields(WriteError(s), Nothing, Answer(s, TRUE, <<"handler">>))
<1> DEFINE script == WriteError(s)
<1>1. /\ script \in Seq(Ops) /\ Len(script) = 5 /\ DOMAIN script = 1..5
      /\ script[1] = SetType /\ script[2] = St(s) /\ script[3] = Signal
      /\ script[4] = Body /\ script[5] = Signal
  BY ErrorCalls
<1> HIDE DEF script
<1>2. EndsSignalled(script)
  BY <1>1 DEF EndsSignalled
<1>3. \A r \in Responses : Follows(script, r) /\ Settles(script, r)
  BY <1>1, Calls DEF Follows, Settles
<1>4. FirstSets(script, 2) /\ script[2].status = s
  BY <1>1, Calls DEF FirstSets
<1>5. \A j \in DOMAIN script : script[j] = Body <=> j = 4
  BY <1>1, Calls
<1>6. 4 \in DOMAIN script /\ \E j \in 1..(2 - 1) : script[j] = SetType
  BY <1>1
<1>7. Yields(script, Nothing, Answer(s, TRUE, <<"handler">>))
  BY <1>1, <1>4, <1>5, <1>6, YieldsFromStart
<1> QED BY <1>1, <1>2, <1>3, <1>7 DEF WellSignalled, script

\* The refusals of ServeHTTP: the first WriteHeader(400) makes WriteError's
\* content type come too late.
LEMMA EarlyScript ==
  /\ WellSignalled(WriteHeader(400) \o WriteError(400))
  /\ Yields(WriteHeader(400) \o WriteError(400), Nothing, Answer(400, FALSE, <<"handler">>))
<1> DEFINE script == WriteHeader(400) \o WriteError(400)
<1>1. /\ script \in Seq(Ops) /\ Len(script) = 7
      /\ script[1] = St(400) /\ script[2] = Signal /\ script[3] = SetType
      /\ script[4] = St(400) /\ script[5] = Signal /\ script[6] = Body /\ script[7] = Signal
  <2> DEFINE early == WriteHeader(400)
             error == WriteError(400)
  <2>1. /\ early \in Seq(Ops) /\ Len(early) = 2 /\ early[1] = St(400) /\ early[2] = Signal
        /\ error \in Seq(Ops) /\ Len(error) = 5 /\ error[1] = SetType /\ error[2] = St(400)
        /\ error[3] = Signal /\ error[4] = Body /\ error[5] = Signal
    BY ShortCalls, ErrorCalls
  <2> HIDE DEF early, error
  <2>2. script = early \o error
    BY DEF early, error
  <2> HIDE DEF script
  <2>3. Chained(script, early, error)
    BY <2>1, <2>2, Joined
  <2>4. /\ Len(script) = 7 /\ script[1] = St(400) /\ script[2] = Signal
        /\ script[2 + 1] = SetType /\ script[2 + 2] = St(400) /\ script[2 + 3] = Signal
        /\ script[2 + 4] = Body /\ script[2 + 5] = Signal
    BY <2>1, <2>3 DEF Chained
  <2>5. script \in Seq(Ops)
    BY <2>3 DEF Chained
  <2> QED BY <2>4, <2>5
<1> HIDE DEF script
<1>2. DOMAIN script = 1..7 /\ EndsSignalled(script)
  BY <1>1 DEF EndsSignalled
<1>3. \A r \in Responses : Follows(script, r) /\ Settles(script, r)
  BY <1>1, <1>2, Calls DEF Follows, Settles
<1>4. FirstSets(script, 1) /\ script[1].status = 400
  BY <1>1, <1>2, Calls DEF FirstSets
<1>5. \A j \in DOMAIN script : script[j] = Body <=> j = 6
  BY <1>1, <1>2, Calls
<1>6. 6 \in DOMAIN script /\ ~\E j \in 1..(1 - 1) : script[j] = SetType
  BY <1>2
<1>7. Yields(script, Nothing, Answer(400, FALSE, <<"handler">>))
  <2>1. ASSUME NEW json \in BOOLEAN, json = FALSE
        PROVE  Yields(script, Nothing, Answer(script[1].status, json, <<"handler">>))
    <3>1. json <=> \E j \in 1..(1 - 1) : script[j] = SetType
      BY <1>6, <2>1
    <3>2. script \in Seq(Ops) /\ FirstSets(script, 1) /\ 6 \in DOMAIN script
      BY <1>1, <1>4, <1>6
    <3> QED BY <1>5, <3>1, <3>2, YieldsFromStart, Zenon
  <2> QED BY <1>4, <2>1
<1> QED BY <1>1, <1>2, <1>3, <1>7 DEF WellSignalled, script

\* The result of the LLM: a Write with a content type, status 200.
LEMMA ResultScript ==
  /\ WellSignalled(<<SetType>> \o Write)
  /\ Yields(<<SetType>> \o Write, Nothing, Answer(200, TRUE, <<"handler">>))
<1> DEFINE script == <<SetType>> \o Write
<1>1. /\ script \in Seq(Ops) /\ Len(script) = 3
      /\ script[1] = SetType /\ script[2] = Body /\ script[3] = Signal
  <2> DEFINE one == <<SetType>>
  <2>1. /\ one \in Seq(Ops) /\ Len(one) = 1 /\ one[1] = SetType
        /\ Write \in Seq(Ops) /\ Len(Write) = 2 /\ Write[1] = Body /\ Write[2] = Signal
    BY ShortCalls
  <2> HIDE DEF one
  <2>2. script = one \o Write
    BY DEF one
  <2> HIDE DEF script
  <2>3. Chained(script, one, Write)
    BY <2>1, <2>2, Joined
  <2>4. Len(script) = 3 /\ script[1] = SetType /\ script[1 + 1] = Body /\ script[1 + 2] = Signal
    BY <2>1, <2>3 DEF Chained
  <2>5. script \in Seq(Ops)
    BY <2>3 DEF Chained
  <2> QED BY <2>4, <2>5
<1> HIDE DEF script
<1>2. DOMAIN script = 1..3 /\ EndsSignalled(script)
  BY <1>1 DEF EndsSignalled
<1>3. \A r \in Responses : Follows(script, r) /\ Settles(script, r)
  BY <1>1, <1>2, Calls DEF Follows, Settles
<1>4. FirstSets(script, 2) /\ script[2].status = 200
  BY <1>1, <1>2, Calls DEF FirstSets
<1>5. \A j \in DOMAIN script : script[j] = Body <=> j = 2
  BY <1>1, <1>2, Calls
<1>6. 2 \in DOMAIN script /\ \E j \in 1..(2 - 1) : script[j] = SetType
  BY <1>1, <1>2
<1>7. Yields(script, Nothing, Answer(200, TRUE, <<"handler">>))
  <2>1. Yields(script, Nothing, Answer(script[2].status, TRUE, <<"handler">>))
    BY <1>1, <1>4, <1>5, <1>6, YieldsFromStart
  <2> QED BY <1>4, <2>1
<1> QED BY <1>1, <1>2, <1>3, <1>7 DEF WellSignalled, script

\* When nothing is left to do, the response is the answer.
LEMMA AllDone ==
  ASSUME NEW r \in Responses, NEW w \in Responses, Yields(<<>>, r, w)
  PROVE  r = w /\ r.status # 0
<1>1. DOMAIN <<>> = {}
  OBVIOUS
<1>2. r.status # 0 /\ r.status = w.status /\ r.json = w.json /\ r.body = w.body
  BY <1>1 DEF Yields
<1>3. /\ r = [status |-> r.status, json |-> r.json, body |-> r.body]
      /\ w = [status |-> w.status, json |-> w.json, body |-> w.body]
  BY DEF Responses
<1> QED BY <1>2, <1>3

-----------------------------------------------------------------------------
\* The handler begins to write one of its answers.
LEMMA ReplyStep ==
  ASSUME PathInv, NEW script, NEW s \in {200, 400, 500, 504}, NEW json \in BOOLEAN,
         WellSignalled(script), Yields(script, Nothing, Answer(s, json, <<"handler">>)),
         Reply(script, s, json),
         \/ handler = "idle" /\ guard' = "waiting"
         \/ handler = "calling" /\ UNCHANGED guard,
         UNCHANGED <<ctx, todo_m, token, response, crashed, inTime>>
  PROVE  PathInv'
<1>1. PathTypeOK'
  BY AnswerType DEF PathInv, PathTypeOK, WellSignalled, Reply
<1>2. Turns'
  BY DEF PathInv, PathTypeOK, Turns, Reply
<1>3. Answering'
  BY DEF PathInv, PathTypeOK, Turns, Answering, Reply
<1>4. Signalling'
  BY DEF PathInv, PathTypeOK, Turns, Signalling, Reply, WellSignalled, Follows, Settles
<1>5. Kept'
  BY DEF PathInv, Kept
<1> QED BY <1>1, <1>2, <1>3, <1>4, <1>5 DEF PathInv

\* The handler begins, and refuses the request or goes on to the processor.
LEMMA BeginStep ==
  ASSUME PathInv, NEW q \in Requests, Begin(q)
  PROVE  PathInv'
<1>1. CASE ~q.post
  <2>1. Reply(WriteError(400), 400, TRUE)
    BY <1>1 DEF Begin
  <2>2. handler = "idle" /\ guard' = "waiting"
        /\ UNCHANGED <<ctx, todo_m, token, response, crashed, inTime>>
    BY DEF Begin
  <2>3. /\ WellSignalled(WriteError(400))
        /\ Yields(WriteError(400), Nothing, Answer(400, TRUE, <<"handler">>))
    BY ErrorScript
  <2> QED BY <2>1, <2>2, <2>3, ReplyStep
<1>2. CASE q.post /\ Refused(q)
  <2>1. Reply(WriteHeader(400) \o WriteError(400), 400, FALSE)
    BY <1>2 DEF Begin
  <2>2. handler = "idle" /\ guard' = "waiting"
        /\ UNCHANGED <<ctx, todo_m, token, response, crashed, inTime>>
    BY DEF Begin
  <2>3. /\ WellSignalled(WriteHeader(400) \o WriteError(400))
        /\ Yields(WriteHeader(400) \o WriteError(400), Nothing, Answer(400, FALSE, <<"handler">>))
    BY EarlyScript
  <2> QED BY <2>1, <2>2, <2>3, ReplyStep
<1>3. CASE q.post /\ ~Refused(q)
  <2>1. /\ handler = "idle" /\ guard = "idle" /\ handler' = "calling" /\ guard' = "waiting"
        /\ UNCHANGED <<ctx, todo_h, todo_m, token, response, crashed, wanted, inTime>>
    BY <1>3 DEF Begin
  <2> QED BY <2>1 DEF PathInv, PathTypeOK, Turns, Answering, Signalling, Kept
<1> QED BY <1>1, <1>2, <1>3

\* The result of ProcessRequest becomes an answer, whenever it comes.
LEMMA ProcessRequestStep ==
  ASSUME PathInv, NEW ok \in BOOLEAN, ProcessRequest(ok)
  PROVE  PathInv'
<1>1. /\ handler = "calling" /\ UNCHANGED guard
      /\ UNCHANGED <<ctx, todo_m, token, response, crashed, inTime>> /\ Conclude(ok)
  BY DEF ProcessRequest
<1>2. CASE ok
  <2>1. Reply(<<SetType>> \o Write, 200, TRUE)
    BY <1>1, <1>2 DEF Conclude
  <2>2. /\ WellSignalled(<<SetType>> \o Write)
        /\ Yields(<<SetType>> \o Write, Nothing, Answer(200, TRUE, <<"handler">>))
    BY ResultScript
  <2> QED BY <1>1, <2>1, <2>2, ReplyStep
<1>3. CASE ~ok /\ ctx = "deadline"
  <2>1. Reply(WriteError(504), 504, TRUE)
    BY <1>1, <1>3 DEF Conclude
  <2>2. /\ WellSignalled(WriteError(504))
        /\ Yields(WriteError(504), Nothing, Answer(504, TRUE, <<"handler">>))
    BY ErrorScript
  <2> QED BY <1>1, <2>1, <2>2, ReplyStep
<1>4. CASE ~ok /\ ctx # "deadline"
  <2>1. Reply(WriteError(500), 500, TRUE)
    BY <1>1, <1>4 DEF Conclude
  <2>2. /\ WellSignalled(WriteError(500))
        /\ Yields(WriteError(500), Nothing, Answer(500, TRUE, <<"handler">>))
    BY ErrorScript
  <2> QED BY <1>1, <2>1, <2>2, ReplyStep
<1> QED BY <1>2, <1>3, <1>4

\* A call of the handler: what it has left still makes its answer, and the
\* last one is the signal of all of it.
LEMMA HandlerWritesStep ==
  ASSUME PathInv, HandlerWrites
  PROVE  PathInv'
<1> DEFINE new == Apply(Head(todo_h), "handler", response)
<1>1. /\ todo_h \in Seq(Ops) /\ todo_h # <<>> /\ response \in Responses /\ wanted \in Responses
      /\ Follows(todo_h, response) /\ Follows(todo_m, response) /\ EndsSignalled(todo_h)
      /\ guard \in {"waiting", "writing", "returned"} /\ handler = "writing"
  BY DEF PathInv, PathTypeOK, Turns, Signalling, HandlerWrites
<1>2. /\ new \in Responses /\ Follows(Tail(todo_h), new) /\ Follows(todo_m, new)
      /\ Head(todo_h) = Signal => response.status # 0 /\ new.status # 0
      /\ EndsSignalled(Tail(todo_h)) /\ (Tail(todo_h) = <<>> => Head(todo_h) = Signal)
      /\ Settles(todo_m, response) => Settles(todo_m, new)
      /\ response.status # 0 => new.status # 0
  BY <1>1, SignalsStep
<1>3. Yields(todo_h, response, wanted) => Yields(Tail(todo_h), new, wanted)
  BY <1>1, YieldsStep
<1>4. Tail(todo_h) \in Seq(Ops)
  BY <1>1, Remaining
<1>5. /\ todo_h' = Tail(todo_h) /\ response' = IF guard = "returned" THEN response ELSE new
      /\ token' = (token \/ Head(todo_h) = Signal)
      /\ inTime' = (Tail(todo_h) = <<>> /\ ctx = "live")
      /\ UNCHANGED <<handler, guard, ctx, todo_m, crashed, wanted>>
  BY DEF HandlerWrites, Send, PathInv, PathTypeOK
<1> HIDE DEF new
<1>6. PathTypeOK'
  BY <1>2, <1>4, <1>5 DEF PathInv, PathTypeOK
<1>7. Turns'
  BY <1>1, <1>5 DEF PathInv, Turns
<1>8. Answering'
  BY <1>1, <1>3, <1>5 DEF PathInv, Answering
<1>9. Signalling'
  <2>1. CASE guard = "returned"
    <3>1. response.status # 0
      BY <2>1 DEF PathInv, Signalling
    <3> QED BY <1>2, <1>5, <2>1, <3>1 DEF PathInv, Signalling, Follows
  <2>2. CASE guard # "returned"
    BY <1>2, <1>5, <2>2 DEF PathInv, Signalling
  <2> QED BY <2>1, <2>2
<1>10. Kept'
  BY <1>1, <1>2, <1>5 DEF PathInv, Turns, Kept
<1> QED BY <1>6, <1>7, <1>8, <1>9, <1>10 DEF PathInv

\* The middleware's select.
LEMMA SelectStep ==
  ASSUME PathInv, SeesDone \/ SeesTimeout
  PROVE  PathInv'
<1>1. /\ guard = "waiting" /\ todo_m = <<>> /\ response \in Responses /\ wanted \in Responses
      /\ handler # "idle"
      /\ handler = "finished" => todo_h = <<>>
  BY DEF PathInv, PathTypeOK, Turns, SeesDone, SeesTimeout
<1>2. handler \in {"writing", "finished"} /\ todo_h = <<>> => response = wanted /\ response.status # 0
  BY <1>1, AllDone DEF PathInv, Answering
<1>3. CASE SeesDone
  <2>1. /\ handler = "finished" /\ guard' = "returned"
        /\ UNCHANGED <<handler, ctx, todo_h, todo_m, token, response, crashed, wanted, inTime>>
    BY <1>3 DEF SeesDone
  <2> QED BY <1>1, <1>2, <2>1 DEF PathInv, PathTypeOK, Turns, Answering, Signalling, Kept,
                                 Settles
<1>4. CASE SeesTimeout
  <2>1. /\ ctx # "live" /\ guard' = "writing" /\ token' = FALSE
        /\ todo_m' = (IF token THEN <<>> ELSE WriteError(504))
        /\ UNCHANGED <<handler, ctx, todo_h, response, crashed, wanted, inTime>>
    BY <1>4 DEF SeesTimeout
  <2>2. /\ todo_m' \in Seq(Ops) /\ Follows(todo_m', response) /\ Settles(todo_m', response)
    <3>1. CASE token
      BY <1>1, <2>1, <3>1 DEF PathInv, PathTypeOK, Signalling, Settles
    <3>2. CASE ~token
      <4>1. WellSignalled(WriteError(504))
        BY ErrorScript
      <4> QED BY <1>1, <2>1, <3>2, <4>1 DEF WellSignalled
    <3> QED BY <3>1, <3>2
  <2>3. PathTypeOK'
    BY <2>1, <2>2 DEF PathInv, PathTypeOK
  <2>4. Turns' /\ Answering'
    BY <1>1, <2>1 DEF PathInv, Turns, Answering
  <2>5. Signalling'
    BY <2>1, <2>2 DEF PathInv, Signalling, Follows, Settles
  <2>6. Kept'
    BY <1>1, <1>2, <2>1 DEF PathInv, Kept
  <2> QED BY <2>3, <2>4, <2>5, <2>6 DEF PathInv
<1> QED BY <1>3, <1>4

\* A call of the middleware, which has one only when no answer was in time.
LEMMA MiddlewareWritesStep ==
  ASSUME PathInv, MiddlewareWrites
  PROVE  PathInv'
<1> DEFINE new == Apply(Head(todo_m), "middleware", response)
<1>1. /\ todo_m \in Seq(Ops) /\ todo_m # <<>> /\ response \in Responses /\ guard = "writing"
      /\ Follows(todo_h, response) /\ Follows(todo_m, response) /\ Settles(todo_m, response)
  BY DEF PathInv, PathTypeOK, Signalling, MiddlewareWrites
<1>2. /\ new \in Responses /\ Follows(Tail(todo_m), new) /\ Follows(todo_h, new)
      /\ Head(todo_m) = Signal => new.status # 0
      /\ Settles(Tail(todo_m), new)
      /\ response.status # 0 => new.status # 0
  BY <1>1, SignalsStep
<1>3. Tail(todo_m) \in Seq(Ops)
  BY <1>1, Remaining
<1>4. /\ todo_m' = Tail(todo_m) /\ response' = new
      /\ token' = (token \/ Head(todo_m) = Signal)
      /\ UNCHANGED <<handler, guard, ctx, todo_h, crashed, wanted, inTime>>
  BY DEF MiddlewareWrites, Send, PathInv, PathTypeOK
<1> HIDE DEF new
<1>5. PathTypeOK'
  BY <1>2, <1>3, <1>4 DEF PathInv, PathTypeOK
<1>6. Turns' /\ Answering'
  BY <1>1, <1>4 DEF PathInv, Turns, Answering
<1>7. Signalling'
  BY <1>1, <1>2, <1>4 DEF PathInv, Signalling
<1>8. Kept'
  BY <1>1, <1>4 DEF PathInv, Kept
<1> QED BY <1>5, <1>6, <1>7, <1>8 DEF PathInv

\* Every step of the request keeps the invariant.
LEMMA PathInvStep == PathInv /\ [PathNext]_pathVars => PathInv'
<1> SUFFICES ASSUME PathInv, [PathNext]_pathVars PROVE PathInv'
  OBVIOUS
<1>1. ASSUME NEW q \in Requests, Begin(q) PROVE PathInv'
  BY <1>1, BeginStep
<1>2. ASSUME NEW ok \in BOOLEAN, ProcessRequest(ok) PROVE PathInv'
  BY <1>2, ProcessRequestStep
<1>3. CASE Panic \/ HeaderRace
  <2>1. /\ crashed' = TRUE
        /\ UNCHANGED <<handler, guard, ctx, todo_h, todo_m, token, response, wanted, inTime>>
    BY <1>3 DEF Panic, HeaderRace
  <2> QED BY <2>1 DEF PathInv, PathTypeOK, Turns, Answering, Signalling, Kept
<1>4. CASE HandlerWrites
  BY <1>4, HandlerWritesStep
<1>5. CASE HandlerReturns
  BY <1>5 DEF HandlerReturns, PathInv, PathTypeOK, Turns, Answering, Signalling, Kept
<1>6. ASSUME NEW how \in {"deadline", "cancelled"}, ContextEnds(how) PROVE PathInv'
  BY <1>6 DEF ContextEnds, PathInv, PathTypeOK, Turns, Answering, Signalling, Kept
<1>7. CASE SeesDone \/ SeesTimeout
  BY <1>7, SelectStep
<1>8. CASE MiddlewareWrites
  BY <1>8, MiddlewareWritesStep
<1>9. CASE MiddlewareReturns
  <2>1. DOMAIN <<>> = {}
    OBVIOUS
  <2> QED BY <1>9, <2>1 DEF MiddlewareReturns, PathInv, PathTypeOK, Turns, Answering,
                            Signalling, Kept, Settles
<1>10. CASE UNCHANGED pathVars
  BY <1>10 DEF pathVars, PathInv, PathTypeOK, Turns, Answering, Signalling, Kept
<1> QED BY <1>1, <1>2, <1>3, <1>4, <1>5, <1>6, <1>7, <1>8, <1>9, <1>10 DEF PathNext, Middleware

\* What handler and middleware have yet to do, together with what is written
\* and what is signalled, makes exactly one answer.
THEOREM PathInvariance == PathSpec => []PathInv
<1>1. PathInit => PathInv
  <2>1. Nothing \in Responses /\ <<>> \in Seq(Ops)
    BY DEF Nothing, Answer, Responses
  <2>2. Follows(<<>>, Nothing) /\ EndsSignalled(<<>>)
    <3>1. DOMAIN <<>> = {}
      OBVIOUS
    <3> QED BY <3>1 DEF Follows, EndsSignalled
  <2> QED BY <2>1, <2>2 DEF PathInit, PathInv, PathTypeOK, Turns, Answering, Signalling, Kept
<1> QED BY <1>1, PathInvStep, PTL DEF PathSpec

\* A handler that wrote its whole answer before the context ended is not
\* disturbed by the middleware's timeout, in any order of their calls.
THEOREM PathCompleteIfInTime == PathSpec => []CompleteIfInTime
<1>1. PathInv => CompleteIfInTime
  BY DEF PathInv, Kept, CompleteIfInTime
<1> QED BY <1>1, PathInvariance, PTL

\* The middleware of Timeout never returns with a response that has no status.
THEOREM PathNeverEmpty == PathSpec => []NeverEmpty
<1>1. PathInv => NeverEmpty
  BY DEF PathInv, Signalling, NeverEmpty
<1> QED BY <1>1, PathInvariance, PTL
=============================================================================
