---------------------------- MODULE BreakerProofs ----------------------------
(***************************************************************************)
(* Lemmas about Breaker, for every finite set of callers and every         *)
(* MaxRequests, FailureThreshold and HasInterval.                          *)
(*                                                                         *)
(* They rest on the equation in BreakerInv: the requests admitted in the   *)
(* half-open state are those that are still running and those that have    *)
(* succeeded, because the first failure ends the state.                    *)
(***************************************************************************)
EXTENDS Breaker, FiniteSetTheorems, TLAPS

BreakerInv(x) ==
    /\ x.state = "half-open" => /\ x.requests = Cardinality(x.calls) + x.succs
                                /\ x.succs < MaxRequests
    /\ x.state = "open" => x.calls = {}
    /\ x.expired => x.state = "open" \/ (x.state = "closed" /\ HasInterval)

\* The sets of calls are finite.
LEMMA CallsFinite ==
  ASSUME NEW callers, IsFiniteSet(callers), NEW x \in Breakers(callers)
  PROVE  IsFiniteSet(x.calls) /\ Cardinality(x.calls) \in Nat
<1>1. IsFiniteSet(x.calls)
  BY FS_Subset DEF Breakers
<1> QED BY <1>1, FS_CardinalityType

\* A new generation is a breaker without calls, and satisfies BreakerInv.
LEMMA NewGenerationOK ==
  ASSUME NEW callers, NEW state \in States
  PROVE  /\ NewGeneration(state) \in Breakers(callers)
         /\ BreakerInv(NewGeneration(state))
         /\ NewGeneration(state).state = state
         /\ NewGeneration(state).calls = {}
<1> USE BreakerAssumption DEF BreakerAssumption
<1>1. NewGeneration(state) \in Breakers(callers)
  BY DEF NewGeneration, Breakers
<1>2. NewGeneration(state).state = state /\ NewGeneration(state).calls = {}
  BY DEF NewGeneration
<1>3. BreakerInv(NewGeneration(state))
  BY FS_EmptySet DEF NewGeneration, BreakerInv
<1> QED BY <1>1, <1>2, <1>3

\* What the expiry does to a breaker.
LEMMA CurrentOK ==
  ASSUME NEW callers, IsFiniteSet(callers), NEW x \in Breakers(callers), BreakerInv(x)
  PROVE  /\ Current(x) \in Breakers(callers)
         /\ BreakerInv(Current(x))
         /\ Current(x).calls \subseteq x.calls
         /\ Current(x).calls = {} \/ Current(x) = x
         /\ Current(x).state # x.state => x.state = "open" /\ Current(x).state = "half-open"
         /\ \/ Current(x) = x
            \/ x.state = "open" /\ Current(x) = NewGeneration("half-open")
            \/ x.state = "closed" /\ HasInterval /\ Current(x) = NewGeneration("closed")
<1>1. CASE x.expired /\ x.state = "open"
  BY <1>1, NewGenerationOK DEF Current, States
<1>2. CASE x.expired /\ x.state = "closed"
  <2>1. HasInterval
    BY <1>2 DEF BreakerInv
  <2> QED BY <1>2, <2>1, NewGenerationOK DEF Current, States
<1>3. CASE ~(x.expired /\ x.state \in {"open", "closed"})
  BY <1>3 DEF Current
<1> QED BY <1>1, <1>2, <1>3

\* A call that is let through joins the calls of the current generation.
LEMMA EnteredOK ==
  ASSUME NEW callers, IsFiniteSet(callers), NEW x \in Breakers(callers), BreakerInv(x),
         NEW c \in callers,
         c \notin x.calls, ~Refuses(x)
  PROVE  /\ Entered(x, c) \in Breakers(callers)
         /\ BreakerInv(Entered(x, c))
         /\ Entered(x, c).calls = Current(x).calls \cup {c}
         /\ Entered(x, c).state = Current(x).state
         /\ Gate(Entered(x, c)) = [Gate(Current(x)) EXCEPT !.counted = @ \cup {c}]
         /\ \/ Current(x).state = "closed"
            \/ /\ Current(x).state = "half-open"
               /\ Cardinality(Current(x).calls) + Current(x).succs < MaxRequests
<1> DEFINE now == Current(x)
<1>1. now \in Breakers(callers) /\ BreakerInv(now) /\ c \notin now.calls
  BY CurrentOK
<1>2. now.state = "half-open" => now.requests < MaxRequests
  BY <1>1, BreakerAssumption DEF Refuses, Breakers, BreakerAssumption
<1> DEFINE calls == now.calls \cup {c}
           requests == IF now.state = "half-open" THEN now.requests + 1 ELSE now.requests
<1>8. Entered(x, c) = [now EXCEPT !.calls = calls, !.requests = requests]
  BY DEF Entered
<1> HIDE DEF now, calls, requests
<1>3. Entered(x, c) = [state |-> now.state, calls |-> calls, requests |-> requests,
                       fails |-> now.fails, succs |-> now.succs, expired |-> now.expired]
  BY <1>1, <1>8 DEF Breakers
<1> USE DEF calls, requests
<1>4. requests \in 0..MaxRequests
  BY <1>1, <1>2, BreakerAssumption DEF Breakers, BreakerAssumption
<1>5. Entered(x, c) \in Breakers(callers)
  BY <1>1, <1>3, <1>4 DEF Breakers
<1>6. Cardinality(calls) = Cardinality(now.calls) + 1 /\ Cardinality(now.calls) \in Nat
  BY <1>1, CallsFinite, FS_AddElement
<1>7. now.state = "closed" \/ now.state = "half-open"
  BY <1>1 DEF Refuses, now, Breakers, States
<1>9. BreakerInv(Entered(x, c))
  BY <1>1, <1>3, <1>6, <1>7 DEF BreakerInv, Breakers
<1>10. Gate(Entered(x, c)) = [Gate(now) EXCEPT !.counted = @ \cup {c}]
  BY <1>3 DEF Gate
<1>11. now.state = "half-open" => Cardinality(now.calls) + now.succs < MaxRequests
  BY <1>1, <1>2 DEF BreakerInv
<1> QED BY <1>3, <1>5, <1>7, <1>9, <1>10, <1>11 DEF now

\* A success closes a half-open breaker or is counted, and clears the
\* failures.
LEMMA SucceededOK ==
  ASSUME NEW callers, IsFiniteSet(callers), NEW x \in Breakers(callers)
  PROVE  \/ /\ Succeeded(x) = NewGeneration("closed")
            /\ x.state = "half-open" /\ x.succs + 1 >= MaxRequests
         \/ /\ Succeeded(x).state = x.state /\ Succeeded(x).calls = x.calls
            /\ Succeeded(x).expired = x.expired
            /\ Succeeded(x) \in Breakers(callers)
            /\ x.state # "half-open" => Succeeded(x).succs = x.succs
            /\ x.state = "half-open" =>
                 /\ Succeeded(x).requests = x.requests
                 /\ Succeeded(x).succs = x.succs + 1 /\ Succeeded(x).succs < MaxRequests
<1>1. CASE x.state # "half-open"
  BY <1>1 DEF Succeeded, Breakers
<1>2. CASE x.state = "half-open" /\ x.succs + 1 >= MaxRequests
  BY <1>2 DEF Succeeded
<1>3. CASE x.state = "half-open" /\ ~(x.succs + 1 >= MaxRequests)
  <2>1. Succeeded(x) = [x EXCEPT !.fails = 0, !.succs = @ + 1]
    BY <1>3 DEF Succeeded
  <2>2. Succeeded(x) = [state |-> x.state, calls |-> x.calls, requests |-> x.requests,
                        fails |-> 0, succs |-> x.succs + 1, expired |-> x.expired]
    BY <2>1 DEF Breakers
  <2>3. Succeeded(x) \in Breakers(callers)
    BY <2>2 DEF Breakers
  <2>4. x.succs + 1 < MaxRequests
    BY <1>3, BreakerAssumption DEF Breakers, BreakerAssumption
  <2>5. Succeeded(x).state = x.state /\ Succeeded(x).calls = x.calls
        /\ Succeeded(x).expired = x.expired /\ Succeeded(x).requests = x.requests
        /\ Succeeded(x).succs = x.succs + 1
    BY <2>2
  <2> QED BY <1>3, <2>3, <2>4, <2>5
<1> QED BY <1>1, <1>2, <1>3

\* A failure opens the breaker or is counted; it always ends a half-open
\* state.
LEMMA FailedOK ==
  ASSUME NEW callers, IsFiniteSet(callers), NEW x \in Breakers(callers)
  PROVE  \/ Failed(x) = NewGeneration("open")
         \/ /\ x.state # "half-open"
            /\ Failed(x).state = x.state /\ Failed(x).calls = x.calls
            /\ Failed(x).expired = x.expired /\ Failed(x).succs = x.succs
            /\ Failed(x) \in Breakers(callers)
<1>1. CASE x.state = "half-open" \/ ReadyToTrip(x.fails + 1)
  BY <1>1 DEF Failed
<1>2. CASE ~(x.state = "half-open" \/ ReadyToTrip(x.fails + 1))
  BY <1>2 DEF Failed, Breakers
<1> QED BY <1>1, <1>2

\* A call that ends leaves the calls; only a call of the current generation
\* can end the half-open state.
LEMMA LeftOK ==
  ASSUME NEW callers, IsFiniteSet(callers), NEW x \in Breakers(callers), BreakerInv(x),
         NEW c \in callers, NEW ok \in BOOLEAN
  PROVE  /\ Left(x, c, ok) \in Breakers(callers)
         /\ BreakerInv(Left(x, c, ok))
         /\ Left(x, c, ok).calls \subseteq x.calls \ {c}
         /\ Left(x, c, ok).state = "half-open" =>
               Left(x, c, ok).calls = {} \/ x.state = "half-open"
         /\ x.state = "half-open" /\ Left(x, c, ok).state # "half-open" => c \in x.calls
<1> DEFINE now == Current(x)
           left == [now EXCEPT !.calls = @ \ {c}]
<1>1. /\ now \in Breakers(callers) /\ BreakerInv(now)
      /\ now.calls \subseteq x.calls /\ (now.calls = {} \/ now = x)
      /\ now.state # x.state => x.state = "open" /\ now.state = "half-open"
  BY CurrentOK
<1> HIDE DEF now
<1>2. CASE c \notin now.calls
  BY <1>1, <1>2 DEF Left, now
<1>3. CASE c \in now.calls
  <2>1. now = x
    BY <1>1, <1>3
  <2>2. left = [state |-> now.state, calls |-> now.calls \ {c}, requests |-> now.requests,
                fails |-> now.fails, succs |-> now.succs, expired |-> now.expired]
    BY <1>1 DEF Breakers
  <2>3. left \in Breakers(callers)
    BY <1>1, <2>2 DEF Breakers
  <2>4. /\ left.state = x.state /\ left.calls = x.calls \ {c} /\ left.succs = x.succs
        /\ left.requests = x.requests /\ left.expired = x.expired
    BY <2>1, <2>2
  <2>5. Left(x, c, ok) = IF ok THEN Succeeded(left) ELSE Failed(left)
    BY <1>3 DEF Left, now
  <2>6. c \in x.calls
    BY <1>3, <2>1
  <2> HIDE DEF left
  <2>7. /\ Cardinality(left.calls) = Cardinality(x.calls) - 1
        /\ Cardinality(left.calls) \in Nat /\ Cardinality(x.calls) \in Nat
    BY <2>3, <2>4, <2>6, CallsFinite, FS_RemoveElement
  <2>8. left.state = "half-open" =>
           /\ ~left.expired
           /\ left.requests = Cardinality(left.calls) + left.succs + 1
    BY <2>3, <2>4, <2>7 DEF BreakerInv, Breakers
  <2> DEFINE new == Left(x, c, ok)
  <2>9. CASE new \in {NewGeneration("closed"), NewGeneration("open")}
    BY <2>6, <2>9, NewGenerationOK DEF States
  <2>10. CASE /\ new.state = left.state /\ new.calls = left.calls /\ new.expired = left.expired
              /\ new \in Breakers(callers)
              /\ left.state = "half-open" =>
                   /\ new.requests = left.requests
                   /\ new.succs = left.succs + 1 /\ new.succs < MaxRequests
    <3>1. left.succs \in Nat /\ left.requests \in Nat
      BY <2>3, BreakerAssumption DEF Breakers, BreakerAssumption
    <3>2. BreakerInv(new)
      BY <2>4, <2>6, <2>7, <2>8, <2>10, <3>1 DEF BreakerInv
    <3> QED BY <2>4, <2>6, <2>10, <3>2
  <2> QED BY <2>3, <2>5, <2>9, <2>10, SucceededOK, FailedOK
<1> QED BY <1>2, <1>3

\* Time that runs out is not seen yet.
LEMMA ExpiredOK ==
  ASSUME NEW callers, NEW x \in Breakers(callers), BreakerInv(x), MayExpire(x),
         NEW new, new = [x EXCEPT !.expired = TRUE]
  PROVE  /\ new \in Breakers(callers) /\ BreakerInv(new)
         /\ Gate(new) = Gate(x) /\ new.state = x.state /\ new.calls = x.calls
<1>1. /\ new \in Breakers(callers)
      /\ new.state = x.state /\ new.calls = x.calls /\ new.requests = x.requests
      /\ new.succs = x.succs
      /\ x.state = "open" \/ (x.state = "closed" /\ HasInterval)
  BY DEF MayExpire, Breakers
<1> QED BY <1>1 DEF BreakerInv, Gate

\* What the result of a call does to the gate that callers see.
LEMMA LeftGate ==
  ASSUME NEW callers, IsFiniteSet(callers), NEW x \in Breakers(callers), BreakerInv(x),
         NEW c \in callers, NEW ok \in BOOLEAN,
         NEW now, now = Current(x)
  PROVE  /\ c \notin now.calls => Left(x, c, ok) = now
         /\ c \in now.calls =>
              \/ ~ok /\ Left(x, c, ok) = NewGeneration("open")
              \/ /\ now.state = "closed"
                 /\ Gate(Left(x, c, ok)) = [phase |-> "closed", counted |-> now.calls \ {c},
                                            wins |-> now.succs]
              \/ /\ now.state = "half-open" /\ ok
                 /\ IF now.succs + 1 = MaxRequests
                    THEN Left(x, c, ok) = NewGeneration("closed")
                    ELSE Gate(Left(x, c, ok)) = [phase |-> "half-open", wins |-> now.succs + 1,
                                                 counted |-> now.calls \ {c}]
<1> DEFINE left == [now EXCEPT !.calls = @ \ {c}]
           new  == Left(x, c, ok)
<1>1. now \in Breakers(callers) /\ BreakerInv(now)
  BY CurrentOK
<1>2. CASE c \notin now.calls
  BY <1>2 DEF Left
<1>3. ASSUME c \in now.calls
      PROVE  \/ ~ok /\ new = NewGeneration("open")
             \/ /\ now.state = "closed"
                /\ Gate(new) = [phase |-> "closed", counted |-> now.calls \ {c},
                                wins |-> now.succs]
             \/ /\ now.state = "half-open" /\ ok
                /\ IF now.succs + 1 = MaxRequests
                   THEN new = NewGeneration("closed")
                   ELSE Gate(new) = [phase |-> "half-open", wins |-> now.succs + 1,
                                     counted |-> now.calls \ {c}]
  <2>1. left = [state |-> now.state, calls |-> now.calls \ {c}, requests |-> now.requests,
                fails |-> now.fails, succs |-> now.succs, expired |-> now.expired]
    BY <1>1 DEF Breakers
  <2>2. left \in Breakers(callers)
    BY <1>1, <2>1 DEF Breakers
  <2>3. /\ left.state = now.state /\ left.calls = now.calls \ {c} /\ left.succs = now.succs
        /\ now.state = "closed" \/ now.state = "half-open"
        /\ now.state = "half-open" => now.succs < MaxRequests
        /\ now.succs \in Nat
    BY <1>1, <1>3, <2>1 DEF BreakerInv, Breakers, States
  <2>4. new = IF ok THEN Succeeded(left) ELSE Failed(left)
    BY <1>3 DEF Left
  <2> HIDE DEF left, new
  <2>6. CASE ok
    <3>1. \/ /\ new = NewGeneration("closed")
             /\ left.state = "half-open" /\ left.succs + 1 >= MaxRequests
          \/ /\ new.state = left.state /\ new.calls = left.calls
             /\ left.state # "half-open" => new.succs = left.succs
             /\ left.state = "half-open" =>
                   new.succs = left.succs + 1 /\ new.succs < MaxRequests
      BY <2>2, <2>4, <2>6, SucceededOK
    <3>2. CASE now.state = "closed"
      BY <2>3, <3>1, <3>2 DEF Gate
    <3>3. CASE now.state = "half-open" /\ new = NewGeneration("closed") /\ left.succs + 1 >= MaxRequests
      <4>1. now.succs + 1 = MaxRequests
        BY <2>3, <3>3, BreakerAssumption DEF BreakerAssumption
      <4> QED BY <2>6, <3>3, <4>1
    <3>4. CASE /\ now.state = "half-open" /\ new.state = left.state /\ new.calls = left.calls
               /\ new.succs = left.succs + 1 /\ new.succs < MaxRequests
      <4>1. now.succs + 1 # MaxRequests
        BY <2>3, <3>4, BreakerAssumption DEF BreakerAssumption
      <4>2. Gate(new) = [phase |-> "half-open", wins |-> now.succs + 1,
                         counted |-> now.calls \ {c}]
        BY <2>3, <3>4 DEF Gate
      <4> QED BY <2>6, <3>4, <4>1, <4>2
    <3> QED BY <2>3, <3>1, <3>2, <3>3, <3>4
  <2>7. CASE ~ok
    <3>1. \/ new = NewGeneration("open")
          \/ /\ left.state # "half-open" /\ new.state = left.state
             /\ new.calls = left.calls /\ new.succs = left.succs
      BY <2>2, <2>4, <2>7, FailedOK
    <3> QED BY <2>3, <2>7, <3>1 DEF Gate
  <2> QED BY <2>6, <2>7
<1> QED BY <1>2, <1>3

\* A half-open breaker that refuses everyone has a call of its generation.
LEMMA FullHasCall ==
  ASSUME NEW callers, IsFiniteSet(callers), NEW x \in Breakers(callers), BreakerInv(x),
         x.state = "half-open", x.requests = MaxRequests
  PROVE  x.calls # {}
<1>1. /\ MaxRequests = Cardinality(x.calls) + x.succs /\ x.succs < MaxRequests
      /\ x.succs \in Nat /\ Cardinality(x.calls) \in Nat
  BY CallsFinite DEF BreakerInv, Breakers
<1>2. Cardinality(x.calls) # 0
  BY <1>1
<1> QED BY <1>2, FS_EmptySet
=============================================================================
