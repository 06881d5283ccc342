------------------------ MODULE CircuitBreakerProofs ------------------------
(***************************************************************************)
(* Proofs about CircuitBreaker, for every number of callers and every      *)
(* MaxRequests, FailureThreshold and HasInterval.  The bound on the probes *)
(* and the fact that a full half-open breaker has a probe under way both   *)
(* rest on BreakerInv and the lemmas of BreakerProofs.                     *)
(***************************************************************************)
EXTENDS CircuitBreaker, BreakerProofs

-----------------------------------------------------------------------------
\* BreakerInv needs to know, besides, whose calls the breaker holds.
Invariant == /\ TypeOK
             /\ BreakerInv(b)
             /\ b.calls \subseteq running
             /\ b.state = "half-open" => \A c \in b.calls : began[c] = "half-open"
             /\ stateGauge = GaugeOf(b.state)

\* What every step that changes the breaker through Becomes establishes.
LEMMA GaugeStep ==
  ASSUME Invariant, NEW new \in Breakers(Callers), Becomes(new)
  PROVE  stateGauge' \in 0..2 /\ stateGauge' = GaugeOf(b'.state)
BY DEF Invariant, Becomes, GaugeOf, Breakers, States

LEMMA InvariantHolds == Spec => []Invariant
<1>1. Init => Invariant
  <2> SUFFICES ASSUME Init PROVE Invariant
    OBVIOUS
  <2>1. /\ b \in Breakers(Callers) /\ BreakerInv(b)
        /\ b.state = "closed" /\ b.calls = {}
    BY NewGenerationOK DEF Init, States
  <2> QED BY <2>1 DEF Init, Invariant, TypeOK, GaugeOf, States
<1>2. Invariant /\ [Next]_vars => Invariant'
  <2> SUFFICES ASSUME Invariant, [Next]_vars PROVE Invariant'
    OBVIOUS
  <2>0. /\ IsFiniteSet(Callers)
        /\ b \in Breakers(Callers) /\ BreakerInv(b) /\ Current(b).state \in States
    BY CurrentOK, CallersAssumption DEF Invariant, TypeOK, Breakers, CallersAssumption
  <2>1. ASSUME NEW c \in Callers, Begin(c) PROVE Invariant'
    <3> DEFINE new == Entered(b, c)
    <3>1. c \notin b.calls /\ ~Refuses(b) /\ Becomes(new)
      BY <2>1 DEF Begin, Invariant
    <3>2. /\ new \in Breakers(Callers) /\ BreakerInv(new)
          /\ new.calls = Current(b).calls \cup {c} /\ new.state = Current(b).state
      BY <2>0, <3>1, EnteredOK
    <3>3. b' = new /\ stateGauge' \in 0..2 /\ stateGauge' = GaugeOf(b'.state)
      BY <3>1, <3>2, GaugeStep DEF Becomes
    <3>4. b'.calls \subseteq running'
      BY <2>0, <2>1, <3>2, <3>3, CurrentOK DEF Begin, Invariant
    <3>5. ASSUME b'.state = "half-open", NEW d \in b'.calls PROVE began'[d] = "half-open"
      <4>1. Current(b).state = "half-open"
        BY <3>2, <3>3, <3>5
      <4>2. CASE d = c
        BY <2>1, <4>1, <4>2 DEF Begin, Invariant, TypeOK
      <4>3. CASE d # c
        <5>1. d \in Current(b).calls
          BY <3>2, <3>3, <3>5, <4>3
        <5>2. Current(b) = b
          BY <2>0, <5>1, CurrentOK
        <5> QED BY <2>1, <4>1, <4>3, <5>1, <5>2 DEF Begin, Invariant, TypeOK
      <4> QED BY <4>2, <4>3
    <3>6. /\ running' \subseteq Callers /\ began' \in [Callers -> States]
          /\ backendUp' \in BOOLEAN /\ mayFail' \subseteq running'
      BY <2>0, <2>1 DEF Begin, Invariant, TypeOK
    <3> HIDE DEF new
    <3> QED BY <3>2, <3>3, <3>4, <3>5, <3>6 DEF Invariant, TypeOK
  <2>2. ASSUME NEW c \in Callers, NEW ok \in BOOLEAN, End(c, ok) PROVE Invariant'
    <3> DEFINE new == Left(b, c, ok)
    <3>1. /\ new \in Breakers(Callers) /\ BreakerInv(new)
          /\ new.calls \subseteq b.calls \ {c}
          /\ new.state = "half-open" => new.calls = {} \/ b.state = "half-open"
      BY <2>0, LeftOK
    <3>2. b' = new /\ stateGauge' \in 0..2 /\ stateGauge' = GaugeOf(b'.state)
      BY <2>2, <3>1, GaugeStep DEF End, Becomes
    <3> HIDE DEF new
    <3> QED BY <2>2, <3>1, <3>2 DEF End, Invariant, TypeOK
  <2>3. CASE State \/ \E c \in Callers : Refuse(c)
    <3> DEFINE new == Current(b)
    <3>1. /\ new \in Breakers(Callers) /\ BreakerInv(new)
          /\ new.calls \subseteq b.calls /\ (new.calls = {} \/ new = b)
      BY <2>0, CurrentOK
    <3>2. b' = new /\ stateGauge' \in 0..2 /\ stateGauge' = GaugeOf(b'.state)
      BY <2>3, <3>1, GaugeStep DEF State, Refuse, Becomes
    <3>3. UNCHANGED <<running, began, backendUp, mayFail>>
      BY <2>3 DEF State, Refuse, env
    <3> HIDE DEF new
    <3> QED BY <3>1, <3>2, <3>3 DEF Invariant, TypeOK
  <2>4. CASE Expire
    <3>1. /\ b' \in Breakers(Callers) /\ BreakerInv(b')
          /\ b'.state = b.state /\ b'.calls = b.calls
      BY <2>0, <2>4, ExpiredOK DEF Expire
    <3> QED BY <2>4, <3>1 DEF Expire, env, Invariant, TypeOK
  <2>5. CASE BackendChanges
    BY <2>5 DEF BackendChanges, Invariant, TypeOK, BreakerInv
  <2>6. CASE UNCHANGED vars
    BY <2>6 DEF vars, Invariant, TypeOK, BreakerInv
  <2> QED BY <2>1, <2>2, <2>3, <2>4, <2>5, <2>6 DEF Next
<1> QED BY <1>1, <1>2, PTL DEF Spec

\* The values of the variables have their types, and the counter of probes
\* stays within MaxRequests.
THEOREM CircuitBreakerTypeCorrect == Spec => []TypeOK
BY InvariantHolds, PTL DEF Invariant

\* The half-open state never runs more than MaxRequests probes at once.
THEOREM ProbesAreBounded == Spec => []ProbesBounded
<1>1. Invariant => ProbesBounded
  <2> SUFFICES ASSUME Invariant, b.state = "half-open"
               PROVE  Cardinality(b.calls) <= MaxRequests
    BY DEF ProbesBounded
  <2>1. /\ b.requests = Cardinality(b.calls) + b.succs
        /\ b.requests \in 0..MaxRequests /\ b.succs \in Nat
        /\ Cardinality(b.calls) \in Nat
    BY CallsFinite, CallersAssumption
    DEF Invariant, TypeOK, BreakerInv, Breakers, CallersAssumption
  <2> QED BY <2>1, BreakerAssumption DEF BreakerAssumption
<1> QED BY <1>1, InvariantHolds, PTL

\* A half-open breaker that refuses everyone has a probe running.
THEOREM HalfOpenAlwaysDecides == Spec => []HalfOpenDecides
<1>1. Invariant => HalfOpenDecides
  <2> SUFFICES ASSUME Invariant, b.state = "half-open", b.requests = MaxRequests
               PROVE  b.calls \cap running # {}
    BY DEF HalfOpenDecides
  <2>1. b.calls # {}
    BY FullHasCall, CallersAssumption DEF Invariant, TypeOK, CallersAssumption
  <2> QED BY <2>1 DEF Invariant
<1> QED BY <1>1, InvariantHolds, PTL

\* The gauge always shows the state.
THEOREM GaugeShowsState == Spec => []GaugeFollowsState
<1>1. Invariant => GaugeFollowsState
  BY DEF Invariant, GaugeFollowsState
<1> QED BY <1>1, InvariantHolds, PTL

\* Only an operation that began in the half-open state ends that state.
THEOREM ProbesDecide == Spec => OnlyProbesDecide
<1> DEFINE Decides == b.state = "half-open" /\ b'.state # "half-open"
                        => \E c \in running \ running' : began[c] = "half-open"
<1>1. Invariant /\ [Next]_vars => Decides
  <2> SUFFICES ASSUME Invariant, [Next]_vars, b.state = "half-open", b'.state # "half-open"
               PROVE  \E c \in running \ running' : began[c] = "half-open"
    OBVIOUS
  <2>0. IsFiniteSet(Callers) /\ b \in Breakers(Callers) /\ BreakerInv(b)
    BY CallersAssumption DEF Invariant, TypeOK, CallersAssumption
  <2>1. Current(b) = b
    BY <2>0 DEF Current
  <2>2. ASSUME NEW c \in Callers, NEW ok \in BOOLEAN, End(c, ok)
        PROVE  \E d \in running \ running' : began[d] = "half-open"
    <3>1. c \in b.calls
      BY <2>0, <2>2, LeftOK DEF End, Becomes
    <3> QED BY <2>2, <3>1 DEF End, Invariant
  <2>3. ASSUME NEW c \in Callers, Begin(c) PROVE FALSE
    <3>1. c \notin b.calls /\ ~Refuses(b)
      BY <2>3 DEF Begin, Invariant
    <3>2. Entered(b, c).state = b.state
      BY <2>0, <2>1, <3>1, EnteredOK
    <3> QED BY <2>3, <3>2 DEF Begin, Becomes
  <2>4. CASE State \/ \E c \in Callers : Refuse(c)
    BY <2>1, <2>4 DEF State, Refuse, Becomes
  <2>5. CASE Expire \/ BackendChanges \/ UNCHANGED vars
    BY <2>5 DEF Expire, MayExpire, BackendChanges, vars
  <2> QED BY <2>2, <2>3, <2>4, <2>5 DEF Next
<1> QED BY <1>1, InvariantHolds, PTL DEF Spec, OnlyProbesDecide

-----------------------------------------------------------------------------
(***************************************************************************)
(* The contract.  What expires unnoticed shows when the breaker is used    *)
(* next, so each operation is one step of the contract, or none.           *)
(***************************************************************************)

\* Every operation finds what the contract says it may find.
LEMMA CurrentIsFound ==
  ASSUME Invariant
  PROVE  /\ Gate(Current(b)) \in Contract!Found
         /\ \A state \in States : Gate(NewGeneration(state)) = Contract!Fresh(state)
<1>1. \A state \in States : Gate(NewGeneration(state)) = Contract!Fresh(state)
  BY DEF Gate, NewGeneration, Contract!Fresh
<1>2. \/ Current(b) = b
      \/ b.state = "open" /\ Current(b) = NewGeneration("half-open")
      \/ b.state = "closed" /\ HasInterval /\ Current(b) = NewGeneration("closed")
  BY CurrentOK, CallersAssumption DEF Invariant, TypeOK, CallersAssumption
<1>3. Gate(b).phase = b.state
  BY DEF Gate
<1>4. \/ Gate(Current(b)) = Gate(b)
      \/ \E to \in {"half-open", "closed"} :
            Contract!Lapses(to) /\ Gate(Current(b)) = Contract!Fresh(to)
  BY <1>1, <1>2, <1>3 DEF Contract!Lapses, States
<1> QED BY <1>1, <1>4 DEF Contract!Found

\* Each operation of the breaker is a step of the contract.
LEMMA ContractStep ==
  ASSUME Invariant, [Next]_vars
  PROVE  [Contract!Next]_(Contract!vars)
<1> DEFINE now == Current(b)
<1>1. /\ IsFiniteSet(Callers) /\ b \in Breakers(Callers) /\ BreakerInv(b)
      /\ Gate(now) \in Contract!Found
      /\ \A state \in States : Gate(NewGeneration(state)) = Contract!Fresh(state)
      /\ Gate(now) = [phase |-> now.state, counted |-> now.calls, wins |-> now.succs]
  BY CurrentIsFound, CallersAssumption DEF Invariant, TypeOK, CallersAssumption, Gate
<1>2. ASSUME NEW c \in Callers, Begin(c) PROVE Contract!Begin(c)
  <2>1. c \notin running /\ c \notin b.calls /\ ~Refuses(b)
    BY <1>2 DEF Begin, Invariant
  <2>2. b' = Entered(b, c) /\ running' = running \cup {c}
    BY <1>2 DEF Begin, Becomes
  <2>3. /\ Gate(Entered(b, c)) = [Gate(now) EXCEPT !.counted = @ \cup {c}]
        /\ \/ now.state = "closed"
           \/ /\ now.state = "half-open"
              /\ Cardinality(now.calls) + now.succs < MaxRequests
    BY <1>1, <2>1, EnteredOK
  <2> HIDE DEF now
  <2>4. \A S : Contract!Cardinality(S) = Cardinality(S)
    BY DEF Contract!Cardinality, Cardinality
  <2>5. Contract!Admits(Gate(now))
    BY <1>1, <2>3, <2>4 DEF Contract!Admits
  <2>6. Gate(b)' = [Gate(now) EXCEPT !.counted = @ \cup {c}]
    BY <2>2, <2>3 DEF Gate
  <2> QED BY <1>1, <2>1, <2>2, <2>5, <2>6 DEF Contract!Begin
<1>3. ASSUME NEW c \in Callers, NEW ok \in BOOLEAN, End(c, ok) PROVE Contract!End(c, ok)
  <2> DEFINE rest == [Gate(now) EXCEPT !.counted = @ \ {c}]
  <2>1. c \in running /\ running' = running \ {c} /\ b' = Left(b, c, ok)
    BY <1>3 DEF End, Becomes
  <2>2. /\ c \notin now.calls => Left(b, c, ok) = now
        /\ c \in now.calls =>
             \/ ~ok /\ Left(b, c, ok) = NewGeneration("open")
             \/ /\ now.state = "closed"
                /\ Gate(Left(b, c, ok)) = [phase |-> "closed", counted |-> now.calls \ {c},
                                           wins |-> now.succs]
             \/ /\ now.state = "half-open" /\ ok
                /\ IF now.succs + 1 = MaxRequests
                   THEN Left(b, c, ok) = NewGeneration("closed")
                   ELSE Gate(Left(b, c, ok)) = [phase |-> "half-open", wins |-> now.succs + 1,
                                                counted |-> now.calls \ {c}]
    BY <1>1, LeftGate
  <2>3. Gate(b)' = Gate(Left(b, c, ok))
    BY <2>1 DEF Gate
  <2> HIDE DEF now
  <2>4. rest = [phase |-> now.state, counted |-> now.calls \ {c}, wins |-> now.succs]
    BY <1>1
  <2>5. CASE c \notin now.calls
    BY <1>1, <2>1, <2>2, <2>3, <2>5 DEF Contract!End
  <2>6. CASE c \in now.calls
    <3>1. Contract!Decide(rest, ok)
      <4> HIDE DEF rest
      <4> QED BY <1>1, <2>2, <2>3, <2>4, <2>6 DEF Contract!Decide, States
    <3>2. c \in Gate(now).counted
      BY <1>1, <2>6
    <3> QED BY <1>1, <2>1, <3>1, <3>2 DEF Contract!End
  <2> QED BY <2>5, <2>6
<1>4. CASE State \/ \E c \in Callers : Refuse(c)
  <2>1. b' = now /\ UNCHANGED running
    BY <1>4 DEF State, Refuse, Becomes
  <2>2. Gate(b)' = Gate(now)
    BY <2>1 DEF Gate
  <2> QED BY <1>1, <2>1, <2>2 DEF Contract!Look, Contract!Next
<1>5. CASE Expire \/ BackendChanges \/ UNCHANGED vars
  <2>1. Gate(b)' = Gate(b) /\ UNCHANGED running
    <3>1. CASE Expire
      BY <1>1, <3>1, ExpiredOK DEF Expire, Gate
    <3>2. CASE BackendChanges \/ UNCHANGED vars
      BY <3>2 DEF BackendChanges, vars
    <3> QED BY <1>5, <3>1, <3>2
  <2> QED BY <2>1 DEF Contract!vars
<1> QED BY <1>2, <1>3, <1>4, <1>5 DEF Next, Contract!Next

\* For any number of callers, in any interleaving with the passing of time, a
\* breaker counts the results of its generation, admits MaxRequests probes, and
\* opens and closes for the reasons that BreakerContract gives.
THEOREM ContractKept == Spec => KeepsContract
<1>1. Init => Contract!Init
  BY DEF Init, Contract!Init, Contract!Fresh, NewGeneration, Gate
<1>2. Invariant /\ [Next]_vars => [Contract!Next]_(Contract!vars)
  BY ContractStep
<1> QED BY <1>1, <1>2, InvariantHolds, PTL DEF Spec, KeepsContract, Contract!Spec

-----------------------------------------------------------------------------
(***************************************************************************)
(* What the contract alone ensures, for whoever keeps it: this module uses *)
(* nothing of the breaker below but its gate.                              *)
(***************************************************************************)
Gates == [phase : States, counted : SUBSET running, wins : Nat]

\* Of the probes and successes of a half-open gate there are never more than
\* decide, and if it admits nobody, somebody's result still counts.
Bounded(g) == g.phase = "half-open" =>
                 /\ Cardinality(g.counted) + g.wins <= MaxRequests
                 /\ Cardinality(g.counted) + g.wins = MaxRequests => g.counted # {}

GateInv == /\ running \subseteq Callers
           /\ Gate(b) \in Gates
           /\ Gate(b).phase = "half-open" =>
                 /\ Gate(b).wins < MaxRequests
                 /\ Cardinality(Gate(b).counted) + Gate(b).wins <= MaxRequests

\* What a call finds is no worse than what the call before left.
LEMMA FoundBounded ==
  ASSUME GateInv, NEW g \in Contract!Found
  PROVE  /\ g \in Gates
         /\ g.phase = "half-open" => /\ g.wins < MaxRequests
                                     /\ Cardinality(g.counted) + g.wins <= MaxRequests
<1>1. CASE g = Gate(b)
  BY <1>1 DEF GateInv
<1>2. CASE \E to \in {"half-open", "closed"} : g = Contract!Fresh(to)
  <2>1. g = [phase |-> g.phase, counted |-> {}, wins |-> 0] /\ g.phase \in States
    BY <1>2 DEF Contract!Fresh, States
  <2>2. Cardinality({}) = 0
    BY FS_EmptySet
  <2> QED BY <2>1, <2>2, BreakerAssumption DEF Gates, BreakerAssumption
<1> QED BY <1>1, <1>2 DEF Contract!Found

\* The contract bounds the probes and lets every half-open breaker decide.
THEOREM ContractBoundsProbes == KeepsContract => []Bounded(Gate(b))
<1>1. Contract!Init => GateInv
  BY DEF Contract!Init, Contract!Fresh, GateInv, Gates, States
<1>2. GateInv /\ [Contract!Next]_(Contract!vars) => GateInv'
  <2> SUFFICES ASSUME GateInv, [Contract!Next]_(Contract!vars) PROVE GateInv'
    OBVIOUS
  <2> DEFINE gate == Gate(b)
             Within(g) == g.phase = "half-open" =>
                             /\ g.wins < MaxRequests
                             /\ Cardinality(g.counted) + g.wins <= MaxRequests
  <2>1. ASSUME running' \subseteq Callers, Within(gate'),
               gate' \in [phase : States, counted : SUBSET running', wins : Nat]
        PROVE  GateInv'
    BY <2>1 DEF GateInv, Gates
  <2>2. \A g \in Contract!Found : g \in Gates /\ Within(g)
    BY FoundBounded
  <2>3. \A S : Contract!Cardinality(S) = Cardinality(S)
    BY DEF Contract!Cardinality, Cardinality
  <2>4. ASSUME NEW S \in SUBSET running
        PROVE  IsFiniteSet(S) /\ Cardinality(S) \in Nat
    BY <2>4, CallersAssumption, FS_Subset, FS_CardinalityType
    DEF GateInv, CallersAssumption
  <2>5. \A state \in States : Within(Contract!Fresh(state))
    BY FS_EmptySet, BreakerAssumption DEF Contract!Fresh, BreakerAssumption
  <2>6. ASSUME NEW c \in Callers, Contract!Begin(c) PROVE GateInv'
    <3>1. PICK g \in Contract!Found : /\ Contract!Admits(g)
                                      /\ gate' = [g EXCEPT !.counted = @ \cup {c}]
      BY <2>6 DEF Contract!Begin
    <3>2. c \notin running /\ running' = running \cup {c}
      BY <2>6 DEF Contract!Begin
    <3>3. g \in Gates /\ Within(g)
      BY <2>2
    <3>4. Cardinality(g.counted \cup {c}) = Cardinality(g.counted) + 1
      BY <2>4, <3>2, <3>3, FS_AddElement DEF Gates
    <3>5. /\ gate'.phase = g.phase /\ gate'.wins = g.wins
          /\ gate'.counted = g.counted \cup {c}
          /\ gate' \in [phase : States, counted : SUBSET running', wins : Nat]
      <4> HIDE DEF gate
      <4> QED BY <3>1, <3>2, <3>3 DEF Gates
    <3>6. Within(gate')
      <4>1. g.wins \in Nat /\ Cardinality(g.counted) \in Nat
        BY <2>4, <3>3 DEF Gates
      <4>2. g.phase = "half-open" => Cardinality(g.counted) + g.wins < MaxRequests
        BY <2>3, <3>1 DEF Contract!Admits
      <4> HIDE DEF gate
      <4> QED BY <3>3, <3>4, <3>5, <4>1, <4>2, BreakerAssumption DEF BreakerAssumption
    <3>7. running' \subseteq Callers
      BY <3>2 DEF GateInv
    <3> QED BY <2>1, <3>5, <3>6, <3>7
  <2>7. ASSUME NEW c \in Callers, NEW ok \in BOOLEAN, Contract!End(c, ok) PROVE GateInv'
    <3>1. PICK g \in Contract!Found :
             \/ c \notin g.counted /\ gate' = g
             \/ c \in g.counted /\ Contract!Decide([g EXCEPT !.counted = @ \ {c}], ok)
      BY <2>7 DEF Contract!End
    <3>2. running' = running \ {c} /\ running' \subseteq Callers
      BY <2>7 DEF Contract!End, GateInv
    <3>3. g \in Gates /\ Within(g)
      BY <2>2
    <3> DEFINE Left1 == [g EXCEPT !.counted = @ \ {c}]
    <3>4. CASE c \notin g.counted /\ gate' = g
      <4>1. g \in [phase : States, counted : SUBSET running', wins : Nat]
        BY <3>2, <3>3, <3>4 DEF Gates
      <4> QED BY <2>1, <3>2, <3>3, <3>4, <4>1
    <3>5. CASE c \in g.counted /\ Contract!Decide(Left1, ok)
      <4>1. /\ Left1 \in [phase : States, counted : SUBSET running', wins : Nat]
            /\ Left1.phase = g.phase /\ Left1.wins = g.wins
            /\ Left1.counted = g.counted \ {c}
        BY <3>2, <3>3 DEF Gates
      <4>2. /\ Cardinality(Left1.counted) + 1 = Cardinality(g.counted)
            /\ Cardinality(Left1.counted) \in Nat /\ Cardinality(g.counted) \in Nat
        <5>1. IsFiniteSet(g.counted) /\ g.counted \subseteq running
          BY <2>4, <3>3 DEF Gates
        <5>2. Cardinality(g.counted \ {c}) = Cardinality(g.counted) - 1
          BY <3>5, <5>1, FS_RemoveElement
        <5>3. Cardinality(g.counted \ {c}) \in Nat /\ Cardinality(g.counted) \in Nat
          BY <2>4, <5>1
        <5> QED BY <4>1, <5>2, <5>3
      <4>3. CASE \E state \in States : gate' = Contract!Fresh(state)
        <5>1. gate' \in [phase : States, counted : SUBSET running', wins : Nat]
          BY <4>3 DEF Contract!Fresh
        <5> QED BY <2>1, <2>5, <3>2, <4>3, <5>1
      <4>4. CASE Left1.phase = "closed" /\ gate' = Left1
        BY <2>1, <3>2, <4>1, <4>4
      <4>5. CASE /\ Left1.phase = "half-open" /\ Left1.wins + 1 # MaxRequests
                 /\ gate' = [Left1 EXCEPT !.wins = @ + 1]
        <5> HIDE DEF Left1, gate
        <5>1. /\ gate' \in [phase : States, counted : SUBSET running', wins : Nat]
              /\ gate'.phase = "half-open" /\ gate'.wins = Left1.wins + 1
              /\ gate'.counted = Left1.counted
          BY <4>1, <4>5
        <5>2. gate'.wins < MaxRequests
                /\ Cardinality(gate'.counted) + gate'.wins <= MaxRequests
          <6>1. g.wins \in Nat /\ g.phase = "half-open"
            BY <3>3, <4>1, <4>5 DEF Gates
          <6> QED BY <3>3, <4>1, <4>2, <4>5, <5>1, <6>1, BreakerAssumption DEF BreakerAssumption
        <5> QED BY <2>1, <3>2, <5>1, <5>2
      <4> QED BY <3>5, <4>3, <4>4, <4>5 DEF Contract!Decide, States
    <3> QED BY <3>1, <3>4, <3>5
  <2>8. CASE Contract!Look
    <3>1. gate' \in Contract!Found /\ running' = running
      BY <2>8 DEF Contract!Look
    <3>2. gate' \in Gates /\ Within(gate')
      BY <2>2, <3>1
    <3>3. running' \subseteq Callers /\ gate' \in [phase : States, counted : SUBSET running', wins : Nat]
      BY <3>1, <3>2 DEF GateInv, Gates
    <3> QED BY <2>1, <3>2, <3>3
  <2>9. CASE UNCHANGED Contract!vars
    BY <2>9 DEF Contract!vars, GateInv, Gates
  <2> QED BY <2>6, <2>7, <2>8, <2>9 DEF Contract!Next
<1>3. GateInv => Bounded(Gate(b))
  <2> SUFFICES ASSUME GateInv, Gate(b).phase = "half-open", Gate(b).counted = {}
               PROVE  Cardinality(Gate(b).counted) + Gate(b).wins # MaxRequests
    BY DEF GateInv, Bounded
  <2>1. Cardinality(Gate(b).counted) = 0
    BY FS_EmptySet
  <2> QED BY <2>1, BreakerAssumption DEF GateInv, Gates, BreakerAssumption
<1> QED BY <1>1, <1>2, <1>3, PTL DEF KeepsContract, Contract!Spec
=============================================================================
