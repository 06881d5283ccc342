------------------------- MODULE RequestQueueProofs -------------------------
(***************************************************************************)
(* Proofs about RequestQueue, for every finite set of requests, every set  *)
(* of shutdown callers and every set of sizes.  The inductive invariant is *)
(* TypeOK /\ Accounting: RemoveFindsElement is not inductive alone, for it *)
(* says nothing of how many requests stand behind the length.              *)
(***************************************************************************)
EXTENDS RequestQueue, FiniteSetTheorems, TLAPS

\* The values of the variables have the code's types in every state.
THEOREM TypeCorrect == Spec => []TypeOK
<1>1. Init => TypeOK
  <2> SUFFICES ASSUME Init PROVE TypeOK
    OBVIOUS
  <2>1. queue \in Seq(Requests)
    BY DEF Init
  <2>2. /\ maxSize \in Sizes \cup {InitialSize} /\ processing \in Int /\ queuedGauge \in Int
    BY DEF Init
  <2>3. done \in BOOLEAN
    BY DEF Init
  <2>4. pc \in [Requests -> RequestStates]
    BY DEF Init, RequestStates
  <2>5. /\ closer \in [Closers -> CloserStates]
        /\ expired \in [Closers -> BOOLEAN]
        /\ outcome \in [Closers -> Outcomes]
    BY DEF Init, CloserStates, Outcomes
  <2> QED BY <2>1, <2>2, <2>3, <2>4, <2>5 DEF TypeOK
<1>2. TypeOK /\ [Next]_vars => TypeOK'
  <2> SUFFICES ASSUME TypeOK, [Next]_vars PROVE TypeOK'
    OBVIOUS
  <2> USE DEF TypeOK, RequestStates, CloserStates, Outcomes
  <2>1. CASE UNCHANGED vars
    BY <2>1 DEF vars
  <2>2. ASSUME NEW r \in Requests, Handler(r) PROVE TypeOK'
    <3> USE DEF Move, shutdownVars
    <3>1. CASE Admit(r)
      BY <3>1 DEF Admit
    <3>2. CASE Refuse(r)
      BY <3>2 DEF Refuse
    <3>3. CASE Start(r)
      BY <3>3 DEF Start
    <3>4. CASE \E panics \in BOOLEAN : Unwind(r, panics)
      BY <3>4 DEF Unwind
    <3>5. CASE Stop(r)
      BY <3>5 DEF Stop
    <3>6. CASE Remove(r)
      BY <3>6 DEF Remove
    <3> QED BY <2>2, <3>1, <3>2, <3>3, <3>4, <3>5, <3>6 DEF Handler
  <2>3. ASSUME NEW size \in Sizes, SetMaxSize(size) PROVE TypeOK'
    BY <2>3 DEF SetMaxSize, handlerVars, shutdownVars
  <2>4. ASSUME NEW c \in Closers, Shutdown(c) PROVE TypeOK'
    <3> USE DEF handlerVars, CloserMove, End
    <3>1. CASE SelectDone(c)
      BY <3>1 DEF SelectDone
    <3>2. CASE CloseDone(c)
      BY <3>2 DEF CloseDone
    <3>3. CASE TestDeadline(c)
      BY <3>3 DEF TestDeadline
    <3>4. CASE Poll(c)
      BY <3>4 DEF Poll
    <3>5. CASE Wait(c)
      BY <3>5 DEF Wait
    <3>6. CASE Expire(c)
      BY <3>6 DEF Expire
    <3> QED BY <2>4, <3>1, <3>2, <3>3, <3>4, <3>5, <3>6 DEF Shutdown, ShutdownStep
  <2> QED BY <2>1, <2>2, <2>3, <2>4 DEF Next
<1> QED BY <1>1, <1>2, PTL DEF Spec

-----------------------------------------------------------------------------
\* The two sets that Accounting counts are finite.
LEMMA FiniteSides == /\ IsFiniteSet(Inside) /\ Cardinality(Inside) \in Nat
                     /\ IsFiniteSet(Processing) /\ Cardinality(Processing) \in Nat
<1>1. IsFiniteSet(Inside)
  BY RequestsAssumption, FS_Subset DEF RequestsAssumption, Inside
<1>2. IsFiniteSet(Processing)
  BY RequestsAssumption, FS_Subset DEF RequestsAssumption, Processing
<1> QED BY <1>1, <1>2, FS_CardinalityType

\* A step that moves no request between the states leaves both sets alone.
LEMMA SidesUnchanged == pc' = pc => Inside' = Inside /\ Processing' = Processing
BY DEF Inside, Processing

\* What a step of Handler does to the two sets.
LEMMA SidesMove ==
  ASSUME TypeOK, NEW r \in Requests
  PROVE  /\ Move(r, "new", "admitted") =>
                r \notin Inside /\ Inside' = Inside \cup {r} /\ Processing' = Processing
         /\ Move(r, "new", "refused") =>
                Inside' = Inside /\ Processing' = Processing
         /\ Move(r, "admitted", "serving") =>
                Inside' = Inside /\ r \notin Processing /\ Processing' = Processing \cup {r}
         /\ Move(r, "serving", "leaving") =>
                Inside' = Inside /\ Processing' = Processing
         /\ Move(r, "leaving", "stopped") =>
                Inside' = Inside /\ r \in Processing /\ Processing' = Processing \ {r}
         /\ Move(r, "stopped", "gone") =>
                r \in Inside /\ Inside' = Inside \ {r} /\ Processing' = Processing
<1> USE DEF TypeOK, Move, Inside, Processing
<1>1. Move(r, "new", "admitted") =>
         r \notin Inside /\ Inside' = Inside \cup {r} /\ Processing' = Processing
  OBVIOUS
<1>2. Move(r, "new", "refused") => Inside' = Inside /\ Processing' = Processing
  OBVIOUS
<1>3. Move(r, "admitted", "serving") =>
         Inside' = Inside /\ r \notin Processing /\ Processing' = Processing \cup {r}
  OBVIOUS
<1>4. Move(r, "serving", "leaving") => Inside' = Inside /\ Processing' = Processing
  OBVIOUS
<1>5. Move(r, "leaving", "stopped") =>
         Inside' = Inside /\ r \in Processing /\ Processing' = Processing \ {r}
  OBVIOUS
<1>6. Move(r, "stopped", "gone") =>
         r \in Inside /\ Inside' = Inside \ {r} /\ Processing' = Processing
  OBVIOUS
<1> QED BY <1>1, <1>2, <1>3, <1>4, <1>5, <1>6

\* The steps of Shutdown and of SetMaxSize leave the handlers' state alone.
LEMMA HandlersUntouched ==
  ASSUME \/ \E size \in Sizes : SetMaxSize(size)
         \/ \E c \in Closers : Shutdown(c)
         \/ UNCHANGED vars
  PROVE  UNCHANGED handlerVars
BY DEF SetMaxSize, Shutdown, ShutdownStep, SelectDone, CloseDone, TestDeadline,
       Poll, Wait, Expire, handlerVars, vars

\* The length of the queue and the counter always count exactly the requests
\* between Add and Remove and those being served.
THEOREM AccountingCorrect == Spec => []Accounting
<1>1. Init => Accounting
  <2> SUFFICES ASSUME Init PROVE Accounting
    OBVIOUS
  <2>1. Inside = {} /\ Processing = {}
    BY DEF Init, Inside, Processing
  <2> QED BY <2>1, FS_EmptySet DEF Init, Accounting
<1>2. TypeOK /\ Accounting /\ [Next]_vars => Accounting'
  <2> SUFFICES ASSUME TypeOK, Accounting, [Next]_vars PROVE Accounting'
    OBVIOUS
  <2>1. CASE UNCHANGED handlerVars
    BY <2>1, SidesUnchanged DEF handlerVars, Accounting
  <2>2. ASSUME NEW r \in Requests, Handler(r) PROVE Accounting'
    <3> USE SidesMove, FiniteSides DEF Accounting
    <3>1. CASE Admit(r)
      <4>1. Cardinality(Inside') = Cardinality(Inside) + 1 /\ Processing' = Processing
        BY <3>1, FS_AddElement DEF Admit
      <4>2. Len(queue') = Len(queue) + 1
        BY <3>1 DEF Admit, TypeOK
      <4> QED BY <3>1, <4>1, <4>2 DEF Admit
    <3>2. CASE Refuse(r)
      BY <3>2 DEF Refuse
    <3>3. CASE Start(r)
      <4>1. Cardinality(Processing') = Cardinality(Processing) + 1 /\ Inside' = Inside
        BY <3>3, FS_AddElement DEF Start
      <4> QED BY <3>3, <4>1 DEF Start
    <3>4. CASE \E panics \in BOOLEAN : Unwind(r, panics)
      BY <3>4 DEF Unwind
    <3>5. CASE Stop(r)
      <4>1. Cardinality(Processing') = Cardinality(Processing) - 1 /\ Inside' = Inside
        BY <3>5, FS_RemoveElement DEF Stop
      <4> QED BY <3>5, <4>1 DEF Stop
    <3>6. CASE Remove(r)
      <4>1. Cardinality(Inside') = Cardinality(Inside) - 1 /\ Processing' = Processing
        BY <3>6, FS_RemoveElement DEF Remove
      <4>2. Len(queue') = Len(queue) - 1
        BY <3>6 DEF Remove, TypeOK
      <4> QED BY <3>6, <4>1, <4>2 DEF Remove
    <3> QED BY <2>2, <3>1, <3>2, <3>3, <3>4, <3>5, <3>6 DEF Handler
  <2> QED BY <2>1, <2>2, HandlersUntouched DEF Next
<1> QED BY <1>1, <1>2, TypeCorrect, PTL DEF Spec

\* queue.Remove() in the deferred function never meets an empty queue.
THEOREM RemoveIsSafe == Spec => []RemoveFindsElement
<1>1. TypeOK /\ Accounting => RemoveFindsElement
  <2> SUFFICES ASSUME TypeOK, Accounting, NEW r \in Requests, pc[r] = "stopped"
               PROVE  queue # <<>>
    BY DEF RemoveFindsElement
  <2>1. Cardinality(Inside) # 0
    BY FiniteSides, FS_EmptySet DEF Inside
  <2> QED BY <2>1 DEF Accounting
<1> QED BY <1>1, TypeCorrect, AccountingCorrect, PTL

\* The gauge "queued" is at most one request behind, and exact when empty.
THEOREM GaugeNearlyExact == Spec => []GaugeLag
<1>1. Init => GaugeLag
  BY DEF Init, GaugeLag
<1>2. TypeOK /\ GaugeLag /\ [Next]_vars => GaugeLag'
  <2> SUFFICES ASSUME TypeOK, GaugeLag, [Next]_vars PROVE GaugeLag'
    OBVIOUS
  <2>1. CASE UNCHANGED handlerVars
    BY <2>1 DEF handlerVars, GaugeLag
  <2>2. ASSUME NEW r \in Requests, Handler(r) PROVE GaugeLag'
    <3> USE DEF TypeOK, GaugeLag
    <3>1. CASE Admit(r)
      BY <3>1 DEF Admit
    <3>2. CASE Refuse(r)
      BY <3>2 DEF Refuse
    <3>3. CASE Remove(r)
      <4>1. /\ Len(queue') = Len(queue) - 1 /\ queue' \in Seq(Requests)
            /\ queuedGauge' = Len(queue) - 1
        BY <3>3 DEF Remove
      <4>2. queue' = <<>> => Len(queue') = 0
        OBVIOUS
      <4> QED BY <4>1, <4>2
    <3>4. CASE \/ Start(r) \/ Stop(r) \/ \E panics \in BOOLEAN : Unwind(r, panics)
      BY <3>4 DEF Start, Stop, Unwind
    <3> QED BY <2>2, <3>1, <3>2, <3>3, <3>4 DEF Handler
  <2> QED BY <2>1, <2>2, HandlersUntouched DEF Next
<1> QED BY <1>1, <1>2, TypeCorrect, PTL DEF Spec

\* A drained shutdown ends in a state in which nobody is inside.
THEOREM DrainedShutdownIsIdle == Spec => DrainedMeansIdle
<1> DEFINE EndsDrained == \A c \in Closers :
              outcome[c] # "drained" /\ outcome'[c] = "drained" => Inside = {}
<1>1. TypeOK /\ Accounting /\ [Next]_vars => EndsDrained
  <2> SUFFICES ASSUME TypeOK, Accounting, [Next]_vars, NEW c \in Closers,
                      outcome[c] # "drained", outcome'[c] = "drained"
               PROVE  Inside = {}
    OBVIOUS
  <2>1. PICK d \in Closers : Shutdown(d)
    BY DEF Next, Handler, Admit, Refuse, Start, Unwind, Stop, Remove, SetMaxSize,
           shutdownVars, vars
  <2>2. Drained
    BY <2>1 DEF Shutdown, ShutdownStep, SelectDone, CloseDone, TestDeadline, Poll,
                Wait, Expire, End, CloserMove, TypeOK, Outcomes
  <2> QED BY <2>2, FiniteSides, FS_EmptySet DEF Drained, Accounting
<1> QED BY <1>1, TypeCorrect, AccountingCorrect, PTL DEF Spec, DrainedMeansIdle

\* A step that lets a request in leaves at most maxSize requests inside.
THEOREM AdmissionIsBounded == Spec => AdmissionBounded
<1>1. TypeOK /\ Accounting /\ [Next]_vars =>
        (Inside' \subseteq Inside \/ Cardinality(Inside') <= maxSize)
  <2> SUFFICES ASSUME TypeOK, Accounting, [Next]_vars
               PROVE  Inside' \subseteq Inside \/ Cardinality(Inside') <= maxSize
    OBVIOUS
  <2>1. CASE UNCHANGED handlerVars
    BY <2>1, SidesUnchanged DEF handlerVars
  <2>2. ASSUME NEW r \in Requests, Handler(r)
        PROVE  Inside' \subseteq Inside \/ Cardinality(Inside') <= maxSize
    <3>1. CASE Admit(r)
      <4>1. Cardinality(Inside') = Cardinality(Inside) + 1
        BY <3>1, SidesMove, FiniteSides, FS_AddElement DEF Admit
      <4>2. Len(queue) \in Nat /\ maxSize \in Int
        BY SizesAssumption DEF TypeOK, SizesAssumption
      <4> QED BY <3>1, <4>1, <4>2, FiniteSides DEF Admit, Accounting
    <3>2. CASE \/ Refuse(r) \/ Start(r) \/ Stop(r) \/ Remove(r)
               \/ \E panics \in BOOLEAN : Unwind(r, panics)
      BY <3>2, SidesMove DEF Refuse, Start, Unwind, Stop, Remove
    <3> QED BY <2>2, <3>1, <3>2 DEF Handler
  <2> QED BY <2>1, <2>2, HandlersUntouched DEF Next
<1> QED BY <1>1, TypeCorrect, AccountingCorrect, PTL DEF Spec, AdmissionBounded

-----------------------------------------------------------------------------
\* The instance counts with the same Cardinality.
LEMMA SameCardinality == \A S : Abstract!Cardinality(S) = Cardinality(S)
BY DEF Cardinality, Abstract!Cardinality

\* The queue implements BoundedAdmission: a request is let in exactly when
\* fewer than maxSize are inside, though the code counts the elements of a
\* queue from which a leaving request may take another request's element.
THEOREM Refinement == Spec => Implements
<1>1. Init => Abstract!Init
  BY DEF Init, Abstract!Init, Inside
<1>2. TypeOK /\ Accounting /\ [Next]_vars => [Abstract!Next]_Abstract!vars
  <2> SUFFICES ASSUME TypeOK, Accounting, [Next]_vars
               PROVE  [Abstract!Next]_Abstract!vars
    OBVIOUS
  <2> DEFINE refused == {r \in Requests : pc[r] = "refused"}
             gone == {r \in Requests : pc[r] = "gone"}
  <2>1. CASE UNCHANGED <<pc, maxSize>>
    BY <2>1 DEF Inside, Abstract!vars
  <2>2. ASSUME NEW r \in Requests, Handler(r)
        PROVE  [Abstract!Next]_Abstract!vars
    <3>1. CASE Admit(r)
      <4>1. Inside' = Inside \cup {r}
        BY <3>1, SidesMove DEF Admit
      <4>2. refused' = refused /\ gone' = gone /\ Abstract!Fresh(r)
        BY <3>1 DEF Admit, Move, TypeOK, Inside, Abstract!Fresh
      <4>3. Cardinality(Inside) < maxSize /\ maxSize' = maxSize
        BY <3>1 DEF Admit, Accounting
      <4> QED BY <4>1, <4>2, <4>3, SameCardinality DEF Abstract!Next, Abstract!Admit
    <3>2. CASE Refuse(r)
      <4>1. Inside' = Inside
        BY <3>2, SidesMove DEF Refuse
      <4>2. refused' = refused \cup {r} /\ gone' = gone /\ Abstract!Fresh(r)
        BY <3>2 DEF Refuse, Move, TypeOK, Inside, Abstract!Fresh
      <4>3. Cardinality(Inside) >= maxSize /\ maxSize' = maxSize
        BY <3>2 DEF Refuse, Accounting
      <4> QED BY <4>1, <4>2, <4>3, SameCardinality DEF Abstract!Next, Abstract!Refuse
    <3>3. CASE Remove(r)
      <4>1. r \in Inside /\ Inside' = Inside \ {r}
        BY <3>3, SidesMove DEF Remove
      <4>2. refused' = refused /\ gone' = gone \cup {r} /\ maxSize' = maxSize
        BY <3>3 DEF Remove, Move, TypeOK
      <4> QED BY <4>1, <4>2 DEF Abstract!Next, Abstract!Leave
    <3>4. CASE \/ Start(r) \/ Stop(r) \/ \E panics \in BOOLEAN : Unwind(r, panics)
      <4>1. Inside' = Inside /\ maxSize' = maxSize
        BY <3>4, SidesMove DEF Start, Unwind, Stop
      <4>2. refused' = refused /\ gone' = gone
        BY <3>4 DEF Start, Unwind, Stop, Move, TypeOK
      <4> QED BY <4>1, <4>2 DEF Abstract!vars
    <3> QED BY <2>2, <3>1, <3>2, <3>3, <3>4 DEF Handler
  <2>3. ASSUME NEW size \in Sizes, SetMaxSize(size)
        PROVE  [Abstract!Next]_Abstract!vars
    <3>1. Inside' = Inside /\ refused' = refused /\ gone' = gone /\ maxSize' = size
      BY <2>3, SidesUnchanged DEF SetMaxSize, handlerVars
    <3> QED BY <3>1 DEF Abstract!Next, Abstract!SetLimit
  <2>4. ASSUME NEW c \in Closers, Shutdown(c) PROVE UNCHANGED <<pc, maxSize>>
    BY <2>4 DEF Shutdown, ShutdownStep, SelectDone, CloseDone, TestDeadline,
                Poll, Wait, Expire, handlerVars
  <2>5. CASE UNCHANGED vars
    BY <2>1, <2>5 DEF vars
  <2> QED BY <2>1, <2>2, <2>3, <2>4, <2>5 DEF Next
<1> QED BY <1>1, <1>2, TypeCorrect, AccountingCorrect, PTL
        DEF Spec, Implements, Abstract!Spec
=============================================================================
