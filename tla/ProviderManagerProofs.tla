----------------------- MODULE ProviderManagerProofs -----------------------
(***************************************************************************)
(* Proofs about ProviderManager, for any callers, providers, preference    *)
(* list, prompts and health checkers.                                      *)
(*                                                                         *)
(* One execution per key follows from what singleflight's map is: exactly  *)
(* the callers between Lead and Finish (FlightsExecute), of which no two   *)
(* have one key.  A waiting call is safe because Finish, which ends the    *)
(* execution, serves everyone who waits for it in the same step.  For the  *)
(* breakers, the invariant names whose calls they hold: of callers that    *)
(* are running an operation at that very provider, which ties the breaker  *)
(* to the position in the list, so that must not move meanwhile.           *)
(***************************************************************************)
EXTENDS ProviderManager, BreakerProofs

Executing == {"choosing", "attempting", "running", "failed", "finishing"}

FlightsExecute == flights = {c \in Callers : pc[c] \in Executing}

WaitersLed ==
    \A c \in Callers : pc[c] = "waiting" =>
        leader[c] \in flights /\ Key(prompt[leader[c]]) = Key(prompt[c])

InList ==
    \A c \in Callers :
        /\ pc[c] \in {"attempting", "running", "failed"} => index[c] <= Len(Preference)
        /\ result[c] = "ok" => /\ pc[c] \in {"finishing", "delivering"}
                               /\ index[c] <= Len(Preference)

BreakersServe ==
    \A p \in Providers : /\ BreakerInv(breaker[p])
                         /\ \A c \in breaker[p].calls : pc[c] = "running" /\ At(c) = p

Invariant == /\ TypeOK
             /\ FlightsExecute
             /\ OneExecutionPerKey
             /\ WaitersLed
             /\ InList
             /\ BreakersServe

\* A position in the preference list is one of a provider.
LEMMA AtProvider ==
  ASSUME TypeOK, NEW c \in Callers, index[c] <= Len(Preference)
  PROVE  At(c) \in Providers
BY ManagerAssumption DEF ManagerAssumption, At, TypeOK

-----------------------------------------------------------------------------
(***************************************************************************)
(* Sharing: which callers execute and who waits for whom.                  *)
(***************************************************************************)

\* A step of one caller that stays in its execution, or outside of one,
\* leaves the sharing alone.
LEMMA SharingKept ==
  ASSUME Invariant, NEW c \in Callers, NEW to \in CallStates \ {"waiting"},
         pc' = [pc EXCEPT ![c] = to],
         pc[c] \in Executing <=> to \in Executing,
         UNCHANGED <<flights, leader>>,
         \A d \in Callers : pc[d] \in Executing \cup {"waiting"} => prompt'[d] = prompt[d]
  PROVE  FlightsExecute' /\ OneExecutionPerKey' /\ WaitersLed'
<1>1. \A d \in Callers : pc'[d] = IF d = c THEN to ELSE pc[d]
  BY DEF Invariant, TypeOK
<1>2. FlightsExecute'
  BY <1>1 DEF Invariant, FlightsExecute
<1>3. OneExecutionPerKey'
  <2>1. \A d \in Callers : pc'[d] \in Executing =>
           pc[d] \in Executing /\ prompt'[d] = prompt[d]
    BY <1>1
  <2> QED BY <2>1 DEF Invariant, OneExecutionPerKey, Executing, Key
<1>4. WaitersLed'
  <2> SUFFICES ASSUME NEW d \in Callers, pc'[d] = "waiting"
               PROVE  leader[d] \in flights /\ Key(prompt'[leader[d]]) = Key(prompt'[d])
    BY DEF WaitersLed, Key
  <2>1. pc[d] = "waiting"
    BY <1>1
  <2>2. leader[d] \in flights /\ Key(prompt[leader[d]]) = Key(prompt[d])
    BY <2>1 DEF Invariant, WaitersLed
  <2>3. prompt'[d] = prompt[d] /\ prompt'[leader[d]] = prompt[leader[d]]
    BY <2>1, <2>2 DEF Invariant, FlightsExecute
  <2> QED BY <2>2, <2>3 DEF Key
<1> QED BY <1>2, <1>3, <1>4

\* Do begins an execution only if none of the key is under way.
LEMMA LeadShares ==
  ASSUME Invariant, NEW c \in Callers, NEW p \in Prompts, Lead(c, p)
  PROVE  FlightsExecute' /\ OneExecutionPerKey' /\ WaitersLed'
<1>1. /\ pc[c] = "idle" /\ flights' = flights \cup {c} /\ leader' = leader
      /\ \A d \in Callers : pc'[d] = IF d = c THEN "choosing" ELSE pc[d]
      /\ \A d \in Callers : prompt'[d] = IF d = c THEN p ELSE prompt[d]
  BY DEF Lead, Goto, Invariant, TypeOK
<1>2. c \notin flights /\ \A d \in flights : Key(prompt[d]) # Key(p)
  BY <1>1 DEF Lead, FlightsOf, Invariant, FlightsExecute, Executing
<1>3. FlightsExecute'
  BY <1>1 DEF Invariant, FlightsExecute, Executing
<1>4. OneExecutionPerKey'
  <2> SUFFICES ASSUME NEW d \in Callers, NEW e \in Callers, d # e,
                      pc'[d] \in Executing, pc'[e] \in Executing,
                      Key(prompt'[d]) = Key(prompt'[e])
               PROVE  FALSE
    BY DEF OneExecutionPerKey, Executing, Key
  <2>1. CASE d = c
    BY <1>1, <1>2, <2>1 DEF Invariant, FlightsExecute
  <2>2. CASE e = c
    BY <1>1, <1>2, <2>2 DEF Invariant, FlightsExecute
  <2>3. CASE d # c /\ e # c
    BY <1>1, <2>3 DEF Invariant, OneExecutionPerKey, Executing
  <2> QED BY <2>1, <2>2, <2>3
<1>5. WaitersLed'
  <2> SUFFICES ASSUME NEW d \in Callers, pc'[d] = "waiting"
               PROVE  leader[d] \in flights' /\ Key(prompt'[leader[d]]) = Key(prompt'[d])
    BY <1>1 DEF WaitersLed, Key
  <2>1. pc[d] = "waiting" /\ d # c
    BY <1>1
  <2>2. leader[d] \in flights /\ Key(prompt[leader[d]]) = Key(prompt[d]) /\ leader[d] \in Callers
    BY <2>1 DEF Invariant, WaitersLed, FlightsExecute
  <2> QED BY <1>1, <1>2, <2>1, <2>2
<1> QED BY <1>3, <1>4, <1>5

\* A call that joins an execution has a leader of its key.
LEMMA JoinShares ==
  ASSUME Invariant, NEW c \in Callers, NEW p \in Prompts, Join(c, p)
  PROVE  FlightsExecute' /\ OneExecutionPerKey' /\ WaitersLed'
<1>1. PICK l \in FlightsOf(Key(p)) : leader' = [leader EXCEPT ![c] = l]
  BY DEF Join
<1>2. /\ pc[c] = "idle" /\ flights' = flights
      /\ \A d \in Callers : pc'[d] = IF d = c THEN "waiting" ELSE pc[d]
      /\ \A d \in Callers : prompt'[d] = IF d = c THEN p ELSE prompt[d]
      /\ \A d \in Callers : leader'[d] = IF d = c THEN l ELSE leader[d]
  BY <1>1 DEF Join, Goto, Invariant, TypeOK
<1>3. c \notin flights
  BY <1>2 DEF Invariant, FlightsExecute, Executing
<1>4. FlightsExecute'
  BY <1>2 DEF Invariant, FlightsExecute, Executing
<1>5. OneExecutionPerKey'
  <2>1. \A d \in Callers : pc'[d] \in Executing =>
           pc[d] \in Executing /\ prompt'[d] = prompt[d]
    BY <1>2 DEF Executing
  <2> QED BY <2>1 DEF Invariant, OneExecutionPerKey, Executing, Key
<1>6. \A d \in flights : d \in Callers /\ prompt'[d] = prompt[d]
  BY <1>2, <1>3 DEF Invariant, TypeOK
<1>7. WaitersLed'
  <2> SUFFICES ASSUME NEW d \in Callers, pc'[d] = "waiting"
               PROVE  leader'[d] \in flights /\ Key(prompt'[leader'[d]]) = Key(prompt'[d])
    BY <1>2 DEF WaitersLed, Key
  <2>1. CASE d = c
    BY <1>2, <1>6, <2>1 DEF FlightsOf
  <2>2. CASE d # c
    <3>1. leader[d] \in flights /\ Key(prompt[leader[d]]) = Key(prompt[d])
      BY <1>2, <2>2 DEF Invariant, WaitersLed
    <3> QED BY <1>2, <1>6, <2>2, <3>1
  <2> QED BY <2>1, <2>2
<1> QED BY <1>4, <1>5, <1>7

\* The end of an execution frees its key and leaves nobody waiting for it.
LEMMA FinishShares ==
  ASSUME Invariant, NEW c \in Callers, Finish(c)
  PROVE  FlightsExecute' /\ OneExecutionPerKey' /\ WaitersLed'
<1> DEFINE sharing == {d \in Callers : leader[d] = c /\ pc[d] = "waiting"}
<1>1. /\ flights' = flights \ {c} /\ leader' = leader /\ prompt' = prompt
      /\ \A d \in Callers : pc'[d] = IF d \in sharing \cup {c} THEN "delivering" ELSE pc[d]
  BY DEF Finish
<1>2. FlightsExecute'
  BY <1>1 DEF Invariant, FlightsExecute, Executing
<1>3. OneExecutionPerKey'
  <2>1. \A d \in Callers : pc'[d] \in Executing => pc[d] \in Executing
    BY <1>1 DEF Executing
  <2> QED BY <1>1, <2>1 DEF Invariant, OneExecutionPerKey, Executing, Key
<1>4. WaitersLed'
  BY <1>1 DEF Invariant, WaitersLed, Key
<1> QED BY <1>2, <1>3, <1>4

-----------------------------------------------------------------------------
(***************************************************************************)
(* The positions in the preference list and the breakers.                  *)
(***************************************************************************)

\* A step that leaves the breakers, and the callers running operations,
\* alone.
LEMMA BreakersKept ==
  ASSUME Invariant, UNCHANGED breaker,
         \A d \in Callers : pc[d] = "running" => pc'[d] = "running" /\ index'[d] = index[d]
  PROVE  BreakersServe'
<1> SUFFICES ASSUME NEW p \in Providers
             PROVE  /\ BreakerInv(breaker'[p])
                    /\ \A d \in breaker'[p].calls : pc'[d] = "running" /\ At(d)' = p
  BY DEF BreakersServe, BreakerInv
<1>1. BreakerInv(breaker[p]) /\ \A d \in breaker[p].calls : pc[d] = "running" /\ At(d) = p
  BY DEF Invariant, BreakersServe
<1>2. breaker[p].calls \subseteq Callers
  BY DEF Invariant, TypeOK, Breakers
<1> QED BY <1>1, <1>2 DEF At

\* A caller at the provider p changes its breaker in a way that is right for
\* a breaker, and only it goes or ceases to run.
LEMMA BreakerBecomes ==
  ASSUME Invariant, NEW c \in Callers, NEW p \in Providers, At(c) = p,
         NEW to \in CallStates, pc' = [pc EXCEPT ![c] = to],
         NEW new \in Breakers(Callers), BreakerInv(new),
         breaker' = [breaker EXCEPT ![p] = new],
         new.calls \subseteq breaker[p].calls \cup {c},
         c \in new.calls => to = "running" /\ index'[c] = index[c],
         \A d \in Callers \ {c} : index'[d] = index[d],
         pc[c] = "running" \/ to = "running" => index'[c] = index[c]
  PROVE  breaker' \in [Providers -> Breakers(Callers)] /\ BreakersServe'
<1>1. breaker' \in [Providers -> Breakers(Callers)]
  BY DEF Invariant, TypeOK
<1>2. ASSUME NEW q \in Providers
      PROVE  /\ BreakerInv(breaker'[q])
             /\ \A d \in breaker'[q].calls : pc'[d] = "running" /\ At(d)' = q
  <2>1. BreakerInv(breaker[q]) /\ \A d \in breaker[q].calls : pc[d] = "running" /\ At(d) = q
    BY DEF Invariant, BreakersServe
  <2>2. breaker[q].calls \subseteq Callers /\ new.calls \subseteq Callers
    BY DEF Invariant, TypeOK, Breakers
  <2>3. \A d \in Callers : pc'[d] = IF d = c THEN to ELSE pc[d]
    BY DEF Invariant, TypeOK
  <2>4. CASE q = p
    <3>1. breaker'[q] = new
      BY <2>4 DEF Invariant, TypeOK
    <3> QED BY <2>1, <2>2, <2>3, <2>4, <3>1 DEF At
  <2>5. CASE q # p
    <3>1. breaker'[q] = breaker[q] /\ c \notin breaker[q].calls
      BY <2>1, <2>5 DEF Invariant, TypeOK
    <3> QED BY <2>1, <2>2, <2>3, <3>1 DEF At
  <2> QED BY <2>4, <2>5
<1> QED BY <1>1, <1>2 DEF BreakersServe, BreakerInv

-----------------------------------------------------------------------------
(***************************************************************************)
(* Each action preserves the invariant.                                    *)
(***************************************************************************)

LEMMA InitInvariant == Init => Invariant
<1> SUFFICES ASSUME Init PROVE Invariant
  OBVIOUS
<1>1. /\ NewGeneration("closed") \in Breakers(Callers)
      /\ BreakerInv(NewGeneration("closed")) /\ NewGeneration("closed").calls = {}
  BY NewGenerationOK DEF States
<1>2. Len(Preference) \in Nat
  BY ManagerAssumption DEF ManagerAssumption
<1>3. TypeOK
  BY <1>1, <1>2 DEF Init, TypeOK, CallStates, Results
<1>4. FlightsExecute /\ OneExecutionPerKey /\ WaitersLed /\ InList
  BY DEF Init, FlightsExecute, Executing, OneExecutionPerKey, WaitersLed, InList
<1>5. BreakersServe
  BY <1>1 DEF Init, BreakersServe
<1> QED BY <1>3, <1>4, <1>5 DEF Invariant

LEMMA LeadInvariant ==
  ASSUME Invariant, NEW c \in Callers, NEW p \in Prompts, Lead(c, p)
  PROVE  Invariant'
<1>1. TypeOK'
  BY DEF Invariant, TypeOK, Lead, Goto, health, CallStates
<1>2. InList'
  BY DEF Invariant, TypeOK, InList, Lead, Goto
<1>3. BreakersServe'
  BY BreakersKept DEF Invariant, TypeOK, Lead, Goto
<1> QED BY <1>1, <1>2, <1>3, LeadShares DEF Invariant

LEMMA JoinInvariant ==
  ASSUME Invariant, NEW c \in Callers, NEW p \in Prompts, Join(c, p)
  PROVE  Invariant'
<1>1. TypeOK'
  BY DEF Invariant, TypeOK, Join, Goto, health, CallStates, FlightsOf
<1>2. InList'
  BY DEF Invariant, TypeOK, InList, Join, Goto
<1>3. BreakersServe'
  BY BreakersKept DEF Invariant, TypeOK, Join, Goto
<1> QED BY <1>1, <1>2, <1>3, JoinShares DEF Invariant

LEMMA FinishInvariant ==
  ASSUME Invariant, NEW c \in Callers, Finish(c)
  PROVE  Invariant'
<1>1. TypeOK'
  BY DEF Invariant, TypeOK, Finish, health, CallStates
<1>2. InList'
  BY DEF Invariant, TypeOK, InList, Finish
<1>3. BreakersServe'
  <2>1. \A d \in Callers : pc[d] = "running" => pc'[d] = "running" /\ index'[d] = index[d]
    BY DEF Finish
  <2> QED BY <2>1, BreakersKept DEF Finish
<1> QED BY <1>1, <1>2, <1>3, FinishShares DEF Invariant

LEMMA DeliverInvariant ==
  ASSUME Invariant, NEW c \in Callers, Deliver(c)
  PROVE  Invariant'
<1>0. Len(Preference) \in Nat
  BY ManagerAssumption DEF ManagerAssumption
<1>1. TypeOK'
  <2>1. healthy' \in [Providers -> BOOLEAN]
    <3>1. healthy' = healthy \/ healthy' = [healthy EXCEPT ![At(c)] = TRUE]
      BY DEF Deliver
    <3> QED BY <3>1 DEF Invariant, TypeOK
  <2>2. /\ index' = [index EXCEPT ![c] = 1] /\ pc' = [pc EXCEPT ![c] = "idle"]
        /\ result' = [result EXCEPT ![c] = "none"]
        /\ prompt' = [prompt EXCEPT ![c] = NoPrompt] /\ leader' = [leader EXCEPT ![c] = c]
        /\ UNCHANGED <<breaker, answer, flights, cancelled>>
    BY DEF Deliver, Goto
  <2>3. index' \in [Callers -> 1..(Len(Preference) + 1)]
    BY <1>0, <2>2 DEF Invariant, TypeOK
  <2> QED BY <2>1, <2>2, <2>3 DEF Invariant, TypeOK, CallStates, Results
<1>2. InList'
  BY DEF Invariant, TypeOK, InList, Deliver, Goto
<1>3. BreakersServe'
  BY BreakersKept DEF Invariant, TypeOK, Deliver, Goto
<1>4. FlightsExecute' /\ OneExecutionPerKey'
  <2>1. \A d \in Callers : pc'[d] = IF d = c THEN "idle" ELSE pc[d]
    BY DEF Deliver, Goto, Invariant, TypeOK
  <2>2. \A d \in Callers \ {c} : prompt'[d] = prompt[d]
    BY DEF Deliver, Invariant, TypeOK
  <2>3. FlightsExecute'
    BY <2>1 DEF Deliver, Goto, Invariant, FlightsExecute, Executing
  <2>4. OneExecutionPerKey'
    BY <2>1, <2>2 DEF Invariant, OneExecutionPerKey, Key
  <2> QED BY <2>3, <2>4
<1>5. WaitersLed'
  <2> SUFFICES ASSUME NEW d \in Callers, pc'[d] = "waiting"
               PROVE  leader'[d] \in flights' /\ Key(prompt'[leader'[d]]) = Key(prompt'[d])
    BY DEF WaitersLed, Key
  <2>1. pc[c] = "delivering" /\ flights' = flights /\ d # c /\ pc[d] = "waiting"
    BY DEF Deliver, Goto, Invariant, TypeOK
  <2>2. leader[d] \in flights /\ Key(prompt[leader[d]]) = Key(prompt[d])
    BY <2>1 DEF Invariant, WaitersLed
  <2>3. leader[d] # c /\ leader[d] \in Callers
    BY <2>1, <2>2 DEF Invariant, FlightsExecute, Executing
  <2>4. leader'[d] = leader[d] /\ prompt'[d] = prompt[d] /\ prompt'[leader[d]] = prompt[leader[d]]
    BY <2>1, <2>3 DEF Deliver, Invariant, TypeOK
  <2> QED BY <2>1, <2>2, <2>4
<1> QED BY <1>1, <1>2, <1>3, <1>4, <1>5 DEF Invariant

LEMMA ChooseInvariant ==
  ASSUME Invariant, NEW c \in Callers, Choose(c)
  PROVE  Invariant'
<1>0. /\ Len(Preference) \in Nat /\ pc[c] = "choosing" /\ index[c] <= Len(Preference)
      /\ index[c] \in Nat
  BY ManagerAssumption DEF ManagerAssumption, Choose, Exhausted, Invariant, TypeOK
<1>1. PICK to \in {"attempting", "choosing"} : pc' = [pc EXCEPT ![c] = to]
  BY <1>0 DEF Choose, Invariant, TypeOK
<1>2. TypeOK'
  <2>1. /\ UNCHANGED <<breaker, healthy, answer, flights, prompt, leader, result, cancelled>>
        /\ index' = index \/ index' = [index EXCEPT ![c] = @ + 1]
    BY DEF Choose, health
  <2>2. index' \in [Callers -> 1..(Len(Preference) + 1)]
    <3>1. index \in [Callers -> 1..(Len(Preference) + 1)]
      BY DEF Invariant, TypeOK
    <3>2. CASE index' = index
      BY <3>1, <3>2
    <3>3. CASE index' = [index EXCEPT ![c] = @ + 1]
      BY <1>0, <3>1, <3>3
    <3> QED BY <2>1, <3>2, <3>3
  <2> QED BY <1>1, <2>1, <2>2 DEF Invariant, TypeOK, CallStates
<1>3. InList'
  BY <1>0 DEF Invariant, TypeOK, InList, Choose
<1>4. BreakersServe'
  BY <1>0, <1>1, BreakersKept DEF Invariant, TypeOK, Choose
<1>5. FlightsExecute' /\ OneExecutionPerKey' /\ WaitersLed'
  BY <1>0, <1>1, SharingKept DEF Choose, Executing, CallStates
<1> QED BY <1>2, <1>3, <1>4, <1>5 DEF Invariant

LEMMA GiveUpInvariant ==
  ASSUME Invariant, NEW c \in Callers, GiveUp(c)
  PROVE  Invariant'
<1>1. pc[c] = "choosing" /\ pc' = [pc EXCEPT ![c] = "finishing"]
  BY DEF GiveUp, Goto
<1>2. TypeOK'
  BY DEF GiveUp, Goto, Invariant, TypeOK, health, CallStates, Results
<1>3. InList'
  BY <1>1 DEF Invariant, TypeOK, InList, GiveUp
<1>4. BreakersServe'
  BY <1>1, BreakersKept DEF Invariant, TypeOK, GiveUp
<1>5. FlightsExecute' /\ OneExecutionPerKey' /\ WaitersLed'
  BY <1>1, SharingKept DEF GiveUp, Executing, CallStates
<1> QED BY <1>2, <1>3, <1>4, <1>5 DEF Invariant

\* The breaker takes the caller in, or what its expiry makes of it remains.
LEMMA AttemptInvariant ==
  ASSUME Invariant, NEW c \in Callers, Attempt(c)
  PROVE  Invariant'
<1> DEFINE p == At(c)
           b == breaker[p]
<1>1. pc[c] = "attempting" /\ index[c] <= Len(Preference)
  BY DEF Attempt, Goto, Invariant, InList
<1>2. p \in Providers
  BY <1>1, AtProvider DEF Invariant
<1>3. /\ b \in Breakers(Callers) /\ BreakerInv(b) /\ c \notin b.calls
      /\ IsFiniteSet(Callers) /\ index' = index
  BY <1>1, <1>2, ManagerAssumption
  DEF Invariant, TypeOK, BreakersServe, ManagerAssumption, Attempt
<1>4. PICK to \in {"running", "failed"}, new \in Breakers(Callers) :
        /\ pc' = [pc EXCEPT ![c] = to]
        /\ breaker' = [breaker EXCEPT ![p] = new]
        /\ BreakerInv(new)
        /\ new.calls \subseteq b.calls \cup {c}
        /\ c \in new.calls => to = "running"
  <2>1. CASE Refuses(b)
    <3>1. pc' = [pc EXCEPT ![c] = "failed"] /\ breaker' = [breaker EXCEPT ![p] = Current(b)]
      BY <2>1 DEF Attempt, Goto
    <3>2. Current(b) \in Breakers(Callers) /\ BreakerInv(Current(b)) /\ Current(b).calls \subseteq b.calls
      BY <1>3, CurrentOK
    <3> QED BY <1>3, <3>1, <3>2
  <2>2. CASE ~Refuses(b)
    <3>1. pc' = [pc EXCEPT ![c] = "running"] /\ breaker' = [breaker EXCEPT ![p] = Entered(b, c)]
      BY <2>2 DEF Attempt, Goto
    <3>2. /\ Entered(b, c) \in Breakers(Callers) /\ BreakerInv(Entered(b, c))
          /\ Entered(b, c).calls = Current(b).calls \cup {c}
          /\ Current(b).calls \subseteq b.calls
      BY <1>3, <2>2, EnteredOK, CurrentOK
    <3> QED BY <3>1, <3>2
  <2> QED BY <2>1, <2>2
<1>5. breaker' \in [Providers -> Breakers(Callers)] /\ BreakersServe'
  <2> HIDE DEF p
  <2>1. At(c) = p /\ to \in CallStates
    BY DEF p, CallStates
  <2> QED BY <1>2, <1>3, <1>4, <2>1, BreakerBecomes
<1> HIDE DEF p, b
<1>6. TypeOK'
  BY <1>5 DEF Attempt, Goto, Invariant, TypeOK, health, CallStates, Results
<1>7. InList'
  BY <1>1 DEF Invariant, TypeOK, InList, Attempt, Goto
<1>8. FlightsExecute' /\ OneExecutionPerKey' /\ WaitersLed'
  BY <1>1, <1>4, SharingKept DEF Attempt, Executing, CallStates
<1> QED BY <1>5, <1>6, <1>7, <1>8 DEF Invariant

\* The breaker lets go of the caller, whatever the operation has come to.
LEMMA EndInvariant ==
  ASSUME Invariant, NEW c \in Callers, NEW how \in {"ok", "error", "cancelled", "panic"},
         End(c, how)
  PROVE  Invariant'
<1> DEFINE p == At(c)
           b == breaker[p]
           new == Left(b, c, how = "ok")
<1>1. pc[c] = "running" /\ index[c] <= Len(Preference) /\ index' = index
  BY DEF End, Goto, Invariant, InList
<1>2. p \in Providers
  BY <1>1, AtProvider DEF Invariant
<1>3. b \in Breakers(Callers) /\ BreakerInv(b) /\ IsFiniteSet(Callers)
  BY <1>2, ManagerAssumption DEF Invariant, TypeOK, BreakersServe, ManagerAssumption
<1>4. new \in Breakers(Callers) /\ BreakerInv(new) /\ new.calls \subseteq b.calls \ {c}
  BY <1>3, LeftOK
<1>5. breaker' = [breaker EXCEPT ![p] = new]
  BY DEF End
<1>6. PICK to \in {"finishing", "failed"} : pc' = [pc EXCEPT ![c] = to]
  BY DEF End, Goto
<1>7. breaker' \in [Providers -> Breakers(Callers)] /\ BreakersServe'
  <2>1. new.calls \subseteq b.calls \cup {c} /\ c \notin new.calls
    BY <1>4
  <2>2. At(c) = p /\ to \in CallStates
    BY DEF CallStates
  <2> HIDE DEF p, new
  <2> QED BY <1>1, <1>2, <1>4, <1>5, <1>6, <2>1, <2>2, BreakerBecomes
<1> HIDE DEF p, b, new
<1>8. TypeOK'
  BY <1>7 DEF End, Goto, Invariant, TypeOK, health, CallStates, Results
<1>9. InList'
  BY <1>1 DEF Invariant, TypeOK, InList, End, Goto
<1>10. FlightsExecute' /\ OneExecutionPerKey' /\ WaitersLed'
  BY <1>1, <1>6, SharingKept DEF End, Executing, CallStates
<1> QED BY <1>7, <1>8, <1>9, <1>10 DEF Invariant

\* The loop moves on, or out, when no breaker holds the caller any more.
LEMMA AfterFailureInvariant ==
  ASSUME Invariant, NEW c \in Callers, AfterFailure(c)
  PROVE  Invariant'
<1> DEFINE p == At(c)
           b == breaker[p]
           new == Current(b)
<1>1. pc[c] = "failed" /\ index[c] <= Len(Preference) /\ result' = result
  BY DEF AfterFailure, Invariant, InList
<1>2. p \in Providers
  BY <1>1, AtProvider DEF Invariant
<1>3. /\ b \in Breakers(Callers) /\ BreakerInv(b) /\ c \notin b.calls
      /\ IsFiniteSet(Callers)
  BY <1>1, <1>2, ManagerAssumption
  DEF Invariant, TypeOK, BreakersServe, ManagerAssumption
<1>4. new \in Breakers(Callers) /\ BreakerInv(new) /\ new.calls \subseteq b.calls
  BY <1>3, CurrentOK
<1>5. breaker' = [breaker EXCEPT ![p] = new]
  BY DEF AfterFailure
<1>6. PICK to \in {"choosing", "finishing"} :
        /\ pc' = [pc EXCEPT ![c] = to]
        /\ \/ index' = index
           \/ to = "choosing" /\ index' = [index EXCEPT ![c] = @ + 1]
  BY DEF AfterFailure
<1>7. /\ \A d \in Callers \ {c} : index'[d] = index[d]
      /\ index'[c] = index[c] \/ (to = "choosing" /\ index'[c] = index[c] + 1)
      /\ index' \in [Callers -> 1..(Len(Preference) + 1)]
  <2>1. Len(Preference) \in Nat /\ index[c] \in Nat
    BY ManagerAssumption DEF ManagerAssumption, Invariant, TypeOK
  <2>2. index \in [Callers -> 1..(Len(Preference) + 1)]
    BY DEF Invariant, TypeOK
  <2>3. CASE index' = index
    BY <2>2, <2>3
  <2>4. CASE to = "choosing" /\ index' = [index EXCEPT ![c] = @ + 1]
    BY <1>1, <2>1, <2>2, <2>4
  <2> QED BY <1>6, <2>3, <2>4
<1>8. breaker' \in [Providers -> Breakers(Callers)] /\ BreakersServe'
  <2>1. new.calls \subseteq b.calls \cup {c} /\ c \notin new.calls
    BY <1>3, <1>4
  <2>2. At(c) = p /\ to \in CallStates
    BY DEF CallStates
  <2> HIDE DEF p, new
  <2> QED BY <1>1, <1>2, <1>4, <1>5, <1>6, <1>7, <2>1, <2>2, BreakerBecomes
<1> HIDE DEF p, b, new
<1>9. TypeOK'
  BY <1>6, <1>7, <1>8 DEF AfterFailure, Invariant, TypeOK, health, CallStates
<1>10. InList'
  BY <1>1, <1>6, <1>7 DEF Invariant, TypeOK, InList
<1>11. FlightsExecute' /\ OneExecutionPerKey' /\ WaitersLed'
  BY <1>1, <1>6, SharingKept DEF AfterFailure, Executing, CallStates
<1> QED BY <1>8, <1>9, <1>10, <1>11 DEF Invariant

\* A state that runs out changes no call and no half-open breaker.
LEMMA ExpireInvariant ==
  ASSUME Invariant, NEW p \in Providers, Expire(p)
  PROVE  Invariant'
<1>1. UNCHANGED <<healthy, flights, pc, prompt, leader, index, result, cancelled, answer>>
  BY DEF Expire, health, callVars
<1>2. /\ breaker'[p] \in Breakers(Callers) /\ BreakerInv(breaker'[p])
      /\ breaker'[p].calls = breaker[p].calls
      /\ \A q \in Providers \ {p} : breaker'[q] = breaker[q]
      /\ breaker' \in [Providers -> Breakers(Callers)]
  <2>1. /\ breaker \in [Providers -> Breakers(Callers)] /\ BreakerInv(breaker[p])
        /\ MayExpire(breaker[p])
        /\ breaker' = [breaker EXCEPT ![p] = [breaker[p] EXCEPT !.expired = TRUE]]
    BY DEF Expire, Invariant, TypeOK, BreakersServe
  <2> QED BY <2>1, ExpiredOK
<1>3. BreakersServe'
  BY <1>1, <1>2 DEF Invariant, BreakersServe, BreakerInv, At
<1>4. TypeOK' /\ FlightsExecute' /\ OneExecutionPerKey' /\ WaitersLed' /\ InList'
  BY <1>1, <1>2
  DEF Invariant, TypeOK, FlightsExecute, OneExecutionPerKey, WaitersLed, InList, Key
<1> QED BY <1>3, <1>4 DEF Invariant

\* Health checks and cancellations touch neither calls nor breakers.
LEMMA AsideInvariant ==
  ASSUME Invariant, UNCHANGED <<breaker, flights, pc, prompt, leader, index, result>>,
         healthy' \in [Providers -> BOOLEAN], cancelled' \subseteq Callers,
         answer' \in [Checkers -> {<<>>} \cup (Providers \X BOOLEAN)]
  PROVE  Invariant'
BY DEF Invariant, TypeOK, FlightsExecute, OneExecutionPerKey, WaitersLed, InList,
       BreakersServe, BreakerInv, Key, At

LEMMA CheckInvariant ==
  ASSUME Invariant, NEW k \in Checkers,
         \/ CheckRecorded(k)
         \/ \E p \in Providers, ok \in BOOLEAN : CheckAnswered(k, p, ok)
  PROVE  Invariant'
<1>1. UNCHANGED <<breaker, flights, pc, prompt, leader, index, result, cancelled>>
  BY DEF CheckRecorded, CheckAnswered, callVars
<1>2. CASE CheckRecorded(k)
  <2>1. answer[k] \in Providers \X BOOLEAN
    BY <1>2 DEF CheckRecorded, Invariant, TypeOK
  <2> QED BY <1>1, <1>2, <2>1, AsideInvariant DEF CheckRecorded, Invariant, TypeOK
<1>3. CASE \E p \in Providers, ok \in BOOLEAN : CheckAnswered(k, p, ok)
  BY <1>1, <1>3, AsideInvariant DEF CheckAnswered, Invariant, TypeOK
<1> QED BY <1>2, <1>3

LEMMA CancelInvariant ==
  ASSUME Invariant, NEW c \in Callers, Cancel(c)
  PROVE  Invariant'
BY AsideInvariant DEF Cancel, health, Invariant, TypeOK

\* The invariant of the provider manager.
THEOREM ManagerInvariance == Spec => []Invariant
<1>1. Invariant /\ [Next]_vars => Invariant'
  <2> SUFFICES ASSUME Invariant, [Next]_vars PROVE Invariant'
    OBVIOUS
  <2>1. ASSUME NEW c \in Callers, NEW p \in Prompts, Lead(c, p) \/ Join(c, p)
        PROVE  Invariant'
    BY <2>1, LeadInvariant, JoinInvariant
  <2>2. ASSUME NEW c \in Callers, Step(c) PROVE Invariant'
    BY <2>2, ChooseInvariant, GiveUpInvariant, AttemptInvariant, AfterFailureInvariant,
       FinishInvariant, DeliverInvariant DEF Step
  <2>3. ASSUME NEW c \in Callers, EndSomehow(c) PROVE Invariant'
    BY <2>3, EndInvariant DEF EndSomehow
  <2>4. ASSUME NEW c \in Callers, Cancel(c) PROVE Invariant'
    BY <2>4, CancelInvariant
  <2>5. ASSUME NEW k \in Checkers,
               \/ CheckRecorded(k)
               \/ \E p \in Providers, ok \in BOOLEAN : CheckAnswered(k, p, ok)
        PROVE  Invariant'
    BY <2>5, CheckInvariant
  <2>6. ASSUME NEW p \in Providers, Expire(p) PROVE Invariant'
    BY <2>6, ExpireInvariant
  <2>7. CASE UNCHANGED vars
    BY <2>7, AsideInvariant DEF vars, Invariant, TypeOK
  <2> QED BY <2>1, <2>2, <2>3, <2>4, <2>5, <2>6, <2>7 DEF Next
<1> QED BY <1>1, InitInvariant, PTL DEF Spec

-----------------------------------------------------------------------------
\* The variables keep their types: the loop never leaves the list by more
\* than one position, and no breaker admits more than MaxRequests probes.
THEOREM ManagerTypeCorrect == Spec => []TypeOK
BY ManagerInvariance, PTL DEF Invariant

\* singleflight: a key is executed once at a time, however many callers and
\* failovers, refusals, panics and cancellations there are.
THEOREM ManagerOneExecution == Spec => []OneExecutionPerKey
BY ManagerInvariance, PTL DEF Invariant

\* Every call that waits for a shared result has a leader that is executing
\* its key and will hand the result over.
THEOREM ManagerNobodyLeftBehind == Spec => []NobodyLeftBehind
<1>1. Invariant => NobodyLeftBehind
  BY DEF Invariant, WaitersLed, FlightsExecute, NobodyLeftBehind, FlightsOf, Executing
<1> QED BY <1>1, ManagerInvariance, PTL

\* The calls a breaker waits for run at its provider, and a half-open one
\* that refuses everyone waits for one.
THEOREM ManagerNoLostProbe == Spec => []NoLostProbe
<1>1. Invariant => NoLostProbe
  <2> SUFFICES ASSUME Invariant, NEW p \in Providers
               PROVE  /\ \A c \in breaker[p].calls : pc[c] = "running" /\ At(c) = p
                      /\ breaker[p].state = "half-open" /\ breaker[p].requests = MaxRequests
                           => breaker[p].calls # {}
    BY DEF NoLostProbe
  <2>1. breaker[p] \in Breakers(Callers) /\ IsFiniteSet(Callers)
    BY ManagerAssumption DEF Invariant, TypeOK, ManagerAssumption
  <2> QED BY <2>1, FullHasCall DEF Invariant, BreakersServe
<1> QED BY <1>1, ManagerInvariance, PTL

-----------------------------------------------------------------------------
(***************************************************************************)
(* The manager implements Coalescing.  Besides the invariant this needs    *)
(* that an execution that ends has an outcome, and that whoever neither    *)
(* waits nor takes an outcome home would lead.                             *)
(***************************************************************************)
Settling ==
    \A c \in Callers :
        /\ pc[c] \in {"failed", "finishing", "delivering"} => result[c] # "none"
        /\ pc[c] \notin {"waiting", "delivering"} => leader[c] = c

LEMMA SettlingInvariance == Spec => []Settling
<1>1. Init => Settling
  BY DEF Init, Settling
<1>2. TypeOK /\ Settling /\ [Next]_vars => Settling'
  <2> SUFFICES ASSUME TypeOK, Settling, [Next]_vars PROVE Settling'
    OBVIOUS
  <2> USE DEF TypeOK, Settling
  <2>1. ASSUME NEW c \in Callers, NEW p \in Prompts, Lead(c, p) \/ Join(c, p)
        PROVE  Settling'
    BY <2>1 DEF Lead, Join, Goto
  <2>2. ASSUME NEW c \in Callers, Step(c) PROVE Settling'
    <3>1. CASE Choose(c) \/ GiveUp(c)
      BY <3>1 DEF Choose, GiveUp, Goto
    <3>2. CASE Attempt(c)
      BY <3>2 DEF Attempt, Goto
    <3>3. CASE AfterFailure(c)
      BY <3>3 DEF AfterFailure
    <3>4. CASE Finish(c)
      BY <3>4 DEF Finish
    <3>5. CASE Deliver(c)
      BY <3>5 DEF Deliver, Goto
    <3> QED BY <2>2, <3>1, <3>2, <3>3, <3>4, <3>5 DEF Step
  <2>3. ASSUME NEW c \in Callers, EndSomehow(c) PROVE Settling'
    BY <2>3 DEF EndSomehow, End, Goto
  <2>4. CASE UNCHANGED <<pc, leader, result>>
    BY <2>4
  <2> QED BY <2>1, <2>2, <2>3, <2>4
          DEF Next, Cancel, CheckAnswered, CheckRecorded, Expire, callVars, vars
<1> QED BY <1>1, <1>2, ManagerTypeCorrect, PTL DEF Spec

\* What a caller sees, one caller at a time.
LEMMA Seen ==
  ASSUME NEW c \in Callers
  PROVE  /\ CallKey[c] = IF pc[c] = "idle" THEN {} ELSE {Key(prompt[c])}
         /\ Outcome[c] = IF pc[c] = "delivering" THEN result[c] ELSE "none"
         /\ CallKey'[c] = IF pc'[c] = "idle" THEN {} ELSE {Key(prompt'[c])}
         /\ Outcome'[c] = IF pc'[c] = "delivering" THEN result'[c] ELSE "none"
BY DEF CallKey, Outcome, Key

\* The callers whose executions are under way in the abstract are those that
\* lead one here.
LEMMA UnderWayIsFlights ==
  ASSUME Invariant, Settling, NEW k
  PROVE  Coalesced!UnderWay(k) = FlightsOf(k)
<1>1. ASSUME NEW c \in Callers PROVE c \in Coalesced!UnderWay(k) <=> c \in FlightsOf(k)
  <2>1. c \in FlightsOf(k) <=> pc[c] \in Executing /\ Key(prompt[c]) = k
    BY DEF FlightsOf, Invariant, FlightsExecute
  <2>2. pc[c] = "waiting" => leader[c] # c
    BY DEF Invariant, WaitersLed, FlightsExecute, Executing
  <2>3. c \in Coalesced!UnderWay(k) <=>
          pc[c] # "idle" /\ Key(prompt[c]) = k /\ leader[c] = c /\ Outcome[c] = "none"
    BY Seen DEF Coalesced!UnderWay
  <2>4. Outcome[c] = "none" <=> pc[c] # "delivering"
    BY Seen DEF Settling
  <2>5. pc[c] \in CallStates
    BY DEF Invariant, TypeOK
  <2> QED BY <2>1, <2>2, <2>3, <2>4, <2>5 DEF Settling, Executing, CallStates
<1> QED BY <1>1 DEF FlightsOf, Coalesced!UnderWay, Invariant, TypeOK

\* A step that nobody outside sees.
LEMMA Unseen ==
  ASSUME UNCHANGED leader,
         \A c \in Callers : /\ pc[c] = "idle" <=> pc'[c] = "idle"
                            /\ pc[c] = "delivering" <=> pc'[c] = "delivering"
                            /\ prompt'[c] = prompt[c]
                            /\ pc[c] = "delivering" => result'[c] = result[c]
  PROVE  UNCHANGED <<CallKey, leader, Outcome>>
BY DEF CallKey, Outcome, Key

LEMMA LeadBegins ==
  ASSUME Invariant, Settling, NEW c \in Callers, NEW p \in Prompts, Lead(c, p) \/ Join(c, p)
  PROVE  Coalesced!Call(c)
<1>1. /\ pc[c] = "idle" /\ pc'[c] \in {"choosing", "waiting"} /\ prompt'[c] = p
      /\ \A d \in Callers \ {c} : pc'[d] = pc[d] /\ prompt'[d] = prompt[d]
      /\ result' = result
  BY DEF Lead, Join, Goto, Invariant, TypeOK
<1>2. CallKey[c] = {}
  BY <1>1, Seen
<1>3. CallKey' = [CallKey EXCEPT ![c] = {Key(p)}]
  BY <1>1 DEF CallKey, Key
<1>4. Outcome' = Outcome
  BY <1>1 DEF Outcome
<1>5. Coalesced!UnderWay(Key(p)) = FlightsOf(Key(p))
  BY UnderWayIsFlights
<1>6. Coalesced!Begin(Key(p)) \/ Coalesced!Share(c, Key(p))
  BY <1>5 DEF Lead, Join, Coalesced!Begin, Coalesced!Share
<1> QED BY <1>2, <1>3, <1>4, <1>6 DEF Coalesced!Call

LEMMA FinishSettles ==
  ASSUME Invariant, Settling, NEW c \in Callers, Finish(c)
  PROVE  Coalesced!Settle(c)
<1> DEFINE sharing == {d \in Callers : leader[d] = c /\ pc[d] = "waiting"}
           sharers == {d \in Callers : CallKey[d] # {} /\ leader[d] = c /\ Outcome[d] = "none"}
<1>1. /\ pc[c] = "finishing" /\ leader' = leader /\ prompt' = prompt
      /\ \A d \in Callers : pc'[d] = IF d \in sharing \cup {c} THEN "delivering" ELSE pc[d]
      /\ \A d \in Callers : result'[d] = IF d \in sharing THEN result[c] ELSE result[d]
  BY DEF Finish, Invariant, TypeOK
<1>2. result[c] \in Results \ {"none"}
  BY <1>1 DEF Invariant, TypeOK, Settling
<1>3. ASSUME NEW d \in Callers PROVE d \in sharers <=> d \in sharing \cup {c}
  <2>1. d \in sharers <=> pc[d] \notin {"idle", "delivering"} /\ leader[d] = c
    BY Seen DEF Settling
  <2>2. d # c /\ leader[d] = c /\ pc[d] \notin {"idle", "delivering"} => pc[d] = "waiting"
    BY DEF Settling
  <2> QED BY <1>1, <2>1, <2>2 DEF Settling
<1>4. CallKey' = CallKey
  BY <1>1 DEF CallKey, Key
<1>5. Outcome' = [d \in Callers |-> IF d \in sharers THEN result[c] ELSE Outcome[d]]
  <2>1. ASSUME NEW d \in Callers
        PROVE  Outcome'[d] = IF d \in sharers THEN result[c] ELSE Outcome[d]
    <3> HIDE DEF sharing, sharers
    <3>1. /\ Outcome[d] = IF pc[d] = "delivering" THEN result[d] ELSE "none"
          /\ Outcome'[d] = IF pc'[d] = "delivering" THEN result'[d] ELSE "none"
      BY Seen
    <3>2. CASE d \in sharing \cup {c}
      BY <1>1, <1>3, <3>1, <3>2
    <3>3. CASE d \notin sharing \cup {c}
      BY <1>1, <1>3, <3>1, <3>3
    <3> QED BY <3>2, <3>3
  <2> QED BY <2>1 DEF Outcome
<1>6. c \in sharers
  BY <1>3
<1> QED BY <1>1, <1>2, <1>4, <1>5, <1>6 DEF Coalesced!Settle

LEMMA DeliverReturns ==
  ASSUME Invariant, Settling, NEW c \in Callers, Deliver(c)
  PROVE  Coalesced!Return(c)
<1>1. /\ pc[c] = "delivering" /\ pc' = [pc EXCEPT ![c] = "idle"]
      /\ prompt' = [prompt EXCEPT ![c] = NoPrompt]
      /\ leader' = [leader EXCEPT ![c] = c]
      /\ result' = [result EXCEPT ![c] = "none"]
  BY DEF Deliver, Goto
<1>2. Outcome[c] # "none"
  BY <1>1, Seen DEF Settling
<1>3. CallKey' = [CallKey EXCEPT ![c] = {}]
  BY <1>1 DEF CallKey, Key, Invariant, TypeOK
<1>4. Outcome' = [Outcome EXCEPT ![c] = "none"]
  BY <1>1 DEF Outcome, Invariant, TypeOK
<1> QED BY <1>1, <1>2, <1>3, <1>4 DEF Coalesced!Return

\* The provider manager implements Coalescing: one execution per key, and one
\* outcome for everyone who joined it, through failover, refusals, panics,
\* cancellations and health checks.
THEOREM ManagerCoalesces == Spec => ImplementsCoalescing
<1>1. Init => Coalesced!Init
  BY DEF Init, Coalesced!Init, CallKey, Outcome
<1>2. Invariant /\ Settling /\ [Next]_vars => [Coalesced!Next]_<<CallKey, leader, Outcome>>
  <2> SUFFICES ASSUME Invariant, Settling, [Next]_vars
               PROVE  Coalesced!Next \/ UNCHANGED <<CallKey, leader, Outcome>>
    OBVIOUS
  <2>1. ASSUME NEW c \in Callers, NEW p \in Prompts, Lead(c, p) \/ Join(c, p)
        PROVE  Coalesced!Next
    BY <2>1, LeadBegins DEF Coalesced!Next
  <2>2. ASSUME NEW c \in Callers, Finish(c) \/ Deliver(c) PROVE Coalesced!Next
    BY <2>2, FinishSettles, DeliverReturns DEF Coalesced!Next
  <2>3. ASSUME NEW c \in Callers,
               Choose(c) \/ GiveUp(c) \/ Attempt(c) \/ AfterFailure(c) \/ EndSomehow(c)
        PROVE  UNCHANGED <<CallKey, leader, Outcome>>
    <3>1. PICK to \in Executing : pc' = [pc EXCEPT ![c] = to]
      BY <2>3 DEF Choose, GiveUp, Attempt, AfterFailure, EndSomehow, End, Goto, Executing,
                  Invariant, TypeOK
    <3>2. pc[c] \in Executing /\ UNCHANGED <<leader, prompt>>
      BY <2>3 DEF Choose, GiveUp, Attempt, AfterFailure, EndSomehow, End, Goto, Executing
    <3>3. \A d \in Callers \ {c} : result'[d] = result[d]
      BY <2>3 DEF Choose, GiveUp, Attempt, AfterFailure, EndSomehow, End, Invariant, TypeOK
    <3>4. \A d \in Callers : pc'[d] = IF d = c THEN to ELSE pc[d]
      BY <3>1 DEF Invariant, TypeOK
    <3> QED BY <3>2, <3>3, <3>4, Unseen DEF Executing
  <2>4. CASE UNCHANGED <<pc, leader, prompt, result>>
    BY <2>4, Unseen
  <2> QED BY <2>1, <2>2, <2>3, <2>4
          DEF Next, Step, Cancel, CheckAnswered, CheckRecorded, Expire, callVars, vars
<1> QED BY <1>1, <1>2, ManagerInvariance, SettlingInvariance, PTL
        DEF Spec, ImplementsCoalescing, Coalesced!Spec, Coalesced!vars

-----------------------------------------------------------------------------
(***************************************************************************)
(* The contract of each breaker.  Its callers are those whose operation    *)
(* runs at its provider; all that the manager does between two operations  *)
(* of one breaker is a step of another one, a look at it, or none of its   *)
(* business.                                                               *)
(***************************************************************************)
Runs(p) == {c \in Callers : pc[c] = "running" /\ At(c) = p}

\* Every operation finds what the contract says it may find.
LEMMA CurrentIsFound ==
  ASSUME Invariant, NEW p \in Providers
  PROVE  /\ IsFiniteSet(Callers) /\ breaker[p] \in Breakers(Callers) /\ BreakerInv(breaker[p])
         /\ Gate(Current(breaker[p])) \in Contract(p)!Found
         /\ \A state \in States : Gate(NewGeneration(state)) = Contract(p)!Fresh(state)
<1> DEFINE b == breaker[p]
<1>1. IsFiniteSet(Callers) /\ b \in Breakers(Callers) /\ BreakerInv(b)
  BY ManagerAssumption DEF Invariant, TypeOK, BreakersServe, ManagerAssumption
<1>2. \A state \in States : Gate(NewGeneration(state)) = Contract(p)!Fresh(state)
  BY DEF Gate, NewGeneration, Contract!Fresh
<1>3. \/ Current(b) = b
      \/ b.state = "open" /\ Current(b) = NewGeneration("half-open")
      \/ b.state = "closed" /\ HasInterval /\ Current(b) = NewGeneration("closed")
  BY <1>1, CurrentOK
<1> HIDE DEF b
<1>4. Gate(b).phase = b.state
  BY DEF Gate
<1>5. \/ Gate(Current(b)) = Gate(b)
      \/ \E to \in {"half-open", "closed"} :
            Contract(p)!Lapses(to) /\ Gate(Current(b)) = Contract(p)!Fresh(to)
  BY <1>2, <1>3, <1>4 DEF Contract!Lapses, States, b
<1> QED BY <1>1, <1>2, <1>5 DEF Contract!Found, b

\* A step that lets those who run operations run on where they are.
LEMMA RunsKept ==
  ASSUME NEW p \in Providers,
         \A d \in Callers : /\ pc'[d] = "running" <=> pc[d] = "running"
                            /\ pc[d] = "running" => index'[d] = index[d]
  PROVE  Runs(p)' = Runs(p)
BY DEF Runs, At

\* An operation begins, or is refused, at one breaker.
LEMMA AttemptContract ==
  ASSUME Invariant, NEW c \in Callers, Attempt(c), NEW p \in Providers
  PROVE  Contract(p)!Next \/ UNCHANGED Contract(p)!vars
<1> DEFINE b   == breaker[p]
           now == Current(b)
<1>1. /\ pc[c] = "attempting" /\ At(c) \in Providers /\ index' = index
      /\ breaker \in [Providers -> Breakers(Callers)]
  BY AtProvider DEF Attempt, Goto, Invariant, TypeOK, InList
<1>2. /\ IsFiniteSet(Callers) /\ b \in Breakers(Callers) /\ BreakerInv(b)
      /\ Gate(now) \in Contract(p)!Found
      /\ Gate(now) = [phase |-> now.state, counted |-> now.calls, wins |-> now.succs]
  BY CurrentIsFound DEF Gate
<1>3. PICK to \in {"running", "failed"} : \A d \in Callers : pc'[d] = IF d = c THEN to ELSE pc[d]
  BY DEF Attempt, Goto, Invariant, TypeOK
<1>4. CASE At(c) # p
  <2>1. breaker'[p] = b
    BY <1>1, <1>4 DEF Attempt
  <2>2. Runs(p)' = Runs(p)
    BY <1>1, <1>3, <1>4 DEF Runs, At
  <2> QED BY <2>1, <2>2 DEF Contract!vars, Runs, Gate
<1>5. CASE At(c) = p /\ ~Refuses(b)
  <2>1. c \notin Runs(p) /\ c \notin b.calls
    BY <1>1 DEF Runs, Invariant, BreakersServe
  <2>2. breaker'[p] = Entered(b, c) /\ pc'[c] = "running"
    BY <1>1, <1>5 DEF Attempt, Goto, Invariant, TypeOK
  <2>3. Runs(p)' = Runs(p) \cup {c}
    BY <1>1, <1>3, <1>5, <2>2 DEF Runs, At
  <2>4. /\ Gate(Entered(b, c)) = [Gate(now) EXCEPT !.counted = @ \cup {c}]
        /\ \/ now.state = "closed"
           \/ /\ now.state = "half-open"
              /\ Cardinality(now.calls) + now.succs < MaxRequests
    BY <1>2, <1>5, <2>1, EnteredOK
  <2> HIDE DEF now, b
  <2>5. \A S : Contract(p)!Cardinality(S) = Cardinality(S)
    BY DEF Contract!Cardinality, Cardinality
  <2>6. Contract(p)!Admits(Gate(now))
    BY <1>2, <2>4, <2>5 DEF Contract!Admits
  <2>7. Gate(breaker[p])' = [Gate(now) EXCEPT !.counted = @ \cup {c}]
    BY <2>2, <2>4 DEF Gate
  <2> QED BY <1>2, <2>1, <2>3, <2>6, <2>7 DEF Contract!Next, Contract!Begin, Runs
<1>6. CASE At(c) = p /\ Refuses(b)
  <2>1. breaker'[p] = now /\ pc'[c] = "failed"
    BY <1>1, <1>6 DEF Attempt, Goto, Invariant, TypeOK
  <2>2. Runs(p)' = Runs(p)
    BY <1>1, <1>3, <2>1, RunsKept
  <2>3. Gate(breaker[p])' = Gate(now)
    BY <2>1 DEF Gate
  <2> QED BY <1>2, <2>2, <2>3 DEF Contract!Next, Contract!Look, Runs
<1> QED BY <1>4, <1>5, <1>6

\* An operation ends at one breaker.
LEMMA EndContract ==
  ASSUME Invariant, NEW c \in Callers, NEW how \in {"ok", "error", "cancelled", "panic"},
         End(c, how), NEW p \in Providers
  PROVE  Contract(p)!Next \/ UNCHANGED Contract(p)!vars
<1> DEFINE b   == breaker[p]
           now == Current(b)
           ok  == how = "ok"
<1>1. /\ pc[c] = "running" /\ At(c) \in Providers /\ index' = index
      /\ breaker \in [Providers -> Breakers(Callers)]
      /\ breaker' = [breaker EXCEPT ![At(c)] = Left(@, c, ok)]
  BY AtProvider DEF End, Goto, Invariant, TypeOK, InList
<1>2. /\ IsFiniteSet(Callers) /\ b \in Breakers(Callers) /\ BreakerInv(b)
      /\ Gate(now) \in Contract(p)!Found
      /\ \A state \in States : Gate(NewGeneration(state)) = Contract(p)!Fresh(state)
      /\ Gate(now) = [phase |-> now.state, counted |-> now.calls, wins |-> now.succs]
  BY CurrentIsFound DEF Gate
<1>3. \A d \in Callers : /\ d # c => pc'[d] = pc[d]
                         /\ pc'[c] # "running"
  BY DEF End, Goto, Invariant, TypeOK
<1>4. CASE At(c) # p
  <2>1. breaker'[p] = b
    BY <1>1, <1>4
  <2>2. Runs(p)' = Runs(p)
    BY <1>1, <1>3, <1>4 DEF Runs, At
  <2> QED BY <2>1, <2>2 DEF Contract!vars, Runs, Gate
<1>5. CASE At(c) = p
  <2> DEFINE rest == [Gate(now) EXCEPT !.counted = @ \ {c}]
  <2>1. c \in Runs(p) /\ Runs(p)' = Runs(p) \ {c} /\ breaker'[p] = Left(b, c, ok)
    BY <1>1, <1>3, <1>5 DEF Runs, At
  <2> HIDE DEF ok
  <2>2. ok \in BOOLEAN
    BY DEF ok
  <2>3. /\ c \notin now.calls => Left(b, c, ok) = now
        /\ c \in now.calls =>
             \/ ~ok /\ Left(b, c, ok) = NewGeneration("open")
             \/ /\ now.state = "closed"
                /\ Gate(Left(b, c, ok)) = [phase |-> "closed", counted |-> now.calls \ {c},
                                           wins |-> now.succs]
             \/ /\ now.state = "half-open" /\ ok
                /\ IF now.succs + 1 = MaxRequests
                   THEN Left(b, c, ok) = NewGeneration("closed")
                   ELSE Gate(Left(b, c, ok)) = [phase |-> "half-open", wins |-> now.succs + 1,
                                                counted |-> now.calls \ {c}]
    BY <1>2, <2>2, LeftGate
  <2>4. Gate(breaker[p])' = Gate(Left(b, c, ok))
    BY <2>1 DEF Gate
  <2> HIDE DEF now, b
  <2>5. rest = [phase |-> now.state, counted |-> now.calls \ {c}, wins |-> now.succs]
    BY <1>2
  <2>6. Contract(p)!End(c, ok)
    <3>1. CASE c \notin now.calls
      BY <1>2, <2>1, <2>3, <2>4, <3>1 DEF Contract!End, Runs
    <3>2. CASE c \in now.calls
      <4>1. Contract(p)!Decide(rest, ok)
        <5> HIDE DEF rest
        <5> QED BY <1>2, <2>3, <2>4, <2>5, <3>2 DEF Contract!Decide, States
      <4>2. c \in Gate(now).counted
        BY <1>2, <3>2
      <4> QED BY <1>2, <2>1, <4>1, <4>2 DEF Contract!End, Runs
    <3> QED BY <3>1, <3>2
  <2> QED BY <2>2, <2>6 DEF Contract!Next
<1> QED BY <1>4, <1>5

\* What is left alone, or only looked at.
LEMMA LookContract ==
  ASSUME Invariant, NEW p \in Providers, Runs(p)' = Runs(p),
         \/ Gate(breaker[p])' = Gate(breaker[p])
         \/ breaker'[p] = Current(breaker[p])
  PROVE  Contract(p)!Next \/ UNCHANGED Contract(p)!vars
<1>1. CASE Gate(breaker[p])' = Gate(breaker[p])
  BY <1>1 DEF Contract!vars, Runs
<1>2. CASE breaker'[p] = Current(breaker[p])
  <2>1. Gate(breaker[p])' = Gate(Current(breaker[p]))
    BY <1>2 DEF Gate
  <2> QED BY <2>1, CurrentIsFound DEF Contract!Next, Contract!Look, Runs
<1> QED BY <1>1, <1>2

\* The breaker of every provider keeps its contract, for any callers, prompts and
\* preferences, although operations are cancelled, fail over to other providers
\* and end late.
THEOREM ManagerKeepsContracts == Spec => BreakersKeepContract
<1>1. Init => \A p \in Providers : Contract(p)!Init
  <2> SUFFICES ASSUME Init, NEW p \in Providers PROVE Contract(p)!Init
    OBVIOUS
  <2>1. breaker[p] = NewGeneration("closed") /\ Runs(p) = {}
    BY DEF Init, Runs
  <2> QED BY <2>1 DEF Contract!Init, Contract!Fresh, NewGeneration, Gate, Runs
<1>2. Invariant /\ [Next]_vars
        => [\A p \in Providers : UNCHANGED Contract(p)!vars \/ Contract(p)!Next]_vars
  <2> SUFFICES ASSUME Invariant, [Next]_vars, NEW p \in Providers
               PROVE  Contract(p)!Next \/ UNCHANGED Contract(p)!vars
    OBVIOUS
  <2>1. ASSUME NEW c \in Callers, Attempt(c) PROVE Contract(p)!Next \/ UNCHANGED Contract(p)!vars
    BY <2>1, AttemptContract
  <2>2. ASSUME NEW c \in Callers, NEW how \in {"ok", "error", "cancelled", "panic"}, End(c, how)
        PROVE  Contract(p)!Next \/ UNCHANGED Contract(p)!vars
    BY <2>2, EndContract
  <2>3. ASSUME NEW c \in Callers, AfterFailure(c)
        PROVE  Contract(p)!Next \/ UNCHANGED Contract(p)!vars
    <3>1. /\ pc[c] = "failed" /\ pc'[c] # "running"
          /\ \A d \in Callers \ {c} : pc'[d] = pc[d] /\ index'[d] = index[d]
          /\ breaker \in [Providers -> Breakers(Callers)]
          /\ breaker' = [breaker EXCEPT ![At(c)] = Current(breaker[At(c)])]
      BY <2>3 DEF AfterFailure, Invariant, TypeOK
    <3>2. Runs(p)' = Runs(p)
      BY <3>1, RunsKept
    <3>3. breaker'[p] = breaker[p] \/ breaker'[p] = Current(breaker[p])
      BY <3>1
    <3> QED BY <3>2, <3>3, LookContract DEF Gate
  <2>4. CASE \/ \E c \in Callers, q \in Prompts : Lead(c, q) \/ Join(c, q)
             \/ \E c \in Callers : Choose(c) \/ GiveUp(c) \/ Finish(c) \/ Deliver(c) \/ Cancel(c)
             \/ \E k \in Checkers, q \in Providers, ok \in BOOLEAN : CheckAnswered(k, q, ok)
             \/ \E k \in Checkers : CheckRecorded(k)
             \/ UNCHANGED vars
    <3>1. UNCHANGED breaker
      BY <2>4 DEF Lead, Join, Choose, GiveUp, Finish, Deliver, Cancel, CheckAnswered,
                  CheckRecorded, vars
    <3>2. \A d \in Callers : /\ pc'[d] = "running" <=> pc[d] = "running"
                             /\ pc[d] = "running" => index'[d] = index[d]
      BY <2>4 DEF Lead, Join, Choose, GiveUp, Finish, Deliver, Cancel, CheckAnswered,
                  CheckRecorded, vars, callVars, Goto, Invariant, TypeOK
    <3>3. Runs(p)' = Runs(p)
      BY <3>2, RunsKept
    <3> QED BY <3>1, <3>3, LookContract DEF Gate
  <2>5. ASSUME NEW q \in Providers, Expire(q)
        PROVE  Contract(p)!Next \/ UNCHANGED Contract(p)!vars
    <3>1. /\ breaker \in [Providers -> Breakers(Callers)] /\ BreakerInv(breaker[q])
          /\ MayExpire(breaker[q])
          /\ breaker' = [breaker EXCEPT ![q] = [breaker[q] EXCEPT !.expired = TRUE]]
          /\ UNCHANGED <<pc, index>>
      BY <2>5 DEF Expire, Invariant, TypeOK, BreakersServe, callVars
    <3>2. Gate(breaker[p])' = Gate(breaker[p])
      BY <3>1, ExpiredOK DEF Gate
    <3>3. Runs(p)' = Runs(p)
      BY <3>1, RunsKept
    <3> QED BY <3>2, <3>3, LookContract
  <2> QED BY <2>1, <2>2, <2>3, <2>4, <2>5 DEF Next, Step, EndSomehow
<1> QED BY <1>1, <1>2, ManagerInvariance, PTL DEF Spec, BreakersKeepContract
=============================================================================
