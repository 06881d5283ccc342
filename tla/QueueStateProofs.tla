-------------------------- MODULE QueueStateProofs --------------------------
(***************************************************************************)
(* Proofs about QueueState: for every set of savers, OnlyKnownLimits; and, *)
(* as long as the ticker is the only saver, as server.go uses the queue,   *)
(* the consistency of the state file.                                      *)
(***************************************************************************)
EXTENDS QueueState, TLAPS

\* Every size a saver or a file holds has been in force.
Provenance == /\ {InitialSize, maxSize} \subseteq inForce
              /\ \A s \in Savers : captured[s] \in inForce
              /\ live.kind = "whole" => live.size \in inForce
              /\ tmp.kind = "whole" => tmp.size \in inForce

\* The text of a file is written from sizes that are numbers.
LEMMA OverwriteType ==
  ASSUME NEW file \in Files, NEW size \in Limits, NEW new \in Overwrite(file, size)
  PROVE  new \in Files /\ (new.kind = "whole" => new.size = size)
BY DEF Overwrite, Files, Whole, Torn

\* The values of the variables have the code's types in every state.
THEOREM QueueStateTypeCorrect == Spec => []TypeOK
<1> USE DEF TypeOK, Limits, SaverStates, Savers, Goto, files, processVars, saverVars
<1>1. Init => TypeOK
  <2> SUFFICES ASSUME Init PROVE TypeOK
    OBVIOUS
  <2>1. up \in BOOLEAN /\ tick \in BOOLEAN /\ done \in BOOLEAN /\ final \in BOOLEAN
    BY DEF Init
  <2>2. maxSize \in Limits /\ captured \in [Savers -> Limits] /\ inForce \subseteq Limits
    BY DEF Init
  <2>3. live \in Files /\ tmp \in Files
    BY DEF Init, Absent, Files
  <2>4. /\ pc \in [Savers -> SaverStates]
        /\ fd \in [Savers -> {"none", "tmp", "live", "orphan"}]
    BY DEF Init
  <2>5. crashes \in 0..MaxCrashes /\ faults \in 0..MaxFaults
    BY BoundsAssumption DEF Init, BoundsAssumption
  <2> QED BY <2>1, <2>2, <2>3, <2>4, <2>5
<1>2. TypeOK /\ [Next]_vars => TypeOK'
  <2> SUFFICES ASSUME TypeOK, [Next]_vars PROVE TypeOK'
    OBVIOUS
  <2>1. ASSUME NEW s \in Setters, NEW size \in Sizes, SetMaxSize(s, size) PROVE TypeOK'
    BY <2>1 DEF SetMaxSize
  <2>2. CASE Timer \/ Tick \/ FinalSave
    BY <2>2 DEF Timer, Tick, FinalSave
  <2>3. ASSUME NEW c \in Closers, BeginShutdown(c) \/ \E d \in BOOLEAN : EndPolling(c, d)
        PROVE  TypeOK'
    BY <2>3 DEF BeginShutdown, EndPolling
  <2>4. ASSUME NEW s \in Savers, Save(s) \/ Fault(s) PROVE TypeOK'
    <3>1. CASE Capture(s)
      BY <3>1 DEF Capture
    <3>2. CASE Open(s)
      BY <3>2 DEF Open, Empty, Files
    <3>3. CASE Write(s)
      <4>1. tmp' \in Files /\ live' \in Files
        BY <3>3, OverwriteType DEF Write
      <4> QED BY <3>3, <4>1 DEF Write
    <3>4. CASE Rename(s)
      <4>1. Absent \in Files
        BY DEF Absent, Files
      <4>2. pc' \in [Savers -> SaverStates]
        BY <3>4 DEF Rename, AfterSave
      <4>3. fd' \in [Savers -> {"none", "tmp", "live", "orphan"}]
        BY <3>4 DEF Rename, Renamed
      <4> QED BY <3>4, <4>1, <4>2, <4>3 DEF Rename
    <3>5. CASE Fault(s)
      BY <3>5, BoundsAssumption DEF Fault, AfterSave, BoundsAssumption
    <3> QED BY <2>4, <3>1, <3>2, <3>3, <3>4, <3>5 DEF Save
  <2>5. CASE Crash
    <3>1. crashes' \in 0..MaxCrashes
      BY <2>5, BoundsAssumption DEF Crash, BoundsAssumption
    <3>2. /\ pc' \in [Savers -> SaverStates]
          /\ fd' \in [Savers -> {"none", "tmp", "live", "orphan"}]
      BY <2>5 DEF Crash
    <3> QED BY <2>5, <3>1, <3>2 DEF Crash
  <2>6. CASE Restart
    <3>1. Loaded(live) \in Limits
      BY DEF Loaded, Files, Whole, Absent, Empty, Torn
    <3> QED BY <2>6, <3>1 DEF Restart
  <2>7. CASE UNCHANGED vars
    BY <2>7 DEF vars
  <2> QED BY <2>1, <2>2, <2>3, <2>4, <2>5, <2>6, <2>7 DEF Next
<1> QED BY <1>1, <1>2, PTL DEF Spec

\* Whatever savers race, fail or are cut off, a restart finds a limit that
\* was in force, or none.
THEOREM KnownLimits == Spec => []OnlyKnownLimits
<1>1. Init => Provenance
  BY DEF Init, Provenance, Absent
<1>2. TypeOK /\ Provenance /\ [Next]_vars => Provenance'
  <2> SUFFICES ASSUME TypeOK, Provenance, [Next]_vars PROVE Provenance'
    OBVIOUS
  <2> USE DEF Provenance, files, processVars, saverVars
  <2>1. ASSUME NEW s \in Setters, NEW size \in Sizes, SetMaxSize(s, size)
        PROVE  Provenance'
    BY <2>1 DEF SetMaxSize
  <2>2. CASE Timer \/ Tick \/ FinalSave
    BY <2>2 DEF Timer, Tick, FinalSave
  <2>3. ASSUME NEW c \in Closers, BeginShutdown(c) \/ \E d \in BOOLEAN : EndPolling(c, d)
        PROVE  Provenance'
    BY <2>3 DEF BeginShutdown, EndPolling
  <2>4. ASSUME NEW s \in Savers, Save(s) \/ Fault(s) PROVE Provenance'
    <3>1. CASE Capture(s)
      BY <3>1 DEF Capture, TypeOK
    <3>2. CASE Open(s)
      BY <3>2 DEF Open, Empty
    <3>3. CASE Write(s)
      <4>1. captured[s] \in Limits
        BY DEF TypeOK
      <4>2. /\ tmp'.kind = "whole" => tmp'.size \in inForce
            /\ live'.kind = "whole" => live'.size \in inForce
        BY <3>3, <4>1, OverwriteType DEF Write, TypeOK
      <4> QED BY <3>3, <4>2 DEF Write
    <3>4. CASE Rename(s)
      BY <3>4 DEF Rename, Absent
    <3>5. CASE Fault(s)
      BY <3>5 DEF Fault
    <3> QED BY <2>4, <3>1, <3>2, <3>3, <3>4, <3>5 DEF Save
  <2>5. CASE Crash
    BY <2>5 DEF Crash
  <2>6. CASE Restart
    BY <2>6 DEF Restart, Loaded
  <2>7. CASE UNCHANGED vars
    BY <2>7 DEF vars
  <2> QED BY <2>1, <2>2, <2>3, <2>4, <2>5, <2>6, <2>7 DEF Next
<1>3. Provenance => OnlyKnownLimits
  BY DEF Provenance, OnlyKnownLimits, Loaded
<1> QED BY <1>1, <1>2, <1>3, QueueStateTypeCorrect, PTL DEF Spec

-----------------------------------------------------------------------------
(***************************************************************************)
(* The ticker alone.  TickerFileConsistent is not inductive: the temporary *)
(* file must be known to be whole when it is renamed, the routine's        *)
(* descriptor must be on a file that was just truncated, and a saver that  *)
(* has begun must never look as if it had not.                             *)
(***************************************************************************)
OneSaver == /\ live.kind \in {"absent", "whole"}
            /\ fd[Routine] \in {"none", "tmp"}
            /\ pc[Routine] = "write" => fd[Routine] = "tmp" /\ tmp.kind = "empty"
            /\ pc[Routine] = "rename" => fd[Routine] = "none" /\ tmp.kind = "whole"

\* Another saver that has begun is never counted out again, and none begins
\* or goes on in a step after which the ticker is alone.
LEMMA OthersQuiet ==
  ASSUME TypeOK, [Next]_vars, TickerAlone'
  PROVE  /\ TickerAlone
         /\ \A s \in Setters \cup Closers : ~(Save(s) \/ Fault(s))
         /\ \A s \in Setters, size \in Sizes : ~SetMaxSize(s, size)
<1> USE SaversAssumption DEF SaversAssumption, TickerAlone, TypeOK, Savers, Goto,
                             processVars, saverVars
<1>1. ASSUME NEW s \in Savers, Save(s) \/ Fault(s)
      PROVE  /\ pc'[s] \notin {"ready", "polling"} \/ s = Routine
             /\ pc[s] \notin {"ready", "polling"}
             /\ \A x \in Savers \ {s} : pc'[x] = pc[x]
  BY <1>1 DEF Save, Capture, Open, Write, Rename, Fault, AfterSave
<1>2. ASSUME NEW s \in Setters, NEW size \in Sizes, SetMaxSize(s, size) PROVE FALSE
  <2>1. pc'[s] = "capture"
    BY <1>2 DEF SetMaxSize
  <2> QED BY <2>1
<1>3. TickerAlone
  <2>1. CASE Timer \/ Tick \/ FinalSave
    BY <2>1 DEF Timer, Tick, FinalSave
  <2>2. ASSUME NEW c \in Closers, BeginShutdown(c) \/ \E d \in BOOLEAN : EndPolling(c, d)
        PROVE  TickerAlone
    <3>1. pc[c] \in {"ready", "polling"} /\ \A x \in Savers \ {c} : pc'[x] = pc[x]
      BY <2>2 DEF BeginShutdown, EndPolling
    <3> QED BY <3>1
  <2>3. ASSUME NEW s \in Savers, Save(s) \/ Fault(s) PROVE TickerAlone
    BY <1>1, <2>3
  <2>4. CASE Crash
    BY <2>4 DEF Crash
  <2>5. CASE Restart \/ UNCHANGED vars
    BY <2>5 DEF Restart, vars
  <2> QED BY <1>2, <2>1, <2>2, <2>3, <2>4, <2>5 DEF Next
<1>4. ASSUME NEW s \in Setters \cup Closers, Save(s) \/ Fault(s) PROVE FALSE
  BY <1>1, <1>3, <1>4
<1> QED BY <1>2, <1>3, <1>4

\* As long as the ticker is the only saver, the state file is whole or absent
\* in every state, through crashes and failing file operations.
THEOREM TickerKeepsFileConsistent == Spec => []TickerFileConsistent
<1> USE DEF Savers, files, processVars, saverVars
<1>1. Init => OneSaver
  BY DEF Init, Absent, OneSaver
<1>2. TypeOK /\ (TickerAlone => OneSaver) /\ [Next]_vars => (TickerAlone => OneSaver)'
  <2> SUFFICES ASSUME TypeOK, TickerAlone => OneSaver, [Next]_vars, TickerAlone'
               PROVE  OneSaver'
    OBVIOUS
  <2>0. OneSaver
    BY OthersQuiet
  <2> USE <2>0, SaversAssumption DEF OneSaver, TypeOK, Goto, SaversAssumption
  <2>1. CASE Timer \/ Tick \/ FinalSave
    BY <2>1 DEF Timer, Tick, FinalSave
  <2>2. CASE Capture(Routine) \/ Open(Routine)
    BY <2>2 DEF Capture, Open, Empty
  <2>3. CASE Write(Routine)
    <3>1. fd[Routine] = "tmp" /\ tmp.kind = "empty" /\ live' = live
      BY <2>3 DEF Write
    <3>2. tmp' = Whole(captured[Routine])
      BY <2>3, <3>1 DEF Write, Overwrite
    <3> QED BY <2>3, <3>1, <3>2 DEF Write, Whole
  <2>4. CASE Rename(Routine)
    BY <2>4 DEF Rename, Renamed, AfterSave, Absent
  <2>5. CASE Fault(Routine)
    BY <2>5 DEF Fault, AfterSave
  <2>6. CASE Crash \/ Restart
    BY <2>6 DEF Crash, Restart
  <2>7. ASSUME NEW c \in Closers, BeginShutdown(c) \/ \E d \in BOOLEAN : EndPolling(c, d)
        PROVE  OneSaver'
    <3>1. pc'[Routine] = pc[Routine] /\ UNCHANGED <<fd, files>>
      BY <2>7 DEF BeginShutdown, EndPolling
    <3> QED BY <3>1
  <2>8. CASE UNCHANGED vars
    BY <2>8 DEF vars
  <2>9. Next => \/ Timer \/ Tick \/ FinalSave
                \/ Save(Routine) \/ Fault(Routine) \/ Crash \/ Restart
                \/ \E c \in Closers : BeginShutdown(c) \/ \E d \in BOOLEAN : EndPolling(c, d)
    BY OthersQuiet DEF Next
  <2> QED BY <2>1, <2>2, <2>3, <2>4, <2>5, <2>6, <2>7, <2>8, <2>9 DEF Save
<1>3. (TickerAlone => OneSaver) => TickerFileConsistent
  BY DEF OneSaver, TickerFileConsistent
<1> QED BY <1>1, <1>2, <1>3, QueueStateTypeCorrect, PTL DEF Spec

-----------------------------------------------------------------------------
(***************************************************************************)
(* What the races of StateFileConsistent need.  Any number of savers keep  *)
(* the file whole, through crashes and failing operations, as long as no   *)
(* two of them are between the opening of the temporary file and the       *)
(* renaming at once, which a mutex around these operations would ensure:   *)
(* the temporary file that a crash or an error leaves behind is harmless,  *)
(* because the next saver truncates it.                                    *)
(***************************************************************************)
UsingTmp == {s \in Savers : pc[s] \in {"write", "rename"}}

Serial == \A s, x \in UsingTmp : s = x

\* What a saver that uses the temporary file alone relies on.
SerialInv == /\ StateFileConsistent
             /\ \A s \in Savers :
                   /\ pc[s] = "write" => fd[s] = "tmp" /\ tmp.kind = "empty"
                   /\ pc[s] # "write" => fd[s] = "none"
                   /\ pc[s] = "rename" => tmp.kind = "whole"

\* The state file is absent or whole in every state of a behaviour in which
\* the savers take turns.
THEOREM SerialSavesKeepFileConsistent == Spec /\ []Serial => []StateFileConsistent
<1> USE DEF files, processVars, saverVars
<1>1. Init => SerialInv
  BY DEF Init, Absent, SerialInv, StateFileConsistent
<1>2. TypeOK /\ SerialInv /\ Serial /\ Serial' /\ [Next]_vars => SerialInv'
  <2> SUFFICES ASSUME TypeOK, SerialInv, Serial, Serial', [Next]_vars PROVE SerialInv'
    OBVIOUS
  <2> USE DEF SerialInv, StateFileConsistent, TypeOK, Goto
  <2>1. ASSUME NEW s \in Setters, NEW size \in Sizes, SetMaxSize(s, size)
        PROVE  SerialInv'
    BY <2>1 DEF SetMaxSize, Savers
  <2>2. CASE Timer \/ Tick \/ FinalSave
    BY <2>2 DEF Timer, Tick, FinalSave, Savers
  <2>3. ASSUME NEW c \in Closers, BeginShutdown(c) \/ \E d \in BOOLEAN : EndPolling(c, d)
        PROVE  SerialInv'
    BY <2>3 DEF BeginShutdown, EndPolling, Savers
  <2>4. ASSUME NEW s \in Savers, Save(s) \/ Fault(s) PROVE SerialInv'
    \* Whoever else is there does not use the temporary file.
    <3>1. s \in UsingTmp => \A x \in Savers \ {s} : pc[x] \notin {"write", "rename"}
      BY DEF Serial, UsingTmp
    <3>2. CASE Capture(s)
      BY <3>2 DEF Capture
    <3>3. CASE Open(s)
      <4>1. pc' = [pc EXCEPT ![s] = "write"] /\ fd' = [fd EXCEPT ![s] = "tmp"]
        BY <3>3 DEF Open
      <4>2. \A x \in Savers \ {s} : pc'[x] \notin {"write", "rename"}
        BY <4>1 DEF Serial, UsingTmp
      <4> QED BY <3>3, <4>1, <4>2 DEF Open, Empty
    <3>4. CASE Write(s)
      <4>1. fd[s] = "tmp" /\ tmp.kind = "empty" /\ s \in UsingTmp
        BY <3>4 DEF Write, UsingTmp
      <4>2. live' = live /\ tmp' = Whole(captured[s])
        BY <3>4, <4>1 DEF Write, Overwrite
      <4> QED BY <3>1, <3>4, <4>1, <4>2 DEF Write, Whole
    <3>5. CASE Rename(s)
      <4>1. s \in UsingTmp /\ tmp.kind = "whole" /\ fd[s] = "none"
        BY <3>5 DEF Rename, UsingTmp
      <4>2. \A x \in Savers : fd[x] = "none"
        BY <3>1, <4>1
      <4>3. live' = tmp /\ tmp' = Absent /\ \A x \in Savers : fd'[x] = "none"
        BY <3>5, <4>1, <4>2 DEF Rename, Renamed
      <4>4. pc' = [pc EXCEPT ![s] = AfterSave(s)] /\ AfterSave(s) \in {"ready", "over"}
        BY <3>5 DEF Rename, AfterSave
      <4> QED BY <3>1, <4>1, <4>3, <4>4
    <3>6. CASE Fault(s)
      BY <3>6 DEF Fault, AfterSave
    <3> QED BY <2>4, <3>2, <3>3, <3>4, <3>5, <3>6 DEF Save
  <2>5. CASE Crash
    BY <2>5 DEF Crash
  <2>6. CASE Restart
    BY <2>6 DEF Restart
  <2>7. CASE UNCHANGED vars
    BY <2>7 DEF vars
  <2> QED BY <2>1, <2>2, <2>3, <2>4, <2>5, <2>6, <2>7 DEF Next
<1>3. SerialInv => StateFileConsistent
  BY DEF SerialInv
<1> QED BY <1>1, <1>2, <1>3, QueueStateTypeCorrect, PTL DEF Spec
=============================================================================
