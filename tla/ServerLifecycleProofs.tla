------------------------ MODULE ServerLifecycleProofs ------------------------
(***************************************************************************)
(* Proofs about ServerLifecycle, for any configurations and any number of  *)
(* reloads: types, that no server of an older generation listens, and that *)
(* the server is built from the stored configuration when all has settled. *)
(***************************************************************************)
EXTENDS ServerLifecycle, TLAPS

\* The variables hold values of the code's types: the references, the
\* servers and the calls are all of generations that were built.
THEOREM LifecycleTypeCorrect == Spec => []TypeOK
<1> USE ConfigsAssumption, WritesAssumption, LifecycleAssumption
    DEF ConfigsAssumption, WritesAssumption, LifecycleAssumption, Protocols,
        Generations, Servers
<1>1. Init => TypeOK
  <2> SUFFICES ASSUME Init PROVE TypeOK
    OBVIOUS
  <2>1. WatcherTypeOK
    <3>1. file \in Configs \cup {Invalid} /\ current \in Configs
      BY DEF Init, WatcherInit
    <3>2. writes \in 0..MaxWrites /\ events \in Nat
      BY DEF Init, WatcherInit
    <3>3. sending = <<>> /\ channel = <<>> /\ subscribed = FALSE /\ missed = FALSE
      BY DEF Init, WatcherInit
    <3> QED BY <3>1, <3>2, <3>3 DEF WatcherTypeOK
  <2>2. built \in Seq(Configs) /\ Len(built) = 0
    BY DEF Init
  <2>3. ref \in [Protocols -> 0..Len(built)]
    BY <2>2 DEF Init
  <2>4. /\ listening = {} /\ closed = {} /\ calls = {} /\ toClose = {}
        /\ start \in StartStates /\ owed \in Int
        /\ handle \in HandleStates /\ applying \in Configs
    BY DEF Init, StartStates, HandleStates
  <2>5. /\ running \in BOOLEAN /\ lookup \in BOOLEAN /\ failed \in BOOLEAN
        /\ cancelled \in BOOLEAN /\ crashed \in BOOLEAN /\ skipped \in BOOLEAN
    BY DEF Init
  <2> QED BY <2>1, <2>2, <2>3, <2>4, <2>5 DEF TypeOK
<1>2. TypeOK /\ [Next]_vars => TypeOK'
  <2> SUFFICES ASSUME TypeOK, [Next]_vars PROVE TypeOK'
    OBVIOUS
  <2> USE DEF TypeOK, watcherVars, serverVars, startVars, updateVars
  <2>1. ASSUME UNCHANGED <<serverVars, startVars, updateVars>>, WatcherTypeOK'
        PROVE  TypeOK'
    BY <2>1
  <2>2. ASSUME NEW content \in Configs \cup {Invalid}, Apart(WriteFile(content))
        PROVE  TypeOK'
    BY <2>1, <2>2 DEF Apart, WriteFile, WatcherTypeOK
  <2>3. CASE Apart(Load)
    BY <2>1, <2>3 DEF Apart, Load, WatcherTypeOK
  <2>4. CASE Apart(Notify)
    BY <2>1, <2>4 DEF Apart, Notify, WatcherTypeOK
  <2>5. ASSUME NEW config \in Configs, updateServerConfig(config)
        PROVE  /\ built' \in Seq(Configs)
               /\ Len(built') = Len(built) + 1
               /\ ref' \in [Protocols -> 0..Len(built')]
               /\ Servers \subseteq Servers'
               /\ {"Start", "Updater"} \X Generations \X Protocols
                    \subseteq ({"Start", "Updater"} \X Generations \X Protocols)'
    BY <2>5 DEF updateServerConfig
  <2>6. CASE NewServer
    <3>1. CASE built = <<>> /\ updateServerConfig(current)
               /\ UNCHANGED <<watcherVars, startVars, updateVars>>
      <4>1. current \in Configs
        BY DEF WatcherTypeOK
      <4>2. listening' = listening /\ closed' = closed /\ calls' = calls
        BY <3>1 DEF updateServerConfig
      <4> QED BY <3>1, <4>1, <4>2, <2>5 DEF WatcherTypeOK
    <3>2. CASE Subscribe /\ UNCHANGED <<serverVars, startVars, updateVars>>
      BY <3>2, <2>1 DEF Subscribe, WatcherTypeOK
    <3> QED BY <2>6, <3>1, <3>2 DEF NewServer
  <2>7. CASE Update
    <3>1. ASSUME NEW ok \in BOOLEAN, Receive(ok) PROVE TypeOK'
      BY <3>1 DEF Receive, Received, WatcherTypeOK, HandleStates
    <3>2. CASE StopOld
      <4>1. {<<ref[p], p>> : p \in Referenced} \subseteq Servers
        BY DEF Referenced
      <4> QED BY <3>2, <4>1 DEF StopOld, Close, WatcherTypeOK, HandleStates
    <3>3. CASE BuildNew
      <4>1. listening' = listening /\ closed' = closed /\ calls' = calls
        BY <3>3 DEF BuildNew, updateServerConfig
      <4> QED BY <3>3, <4>1, <2>5 DEF BuildNew, WatcherTypeOK, HandleStates
    <3>4. CASE StartNew
      <4>1. {<<"Updater", ref[p], p>> : p \in Referenced}
              \subseteq {"Start", "Updater"} \X Generations \X Protocols
        BY DEF Referenced
      <4> QED BY <3>4, <4>1 DEF StartNew, WatcherTypeOK, HandleStates
    <3>5. CASE Waited
      BY <3>5 DEF Waited, WatcherTypeOK, HandleStates
    <3> QED BY <2>7, <3>1, <3>2, <3>3, <3>4, <3>5 DEF Update
  <2>8. CASE Enter
    BY <2>8 DEF Enter, Goto, StartStates, WatcherTypeOK
  <2>9. CASE StartStep
    <3>1. CASE Lookup
      <4>1. calls' \subseteq {"Start", "Updater"} \X Generations \X Protocols
        BY <3>1 DEF Lookup
      <4>2. failed' \in BOOLEAN
        BY <3>1 DEF Lookup
      <4> QED BY <3>1, <4>1, <4>2 DEF Lookup, WatcherTypeOK
    <3>2. CASE StartHTTP3
      BY <3>2 DEF StartHTTP3, Goto, StartStates, WatcherTypeOK
    <3>3. CASE SelectError
      BY <3>3 DEF SelectError, Goto, StartStates, Ends, WatcherTypeOK
    <3>4. CASE SelectDone
      <4>1. {<<ref[p], p>> : p \in {"http"} \cup Referenced} \subseteq Servers \cup {Nil}
        BY DEF Referenced, Nil
      <4> QED BY <3>4, <4>1 DEF SelectDone, Goto, StartStates, WatcherTypeOK
    <3>5. CASE EndStop
      BY <3>5 DEF EndStop, Goto, StartStates, Ends, WatcherTypeOK
    <3>6. CASE Leave
      BY <3>6 DEF Leave, Goto, StartStates, Ends, WatcherTypeOK
    <3> QED BY <2>9, <3>1, <3>2, <3>3, <3>4, <3>5, <3>6 DEF StartStep
  <2>10. ASSUME NEW g \in Generations, NEW p \in Protocols, NEW fails \in BOOLEAN,
                ShutdownOne(g, p, fails)
         PROVE  TypeOK'
    BY <2>10 DEF ShutdownOne, Close, WatcherTypeOK
  <2>11. CASE Cancel
    BY <2>11 DEF Cancel, WatcherTypeOK
  <2>12. ASSUME NEW who \in {"Start", "Updater"}, NEW g \in Generations,
                NEW p \in Protocols, Listen(who, g, p)
         PROVE  TypeOK'
    BY <2>12 DEF Listen, WatcherTypeOK
  <2>13. CASE Dereference
    BY <2>13 DEF Dereference, Nil, WatcherTypeOK
  <2>14. CASE Reject \/ UNCHANGED vars
    BY <2>14 DEF Reject, vars, WatcherTypeOK
  <2> QED BY <2>2, <2>3, <2>4, <2>6, <2>7, <2>8, <2>9, <2>10, <2>11, <2>12, <2>13, <2>14
          DEF Next, Shutdowns, Listens
<1> QED BY <1>1, <1>2, PTL DEF Spec

(***************************************************************************)
(* A server that was called to listen is referred to or shut down.  The    *)
(* references change only when they are nil: while a reload builds, and    *)
(* before NewServer has built.                                             *)
(***************************************************************************)
Reachable == /\ \A e \in listening : ref[e[2]] = e[1]
             /\ \A c \in calls : ref[c[3]] = c[2] \/ <<c[2], c[3]>> \in closed

OrphanInv == /\ NotStopped => Reachable
             /\ handle = "building" => \A p \in Protocols : ref[p] = 0
             /\ built = <<>> => ~subscribed
             /\ ~subscribed => handle = "idle"

\* Once Start has cleared the references it stays so.
LEMMA StoppedForGood == ASSUME [Next]_vars, NotStopped' PROVE NotStopped
<1> USE DEF NotStopped, startVars
<1>1. CASE Leave
  BY <1>1 DEF Leave, Goto, Ends
<1>2. CASE Lookup \/ StartHTTP3 \/ SelectError \/ SelectDone \/ EndStop \/ Enter
  BY <1>2 DEF Lookup, StartHTTP3, SelectError, SelectDone, EndStop, Enter, Goto
<1>3. CASE NewServer \/ Update
  BY <1>3 DEF NewServer, Update, Receive, StopOld, BuildNew, StartNew, Waited
<1>4. CASE start' = start
  BY <1>4
<1>5. ASSUME NEW who \in {"Start", "Updater"}, Listens(who) PROVE start' = start
  BY <1>5 DEF Listens, Listen
<1> QED BY <1>1, <1>2, <1>3, <1>4, <1>5
        DEF Next, Apart, StartStep, Shutdowns, ShutdownOne, Dereference, Cancel, Reject, vars

\* Every server that listens is referred to until Start has stopped, so that
\* no server of a generation before the last reload listens.
THEOREM NoOldServerListens == Spec => []NoOrphan
<1> USE DEF Protocols, Generations, Servers
<1>1. Init => OrphanInv
  BY DEF Init, WatcherInit, OrphanInv, Reachable
<1>2. TypeOK /\ OrphanInv /\ [Next]_vars => OrphanInv'
  <2> SUFFICES ASSUME TypeOK, OrphanInv, [Next]_vars PROVE OrphanInv'
    OBVIOUS
  <2> USE DEF OrphanInv, watcherVars, serverVars, startVars, updateVars
  <2>1. NotStopped' => NotStopped
    BY StoppedForGood
  <2>2. ASSUME UNCHANGED <<built, ref, listening, closed, calls, handle>>,
               subscribed' = subscribed
        PROVE  OrphanInv'
    BY <2>1, <2>2 DEF Reachable
  <2>3. ASSUME NEW content \in Configs \cup {Invalid}, Apart(WriteFile(content))
        PROVE  OrphanInv'
    BY <2>2, <2>3 DEF Apart, WriteFile
  <2>4. CASE Apart(Load) \/ Apart(Notify)
    BY <2>2, <2>4 DEF Apart, Load, Notify
  \* With no reference nothing listens, and every call finds its server closed.
  <2>5. ASSUME NEW config \in Configs, updateServerConfig(config),
               \A p \in Protocols : ref[p] = 0
        PROVE  /\ NotStopped' => Reachable'
               /\ built' # <<>>
    <3>1. built' # <<>>
      BY <2>5 DEF updateServerConfig, TypeOK
    <3>2. ASSUME NotStopped' PROVE Reachable'
      <4>1. Reachable
        BY <2>1, <3>2
      <4>2. listening = {}
        BY <4>1, <2>5 DEF Reachable, TypeOK
      <4>3. \A c \in calls : <<c[2], c[3]>> \in closed
        <5> TAKE c \in calls
        <5>1. c[2] \in Generations /\ c[3] \in Protocols
          BY DEF TypeOK
        <5>2. ref[c[3]] # c[2]
          BY <5>1, <2>5
        <5> QED BY <4>1, <5>2 DEF Reachable
      <4> QED BY <4>2, <4>3, <2>5 DEF updateServerConfig, Reachable
    <3> QED BY <3>1, <3>2
  <2>6. CASE NewServer
    <3>1. CASE /\ built = <<>> /\ updateServerConfig(current)
               /\ UNCHANGED <<watcherVars, startVars, updateVars>>
      <4>1. current \in Configs /\ \A p \in Protocols : ref[p] = 0
        BY <3>1 DEF TypeOK, WatcherTypeOK
      <4> QED BY <3>1, <4>1, <2>5
    <3>2. CASE /\ built # <<>> /\ Subscribe
               /\ UNCHANGED <<serverVars, startVars, updateVars>>
      BY <3>2, <2>1 DEF Subscribe, Reachable
    <3> QED BY <2>6, <3>1, <3>2 DEF NewServer
  <2>7. CASE Update
    <3>1. ASSUME NEW ok \in BOOLEAN, Receive(ok) PROVE OrphanInv'
      BY <3>1, <2>1 DEF Receive, Received, Reachable
    <3>2. CASE StopOld
      <4>1. \A p \in Protocols : ref'[p] = 0
        BY <3>2 DEF StopOld
      <4>2. ASSUME NotStopped' PROVE Reachable'
        <5>1. Reachable
          BY <2>1, <4>2
        <5>2. \A e \in listening : e[2] \in Referenced /\ e = <<ref[e[2]], e[2]>>
          BY <5>1 DEF Reachable, Referenced, TypeOK
        <5>3. listening' = {}
          BY <5>2, <3>2 DEF StopOld, Close
        <5>4. \A c \in calls : <<c[2], c[3]>> \in closed'
          <6> TAKE c \in calls
          <6>1. c[2] \in Generations /\ c[3] \in Protocols
            BY DEF TypeOK
          <6>2. CASE ref[c[3]] = c[2]
            <7>1. c[3] \in Referenced
              BY <6>1, <6>2 DEF Referenced
            <7> QED BY <6>2, <7>1, <3>2 DEF StopOld, Close
          <6>3. CASE <<c[2], c[3]>> \in closed
            BY <6>3, <3>2 DEF StopOld, Close
          <6> QED BY <5>1, <6>2, <6>3 DEF Reachable
        <5> QED BY <5>3, <5>4, <3>2 DEF Reachable, StopOld
      <4> QED BY <3>2, <4>1, <4>2 DEF StopOld
    <3>3. CASE BuildNew
      BY <3>3, <2>5 DEF BuildNew, TypeOK
    <3>4. CASE StartNew
      <4>1. ASSUME NotStopped' PROVE Reachable'
        BY <2>1, <3>4, <4>1 DEF StartNew, Reachable, Referenced
      <4> QED BY <3>4, <4>1 DEF StartNew
    <3>5. CASE Waited
      BY <3>5, <2>1 DEF Waited, Reachable
    <3> QED BY <2>7, <3>1, <3>2, <3>3, <3>4, <3>5 DEF Update
  <2>8. CASE \/ Enter \/ SelectError \/ SelectDone \/ Dereference \/ Leave \/ Cancel
             \/ Reject \/ UNCHANGED vars
    BY <2>8, <2>2 DEF Enter, SelectError, SelectDone, Dereference, Leave, Cancel, Reject, vars
  <2>9. CASE Lookup \/ StartHTTP3
    <3>1. ASSUME NotStopped' PROVE Reachable'
      BY <2>1, <2>9, <3>1 DEF Lookup, StartHTTP3, Reachable
    <3> QED BY <2>9, <3>1 DEF Lookup, StartHTTP3
  <2>10. CASE EndStop
    <3>1. CASE ref' = ref
      BY <2>2, <2>10, <3>1 DEF EndStop
    <3>2. CASE ref' = [p \in Protocols |-> 0] /\ start' = "cleared"
      BY <2>10, <3>2 DEF EndStop, NotStopped
    <3> QED BY <2>10, <3>1, <3>2 DEF EndStop, Goto
  <2>11. ASSUME NEW g \in Generations, NEW p \in Protocols, NEW fails \in BOOLEAN,
                ShutdownOne(g, p, fails)
         PROVE  OrphanInv'
    BY <2>1, <2>11 DEF ShutdownOne, Close, Reachable
  <2>12. ASSUME NEW who \in {"Start", "Updater"}, NEW g \in Generations,
                NEW p \in Protocols, Listen(who, g, p)
         PROVE  OrphanInv'
    <3>1. ASSUME NotStopped' PROVE Reachable'
      <4>1. ref[p] = g \/ <<g, p>> \in closed
        BY <2>1, <2>12, <3>1 DEF Reachable, Listen
      <4> QED BY <2>1, <2>12, <3>1, <4>1 DEF Reachable, Listen
    <3> QED BY <2>12, <3>1 DEF Listen
  <2> QED BY <2>3, <2>4, <2>6, <2>7, <2>8, <2>9, <2>10, <2>11, <2>12
          DEF Next, StartStep, Shutdowns, Listens
<1>3. OrphanInv => NoOrphan
  BY DEF OrphanInv, NoOrphan, Reachable
<1> QED BY <1>1, <1>2, <1>3, LifecycleTypeCorrect, PTL DEF Spec

(***************************************************************************)
(* Unless it was missed, the stored configuration is on its way to the     *)
(* server: it waits to be sent, or is in the channel, or is being applied, *)
(* or the server was built from it.                                        *)
(***************************************************************************)
OnItsWay ==
    /\ channel # <<>> => channel = <<current>>
    /\ channel = <<>> /\ handle \in {"stopping", "building"} => applying = current
    /\ channel = <<>> /\ handle \notin {"stopping", "building"}
         /\ ~skipped /\ NotStopped /\ built # <<>> => built[ref["http"]] = current

NewestInv == /\ subscribed => built # <<>>
             /\ sending # <<>> => sending = <<current>>
             /\ sending = <<>> /\ ~missed => OnItsWay

\* The server has the newest configuration when nothing is under way, unless
\* that could not be sent or its provider not be used.
THEOREM NewestIsBuilt == Spec => []NewestUnlessMissed
<1>1. Init => NewestInv
  BY DEF Init, WatcherInit, NewestInv, OnItsWay
<1>2. TypeOK /\ NewestInv /\ [Next]_vars => NewestInv'
  <2> SUFFICES ASSUME TypeOK, NewestInv, [Next]_vars PROVE NewestInv'
    OBVIOUS
  <2> USE DEF NewestInv, OnItsWay, watcherVars, serverVars, startVars, updateVars
  <2>1. NotStopped' => NotStopped
    BY StoppedForGood
  <2>2. ASSUME UNCHANGED <<current, sending, channel, missed, subscribed>>,
               UNCHANGED <<handle, applying, skipped, built, ref>>
        PROVE  NewestInv'
    BY <2>1, <2>2
  <2>3. ASSUME NEW content \in Configs \cup {Invalid}, Apart(WriteFile(content))
        PROVE  NewestInv'
    BY <2>2, <2>3 DEF Apart, WriteFile
  <2>4. CASE Apart(Load)
    BY <2>1, <2>4 DEF Apart, Load
  <2>5. CASE Apart(Notify)
    BY <2>1, <2>5 DEF Apart, Notify
  \* What is built last is what the server refers to.
  <2>6. ASSUME NEW config \in Configs, updateServerConfig(config)
        PROVE  built' # <<>> /\ built'[ref'["http"]] = config
    BY <2>6 DEF updateServerConfig, TypeOK, Protocols
  <2>7. CASE NewServer
    <3>1. CASE /\ built = <<>> /\ updateServerConfig(current)
               /\ UNCHANGED <<watcherVars, startVars, updateVars>>
      <4>1. current \in Configs
        BY DEF TypeOK, WatcherTypeOK
      <4> QED BY <3>1, <4>1, <2>6
    <3>2. CASE built # <<>> /\ Subscribe /\ UNCHANGED <<serverVars, startVars, updateVars>>
      BY <2>1, <3>2 DEF Subscribe
    <3> QED BY <2>7, <3>1, <3>2 DEF NewServer
  <2>8. CASE Update
    <3>1. ASSUME NEW ok \in BOOLEAN, Receive(ok) PROVE NewestInv'
      <4>1. PICK config \in Configs : channel = <<config>> /\ channel' = <<>> /\ applying' = config
        BY <3>1 DEF Receive, Received
      <4>2. UNCHANGED <<current, sending, missed, subscribed, built, ref, start>>
        BY <3>1 DEF Receive, Received
      <4>3. /\ skipped' = ~ok /\ handle' = IF ok THEN "stopping" ELSE "idle"
            /\ ok \in BOOLEAN
        BY <3>1 DEF Receive
      <4>4. channel # <<>>
        BY <4>1
      <4>5. sending = <<>> /\ ~missed => config = current
        BY <4>1, <4>4
      <4> QED BY <4>1, <4>2, <4>3, <4>5
    <3>2. CASE StopOld
      BY <2>1, <3>2 DEF StopOld
    <3>3. CASE BuildNew
      <4>1. applying \in Configs
        BY DEF TypeOK
      <4> QED BY <2>6, <3>3, <4>1 DEF BuildNew
    <3>4. CASE StartNew \/ Waited
      BY <2>1, <3>4 DEF StartNew, Waited
    <3> QED BY <2>8, <3>1, <3>2, <3>3, <3>4 DEF Update
  <2>9. CASE EndStop
    <3>1. CASE ref' = ref
      BY <2>2, <2>9, <3>1 DEF EndStop
    <3>2. CASE start' = "cleared"
      BY <2>9, <3>2 DEF EndStop, NotStopped
    <3> QED BY <2>9, <3>1, <3>2 DEF EndStop, Goto
  <2>10. CASE \/ Enter \/ Lookup \/ StartHTTP3 \/ SelectError \/ SelectDone
              \/ Dereference \/ Leave \/ Cancel \/ Reject \/ UNCHANGED vars
    BY <2>2, <2>10
    DEF Enter, Lookup, StartHTTP3, SelectError, SelectDone, Dereference, Leave, Cancel,
        Reject, vars
  <2>11. ASSUME NEW g \in Generations, NEW p \in Protocols, NEW fails \in BOOLEAN,
                ShutdownOne(g, p, fails)
         PROVE  NewestInv'
    BY <2>2, <2>11 DEF ShutdownOne
  <2>12. ASSUME NEW who \in {"Start", "Updater"}, NEW g \in Generations,
                NEW p \in Protocols, Listen(who, g, p)
         PROVE  NewestInv'
    BY <2>2, <2>12 DEF Listen
  <2> QED BY <2>3, <2>4, <2>5, <2>7, <2>8, <2>9, <2>10, <2>11, <2>12
          DEF Next, StartStep, Shutdowns, Listens
<1>3. NewestInv => NewestUnlessMissed
  BY DEF NewestInv, OnItsWay, NewestUnlessMissed, Settled
<1> QED BY <1>1, <1>2, <1>3, LifecycleTypeCorrect, PTL DEF Spec

(***************************************************************************)
(* Start finds s.httpServer nil in the window of a reload only: outside of *)
(* it a Server that was built has one, until Start clears the references.  *)
(***************************************************************************)
WindowInv == /\ subscribed => built # <<>>
             /\ start # "idle" => built # <<>>
             /\ built # <<>> /\ NotStopped /\ ref["http"] = 0 => handle = "building"
             /\ crashed => Nil \in toClose

\* A Start that blocks for ever, or whose cancellation ends the process, read
\* a nil reference between a reload's closing of the old servers and its
\* building of the new ones.
THEOREM StartBreaksOnlyInReload == Spec => OnlyReloadsBreakStart
<1>1. Init => WindowInv
  BY DEF Init, WatcherInit, WindowInv
<1>2. TypeOK /\ WindowInv /\ [Next]_vars
        => WindowInv' /\ (~Doomed /\ Doomed' => handle = "building")
  <2> DEFINE Window == ~Doomed /\ Doomed' => handle = "building"
             Same == UNCHANGED <<start, toClose, crashed>>
  <2> SUFFICES ASSUME TypeOK, WindowInv, [Next]_vars PROVE WindowInv' /\ Window
    OBVIOUS
  <2> USE DEF WindowInv, NotStopped, watcherVars, serverVars, startVars, updateVars
  <2>0. Same => Window
    BY DEF Doomed, LockFree
  <2>1. Same /\ UNCHANGED <<built, ref, handle, subscribed>> => WindowInv' /\ Window
    BY <2>0
  <2>2. ASSUME NEW content \in Configs \cup {Invalid}, Apart(WriteFile(content))
        PROVE  WindowInv' /\ Window
    BY <2>1, <2>2 DEF Apart, WriteFile
  <2>3. CASE Apart(Load) \/ Apart(Notify)
    BY <2>1, <2>3 DEF Apart, Load, Notify
  <2>4. ASSUME NEW config \in Configs, updateServerConfig(config)
        PROVE  built' # <<>> /\ ref'["http"] # 0
    BY <2>4 DEF updateServerConfig, TypeOK, Protocols
  <2>5. CASE NewServer
    <3>1. CASE /\ built = <<>> /\ updateServerConfig(current)
               /\ UNCHANGED <<watcherVars, startVars, updateVars>>
      <4>1. current \in Configs
        BY DEF TypeOK, WatcherTypeOK
      <4>2. built' # <<>> /\ ref'["http"] # 0
        BY <2>4, <3>1, <4>1
      <4> QED BY <2>0, <3>1, <4>2
    <3>2. CASE /\ built # <<>> /\ Subscribe
               /\ UNCHANGED <<serverVars, startVars, updateVars>>
      BY <2>0, <3>2 DEF Subscribe
    <3> QED BY <2>5, <3>1, <3>2 DEF NewServer
  <2>6. CASE Update
    <3>1. ASSUME NEW ok \in BOOLEAN, Receive(ok) PROVE WindowInv' /\ Window
      BY <2>0, <3>1 DEF Receive, Received
    <3>2. CASE StopOld
      BY <2>0, <3>2 DEF StopOld
    <3>3. CASE BuildNew
      <4>1. built' # <<>> /\ ref'["http"] # 0
        BY <2>4, <3>3 DEF BuildNew, TypeOK
      <4> QED BY <2>0, <3>3, <4>1 DEF BuildNew
    <3>4. CASE StartNew \/ Waited
      BY <2>0, <3>4 DEF StartNew, Waited
    <3> QED BY <2>6, <3>1, <3>2, <3>3, <3>4 DEF Update
  <2>7. CASE Enter
    <3>1. UNCHANGED <<built, ref, handle, subscribed, toClose, crashed>>
      BY <2>7 DEF Enter
    <3>2. /\ subscribed /\ start = "idle"
          /\ start' \in {"nested", "spawning"} /\ (start' = "nested" => ref["http"] = 0)
      BY <2>7 DEF Enter, Goto
    <3> QED BY <3>1, <3>2 DEF Doomed, LockFree
  <2>8. CASE Alive /\ StartStep
    <3>1. CASE Lookup
      <4>1. Same /\ UNCHANGED <<built, ref, handle, subscribed>>
        BY <3>1 DEF Lookup
      <4> QED BY <2>1, <4>1
    <3>2. CASE StartHTTP3 \/ SelectError
      <4>1. start \in {"spawning", "selecting"} /\ start' \in {"selecting", "erring"}
        BY <3>2 DEF StartHTTP3, SelectError, Goto
      <4>2. UNCHANGED <<built, ref, handle, toClose, crashed, subscribed>>
        BY <3>2 DEF StartHTTP3, SelectError
      <4> QED BY <4>1, <4>2 DEF Doomed, LockFree
    \* The goroutine for HTTP has a nil server only if the reference is nil now.
    <3>3. CASE SelectDone
      <4>1. start = "selecting" /\ start' = "stopping"
        BY <3>3 DEF SelectDone, Goto
      <4>2. UNCHANGED <<built, ref, handle, subscribed, crashed>>
        BY <3>3 DEF SelectDone
      <4>3. Nil \in toClose' <=> ref["http"] = 0
        BY <3>3 DEF SelectDone, Nil, Referenced
      <4> QED BY <2>8, <4>1, <4>2, <4>3 DEF Alive, Doomed, LockFree
    <3>4. CASE EndStop
      <4>1. start = "stopping" /\ UNCHANGED <<built, handle, toClose, crashed, subscribed>>
        BY <3>4 DEF EndStop, Goto
      <4>2. start' = "cleared" \/ (start' = "late" /\ ref' = ref)
        BY <3>4 DEF EndStop, Goto
      <4> QED BY <4>1, <4>2 DEF Doomed, LockFree
    <3>5. CASE Leave
      <4>1. /\ start \notin {"idle", "stopped"} /\ start' \notin {"idle", "nested"}
            /\ start = "cleared" => start' = "stopped"
        BY <3>5 DEF Leave, Goto, Ends
      <4>2. UNCHANGED <<built, ref, handle, toClose, crashed, subscribed>>
        BY <3>5 DEF Leave
      <4> QED BY <4>1, <4>2 DEF Doomed, LockFree
    <3> QED BY <2>8, <3>1, <3>2, <3>3, <3>4, <3>5 DEF StartStep
  <2>9. ASSUME NEW g \in Generations, NEW p \in Protocols, NEW fails \in BOOLEAN,
               ShutdownOne(g, p, fails)
        PROVE  WindowInv' /\ Window
    <3>1. <<g, p>> # Nil
      BY DEF Generations, Nil, TypeOK
    <3>2. Nil \in toClose' <=> Nil \in toClose
      BY <2>9, <3>1 DEF ShutdownOne
    <3>3. UNCHANGED <<built, ref, start, handle, crashed, subscribed>>
      BY <2>9 DEF ShutdownOne
    <3> QED BY <3>2, <3>3 DEF Doomed, LockFree
  <2>10. ASSUME NEW who \in {"Start", "Updater"}, NEW g \in Generations,
                NEW p \in Protocols, Listen(who, g, p)
         PROVE  WindowInv' /\ Window
    BY <2>1, <2>10 DEF Listen
  <2>11. CASE Dereference
    BY <2>11 DEF Dereference, Doomed
  <2>12. CASE Cancel \/ Reject \/ UNCHANGED vars
    BY <2>1, <2>12 DEF Cancel, Reject, vars
  <2> QED BY <2>2, <2>3, <2>5, <2>6, <2>7, <2>8, <2>9, <2>10, <2>11, <2>12
          DEF Next, Shutdowns, Listens
<1> QED BY <1>1, <1>2, LifecycleTypeCorrect, PTL DEF Spec, OnlyReloadsBreakStart
=============================================================================
