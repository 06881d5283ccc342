----------------------------- MODULE QueueState -----------------------------
(***************************************************************************)
(* How server/middleware/queue.go keeps the queue's limit across restarts: *)
(* saveState, called by the ticker routine, by a goroutine of each         *)
(* SetMaxSize and by Shutdown, with no lock around the file operations;    *)
(* loadState; and a process that may stop at any moment.                   *)
(*                                                                         *)
(* Every saver writes the same temporary file.  Only what is distinguished *)
(* by loadState is kept of a file's text: whether it is there, empty, the  *)
(* whole text of one saved state, or bytes of more than one.               *)
(***************************************************************************)
EXTENDS Integers, FiniteSets

CONSTANTS Setters,      \* the calls of SetMaxSize, each with its saving goroutine
          Closers,      \* the calls of Shutdown
          Routine,      \* persistStateRoutine
          Periodic,     \* whether SaveInterval > 0, so that the routine runs
          Sizes,        \* the arguments of SetMaxSize
          InitialSize,  \* QueueConfig.InitialSize
          MaxCrashes,   \* bound: how often the process stops
          MaxFaults     \* bound: how many file operations fail

Savers == Setters \cup Closers \cup {Routine}

ASSUME SaversAssumption == Routine \notin Setters \cup Closers /\ Setters \cap Closers = {}
ASSUME QueueStateSizes == Sizes \subseteq Int /\ InitialSize \in Int
ASSUME PeriodicAssumption == Periodic \in BOOLEAN
ASSUME BoundsAssumption == MaxCrashes \in Nat /\ MaxFaults \in Nat

VARIABLES up,        \* whether the process runs
          maxSize,   \* qm.maxSize
          tick,      \* whether the ticker's channel holds a tick
          done,      \* whether qm.done is closed
          final,     \* whether the routine is in its last save
          pc,        \* where each saver is
          captured,  \* the MaxSize in the state each saver will write
          fd,        \* the file each saver has open
          live,      \* the file statePath
          tmp,       \* the file statePath + ".tmp"
          inForce,   \* history: the limits that have been in force
          crashes, faults

files       == <<live, tmp>>
processVars == <<up, maxSize, tick, done, final, inForce, crashes>>
saverVars   == <<pc, captured, fd>>
vars == <<up, maxSize, tick, done, final, pc, captured, fd, live, tmp,
          inForce, crashes, faults>>

(***************************************************************************)
(* Files.                                                                  *)
(***************************************************************************)
Whole(size) == [kind |-> "whole", size |-> size]
Absent      == [kind |-> "absent", size |-> 0]
Empty       == [kind |-> "empty", size |-> 0]
Torn        == [kind |-> "torn", size |-> 0]

\* What a file holds after a text is written from its start, over what it
\* held: if that was longer, the end of it stays.  The lengths vary with the
\* digits of the sizes and of the time in LastSaved.
Overwrite(file, size) ==
    IF file.kind \in {"whole", "torn"} THEN {Whole(size), Torn} ELSE {Whole(size)}

\* Faulty variant: an error of json.Unmarshal is not noticed.
LoadedUnchecked(file) ==
    IF file.kind = "absent" THEN InitialSize ELSE file.size

\* loadState: a file that cannot be read or parsed leaves InitialSize.
Loaded(file) == IF file.kind = "whole" THEN file.size ELSE InitialSize

Init == /\ up = TRUE
        /\ maxSize = InitialSize
        /\ tick = FALSE
        /\ done = FALSE
        /\ final = FALSE
        /\ pc = [s \in Savers |-> "ready"]
        /\ captured = [s \in Savers |-> InitialSize]
        /\ fd = [s \in Savers |-> "none"]
        /\ live = Absent
        /\ tmp = Absent
        /\ inForce = {InitialSize}
        /\ crashes = 0
        /\ faults = 0

-----------------------------------------------------------------------------
(***************************************************************************)
(* What starts a save.                                                     *)
(***************************************************************************)
Goto(s, from, to) == /\ up
                     /\ pc[s] = from
                     /\ pc' = [pc EXCEPT ![s] = to]

\* SetMaxSize stores the size; its goroutine saves later.
SetMaxSize(s, size) ==
    /\ Goto(s, "ready", "capture")
    /\ maxSize' = size
    /\ inForce' = inForce \cup {size}
    /\ UNCHANGED <<up, tick, done, final, captured, fd, files, crashes, faults>>

\* The ticker fires until Shutdown stops it.
Timer ==
    /\ up /\ Periodic /\ ~done /\ ~tick
    /\ tick' = TRUE
    /\ UNCHANGED <<up, maxSize, done, final, saverVars, files, inForce, crashes, faults>>

\* persistStateRoutine: case <-qm.persistTicker.C
Tick ==
    /\ Goto(Routine, "ready", "capture")
    /\ tick
    /\ tick' = FALSE
    /\ UNCHANGED <<up, maxSize, done, final, captured, fd, files, inForce, crashes, faults>>

\* persistStateRoutine: case <-qm.done, a last save and the end
FinalSave ==
    /\ Periodic
    /\ Goto(Routine, "ready", "capture")
    /\ done
    /\ final' = TRUE
    /\ UNCHANGED <<up, maxSize, tick, done, captured, fd, files, inForce, crashes, faults>>

\* Shutdown closes the channel and begins to poll the queue.
BeginShutdown(c) ==
    /\ Goto(c, "ready", "polling")
    /\ done' = TRUE
    /\ UNCHANGED <<up, maxSize, tick, final, captured, fd, files, inForce, crashes, faults>>

\* The poll finds the queue drained, or Shutdown gives up; RequestQueue says
\* when.
EndPolling(c, drained) ==
    /\ Goto(c, "polling", IF drained THEN "capture" ELSE "over")
    /\ UNCHANGED <<processVars, captured, fd, files, faults>>

-----------------------------------------------------------------------------
(***************************************************************************)
(* saveState, one step for each operation that others can see: the read of *)
(* the state under the lock, the opening of the temporary file, which      *)
(* truncates it, the writing, and the renaming.                            *)
(***************************************************************************)

\* Where a saver goes when saveState returns.
AfterSave(s) == IF s = Routine /\ ~final THEN "ready" ELSE "over"

Capture(s) ==
    /\ Goto(s, "capture", "open")
    /\ captured' = [captured EXCEPT ![s] = maxSize]
    /\ UNCHANGED <<processVars, fd, files, faults>>

\* Faulty variant: the state is written to the state file itself.
OpenInPlace(s) ==
    /\ Goto(s, "open", "write")
    /\ fd' = [fd EXCEPT ![s] = "live"]
    /\ live' = Empty
    /\ UNCHANGED <<processVars, captured, tmp, faults>>

Open(s) ==
    /\ Goto(s, "open", "write")
    /\ fd' = [fd EXCEPT ![s] = "tmp"]
    /\ tmp' = Empty
    /\ UNCHANGED <<processVars, captured, live, faults>>

\* A descriptor stays with its file when the file is renamed or replaced.
Write(s) ==
    /\ Goto(s, "write", "rename")
    /\ fd' = [fd EXCEPT ![s] = "none"]
    /\ tmp'  \in IF fd[s] = "tmp"  THEN Overwrite(tmp, captured[s])  ELSE {tmp}
    /\ live' \in IF fd[s] = "live" THEN Overwrite(live, captured[s]) ELSE {live}
    /\ UNCHANGED <<processVars, captured, faults>>

\* What the open descriptors refer to once tmp has become live.
Renamed(f) == CASE f = "tmp"  -> "live"
                [] f = "live" -> "orphan"
                [] OTHER      -> f

\* Faulty variant: the temporary file is never moved into place.
RenameForgotten(s) ==
    /\ Goto(s, "rename", AfterSave(s))
    /\ UNCHANGED <<processVars, captured, fd, files, faults>>

\* os.Rename fails when another saver has already moved the file away.
Rename(s) ==
    /\ Goto(s, "rename", AfterSave(s))
    /\ IF tmp.kind = "absent"
       THEN UNCHANGED <<fd, files>>
       ELSE /\ live' = tmp
            /\ tmp' = Absent
            /\ fd' = [x \in Savers |-> Renamed(fd[x])]
    /\ UNCHANGED <<processVars, captured, faults>>

\* A file operation returns an error, and so does saveState; a failed write
\* leaves the file as opening it left it.
Fault(s) ==
    /\ pc[s] \in {"open", "write", "rename"}
    /\ Goto(s, pc[s], AfterSave(s))
    /\ faults < MaxFaults
    /\ faults' = faults + 1
    /\ fd' = [fd EXCEPT ![s] = "none"]
    /\ UNCHANGED <<processVars, captured, files>>

Save(s) == Capture(s) \/ Open(s) \/ Write(s) \/ Rename(s)

-----------------------------------------------------------------------------
(***************************************************************************)
(* The process stops, by a crash or because main returns, and starts again *)
(* with NewQueueMiddleware.  Files stay as they are.                       *)
(***************************************************************************)
Crash ==
    /\ up /\ crashes < MaxCrashes
    /\ crashes' = crashes + 1
    /\ up' = FALSE
    /\ fd' = [s \in Savers |-> "none"]
    /\ pc' = [s \in Savers |-> IF s = Routine \/ pc[s] = "ready" THEN "ready" ELSE "over"]
    /\ UNCHANGED <<maxSize, tick, done, final, captured, files, inForce, faults>>

Restart ==
    /\ ~up
    /\ up' = TRUE
    /\ maxSize' = Loaded(live)
    /\ tick' = FALSE /\ done' = FALSE /\ final' = FALSE
    /\ UNCHANGED <<saverVars, files, inForce, crashes, faults>>

Next == \/ \E s \in Setters, size \in Sizes : SetMaxSize(s, size)
        \/ Timer \/ Tick \/ FinalSave
        \/ \E c \in Closers : BeginShutdown(c) \/ \E d \in BOOLEAN : EndPolling(c, d)
        \/ \E s \in Savers : Save(s) \/ Fault(s)
        \/ Crash \/ Restart

Spec == Init /\ [][Next]_vars

(***************************************************************************)
(* Fairness: the ticker fires, and a goroutine that can go on does.        *)
(***************************************************************************)
Fairness == /\ WF_vars(Timer) /\ WF_vars(Tick)
            /\ \A s \in Savers : WF_vars(Save(s))

FairSpec == Spec /\ Fairness

-----------------------------------------------------------------------------
(***************************************************************************)
(* Properties.                                                             *)
(***************************************************************************)
SaverStates == {"ready", "polling", "capture", "open", "write", "rename", "over"}

Limits == Sizes \cup {InitialSize}

Files == {Absent, Empty, Torn} \cup {Whole(size) : size \in Limits}

\* Every variable holds a value of the code's type for it.
TypeOK == /\ up \in BOOLEAN /\ tick \in BOOLEAN /\ done \in BOOLEAN /\ final \in BOOLEAN
          /\ maxSize \in Limits
          /\ pc \in [Savers -> SaverStates]
          /\ captured \in [Savers -> Limits]
          /\ fd \in [Savers -> {"none", "tmp", "live", "orphan"}]
          /\ live \in Files /\ tmp \in Files
          /\ inForce \subseteq Limits
          /\ crashes \in 0..MaxCrashes /\ faults \in 0..MaxFaults

\* However the savers interfere and whenever the process stops, the limit in
\* force is one that was configured or set, and so is the one a restart
\* would find: a file that is empty or mixed never yields another number.
OnlyKnownLimits == {maxSize, Loaded(live)} \subseteq inForce

\* Nothing but the ticker has saved yet, as server.go uses the queue.
TickerAlone == \A s \in Setters \cup Closers : pc[s] \in {"ready", "polling"}

\* As long as the ticker is the only saver, the file at statePath is never
\* seen empty or mixed, through crashes and failing file operations.
TickerFileConsistent == TickerAlone => live.kind \in {"absent", "whole"}

\* While the process runs and is not shut down, the ticker makes the file
\* right in the end, whatever races and failures came before: the state
\* file holds the limit in force from some time on.
FileHeals == <>[](up /\ ~done) => <>[](live = Whole(maxSize))

-----------------------------------------------------------------------------
\* queue.go:169: saveState ensures the consistency of the state file.
StateFileConsistent == live.kind \in {"absent", "whole"}
=============================================================================
