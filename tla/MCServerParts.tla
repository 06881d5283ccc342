---------------------------- MODULE MCServerParts ----------------------------
(***************************************************************************)
(* Instances of three parts that do not interact: the replay protection,   *)
(* with requests of three hashes to one router or of two while a reload    *)
(* brings a second one; the path of a completion request; and the reading  *)
(* of a configuration file.  In each behaviour one of them runs and the    *)
(* others stay in their initial states.                                    *)
(***************************************************************************)
EXTENDS ReplayProtection, CompletionPath, EnvExpansion

CONSTANTS h3, A, B, C

VARIABLE part \* the part that runs

vars == <<part, replayVars, pathVars, envVars>>

\* Unset, plain, nested twice, growing and cyclic variables, and a default.
SomeValues == {<<>>, <<Plain>>, <<Ref(A)>>, <<Ref(B)>>, <<Ref(C)>>,
               <<Plain, Ref(B)>>, <<Ref(C), Ref(C)>>, <<Else(A)>>}
TwoFiles   == {<<Ref(A), Plain, Else(B)>>, <<Else(C), Ref(A)>>}

\* What only one part reads is fixed while another runs.
Init == /\ part \in {"replay", "reload", "path", "env"}
        /\ ReplayInit /\ PathInit /\ EnvInit
        /\ part # "env" => \A v \in Names : env[v] = <<>>

Replay == /\ part \in {"replay", "reload"}
          /\ ReplayNext
          /\ part = "replay" => routers' = routers
          /\ part = "reload" => \A s \in Senders : hash'[s] # h3
          /\ UNCHANGED <<pathVars, envVars>>

Next == /\ \/ Replay
           \/ part = "path" /\ PathNext /\ UNCHANGED <<replayVars, envVars>>
           \/ part = "env" /\ EnvNext /\ UNCHANGED <<replayVars, pathVars>>
        /\ UNCHANGED part

\* A part that does not run cannot take the steps that are fair: no request has
\* arrived, no file was read.
FairSpec == Init /\ [][Next]_vars
            /\ ReplayFairness /\ PathFairness /\ EnvFairness
=============================================================================
