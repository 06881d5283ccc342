-------------------------- MODULE MCServerLifecycle --------------------------
(***************************************************************************)
(* Instances of ServerLifecycle for TLC.                                   *)
(***************************************************************************)
EXTENDS ServerLifecycle, TLC

CONSTANTS A, B

TwoConfigs == {A, B}
OneHTTP3   == {A}
SamePort   == [c \in {A, B} |-> 8080]

\* The file is not written before the server has subscribed.
WrittenLateSpec == Init /\ [][Next /\ (writes' # writes => subscribed)]_vars
=============================================================================
