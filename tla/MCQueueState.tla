---------------------------- MODULE MCQueueState ----------------------------
(***************************************************************************)
(* Instances of QueueState for TLC.                                        *)
(***************************************************************************)
EXTENDS QueueState, TLC

CONSTANTS s1, s2, c1, routine

None       == {}
TwoSetters == {s1, s2}
OneCloser  == {c1}

OneSize == {10}
=============================================================================
