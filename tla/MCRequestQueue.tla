--------------------------- MODULE MCRequestQueue ---------------------------
(***************************************************************************)
(* Instances of RequestQueue for TLC.                                      *)
(***************************************************************************)
EXTENDS RequestQueue, TLC

CONSTANTS r1, r2, r3, c1, c2

ThreeRequests == {r1, r2, r3}
OneCloser     == {c1}
TwoClosers    == {c1, c2}

\* A limit of nothing, and one below the number of requests.
SomeSizes == {0, 2}
=============================================================================
