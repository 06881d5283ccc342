-------------------------- MODULE MCProviderManager --------------------------
(***************************************************************************)
(* Instances of ProviderManager for TLC.                                   *)
(***************************************************************************)
EXTENDS ProviderManager, TLC

CONSTANTS c1, c2, c3, p1, p2, k1, a1, a2, b1

TwoCallers   == {c1, c2}
ThreeCallers == {c1, c2, c3}
TwoProviders == {p1, p2}
InOrder      == <<p1, p2>>
OneChecker   == {k1}
NoChecker    == {}

\* Two prompts that begin alike, and one that does not.
ThreePrompts == {a1, a2, b1}
TwoPrompts   == {a1, b1}
OnePrompt    == {a1}
BeginsLike   == [p \in Prompts |-> IF p = b1 THEN "b" ELSE "a"]

\* Every prompt has a key of its own.
Itself == [p \in Prompts |-> p]

Symmetry == Permutations(Callers) \cup Permutations(Prompts)
=============================================================================
