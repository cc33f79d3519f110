---------------------------- MODULE MCArkivStore ----------------------------
(***************************************************************************)
(* Small instances of the store for TLC.                                   *)
(***************************************************************************)
EXTENDS StoreReads, TLC

CONSTANTS a1, a2, o1, o2, s1, e1, e2, h1, h2, h3

\* Two contents that share one pair and differ in another.
TwoContents ==
  [c \in {"c1", "c2"} |->
     {<<"$contentType", "json">>} \cup
     (IF c = "c1" THEN {<<"kind", "x">>, <<"size", 1>>} ELSE {<<"kind", "x">>})]

OneContent == [c \in {"c1"} |-> {<<"$contentType", "json">>}]

SymmetryForward ==
  Permutations({a1, a2}) \cup Permutations({o1, o2}) \cup Permutations({e1, e2})
    \cup Permutations({h1, h2})
SymmetryReorg == Permutations({a1, a2}) \cup Permutations({h1, h2, h3})
=============================================================================
