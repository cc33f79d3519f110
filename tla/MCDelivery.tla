----------------------------- MODULE MCDelivery -----------------------------
(***************************************************************************)
(* Two entities, and blocks of up to two operations.                       *)
(***************************************************************************)
EXTENDS Delivery, TLC

CONSTANTS a1, a2, h1, h2, h3

OneContent == [c \in {"c1"} |-> {<<"$contentType", "json">>}]

Symmetry == Permutations({a1, a2}) \cup Permutations({h1, h2, h3})
=============================================================================
