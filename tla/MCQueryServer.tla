--------------------------- MODULE MCQueryServer ----------------------------
(***************************************************************************)
(* Entities with one of two values, and queries of one or two terms.       *)
(***************************************************************************)
EXTENDS QueryServer, TLC

CONSTANTS k1, k2, k3, n1, n2, p, r

Lookup(match) == [scan |-> FALSE, match |-> match]
Scan(match) == [scan |-> TRUE, match |-> match]

Queries == {<<Lookup({p})>>, <<Lookup({p}), Scan({p, r})>>}

\* Bound: at most one entity of one version has the value r.
OneOther ==
  Cardinality({<<n, k>> \in Sealed \X Key : chain[n].ents[k] = r}) <= 1

Symmetry == Permutations({k1, k2, k3}) \cup Permutations({n1, n2})
=============================================================================
