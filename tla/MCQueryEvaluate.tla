-------------------------- MODULE MCQueryEvaluate ---------------------------
(***************************************************************************)
(* Small stores of entities with string and number attributes, and every   *)
(* term over short literals.                                               *)
(***************************************************************************)
EXTENDS QueryEvaluate, TLC

CONSTANTS a1, a2, s1, h1, h2

Str(s) == <<"string", s>>
Num(n) == <<"number", n>>

Attr(name, type, value) == [name |-> name, type |-> type, value |-> value]

\* Values with a trailing null, longer than a number, at both ends of the
\* range, and empty; one content has no note.
WireAttributes ==
  [c \in {"low", "high"} |->
     IF c = "low" THEN {Attr("name", "string", <<1>>), Attr("size", "uint", <<>>),
                        Attr("note", "string", <<0, 0>>)}
                  ELSE {Attr("name", "string", <<3, 3, 0>>), Attr("size", "uint", <<1, 3, 3>>)}]

WirePairs == [c \in Content |-> {<<a[1], annotVal(a[2])>> : a \in applyAttributes(WireAttributes[c])}]

Owners == {<<3>>}

\* Bytes at both ends, and prefixes whose last byte carries.
ShortBounds == {<<0, 3>>, <<1>>, <<3, 3>>}

ShortPatterns ==
  {<<>>, <<Star>>, <<3, Star>>, <<Question, Star>>, <<Star, 3>>, <<3, Question>>,
   <<Star, Question, Star>>, <<3, 3, Star, Star>>}

Comparisons(var, X) == {Comparison(op, var, x) : op \in RangeOp, x \in X}

ShortTerms ==
  Comparisons("size", {Num(n) : n \in {0, 1, MaxUint - 1, MaxUint}})
    \cup Comparisons("$createdAtBlock", {Num(n) : n \in {0, 1, 2, MaxUint}})
    \cup Comparisons("name", {Str(s) : s \in {<<1>>, <<3>>, <<3, 3>>}})
    \cup {GlobExpr("name", b, p) : b \in BOOLEAN, p \in ShortPatterns}
    \cup {Comparison(">=", "note", Str(<<>>))}
    \cup {Equality("note", b, Str(<<>>)) : b \in BOOLEAN}
    \cup {Equality("name", b, Str(s)) : b \in BOOLEAN, s \in {<<1>>, <<3>>}}
    \cup {Equality("$owner", b, Str(s)) : b \in BOOLEAN, s \in {<<1>>, <<3>>}}
    \cup {Inclusion("size", b, {Num(n), Num(MaxUint)}) : b \in BOOLEAN, n \in 0..1}

Not(e) == <<<<Paren(TRUE, e)>>>>
Named(s) == Term(Equality("name", FALSE, Str(s)))
EmptyNote == Term(Equality("note", FALSE, Str(<<>>)))
Sized(X) == Term(Inclusion("size", FALSE, {Num(n) : n \in X}))
Bigger(n) == Term(Comparison(">", "size", Num(n)))

SmallQueries ==
  LET either == <<<<Named(<<1>>)>>, <<Sized({MaxUint})>>>>
      both == <<<<Named(<<1>>), Sized({0, 1})>>>>
      owned == <<<<Term(Equality("$owner", FALSE, Str(<<3>>))), Paren(FALSE, either)>>>>
  IN {Everything, either, both, owned, Not(either), Not(both), Not(Not(both)),
      <<<<Paren(TRUE, both), Paren(FALSE, either)>>>>,
      <<<<Bigger(0), Paren(TRUE, <<<<Bigger(1)>>, <<EmptyNote>>>>)>>>>,
      Not(<<<<Bigger(1)>>, <<Sized({0})>>>>)}

SymmetryAddrs == Permutations({a1, a2}) \cup Permutations({h1, h2})
=============================================================================
