-------------------------- MODULE MCQueryNormalize --------------------------
(***************************************************************************)
(* Queries over an address and one attribute.                              *)
(***************************************************************************)
EXTENDS QueryNormalize

Num(n) == <<"number", n>>
Str(s) == <<"string", s>>

Leaves ==
  {Equality("$owner", TRUE, Str(<<UpperA>>)),
   Inclusion("$owner", FALSE, {Str(<<UpperA>>), Str(<<MaxByte>>)}),
   Comparison("<", "x", Num(1)), Comparison("<=", "x", Num(1)),
   Comparison(">", "x", Num(1)), Comparison(">=", "x", Num(1)),
   GlobExpr("x", FALSE, <<LowerA, Star>>)}

Owners == {{<<"$owner", Str(<<b>>)>>} : b \in {LowerA, MaxByte, 0}}

\* No value, a number below, at or above the literal, a string, or several.
Attributes ==
  {{<<"x", v>> : v \in V} :
     V \in {{}, {Num(0)}, {Num(1)}, {Num(2)}, {Str(<<LowerA, LowerA>>)},
            {Num(0), Num(2)}, {Num(0), Str(<<LowerA>>)}}}

Shapes == {o \cup x : o \in Owners, x \in Attributes}
=============================================================================
