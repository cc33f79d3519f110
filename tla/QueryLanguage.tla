--------------------------- MODULE QueryLanguage ----------------------------
(***************************************************************************)
(* Queries as the parser builds them of terms (query/language.go), their   *)
(* rewriting to a disjunction of conjunctions of terms                     *)
(* (query/normalize.go), and what a query means.                           *)
(***************************************************************************)
EXTENDS QueryTerms

(***************************************************************************)
(* The grammar.  An expression is a sequence of conjunctions, a            *)
(* conjunction a sequence of operands, and an operand is a term or an      *)
(* expression in parentheses.                                              *)
(***************************************************************************)
Term(t) == <<"term", t>>
Paren(isNot, e) == <<"paren", isNot, e>>

\* The query * or $all has no expression at all, and no normal form.
Everything == <<>>

(***************************************************************************)
(* Pushing NOT down, one level at a time: what is in parentheses only has  *)
(* its flag flipped.                                                       *)
(***************************************************************************)
Opposite == [op \in RangeOp |->
  CASE op = "<" -> ">=" [] op = "<=" -> ">" [] op = ">" -> "<=" [] op = ">=" -> "<"]

\* Mutant: NOT < excludes the bound.
invertTerm_SharesBound(t) ==
  IF t.op \in RangeOp
  THEN [t EXCEPT !.op = IF @ = "<" THEN ">" ELSE Opposite[@]]
  ELSE [t EXCEPT !.isNot = ~@]

invertTerm(t) ==
  IF t.op \in RangeOp THEN [t EXCEPT !.op = Opposite[@]]
                      ELSE [t EXCEPT !.isNot = ~@]

\* Mutant: the flag of a parenthesis is set, not flipped.
invertEqual_SetsFlag(q) ==
  IF q[1] = "paren" THEN Paren(TRUE, q[3]) ELSE Term(invertTerm(q[2]))

invertEqual(q) ==
  IF q[1] = "paren" THEN Paren(~q[2], q[3]) ELSE Term(invertTerm(q[2]))

invertAnd(a) == [i \in DOMAIN a |-> <<invertEqual(a[i])>>]

invertOr(e) == [i \in DOMAIN e |-> Paren(FALSE, invertAnd(e[i]))]

\* Mutant: NOT over OR stays an OR.
invertExpression_StaysOr(e) == [i \in DOMAIN e |-> <<invertOr(e)[i]>>]

\* A single conjunction inverts to the expression in its one parenthesis.
invertExpression(e) ==
  LET a == invertOr(e)
  IN IF Len(a) = 1 THEN a[1][3] ELSE <<a>>

(***************************************************************************)
(* The normal form: a set of conjunctions, each a set of terms.            *)
(***************************************************************************)
\* Addresses and keys are indexed in lower case.
NormalizeTerm(t) ==
  IF t.var \in AddressVar
  THEN [t EXCEPT !.vals = {<<"string", ToLower(x[2])>> : x \in @}]
  ELSE t

RECURSIVE Normalize(_)

NormalizeParen(isNot, e) == Normalize(IF isNot THEN invertExpression(e) ELSE e)

convertToTerms(q) ==
  IF q[1] = "paren" THEN NormalizeParen(q[2], q[3]) ELSE {{NormalizeTerm(q[2])}}

\* Every combined conjunction takes one disjunct of each operand.
NormalizeAnd(a) ==
  LET ast[i \in 0..Len(a)] ==
        IF i = 0 THEN {{}}
        ELSE {conjunction \cup t : conjunction \in ast[i - 1], t \in convertToTerms(a[i])}
  IN ast[Len(a)]

Normalize(e) == UNION {NormalizeAnd(e[i]) : i \in DOMAIN e}

\* What a query means for an entity with the annotations A.
RECURSIVE Means(_, _)
Means(A, e) ==
  \E i \in DOMAIN e : \A j \in DOMAIN e[i] :
    LET q == e[i][j]
    IN IF q[1] = "paren" THEN q[2] # Means(A, q[3]) ELSE Satisfies(A, q[2])

=============================================================================
