--------------------------- MODULE QueryNormalize ---------------------------
(***************************************************************************)
(* A query is read token by token (query/language.go) and rewritten        *)
(* (query/normalize.go).  The parser is a library: one frame per open      *)
(* parenthesis, each with the expression read so far.                      *)
(***************************************************************************)
EXTENDS QueryLanguage, Sequences

CONSTANTS
  Leaf,       \* the terms a query is made of
  Shape,      \* the sets of annotations an entity can have
  MaxTerms,   \* bound: terms in a query
  MaxParens   \* bound: parentheses in a query

VARIABLES
  stack,     \* frames [isNot, expr], the innermost last
  awaiting,  \* an operand comes next
  terms,     \* terms read
  parens     \* parentheses opened

vars == <<stack, awaiting, terms, parens>>

Top == stack[Len(stack)]

\* Operand q ends the last conjunction of the frames' innermost expression.
AddOperand(frames, q) ==
  LET n == Len(frames)
      e == frames[n].expr
  IN [frames EXCEPT ![n].expr = [e EXCEPT ![Len(e)] = Append(@, q)]]

Init ==
  /\ stack = <<[isNot |-> FALSE, expr |-> <<<<>>>>]>>
  /\ awaiting = TRUE /\ terms = 0 /\ parens = 0

ReadTerm(t) ==
  /\ awaiting /\ terms < MaxTerms
  /\ stack' = AddOperand(stack, Term(t))
  /\ awaiting' = FALSE /\ terms' = terms + 1
  /\ UNCHANGED parens

OpenParen(isNot) ==
  /\ awaiting /\ parens < MaxParens /\ terms < MaxTerms
  /\ stack' = Append(stack, [isNot |-> isNot, expr |-> <<<<>>>>])
  /\ parens' = parens + 1
  /\ UNCHANGED <<awaiting, terms>>

CloseParen ==
  /\ ~awaiting /\ Len(stack) > 1
  /\ stack' = AddOperand(SubSeq(stack, 1, Len(stack) - 1), Paren(Top.isNot, Top.expr))
  /\ UNCHANGED <<awaiting, terms, parens>>

ReadAnd ==
  /\ ~awaiting /\ terms < MaxTerms
  /\ awaiting' = TRUE
  /\ UNCHANGED <<stack, terms, parens>>

ReadOr ==
  /\ ~awaiting /\ terms < MaxTerms
  /\ stack' = [stack EXCEPT ![Len(stack)].expr = Append(@, <<>>)]
  /\ awaiting' = TRUE
  /\ UNCHANGED <<terms, parens>>

Next ==
  \/ \E t \in Leaf : ReadTerm(t)
  \/ \E isNot \in BOOLEAN : OpenParen(isNot)
  \/ CloseParen
  \/ ReadAnd
  \/ ReadOr

Spec == Init /\ [][Next]_vars

(***************************************************************************)
(* Evaluation on one entity: equality looks its literal up as it is.       *)
(***************************************************************************)
Finds(A, t) ==
  IF t.op \in {"=", "in"} THEN t.isNot # (\E x \in t.vals : <<t.var, x>> \in A)
                          ELSE Satisfies(A, t)

Selects(A, ast) == \E conjunction \in ast : \A t \in conjunction : Finds(A, t)

(***************************************************************************)
(* Properties of a query that was read to its end.                         *)
(***************************************************************************)
Complete == Len(stack) = 1 /\ ~awaiting
Query == stack[1].expr
Negation(e) == <<<<Paren(TRUE, e)>>>>

Values(A, var) == {a[2] : a \in {b \in A : b[1] = var}}
RangeVars == {t.var : t \in {u \in Leaf : u.op \in RangeOp}}

\* The attribute has one value.
SingleValued(A, var) == \A x, y \in Values(A, var) : x = y

\* The attribute has a value a range term can compare with its literal.
Comparable(A, var) ==
  Values(A, var) # {} /\ \A x \in Values(A, var) : x[1] = "number"

\* Paren.Normalize, the invert methods and the product of AndExpression:
\* NOT, nested to any depth, AND and OR never let an entity into the result
\* that the query as written excludes (attributes with one value each).
NormalizeSound ==
  Complete => LET ast == Normalize(Query)
              IN \A A \in Shape : (\A var \in RangeVars : SingleValued(A, var))
                   => (Selects(A, ast) => Means(A, Query))

\* The same code loses nobody either, as long as the entity has a number
\* under every attribute that a range term compares: then NOT (x < n) may
\* become x >= n.
NormalizeComplete ==
  Complete => LET ast == Normalize(Query)
              IN \A A \in Shape : (\A var \in RangeVars : Comparable(A, var))
                   => (Means(A, Query) => Selects(A, ast))

\* Paren.invert flips a flag and leaves the rest for later: negating twice
\* gives the query back, for every entity, those without the attribute or
\* with several values of it included.
DoubleNegation ==
  Complete => LET ast == Normalize(Query)
                  twice == Normalize(Negation(Negation(Query)))
              IN \A A \in Shape : Selects(A, twice) = Selects(A, ast)
=============================================================================
