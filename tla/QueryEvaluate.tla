--------------------------- MODULE QueryEvaluate ----------------------------
(***************************************************************************)
(* Evaluation of a normalised query on the store (query/evaluate.go): a    *)
(* conjunction intersects what its terms return, the query unites them.    *)
(***************************************************************************)
EXTENDS TermEvaluate, QueryLanguage

CONSTANT Queries  \* the expressions that are asked

EvaluateAnd(conjunction, n) ==
  {i \in ID : conjunction # {} /\ \A t \in conjunction : i \in EvaluateTerm(t, n)}

Evaluate(ast, n) ==
  IF ast = {} THEN AllEntities(n) ELSE UNION {EvaluateAnd(conjunction, n) : conjunction \in ast}

RECURSIVE TermsOf(_)
TermsOf(e) ==
  UNION {UNION {IF e[i][j][1] = "paren" THEN TermsOf(e[i][j][3]) ELSE {e[i][j][2]}
                  : j \in DOMAIN e[i]} : i \in DOMAIN e}

\* Parse, Normalize and Evaluate together: a query made of lookups returns
\* at every readable block exactly the entities of that block it means, and a
\* query with scans does at the head.
QueryExact ==
  cs = Absent => \A e \in Queries :
    LET ast == Normalize(e)
    IN \A n \in IF \E t \in TermsOf(e) : Scanned(t) THEN {0} ELSE Readable :
         Evaluate(ast, n) = IDsWhere(n, LAMBDA A : e = Everything \/ Means(A, e))

(***************************************************************************)
(* What the documentation says and the code does not do.                   *)
(***************************************************************************)
\* architecture.md, Historical Range and Glob Queries: they are correct.  A
\* scan at a canonical block returns the entities of that block.
HistoricalScanExact ==
  cs = Absent => \A t \in TypedTerms : Scanned(t) =>
    \A n \in Canonical : EvaluateTerm(t, n) = IDsWhere(n, LAMBDA A : Satisfies(NonEmpty(A), t))
=============================================================================
