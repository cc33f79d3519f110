----------------------------- MODULE QueryTerms -----------------------------
(***************************************************************************)
(* The terms of a query (query/language.go) and what they mean.  A literal *)
(* is <<"string", bytes>> or <<"number", n>>.  A term compares a variable  *)
(* with literals; all but IN have exactly one.                             *)
(***************************************************************************)
EXTENDS AnnotValues

CONSTANTS UpperA, LowerA  \* the bytes 'A' and 'a', a letter in its two cases

RangeOp == {"<", "<=", ">", ">="}

Equality(var, isNot, x) == [op |-> "=", var |-> var, isNot |-> isNot, vals |-> {x}]
Inclusion(var, isNot, X) == [op |-> "in", var |-> var, isNot |-> isNot, vals |-> X]
Comparison(op, var, x) == [op |-> op, var |-> var, isNot |-> FALSE, vals |-> {x}]
GlobExpr(var, isNot, p) ==
  [op |-> "~", var |-> var, isNot |-> isNot, vals |-> {<<"string", p>>}]

Literal(t) == CHOOSE x \in t.vals : TRUE

AddressVar == {"$key", "$owner", "$creator"}

ToLower(s) == [i \in DOMAIN s |-> IF s[i] = UpperA THEN LowerA ELSE s[i]]

(***************************************************************************)
(* What a term means for an entity with the annotations A, a set of        *)
(* <<name, literal>>.  A comparison holds when some value of the variable, *)
(* of the literal's type, is on its side; addresses ignore case.           *)
(***************************************************************************)
Below(x, y) == IF x[1] = "number" THEN x[2] < y[2] ELSE Less(x[2], y[2])

SameLiteral(var, x, y) ==
  /\ x[1] = y[1]
  /\ IF var \in AddressVar THEN ToLower(x[2]) = ToLower(y[2]) ELSE x[2] = y[2]

\* The value y of the variable is on the side of the literal x the term asks for.
Meets(t, y, x) ==
  /\ y[1] = x[1]
  /\ CASE t.op \in {"=", "in"} -> SameLiteral(t.var, y, x)
       [] t.op = "<" -> Below(y, x)
       [] t.op = "<=" -> ~Below(x, y)
       [] t.op = ">" -> Below(x, y)
       [] t.op = ">=" -> ~Below(y, x)
       [] t.op = "~" -> Matches(x[2], y[2])

Satisfies(A, t) == t.isNot # (\E a \in A, x \in t.vals : a[1] = t.var /\ Meets(t, a[2], x))

ASSUME LetterAssumption == UpperA \in Byte /\ LowerA \in Byte
=============================================================================
