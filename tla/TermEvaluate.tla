---------------------------- MODULE TermEvaluate ----------------------------
(***************************************************************************)
(* Evaluation of one term on the store (query/evaluate.go): a lookup in    *)
(* the trie of a block, or a scan of the latest bitmap pointers.           *)
(***************************************************************************)
EXTENDS AnnotScans, QueryTerms

CONSTANTS
  Attributes,  \* content -> the wire attributes [name, type, value] it has
  Terms        \* the terms that are asked

(***************************************************************************)
(* From wire attributes to annotations, and from those to index values.    *)
(* An attribute is a string or a uint; one that holds an entity key is a   *)
(* string in hexadecimal by the time it is indexed, and is not told apart. *)
(***************************************************************************)
applyAttributes(attrs) ==
  {<<a.name, IF a.type = "string" THEN <<"string", TrimNulls(a.value)>>
                                  ELSE <<"number", attrUint64(a.value)>>>> : a \in attrs}

annotVal(x) == IF x[1] = "string" THEN x[2] ELSE numericVal(x[2])

(***************************************************************************)
(* Terms at block n.  Range terms and globs have no block.                 *)
(***************************************************************************)
LessThan(var, x) ==
  IF x[1] = "string" THEN IterateStringAnnotBitmaps(var, nil, FALSE, x, FALSE)
  ELSE IF x[2] = 0 THEN {} ELSE IterateNumericAnnotBitmaps(var, 0, x[2] - 1)

LessOrEqualThan(var, x) ==
  IF x[1] = "string" THEN IterateStringAnnotBitmaps(var, nil, FALSE, x, TRUE)
                     ELSE IterateNumericAnnotBitmaps(var, 0, x[2])

\* Mutant: the largest number has no special case and wraps to zero.
GreaterThan_Wraps(var, x) ==
  IF x[1] = "string" THEN IterateStringAnnotBitmaps(var, x, FALSE, nil, FALSE)
  ELSE IterateNumericAnnotBitmaps(var, (x[2] + 1) % (MaxUint + 1), MaxUint)

GreaterThan(var, x) ==
  IF x[1] = "string" THEN IterateStringAnnotBitmaps(var, x, FALSE, nil, FALSE)
  ELSE IF x[2] = MaxUint THEN {} ELSE IterateNumericAnnotBitmaps(var, x[2] + 1, MaxUint)

GreaterOrEqualThan(var, x) ==
  IF x[1] = "string" THEN IterateStringAnnotBitmaps(var, x, TRUE, nil, FALSE)
                     ELSE IterateNumericAnnotBitmaps(var, x[2], MaxUint)

\* Equality and Inclusion: a bitmap per literal; a pair never indexed has none.
Lookup(t, n) ==
  UNION {ReadAnnotBitmap(n, p) :
           p \in {q \in Pair : q[1] = t.var /\ \E x \in t.vals : suffix(q) = annotVal(x)}}

EvaluateTerm(t, n) ==
  LET bm == CASE t.op = "<" -> LessThan(t.var, Literal(t))
              [] t.op = "<=" -> LessOrEqualThan(t.var, Literal(t))
              [] t.op = ">" -> GreaterThan(t.var, Literal(t))
              [] t.op = ">=" -> GreaterOrEqualThan(t.var, Literal(t))
              [] t.op = "~" -> Glob(t.var, Literal(t)[2])
              [] OTHER -> Lookup(t, n)
  IN IF t.isNot THEN AllEntities(n) \ bm ELSE bm

(***************************************************************************)
(* What the answers should be, from the contract's entities.               *)
(***************************************************************************)
\* The annotations of an entity; a number on the wire counts modulo the width.
Annotations(e) ==
  {<<"$createdAtBlock", <<"number", e.createdAt>>>>,
   <<"$lastModifiedAtBlock", <<"number", e.lastModified>>>>,
   <<"$expiration", <<"number", e.expiresAt>>>>, <<"$owner", <<"string", e.owner>>>>,
   <<"$creator", <<"string", e.creator>>>>, <<"$key", <<"string", e.key>>>>}
    \cup {<<a.name, IF a.type = "string" THEN <<"string", TrimNulls(a.value)>>
                    ELSE <<"number", BigEndian(a.value) % (MaxUint + 1)>>>>
            : a \in Attributes[e.content]}

\* The IDs of block n whose entities have the property.
IDsWhere(n, Good(_)) ==
  {i \in ID : /\ openStateAt(n).ids[i] # Absent
              /\ Good(Annotations(Entities(n)[openStateAt(n).ids[i]]))}

Scanned(t) == t.op \in RangeOp \cup {"~"}

\* Scans do not see empty strings.
NonEmpty(A) == {a \in A : a[2] # <<"string", <<>>>>}

\* The values of the variable have the type of the literals, in all contents.
OneType(t) ==
  \A x \in t.vals :
    /\ t.var \in NumericBuiltin => x[1] = "number"
    /\ t.var \in AddressVar => x[1] = "string"
    /\ \A c \in Content : \A a \in applyAttributes(Attributes[c]) :
         a[1] = t.var => a[2][1] = x[1]

TypedTerms == {t \in Terms : OneType(t)}

\* The Evaluate methods of the terms: at any moment, whatever has been
\* committed, reverted or lost, a comparison or a glob returns exactly the
\* entities of the head that satisfy it, and an equality or inclusion exactly
\* those of the block it is asked at.  The bounds 0 and MaxUint64, the moved
\* bounds of < and >, the end of a prefix scan, NOT and the values truncated on
\* the wire are included.
TermExact ==
  \A t \in TypedTerms :
    \A n \in IF Scanned(t) THEN {0} ELSE Readable :
      EvaluateTerm(t, n) =
        IDsWhere(n, LAMBDA A : Satisfies(IF Scanned(t) THEN NonEmpty(A) ELSE A, t))

ASSUME EncodingAssumption ==
  /\ \A c \in Content : ContentPairs[c] =
       {<<a[1], annotVal(a[2])>> : a \in applyAttributes(Attributes[c])}
  /\ \A c \in Content : \A a \in Attributes[c] : a.value \in Seq(Byte)
  /\ Number \cup Expiry \subseteq 0..MaxUint

\* Terms as the parser and Normalize leave them: the address variables that
\* are asked for, and their literals, are in lower case.
ASSUME TermAssumption ==
  /\ \A t \in Terms :
       /\ t.op \in RangeOp \cup {"~", "=", "in"} /\ t.isNot \in BOOLEAN /\ t.var # "$all"
       /\ t.vals \subseteq ({"string"} \X Seq(Byte)) \cup ({"number"} \X (0..MaxUint))
       /\ t.op = "~" => \A x \in t.vals : x[1] = "string"
       /\ Scanned(t) => t.var \in ScanKeys /\ \E x \in t.vals : t.vals = {x}
       /\ t.var \in AddressVar => \A x \in t.vals : x[1] = "string" => ToLower(x[2]) = x[2]
  /\ \A p \in Pair : p[1] \in AddressVar /\ (\E t \in Terms : p[1] = t.var)
                       => p[2] \in Seq(Byte) /\ ToLower(p[2]) = p[2]
=============================================================================
