----------------------------- MODULE AnnotScans -----------------------------
(***************************************************************************)
(* The scans of the Store (store/query.go): they walk the latest bitmap    *)
(* pointers of one variable in key order and unite the bitmaps of a range  *)
(* of values, or of the values a pattern matches (query/evaluate.go).      *)
(***************************************************************************)
EXTENDS StoreReads, AnnotValues

CONSTANTS
  ScanKeys,     \* variables that are scanned
  ScanBounds,   \* strings that bound a scan
  ScanPatterns, \* patterns of globs
  ScanNumbers   \* numbers that bound a scan

NumericBuiltin == {"$createdAtBlock", "$lastModifiedAtBlock", "$expiration"}

\* The bytes after the prefix and the variable in the key of a pair.
suffix(p) == IF p[1] \in NumericBuiltin THEN numericVal(p[2]) ELSE p[2]

(***************************************************************************)
(* Scans.  An iterator yields the pointers of a variable from a start      *)
(* value on, in key order; a loop that breaks sees none of the later ones. *)
(***************************************************************************)
Iterator(key, start) ==
  {p \in Pair : p[1] = key /\ arkiv_annot[p] # Absent /\ ~Less(suffix(p), start)}

UntilBreak(P, breaks) == {p \in P : \A q \in breaks : Less(suffix(p), suffix(q))}

loadBitmapFromPointer(p) == IF arkiv_annot[p] \in arkiv_bm THEN arkiv_annot[p] ELSE {}

OrBitmaps(P) == UNION {loadBitmapFromPointer(p) : p \in P}

IterateNumericAnnotBitmaps(key, lo, hi) ==
  LET start == IF lo > 0 THEN numericVal(lo) ELSE <<>>
      numeric == {p \in Iterator(key, start) : Len(suffix(p)) = NumLen}
  IN OrBitmaps(UntilBreak(numeric, {p \in numeric : Uint(suffix(p)) > hi}))

\* A bound is <<"string", bytes>>, or nil for none.
nil == <<NoSuccessor>>

IterateStringAnnotBitmaps(key, lo, loIncl, hi, hiIncl) ==
  LET start == IF lo = nil THEN <<>> ELSE lo[2]
      inside == {p \in Iterator(key, start) :
                   /\ suffix(p) # <<>>
                   /\ lo # nil /\ ~loIncl => suffix(p) # lo[2]}
      above == {p \in inside : hi # nil /\ (\/ Less(hi[2], suffix(p))
                                            \/ suffix(p) = hi[2] /\ ~hiIncl)}
  IN OrBitmaps(UntilBreak(inside, above))

IteratePrefixAnnotBitmaps(key, prefix) ==
  IterateStringAnnotBitmaps(key, <<"string", prefix>>, TRUE, prefixSuccessor(prefix), FALSE)

IterateGlobAnnotBitmaps(key, pattern) ==
  OrBitmaps({p \in Iterator(key, <<>>) : suffix(p) # <<>> /\ globMatch(pattern, suffix(p))})

\* GlobExpr.Evaluate, without its NOT.
Glob(var, pattern) ==
  IF isPrefixGlob(pattern)
  THEN IteratePrefixAnnotBitmaps(var, SubSeq(pattern, 1, Len(pattern) - 1))
  ELSE IterateGlobAnnotBitmaps(var, pattern)

(***************************************************************************)
(* What a scan should return.                                              *)
(***************************************************************************)
\* The IDs of the live entities at the head with a value of key, other than
\* the empty string, that is good.
IDsWithValue(key, Good(_)) ==
  {i \in ID : /\ head.root.ids[i] # Absent
              /\ \E p \in allAnnotations(Entities(0)[head.root.ids[i]]) :
                   p[1] = key /\ suffix(p) # <<>> /\ Good(suffix(p))}

Bound == {nil} \cup {<<"string", s>> : s \in ScanBounds}

AboveLow(s, lo, incl) == lo = nil \/ Less(lo[2], s) \/ (incl /\ s = lo[2])

BelowHigh(s, hi, incl) == hi = nil \/ Less(s, hi[2]) \/ (incl /\ s = hi[2])

\* IterateStringAnnotBitmaps and IteratePrefixAnnotBitmaps, which take no lock:
\* at any moment, whatever has been committed, reverted or lost, a scan between
\* two bounds returns exactly the entities of the head with a value between
\* them, and a scan of a prefix exactly those with a value that starts with it.
\* Neither the early end of the loop nor the successor of the prefix loses or
\* adds one, and no pointer of a reverted block shows.
StringScanExact ==
  \A key \in ScanKeys :
    /\ \A lo, hi \in Bound, loIncl, hiIncl \in BOOLEAN :
         IterateStringAnnotBitmaps(key, lo, loIncl, hi, hiIncl) =
           IDsWithValue(key, LAMBDA s : AboveLow(s, lo, loIncl) /\ BelowHigh(s, hi, hiIncl))
    /\ \A prefix \in ScanBounds :
         IteratePrefixAnnotBitmaps(key, prefix) =
           IDsWithValue(key, LAMBDA s : HasPrefix(s, prefix))

\* IterateNumericAnnotBitmaps: a scan between two numbers returns exactly the
\* entities of the head with the bytes of a number between them.  The loop
\* starts and ends in the order of the keys, so this needs big-endian bytes of
\* a fixed width to be in the order of the numbers, up to MaxUint64.
NumericScanExact ==
  \A key \in ScanKeys, lo, hi \in ScanNumbers :
    IterateNumericAnnotBitmaps(key, lo, hi) =
      IDsWithValue(key, LAMBDA s : \E n \in lo..hi : s = numericVal(n))

\* GlobExpr.Evaluate, isPrefixGlob and globMatch: a glob returns exactly the
\* entities of the head with a value that the pattern matches, whether it is
\* found by a scan of a prefix or by matching every value, and however stars
\* and question marks are mixed.
GlobExact ==
  \A key \in ScanKeys, pattern \in ScanPatterns :
    Glob(key, pattern) = IDsWithValue(key, LAMBDA s : Matches(pattern, s))

ASSUME ScanAssumption ==
  /\ \A s \in ScanBounds \cup ScanPatterns : s \in Seq(Byte)
  /\ ScanNumbers \subseteq 0..MaxUint
  /\ \A p \in Pair : p[1] \in ScanKeys => suffix(p) \in Seq(Byte)
=============================================================================
