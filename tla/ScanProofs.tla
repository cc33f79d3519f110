----------------------------- MODULE ScanProofs -----------------------------
(***************************************************************************)
(* The scans of the latest bitmap pointers (AnnotScans) and the terms made *)
(* of them (TermEvaluate), for every set of values and literals, every     *)
(* byte range and every history of the store: a scan between two strings   *)
(* or two numbers, of a prefix or of a pattern returns exactly the         *)
(* entities of the head with a value there, and a term exactly those that  *)
(* satisfy it.                                                             *)
(*                                                                         *)
(* The early end of a scan is right because the byte order is a strict     *)
(* total order; the end of a prefix scan because the successor of a prefix *)
(* is the least string above all that start with it; and the bitmaps are   *)
(* right because the pointers mirror the trie of the head (StoreProofs)    *)
(* and the bitmaps of the head are exact (IndexProofs).  A term is right   *)
(* because values and literals of one type are told apart by their bytes.  *)
(***************************************************************************)
EXTENDS TermEvaluate, IndexProofs, SequenceTheorems, WellFoundedInduction

Str == Seq(Byte)

(***************************************************************************)
(* The byte order, position by position.                                   *)
(***************************************************************************)
\* The first k bytes of two strings are the same.
Agree(s, t, k) == \A j \in 1..k : s[j] = t[j]

LEMMA StringTypes ==
  ASSUME NEW s \in Str
  PROVE /\ Len(s) \in Nat /\ DOMAIN s = 1..Len(s) /\ MaxByte \in Nat
        /\ \A i \in 1..Len(s) : s[i] \in Nat /\ s[i] <= MaxByte
PROOF
  BY BytesAssumption DEF Str, Byte

LEMMA EqualStrings ==
  ASSUME NEW s \in Str, NEW t \in Str, Len(s) = Len(t), Agree(s, t, Len(s))
  PROVE s = t
PROOF
  BY SeqEqual DEF Str, Agree

LEMMA SubSeqAgree ==
  ASSUME NEW s \in Str, NEW t \in Str, NEW k \in Nat, k <= Len(s), k <= Len(t)
  PROVE SubSeq(s, 1, k) = SubSeq(t, 1, k) <=> Agree(s, t, k)
PROOF
<1>1. \A j \in 1..k : j \in 1..Len(s) /\ j \in 1..Len(t) /\ s[j] \in Byte /\ t[j] \in Byte
  BY DEF Str
<1>2. /\ SubSeq(s, 1, k) \in Seq(Byte) /\ Len(SubSeq(s, 1, k)) = k
      /\ \A j \in 1..k : SubSeq(s, 1, k)[j] = s[j]
  BY <1>1, SubSeqProperties
<1>3. /\ SubSeq(t, 1, k) \in Seq(Byte) /\ Len(SubSeq(t, 1, k)) = k
      /\ \A j \in 1..k : SubSeq(t, 1, k)[j] = t[j]
  BY <1>1, SubSeqProperties
<1>4. SubSeq(s, 1, k) = SubSeq(t, 1, k) => Agree(s, t, k)
  BY <1>2, <1>3 DEF Agree
<1>5. Agree(s, t, k) => SubSeq(s, 1, k) = SubSeq(t, 1, k)
  <2>1. SUFFICES ASSUME Agree(s, t, k)
                 PROVE Agree(SubSeq(s, 1, k), SubSeq(t, 1, k), k)
    BY <1>2, <1>3, EqualStrings DEF Str
  <2>. QED
    BY <1>2, <1>3, <2>1 DEF Agree
<1>. QED
  BY <1>4, <1>5

LEMMA PrefixAgree ==
  ASSUME NEW s \in Str, NEW p \in Str
  PROVE HasPrefix(s, p) <=> Len(p) <= Len(s) /\ Agree(s, p, Len(p))
PROOF
<1>1. SUFFICES ASSUME Len(p) <= Len(s)
               PROVE SubSeq(s, 1, Len(p)) = p <=> Agree(s, p, Len(p))
  BY DEF HasPrefix
<1>2. Len(p) \in Nat /\ Len(p) <= Len(p)
  BY StringTypes
<1>3. SubSeq(p, 1, Len(p)) = p
  BY SubSeqFull DEF Str
<1>. QED
  BY <1>1, <1>2, <1>3, SubSeqAgree

\* The position where s is below t: the end of s, or the first difference.
BelowAt(s, t, i) ==
  /\ i \in 1..Len(t) /\ i <= Len(s) + 1 /\ Agree(s, t, i - 1)
  /\ i <= Len(s) => s[i] < t[i]

LEMMA LessBelow ==
  ASSUME NEW s \in Str, NEW t \in Str
  PROVE Less(s, t) <=> \E i \in Nat : BelowAt(s, t, i)
PROOF
<1>1. Len(s) \in Nat /\ Len(t) \in Nat
  BY StringTypes
<1>2. (HasPrefix(t, s) /\ s # t) <=> BelowAt(s, t, Len(s) + 1)
  <2>1. HasPrefix(t, s) <=> Len(s) <= Len(t) /\ Agree(t, s, Len(s))
    BY PrefixAgree
  <2>2. Agree(t, s, Len(s)) <=> Agree(s, t, Len(s))
    BY DEF Agree
  <2>3. Len(s) = Len(t) /\ Agree(s, t, Len(s)) => s = t
    BY EqualStrings
  <2>. QED
    BY <1>1, <2>1, <2>2, <2>3 DEF BelowAt
<1>3. ASSUME NEW i \in 1..Len(s)
      PROVE (i <= Len(t) /\ s[i] < t[i] /\ SubSeq(s, 1, i - 1) = SubSeq(t, 1, i - 1))
              <=> BelowAt(s, t, i)
  <2>1. SUFFICES ASSUME i <= Len(t)
                 PROVE SubSeq(s, 1, i - 1) = SubSeq(t, 1, i - 1) <=> Agree(s, t, i - 1)
    BY <1>1, <1>3 DEF BelowAt
  <2>2. i - 1 \in Nat /\ i - 1 <= Len(s) /\ i - 1 <= Len(t)
    BY <1>1, <1>3, <2>1
  <2>. QED
    BY <2>2, SubSeqAgree
<1>4. \A i \in Nat : BelowAt(s, t, i) => i \in 1..Len(s) \/ i = Len(s) + 1
  BY <1>1 DEF BelowAt
<1>. QED
  BY <1>1, <1>2, <1>3, <1>4 DEF Less

(***************************************************************************)
(* It is a strict total order.                                             *)
(***************************************************************************)
LEMMA LessIrreflexive ==
  ASSUME NEW s \in Str
  PROVE ~Less(s, s)
PROOF
<1>1. \A i \in Nat : ~BelowAt(s, s, i)
  BY StringTypes DEF BelowAt
<1>. QED
  BY <1>1, LessBelow

LEMMA LessTransitive ==
  ASSUME NEW s \in Str, NEW t \in Str, NEW u \in Str, Less(s, t), Less(t, u)
  PROVE Less(s, u)
PROOF
<1>1. PICK i \in Nat : BelowAt(s, t, i)
  BY LessBelow
<1>2. PICK j \in Nat : BelowAt(t, u, j)
  BY LessBelow
<1>3. Len(s) \in Nat /\ Len(t) \in Nat /\ Len(u) \in Nat
  BY StringTypes
<1>4. /\ i \in 1..Len(t) /\ i <= Len(s) + 1 /\ (i <= Len(s) => s[i] < t[i])
      /\ \A k \in 1..i - 1 : s[k] = t[k]
  BY <1>1 DEF BelowAt, Agree
<1>5. /\ j \in 1..Len(u) /\ j <= Len(t) + 1 /\ (j <= Len(t) => t[j] < u[j])
      /\ \A k \in 1..j - 1 : t[k] = u[k]
  BY <1>2 DEF BelowAt, Agree
<1>6. CASE i <= j
  <2>1. \A k \in 1..i - 1 : s[k] = u[k]
    BY <1>3, <1>4, <1>5, <1>6
  <2>2. i \in 1..Len(u) /\ i <= Len(s) + 1
    BY <1>3, <1>4, <1>5, <1>6
  <2>3. ASSUME i <= Len(s) PROVE s[i] < u[i]
    <3>1. s[i] \in Nat /\ t[i] \in Nat /\ u[i] \in Nat /\ s[i] < t[i]
      BY <1>3, <1>4, <2>2, <2>3, StringTypes
    <3>2. t[i] <= u[i]
      <4>1. CASE i = j
        BY <1>4, <1>5, <3>1, <4>1
      <4>2. CASE i < j
        <5>1. t[i] = u[i]
          BY <1>3, <1>4, <1>5, <4>2
        <5>. QED
          BY <3>1, <5>1
      <4>. QED
        BY <1>6, <4>1, <4>2
    <3>. QED
      BY <3>1, <3>2
  <2>4. BelowAt(s, u, i)
    BY <2>1, <2>2, <2>3 DEF BelowAt, Agree
  <2>. QED
    BY <2>4, LessBelow
<1>7. CASE j < i
  <2>1. \A k \in 1..j - 1 : s[k] = u[k]
    BY <1>3, <1>4, <1>5, <1>7
  <2>2. j <= Len(s) /\ j <= Len(t) /\ s[j] = t[j] /\ t[j] < u[j]
    BY <1>3, <1>4, <1>5, <1>7
  <2>3. BelowAt(s, u, j)
    BY <1>3, <1>5, <2>1, <2>2 DEF BelowAt, Agree
  <2>. QED
    BY <2>3, LessBelow
<1>. QED
  BY <1>3, <1>6, <1>7

\* A set of numbers that is not empty has a least element.
LEMMA LeastNumber ==
  ASSUME NEW S, S \subseteq Nat, S # {}
  PROVE \E m \in S : \A k \in S : m <= k
PROOF
<1> DEFINE R == {pair \in Nat \X Nat : pair[1] < pair[2]}
<1>1. \A k, m \in Nat : k < m => <<k, m>> \in R
  OBVIOUS
<1>2. IsWellFoundedOn(R, Nat)
  BY NatLessThanWellFounded DEF OpToRel
<1> HIDE DEF R
<1>3. PICK m \in S : \A k \in S : ~(<<k, m>> \in R)
  BY <1>2, WFMin
<1>4. ASSUME NEW k \in S PROVE m <= k
  <2>1. m \in Nat /\ k \in Nat /\ ~(k < m)
    BY <1>1, <1>3
  <2>. QED
    BY <2>1
<1>. QED
  BY <1>4

LEMMA LessTotal ==
  ASSUME NEW s \in Str, NEW t \in Str, s # t
  PROVE Less(s, t) \/ Less(t, s)
PROOF
<1> DEFINE D == {i \in Nat : /\ i >= 1 /\ i <= Len(s) + 1 /\ i <= Len(t) + 1
                             /\ i <= Len(s) /\ i <= Len(t) => s[i] # t[i]}
<1>1. Len(s) \in Nat /\ Len(t) \in Nat
  BY StringTypes
<1>2. (IF Len(s) <= Len(t) THEN Len(s) + 1 ELSE Len(t) + 1) \in D
  BY <1>1
<1>3. PICK i \in D : \A k \in D : i <= k
  <2>1. D \subseteq Nat /\ D # {}
    BY <1>2
  <2>. QED
    BY <2>1, LeastNumber
<1>4. \A k \in 1..i - 1 : k <= Len(s) /\ k <= Len(t) /\ s[k] = t[k]
  <2> SUFFICES ASSUME NEW k \in 1..i - 1 PROVE k <= Len(s) /\ k <= Len(t) /\ s[k] = t[k]
    OBVIOUS
  <2>1. k \notin D /\ k \in Nat /\ k >= 1 /\ k < i
    BY <1>3
  <2>. QED
    BY <1>1, <2>1
<1>5. Agree(s, t, i - 1) /\ Agree(t, s, i - 1)
  BY <1>4 DEF Agree
<1>6. CASE i <= Len(s) /\ i <= Len(t)
  <2>1. s[i] \in Nat /\ t[i] \in Nat /\ s[i] # t[i]
    BY <1>6, StringTypes
  <2>2. BelowAt(s, t, i) \/ BelowAt(t, s, i)
    BY <1>1, <1>5, <1>6, <2>1 DEF BelowAt
  <2>. QED
    BY <2>2, LessBelow
<1>7. CASE i = Len(s) + 1 /\ i <= Len(t)
  <2>1. BelowAt(s, t, i)
    BY <1>1, <1>5, <1>7 DEF BelowAt
  <2>. QED
    BY <2>1, LessBelow
<1>8. CASE i = Len(t) + 1 /\ i <= Len(s)
  <2>1. BelowAt(t, s, i)
    BY <1>1, <1>5, <1>8 DEF BelowAt
  <2>. QED
    BY <2>1, LessBelow
<1>9. CASE i = Len(s) + 1 /\ i = Len(t) + 1
  <2>1. Len(s) = Len(t) /\ Agree(s, t, Len(s))
    BY <1>1, <1>5, <1>9
  <2>. QED
    BY <2>1, EqualStrings
<1>. QED
  BY <1>1, <1>6, <1>7, <1>8, <1>9

(***************************************************************************)
(* The successor of a prefix.                                              *)
(***************************************************************************)
\* A string that starts with p is not below p.
LEMMA PrefixNotBelow ==
  ASSUME NEW s \in Str, NEW p \in Str, HasPrefix(s, p)
  PROVE ~Less(s, p)
PROOF
<1>1. Len(p) <= Len(s) /\ Agree(s, p, Len(p)) /\ Len(s) \in Nat /\ Len(p) \in Nat
  BY PrefixAgree, StringTypes
<1>2. SUFFICES ASSUME NEW i \in Nat, BelowAt(s, p, i) PROVE FALSE
  BY LessBelow
<1>3. i \in 1..Len(p) /\ i <= Len(s) /\ s[i] < p[i] /\ s[i] = p[i]
  BY <1>1, <1>2 DEF BelowAt, Agree
<1>. QED
  BY <1>3, StringTypes

\* Above p are only the strings that start with p and those with a greater
\* byte where they first differ.
LEMMA AbovePrefix ==
  ASSUME NEW s \in Str, NEW p \in Str, ~Less(s, p), ~HasPrefix(s, p)
  PROVE \E i \in 1..Len(p) : i <= Len(s) /\ p[i] < s[i] /\ Agree(s, p, i - 1)
PROOF
<1>1. Len(s) \in Nat /\ Len(p) \in Nat
  BY StringTypes
<1>2. s # p
  BY <1>1, PrefixAgree DEF Agree
<1>3. PICK i \in Nat : BelowAt(p, s, i)
  BY <1>2, LessTotal, LessBelow
<1>4. i \in 1..Len(s) /\ i <= Len(p) + 1 /\ Agree(s, p, i - 1) /\ (i <= Len(p) => p[i] < s[i])
  BY <1>3 DEF BelowAt, Agree
<1>5. i # Len(p) + 1
  <2>1. SUFFICES ASSUME i = Len(p) + 1 PROVE FALSE
    OBVIOUS
  <2>2. Len(p) <= Len(s) /\ Agree(s, p, Len(p))
    BY <1>1, <1>4, <2>1
  <2>. QED
    BY <2>2, PrefixAgree
<1>. QED
  BY <1>1, <1>4, <1>5

\* The last byte of p that can be incremented.
LEMMA LastBelow ==
  ASSUME NEW p \in Str, NEW B, B \subseteq 1..Len(p), B # {}
  PROVE LET i == CHOOSE i \in B : \A j \in B : j <= i
        IN i \in B /\ \A j \in B : j <= i
PROOF
<1>1. Len(p) \in Nat /\ \A j \in B : j \in Nat /\ j <= Len(p)
  BY StringTypes
<1> DEFINE G == {Len(p) - j : j \in B}
<1>2. G \subseteq Nat /\ G # {}
  <2>1. \A j \in B : Len(p) - j \in Nat
    BY <1>1
  <2>2. PICK j : j \in B
    OBVIOUS
  <2>3. Len(p) - j \in G
    BY <2>2
  <2>. QED
    BY <2>1, <2>3
<1>3. PICK m \in G : \A k \in G : m <= k
  BY <1>2, LeastNumber
<1>4. PICK i \in B : m = Len(p) - i
  OBVIOUS
<1>5. \A j \in B : j <= i
  <2> SUFFICES ASSUME NEW j \in B PROVE j <= i
    OBVIOUS
  <2>1. Len(p) - i <= Len(p) - j
    BY <1>3, <1>4
  <2>. QED
    BY <1>1, <2>1
<1>. QED
  BY <1>5

\* prefixSuccessor ends the strings that start with p: with no successor they
\* are all the strings from p on.
LEMMA NoSuccessorExact ==
  ASSUME NEW p \in Str, prefixSuccessor(p) = nil, NEW s \in Str
  PROVE ~Less(s, p) <=> HasPrefix(s, p)
PROOF
<1> DEFINE B == {i \in 1..Len(p) : p[i] < MaxByte}
<1>1. B = {}
  <2>1. \A x : <<NoSuccessor>> # <<"string", x>>
    OBVIOUS
  <2>. QED
    BY <2>1 DEF prefixSuccessor, nil
<1>2. SUFFICES ASSUME ~Less(s, p), ~HasPrefix(s, p) PROVE FALSE
  BY PrefixNotBelow
<1>3. PICK i \in 1..Len(p) : i <= Len(s) /\ p[i] < s[i] /\ Agree(s, p, i - 1)
  BY <1>2, AbovePrefix
<1>4. p[i] < MaxByte
  <2>1. i \in 1..Len(s) /\ p[i] \in Nat /\ s[i] \in Nat /\ s[i] <= MaxByte /\ MaxByte \in Nat
    BY <1>3, StringTypes
  <2>. QED
    BY <1>3, <2>1
<1>. QED
  BY <1>1, <1>4

LEMMA SuccessorExact ==
  ASSUME NEW p \in Str, prefixSuccessor(p) # nil
  PROVE /\ prefixSuccessor(p)[2] \in Str
        /\ \A s \in Str : ~Less(s, p) /\ Less(s, prefixSuccessor(p)[2]) <=> HasPrefix(s, p)
PROOF
<1> DEFINE B == {i \in 1..Len(p) : p[i] < MaxByte}
           i == CHOOSE i \in B : \A j \in B : j <= i
           u == [SubSeq(p, 1, i) EXCEPT ![i] = @ + 1]
<1>1. B # {} /\ prefixSuccessor(p) = <<"string", u>>
  BY DEF prefixSuccessor, nil
<1>2. i \in B /\ \A j \in B : j <= i
  BY <1>1, LastBelow
<1> HIDE DEF i
<1>3. i \in 1..Len(p) /\ p[i] < MaxByte /\ MaxByte \in Nat /\ Len(p) \in Nat
  BY <1>2, StringTypes
<1>4. u \in Str /\ Len(u) = i /\ u[i] = p[i] + 1 /\ \A j \in 1..i - 1 : u[j] = p[j]
  <2>1. \A j \in 1..i : p[j] \in Byte /\ j \in 1..Len(p)
    BY <1>3 DEF Str
  <2>2. /\ SubSeq(p, 1, i) \in Seq(Byte) /\ Len(SubSeq(p, 1, i)) = i
        /\ \A j \in 1..i : SubSeq(p, 1, i)[j] = p[j]
    BY <1>3, <2>1, SubSeqProperties
  <2>3. p[i] + 1 \in Byte
    BY <1>3, <2>1 DEF Byte
  <2>4. i \in 1..i /\ \A j \in 1..i - 1 : j \in 1..i /\ j # i
    BY <1>3
  <2> DEFINE q == SubSeq(p, 1, i)
  <2>5. u = [q EXCEPT ![i] = p[i] + 1]
    BY <2>2, <2>4
  <2>6. q \in Seq(Byte) /\ Len(q) = i /\ i \in 1..Len(q) /\ \A j \in 1..i : q[j] = p[j]
    BY <2>2, <2>4
  <2> HIDE DEF q, u
  <2>7. /\ u \in Seq(Byte) /\ Len(u) = Len(q)
        /\ \A j \in 1..Len(q) : u[j] = IF j = i THEN p[i] + 1 ELSE q[j]
    <3> DEFINE e == p[i] + 1
    <3>1. e \in Byte /\ u = [q EXCEPT ![i] = e]
      BY <2>3, <2>5
    <3> HIDE DEF e
    <3>2. /\ u \in Seq(Byte) /\ Len(u) = Len(q)
          /\ \A j \in 1..Len(q) : u[j] = IF j = i THEN e ELSE q[j]
      BY <2>6, <3>1, ExceptSeq
    <3>. QED
      BY <3>2 DEF e
  <2>. QED
    BY <2>4, <2>6, <2>7 DEF Str
<1> HIDE DEF u
<1>5. ASSUME NEW s \in Str, HasPrefix(s, p) PROVE ~Less(s, p) /\ Less(s, u)
  <2>1. Len(p) <= Len(s) /\ Agree(s, p, Len(p)) /\ Len(s) \in Nat
    BY <1>5, PrefixAgree, StringTypes
  <2>2. Agree(s, u, i - 1) /\ s[i] = p[i] /\ p[i] \in Nat
    BY <1>3, <1>4, <2>1, StringTypes DEF Agree
  <2>3. BelowAt(s, u, i)
    BY <1>3, <1>4, <2>1, <2>2 DEF BelowAt
  <2>. QED
    BY <1>3, <1>4, <1>5, <2>3, LessBelow, PrefixNotBelow
<1>6. ASSUME NEW s \in Str, ~Less(s, p), Less(s, u) PROVE HasPrefix(s, p)
  <2>1. SUFFICES ASSUME ~HasPrefix(s, p) PROVE FALSE
    OBVIOUS
  <2>2. PICK j \in 1..Len(p) : j <= Len(s) /\ p[j] < s[j] /\ Agree(s, p, j - 1)
    BY <1>6, <2>1, AbovePrefix
  <2>3. /\ p[j] \in Nat /\ s[j] \in Nat /\ s[j] <= MaxByte /\ Len(s) \in Nat
        /\ j \in 1..Len(s)
    BY <1>3, <2>2, StringTypes
  <2>4. j <= i
    BY <1>2, <1>3, <2>2, <2>3
  <2>5. \A k \in 1..j - 1 : u[k] = s[k]
    BY <1>3, <1>4, <2>2, <2>4 DEF Agree
  <2>6. PICK k \in Nat : BelowAt(s, u, k)
    BY <1>4, <1>6, LessBelow
  <2>7. /\ k \in 1..i /\ k <= Len(s) + 1 /\ (k <= Len(s) => s[k] < u[k])
        /\ \A l \in 1..k - 1 : s[l] = u[l]
    BY <1>4, <2>6 DEF BelowAt, Agree
  <2>8. u[j] <= s[j] /\ u[j] \in Nat
    <3>1. CASE j < i
      BY <1>3, <1>4, <2>2, <2>3, <3>1
    <3>2. CASE j = i
      BY <1>3, <1>4, <2>2, <2>3, <3>2
    <3>. QED
      BY <1>3, <2>4, <3>1, <3>2
  <2>9. CASE k < j
    <3>1. k \in 1..j - 1 /\ k <= Len(s)
      BY <1>3, <2>3, <2>7, <2>9
    <3>. QED
      BY <2>3, <2>5, <2>7, <3>1, StringTypes
  <2>10. CASE k = j
    BY <2>3, <2>7, <2>8, <2>10
  <2>11. CASE j < k
    \* There s and u agree, and u is still p.
    <3>1. s[j] = u[j] /\ j < i
      BY <1>3, <2>7, <2>11
    <3>2. u[j] = p[j]
      BY <1>3, <1>4, <3>1
    <3>. QED
      BY <2>2, <2>3, <3>1, <3>2
  <2>. QED
    BY <2>7, <2>9, <2>10, <2>11
<1>. QED
  BY <1>1, <1>4, <1>5, <1>6

(***************************************************************************)
(* Numbers.  Place is well defined, and the bytes of a number are the      *)
(* remainders of its quotients by the places: the first quotient where two *)
(* numbers differ gives the first byte where their encodings differ.       *)
(***************************************************************************)
Base == MaxByte + 1

LEMMA DivMod ==
  ASSUME NEW a \in Nat, NEW d \in Nat \ {0}
  PROVE /\ a \div d \in Nat /\ a % d \in 0..d - 1
        /\ a = ((a \div d) * d) + (a % d)
PROOF
  OBVIOUS

LEMMA DivDiv ==
  ASSUME NEW a \in Nat, NEW w \in Nat \ {0}, NEW b \in Nat \ {0}
  PROVE a \div (w * b) = (a \div w) \div b
PROOF
  OBVIOUS

LEMMA DivMonotone ==
  ASSUME NEW a \in Nat, NEW b \in Nat, NEW d \in Nat \ {0}, a <= b
  PROVE a \div d <= b \div d
PROOF
  OBVIOUS

LEMMA PlaceExists ==
  ASSUME NEW n \in Nat
  PROVE \E f \in [0..n -> Nat \ {0}] : f[0] = 1 /\ \A k \in 1..n : f[k] = f[k - 1] * Base
PROOF
<1>0. Base \in Nat \ {0}
  BY BytesAssumption DEF Base
<1> DEFINE Sol(m, f) == f[0] = 1 /\ \A k \in 1..m : f[k] = f[k - 1] * Base
           D == {m \in Nat : ~\E f \in [0..m -> Nat \ {0}] : Sol(m, f)}
<1>1. D = {}
  <2>1. SUFFICES ASSUME D # {} PROVE FALSE
    OBVIOUS
  <2>2. PICK m \in D : \A k \in D : m <= k
    <3>1. D \subseteq Nat
      OBVIOUS
    <3> HIDE DEF D
    <3>. QED
      BY <2>1, <3>1, LeastNumber
  <2>3. m # 0
    <3> DEFINE g == [k \in 0..0 |-> 1]
    <3>1. g \in [0..0 -> Nat \ {0}] /\ Sol(0, g)
      OBVIOUS
    <3>. QED
      BY <2>2, <3>1
  <2>4. m - 1 \in Nat /\ m \in Nat /\ ~(m <= m - 1)
    BY <2>2, <2>3
  <2>5. PICK f \in [0..m - 1 -> Nat \ {0}] : Sol(m - 1, f)
    BY <2>2, <2>4
  <2> DEFINE g == [k \in 0..m |-> IF k = m THEN f[m - 1] * Base ELSE f[k]]
  <2>6. f[m - 1] \in Nat \ {0} /\ f[m - 1] * Base \in Nat \ {0}
    <3>1. f[m - 1] \in Nat \ {0}
      BY <2>4, <2>5
    <3>2. \A a, b \in Nat \ {0} : a * b \in Nat \ {0}
      OBVIOUS
    <3>. QED
      BY <1>0, <3>1, <3>2
  <2>7. g \in [0..m -> Nat \ {0}]
    BY <2>4, <2>5, <2>6
  <2>8. \A k \in 0..m - 1 : k \in 0..m /\ k # m /\ g[k] = f[k]
    BY <2>4
  <2>9. g[0] = 1
    BY <2>4, <2>5, <2>8
  <2>10. ASSUME NEW k \in 1..m PROVE g[k] = g[k - 1] * Base
    <3>1. k - 1 \in 0..m - 1
      BY <2>4
    <3>2. CASE k = m
      BY <2>4, <2>8, <3>1, <3>2
    <3>3. CASE k # m
      <4>1. k \in 1..m - 1 /\ k \in 0..m - 1
        BY <2>4, <3>3
      <4>. QED
        BY <2>5, <2>8, <3>1, <4>1
    <3>. QED
      BY <3>2, <3>3
  <2> HIDE DEF g
  <2>. QED
    BY <2>2, <2>7, <2>9, <2>10
<1>. QED
  BY <1>1

LEMMA PlaceTypes ==
  /\ Place[0] = 1 /\ Base \in Nat \ {0}
  /\ \A i \in 0..NumLen : Place[i] \in Nat \ {0}
  /\ \A i \in 1..NumLen : Place[i] = Place[i - 1] * Base
PROOF
<1>0. Base \in Nat \ {0} /\ NumLen \in Nat
  BY BytesAssumption DEF Base
<1> DEFINE Eq(f) == f = [i \in 0..NumLen |-> IF i = 0 THEN 1 ELSE f[i - 1] * Base]
<1>1. Place = CHOOSE f : Eq(f)
  BY DEF Place, Base
<1>2. \E f : Eq(f)
  <2>1. PICK f \in [0..NumLen -> Nat \ {0}] :
          f[0] = 1 /\ \A k \in 1..NumLen : f[k] = f[k - 1] * Base
    BY <1>0, PlaceExists
  <2>2. \A i \in 0..NumLen : f[i] = IF i = 0 THEN 1 ELSE f[i - 1] * Base
    BY <1>0, <2>1
  <2>3. Eq(f)
    BY <2>1, <2>2
  <2>. QED
    BY <2>3
<1>3. Eq(Place)
  <2> HIDE DEF Eq
  <2>. QED
    BY <1>1, <1>2
<1>4. Place[0] = 1 /\ \A i \in 1..NumLen : Place[i] = Place[i - 1] * Base
  <2>1. \A i \in 0..NumLen : Place[i] = IF i = 0 THEN 1 ELSE Place[i - 1] * Base
    BY <1>3
  <2>2. 0 \in 0..NumLen /\ \A i \in 1..NumLen : i \in 0..NumLen /\ i # 0
    BY <1>0
  <2>. QED
    BY <2>1, <2>2
<1> DEFINE D == {i \in 0..NumLen : Place[i] \notin Nat \ {0}}
<1>5. D = {}
  <2>1. SUFFICES ASSUME D # {} PROVE FALSE
    OBVIOUS
  <2>2. PICK i \in D : \A k \in D : i <= k
    <3>1. D \subseteq Nat
      BY <1>0
    <3> HIDE DEF D
    <3>. QED
      BY <2>1, <3>1, LeastNumber
  <2>3. i # 0 /\ i \in 1..NumLen /\ i - 1 \in 0..NumLen /\ ~(i <= i - 1)
    BY <1>0, <1>4, <2>2
  <2>4. Place[i - 1] \in Nat \ {0}
    BY <2>2, <2>3
  <2>5. \A a, b \in Nat \ {0} : a * b \in Nat \ {0}
    OBVIOUS
  <2>6. Place[i] \in Nat \ {0}
    BY <1>0, <1>4, <2>3, <2>4, <2>5
  <2>. QED
    BY <2>2, <2>6
<1>. QED
  BY <1>0, <1>4, <1>5

\* What the first i bytes of a number stand for.
Quotient(n, i) == n \div Place[NumLen - i]

LEMMA QuotientStep ==
  ASSUME NEW n \in 0..MaxUint
  PROVE /\ n \in Nat /\ Quotient(n, 0) = 0 /\ Quotient(n, NumLen) = n
        /\ \A i \in 0..NumLen : Quotient(n, i) \in Nat
        /\ \A i \in 1..NumLen : /\ numericVal(n)[i] \in 0..MaxByte
                                /\ Quotient(n, i) = (Quotient(n, i - 1) * Base) + numericVal(n)[i]
PROOF
<1>0. NumLen \in Nat /\ MaxByte \in Nat /\ Base - 1 = MaxByte /\ Base \in Nat \ {0}
  BY BytesAssumption DEF Base
<1>1. n \in Nat /\ n < Place[NumLen] /\ Place[NumLen] \in Nat \ {0}
  BY <1>0, PlaceTypes DEF MaxUint
<1>2. Quotient(n, 0) = 0
  <2>1. NumLen - 0 = NumLen
    BY <1>0
  <2>2. \A d \in Nat \ {0} : n < d => n \div d = 0
    BY <1>1
  <2>. QED
    BY <1>1, <2>1, <2>2 DEF Quotient
<1>3. Quotient(n, NumLen) = n
  <2>1. NumLen - NumLen = 0 /\ n \div 1 = n
    BY <1>0, <1>1
  <2>. QED
    BY <2>1, PlaceTypes DEF Quotient
<1>4. \A i \in 0..NumLen : Quotient(n, i) \in Nat /\ NumLen - i \in 0..NumLen
  <2>1. \A i \in 0..NumLen : NumLen - i \in 0..NumLen
    BY <1>0
  <2>. QED
    BY <1>1, <2>1, PlaceTypes, DivMod DEF Quotient
<1>5. ASSUME NEW i \in 1..NumLen
      PROVE /\ numericVal(n)[i] \in 0..MaxByte
            /\ Quotient(n, i) = (Quotient(n, i - 1) * Base) + numericVal(n)[i]
  <2>1. NumLen - i \in 0..NumLen /\ NumLen - (i - 1) \in 1..NumLen
        /\ (NumLen - (i - 1)) - 1 = NumLen - i /\ i \in 0..NumLen
    BY <1>0
  <2>2. Place[NumLen - (i - 1)] = Place[NumLen - i] * Base /\ Place[NumLen - i] \in Nat \ {0}
    BY <2>1, PlaceTypes
  <2>3. Quotient(n, i - 1) = Quotient(n, i) \div Base
    BY <1>0, <1>1, <2>2, DivDiv DEF Quotient
  <2>4. numericVal(n)[i] = Quotient(n, i) % Base
    BY DEF numericVal, Quotient, Base
  <2>5. Quotient(n, i) \in Nat
    BY <1>4, <2>1
  <2>. QED
    BY <1>0, <2>3, <2>4, <2>5, DivMod
<1>. QED
  BY <1>1, <1>2, <1>3, <1>4, <1>5

LEMMA NumberBytes ==
  ASSUME NEW n \in 0..MaxUint
  PROVE numericVal(n) \in Str /\ Len(numericVal(n)) = NumLen /\ numericVal(n) # <<>>
PROOF
<1>1. NumLen \in Nat \ {0}
  BY BytesAssumption
<1>2. \A i \in 1..NumLen : numericVal(n)[i] \in Byte
  BY QuotientStep DEF Byte
<1>3. numericVal(n) = [i \in 1..NumLen |-> numericVal(n)[i]]
  BY DEF numericVal
<1>4. numericVal(n) \in [1..NumLen -> Byte]
  BY <1>2, <1>3
<1>. QED
  BY <1>1, <1>4 DEF Str

\* Big-endian bytes of a fixed width are in the order of the numbers.
LEMMA NumberOrder ==
  ASSUME NEW m \in 0..MaxUint, NEW n \in 0..MaxUint, m < n
  PROVE Less(numericVal(m), numericVal(n))
PROOF
<1> DEFINE D == {i \in 0..NumLen : Quotient(m, i) # Quotient(n, i)}
<1>1. NumLen \in Nat /\ NumLen \in 0..NumLen /\ m \in Nat /\ n \in Nat
  BY BytesAssumption, QuotientStep
<1>2. D \subseteq Nat /\ D # {}
  BY <1>1, QuotientStep
<1>3. PICK i \in D : \A k \in D : i <= k
  <2> HIDE DEF D
  <2>. QED
    BY <1>2, LeastNumber
<1>4. i # 0 /\ i \in 1..NumLen
  BY <1>1, <1>3, QuotientStep
<1>5. \A k \in 0..i - 1 : Quotient(m, k) = Quotient(n, k)
  <2> SUFFICES ASSUME NEW k \in 0..i - 1 PROVE Quotient(m, k) = Quotient(n, k)
    OBVIOUS
  <2>1. k \in 0..NumLen /\ ~(i <= k)
    BY <1>1, <1>4
  <2>. QED
    BY <1>3, <2>1
<1>6. \A k \in 1..i - 1 : numericVal(m)[k] = numericVal(n)[k]
  <2> SUFFICES ASSUME NEW k \in 1..i - 1 PROVE numericVal(m)[k] = numericVal(n)[k]
    OBVIOUS
  <2>1. k \in 1..NumLen /\ k \in 0..i - 1 /\ k - 1 \in 0..i - 1 /\ k - 1 \in 0..NumLen
    BY <1>1, <1>4
  <2>2. /\ Quotient(m, k) = Quotient(n, k) /\ Quotient(m, k - 1) = Quotient(n, k - 1)
    BY <1>5, <2>1
  <2>3. /\ Quotient(m, k) = (Quotient(m, k - 1) * Base) + numericVal(m)[k]
        /\ Quotient(n, k) = (Quotient(n, k - 1) * Base) + numericVal(n)[k]
        /\ numericVal(m)[k] \in 0..MaxByte /\ numericVal(n)[k] \in 0..MaxByte
        /\ Quotient(n, k - 1) * Base \in Nat
    BY <2>1, QuotientStep, PlaceTypes
  <2>4. \A a \in Nat, x, y \in 0..MaxByte : a + x = a + y => x = y
    BY BytesAssumption
  <2>5. (Quotient(n, k - 1) * Base) + numericVal(m)[k]
          = (Quotient(n, k - 1) * Base) + numericVal(n)[k]
    BY <2>2, <2>3
  <2>. QED
    BY <2>3, <2>4, <2>5
<1>7. numericVal(m)[i] < numericVal(n)[i]
  <2>1. i \in 0..NumLen /\ i - 1 \in 0..i - 1 /\ i - 1 \in 0..NumLen
    BY <1>1, <1>4
  <2>2. Quotient(m, i) < Quotient(n, i)
    <3>1. NumLen - i \in 0..NumLen
      BY <1>1, <1>4
    <3>2. Quotient(m, i) <= Quotient(n, i)
      BY <1>1, <3>1, PlaceTypes, DivMonotone DEF Quotient
    <3>. QED
      BY <1>3, <2>1, <3>2, QuotientStep
  <2>3. Quotient(m, i - 1) = Quotient(n, i - 1)
    BY <1>5, <2>1
  <2>4. /\ Quotient(m, i) = (Quotient(m, i - 1) * Base) + numericVal(m)[i]
        /\ Quotient(n, i) = (Quotient(n, i - 1) * Base) + numericVal(n)[i]
        /\ numericVal(m)[i] \in 0..MaxByte /\ numericVal(n)[i] \in 0..MaxByte
        /\ Quotient(n, i - 1) * Base \in Nat
    BY <1>4, <2>1, QuotientStep, PlaceTypes
  <2>. QED
    BY <2>2, <2>3, <2>4, BytesAssumption
<1>8. BelowAt(numericVal(m), numericVal(n), i)
  <2>1. Len(numericVal(m)) = NumLen /\ Len(numericVal(n)) = NumLen
    BY NumberBytes
  <2>. QED
    BY <1>1, <1>4, <1>6, <1>7, <2>1 DEF BelowAt, Agree
<1>. QED
  BY <1>1, <1>8, NumberBytes, LessBelow

\* A number with one more byte at its end.
Appended(v, c) == (v * Base) + c

LEMMA AppendedByte ==
  ASSUME NEW v \in Nat, NEW c \in Nat, c < Base
  PROVE /\ Appended(v, c) \in Nat
        /\ Appended(v, c) \div Base = v /\ Appended(v, c) % Base = c
        /\ \A P \in Nat : v < P => Appended(v, c) < P * Base
PROOF
<1> DEFINE B == Base
           w == (v * B) + c
<1>0. B \in Nat \ {0}
  BY PlaceTypes
<1> HIDE DEF B
<1>1. w \in Nat
  BY <1>0
<1>2. w \div B = v /\ w % B = c
  BY <1>0 DEF B
<1>3. ASSUME NEW P \in Nat, v < P PROVE w < P * B
  <2>1. v + 1 <= P /\ (v + 1) * B = (v * B) + B
    BY <1>0, <1>3
  <2>2. \A x, y \in Nat : x <= y => x * B <= y * B
    BY <1>0
  <2>3. (v + 1) * B <= P * B
    BY <1>3, <2>1, <2>2
  <2>4. c < B
    BY DEF B
  <2>. QED
    BY <1>0, <2>1, <2>3, <2>4
<1>. QED
  BY <1>1, <1>2, <1>3 DEF Appended, B

LEMMA DivDivSwap ==
  ASSUME NEW a \in Nat, NEW w \in Nat \ {0}, NEW b \in Nat \ {0}
  PROVE a \div (w * b) = (a \div b) \div w
PROOF
<1>1. w * b = b * w
  OBVIOUS
<1>. QED
  BY <1>1, DivDiv

\* Every string of NumLen bytes is the bytes of a number: its first k bytes
\* are, for every k.
LEMMA NumberOfBytes ==
  ASSUME NEW b \in Str, Len(b) = NumLen
  PROVE \E n \in 0..MaxUint : numericVal(n) = b
PROOF
<1>0. /\ NumLen \in Nat /\ MaxByte \in Nat /\ Base = MaxByte + 1 /\ Base \in Nat \ {0}
      /\ \A i \in 1..NumLen : b[i] \in Nat /\ b[i] < Base
  BY BytesAssumption, StringTypes DEF Base
<1> DEFINE Digit(v, k, i) == (v \div Place[k - i]) % Base
           Good(v, k) == v < Place[k] /\ \A i \in 1..k : Digit(v, k, i) = b[i]
           D == {k \in 0..NumLen : ~\E v \in Nat : Good(v, k)}
<1>1. Good(0, 0)
  BY PlaceTypes
<1>2. ASSUME NEW k \in 1..NumLen, NEW v \in Nat, Good(v, k - 1)
      PROVE \E w \in Nat : Good(w, k)
  <2> DEFINE w == Appended(v, b[k])
  <2>0. k - 1 \in 0..NumLen /\ k \in 0..NumLen /\ k - k = 0
    BY <1>0, <1>2
  <2>1. Place[k] = Place[k - 1] * Base /\ Place[k - 1] \in Nat \ {0} /\ v < Place[k - 1]
    BY <1>2, <2>0, PlaceTypes
  <2>2. w \in Nat /\ w \div Base = v /\ w % Base = b[k] /\ w < Place[k]
    <3>1. b[k] \in Nat /\ b[k] < Base /\ Place[k - 1] \in Nat
      BY <1>0, <1>2, <2>1
    <3>2. /\ w \in Nat /\ w \div Base = v /\ w % Base = b[k]
          /\ \A P \in Nat : v < P => w < P * Base
      BY <3>1, AppendedByte
    <3> HIDE DEF w
    <3>. QED
      BY <2>1, <3>1, <3>2
  <2> HIDE DEF w
  <2>3. Digit(w, k, k) = b[k]
    <3>1. w \div 1 = w
      BY <2>2
    <3>. QED
      BY <2>0, <2>2, <3>1, PlaceTypes
  <2>4. ASSUME NEW i \in 1..k - 1 PROVE Digit(w, k, i) = b[i]
    <3>1. k - i \in 1..NumLen /\ (k - i) - 1 = (k - 1) - i /\ (k - 1) - i \in 0..NumLen
      BY <1>0, <1>2, <2>4
    <3>2. Place[k - i] = Place[(k - 1) - i] * Base /\ Place[(k - 1) - i] \in Nat \ {0}
      BY <3>1, PlaceTypes
    <3>3. w \div Place[k - i] = (w \div Base) \div Place[(k - 1) - i]
      <4>1. Base \in Nat \ {0}
        BY <1>0
      <4>2. w \div (Place[(k - 1) - i] * Base) = (w \div Base) \div Place[(k - 1) - i]
        BY <2>2, <3>2, <4>1, DivDivSwap
      <4>. QED
        BY <3>2, <4>2
    <3>4. Digit(w, k, i) = Digit(v, k - 1, i)
      BY <2>2, <3>3
    <3>. QED
      BY <1>2, <2>4, <3>4
  <2>5. \A i \in 1..k : i = k \/ i \in 1..k - 1
    BY <1>0, <1>2
  <2> HIDE DEF Digit
  <2>. QED
    BY <2>2, <2>3, <2>4, <2>5
<1>3. D = {}
  <2>1. SUFFICES ASSUME D # {} PROVE FALSE
    OBVIOUS
  <2>2. PICK k \in D : \A j \in D : k <= j
    <3>1. D \subseteq Nat
      BY <1>0
    <3> HIDE DEF D
    <3>. QED
      BY <2>1, <3>1, LeastNumber
  <2> HIDE DEF Good
  <2>3. k # 0
    BY <1>1, <2>2
  <2>4. k \in 1..NumLen /\ k - 1 \in 0..NumLen /\ ~(k <= k - 1)
    BY <1>0, <2>2, <2>3
  <2>5. PICK v \in Nat : Good(v, k - 1)
    BY <2>2, <2>4
  <2>. QED
    BY <1>2, <2>2, <2>4, <2>5
<1>4. PICK n \in Nat : Good(n, NumLen)
  <2> HIDE DEF Good
  <2>1. NumLen \in 0..NumLen
    BY <1>0
  <2>. QED
    BY <1>3, <2>1
<1>5. n \in 0..MaxUint
  <2>1. NumLen \in 0..NumLen
    BY <1>0
  <2>2. Place[NumLen] \in Nat \ {0}
    BY <2>1, PlaceTypes
  <2>. QED
    BY <1>4, <2>2 DEF MaxUint
<1>6. \A i \in 1..NumLen : numericVal(n)[i] = b[i]
  BY <1>4 DEF numericVal, Base
<1>7. numericVal(n) = b
  BY <1>5, <1>6, NumberBytes, EqualStrings DEF Agree
<1>. QED
  BY <1>5, <1>7

\* Uint is the inverse of numericVal.
LEMMA UintExact ==
  /\ \A n \in 0..MaxUint : Uint(numericVal(n)) = n
  /\ \A b \in Str : Len(b) = NumLen => Uint(b) \in 0..MaxUint /\ numericVal(Uint(b)) = b
PROOF
<1>1. ASSUME NEW b \in Str, Len(b) = NumLen
      PROVE Uint(b) \in 0..MaxUint /\ numericVal(Uint(b)) = b
  <2>1. \E n \in 0..MaxUint : numericVal(n) = b
    BY <1>1, NumberOfBytes
  <2>. QED
    BY <2>1 DEF Uint
<1>2. ASSUME NEW n \in 0..MaxUint PROVE Uint(numericVal(n)) = n
  <2>1. /\ Uint(numericVal(n)) \in 0..MaxUint
        /\ numericVal(Uint(numericVal(n))) = numericVal(n)
    BY <1>1, NumberBytes
  <2>2. \A m \in 0..MaxUint : m < n \/ n < m \/ m = n
    BY QuotientStep
  <2>. QED
    BY <2>1, <2>2, NumberOrder, NumberBytes, LessIrreflexive
<1>. QED
  BY <1>1, <1>2

(***************************************************************************)
(* Numbers on the wire: the low bytes of a number are the number modulo    *)
(* the width.                                                              *)
(***************************************************************************)
\* The value of each prefix of a byte string.
Prefixes(f, b, n) == f[0] = 0 /\ \A k \in 1..n : f[k] = Appended(f[k - 1], b[k])

LEMMA AppendedNat ==
  \A v, c \in Nat : Appended(v, c) \in Nat
PROOF
  BY PlaceTypes DEF Appended

LEMMA PrefixesExist ==
  ASSUME NEW b \in Str, NEW n \in Nat, n <= Len(b)
  PROVE \E f \in [0..n -> Nat] : Prefixes(f, b, n)
PROOF
<1>0. \A k \in 1..Len(b) : b[k] \in Nat
  BY StringTypes
<1> DEFINE D == {m \in 0..n : ~\E f \in [0..m -> Nat] : Prefixes(f, b, m)}
<1>1. D = {}
  <2>1. SUFFICES ASSUME D # {} PROVE FALSE
    OBVIOUS
  <2>2. PICK m \in D : \A k \in D : m <= k
    <3>1. D \subseteq Nat
      OBVIOUS
    <3> HIDE DEF D
    <3>. QED
      BY <2>1, <3>1, LeastNumber
  <2>3. m # 0
    <3> DEFINE g == [k \in 0..0 |-> 0]
    <3>1. g \in [0..0 -> Nat] /\ Prefixes(g, b, 0)
      BY DEF Prefixes
    <3>. QED
      BY <2>2, <3>1
  <2>4. m - 1 \in 0..n /\ m \in Nat /\ m \in 1..Len(b) /\ ~(m <= m - 1)
    <3>1. Len(b) \in Nat
      BY StringTypes
    <3>. QED
      BY <2>2, <2>3, <3>1
  <2>5. PICK f \in [0..m - 1 -> Nat] : Prefixes(f, b, m - 1)
    BY <2>2, <2>4
  <2> DEFINE g == [k \in 0..m |-> IF k = m THEN Appended(f[m - 1], b[m]) ELSE f[k]]
  <2>6. Appended(f[m - 1], b[m]) \in Nat
    <3>1. f[m - 1] \in Nat /\ b[m] \in Nat
      BY <1>0, <2>4, <2>5
    <3>. QED
      BY <3>1, AppendedNat
  <2>7. g \in [0..m -> Nat]
    BY <2>4, <2>5, <2>6
  <2>8. \A k \in 0..m - 1 : k \in 0..m /\ k # m /\ g[k] = f[k]
    BY <2>4
  <2>9. g[0] = 0
    BY <2>4, <2>5, <2>8 DEF Prefixes
  <2>10. ASSUME NEW k \in 1..m PROVE g[k] = Appended(g[k - 1], b[k])
    <3>1. k - 1 \in 0..m - 1
      BY <2>4
    <3>2. CASE k = m
      BY <2>4, <2>8, <3>1, <3>2
    <3>3. CASE k # m
      <4>1. k \in 1..m - 1 /\ k \in 0..m - 1
        BY <2>4, <3>3
      <4>. QED
        BY <2>5, <2>8, <3>1, <4>1 DEF Prefixes
    <3>. QED
      BY <3>2, <3>3
  <2> HIDE DEF g
  <2>11. Prefixes(g, b, m)
    BY <2>9, <2>10 DEF Prefixes
  <2>. QED
    BY <2>2, <2>7, <2>11
<1>2. n \in 0..n
  OBVIOUS
<1>. QED
  BY <1>1, <1>2

\* What the recursion of BigEndian computes.
LEMMA BigEndianValue ==
  ASSUME NEW b \in Str
  PROVE \E f \in [0..Len(b) -> Nat] : Prefixes(f, b, Len(b)) /\ BigEndian(b) = f[Len(b)]
PROOF
<1>0. Len(b) \in Nat /\ \A k \in 1..Len(b) : b[k] \in Nat
  BY StringTypes
<1> DEFINE Eq(f) == f = [i \in 0..Len(b) |-> IF i = 0 THEN 0 ELSE (f[i - 1] * (MaxByte + 1)) + b[i]]
           value == CHOOSE f : Eq(f)
<1>1. BigEndian(b) = value[Len(b)]
  BY DEF BigEndian
<1>2. \E f : Eq(f)
  <2>1. PICK f \in [0..Len(b) -> Nat] : Prefixes(f, b, Len(b))
    BY <1>0, PrefixesExist
  <2>2. \A i \in 0..Len(b) : f[i] = IF i = 0 THEN 0 ELSE (f[i - 1] * (MaxByte + 1)) + b[i]
    BY <1>0, <2>1 DEF Prefixes, Appended, Base
  <2>3. Eq(f)
    BY <2>1, <2>2
  <2>. QED
    BY <2>3
<1>3. Eq(value)
  <2> HIDE DEF Eq
  <2>. QED
    BY <1>2
<1>4. /\ value = [i \in 0..Len(b) |-> value[i]]
      /\ \A i \in 0..Len(b) : value[i] = IF i = 0 THEN 0 ELSE (value[i - 1] * (MaxByte + 1)) + b[i]
  <2>1. \A f : Eq(f) => /\ f = [i \in 0..Len(b) |-> f[i]]
                        /\ \A i \in 0..Len(b) :
                             f[i] = IF i = 0 THEN 0 ELSE (f[i - 1] * (MaxByte + 1)) + b[i]
    OBVIOUS
  <2> HIDE DEF Eq, value
  <2>. QED
    BY <1>3, <2>1
<1> HIDE DEF value
<1>5. Prefixes(value, b, Len(b))
  <2>1. 0 \in 0..Len(b) /\ \A i \in 1..Len(b) : i \in 0..Len(b) /\ i # 0
    BY <1>0
  <2>. QED
    BY <1>4, <2>1 DEF Prefixes, Appended, Base
<1> DEFINE D == {i \in 0..Len(b) : value[i] \notin Nat}
<1>6. D = {}
  <2>1. SUFFICES ASSUME D # {} PROVE FALSE
    OBVIOUS
  <2>2. PICK i \in D : \A k \in D : i <= k
    <3>1. D \subseteq Nat
      BY <1>0
    <3> HIDE DEF D
    <3>. QED
      BY <2>1, <3>1, LeastNumber
  <2>3. i # 0
    BY <1>5, <2>2 DEF Prefixes
  <2>4. i \in 1..Len(b) /\ i - 1 \in 0..Len(b) /\ ~(i <= i - 1)
    BY <1>0, <2>2, <2>3
  <2>5. value[i - 1] \in Nat
    BY <2>2, <2>4
  <2>6. value[i] \in Nat
    BY <1>0, <1>5, <2>4, <2>5, AppendedNat DEF Prefixes
  <2>. QED
    BY <2>2, <2>6
<1>7. value \in [0..Len(b) -> Nat]
  BY <1>4, <1>6
<1>. QED
  BY <1>1, <1>5, <1>7

\* A number of few bytes is small.
LEMMA PrefixesBounded ==
  ASSUME NEW b \in Str, NEW f \in [0..Len(b) -> Nat], Prefixes(f, b, Len(b)), Len(b) <= NumLen
  PROVE \A k \in 0..Len(b) : f[k] < Place[k]
PROOF
<1>0. Len(b) \in Nat /\ NumLen \in Nat /\ \A k \in 1..Len(b) : b[k] \in Nat /\ b[k] < Base
  BY StringTypes, BytesAssumption DEF Base
<1> DEFINE D == {k \in 0..Len(b) : ~(f[k] < Place[k])}
<1>1. D = {}
  <2>1. SUFFICES ASSUME D # {} PROVE FALSE
    OBVIOUS
  <2>2. PICK k \in D : \A j \in D : k <= j
    <3>1. D \subseteq Nat
      BY <1>0
    <3> HIDE DEF D
    <3>. QED
      BY <2>1, <3>1, LeastNumber
  <2>3. k # 0
    BY <2>2, PlaceTypes DEF Prefixes
  <2>4. /\ k \in 1..Len(b) /\ k - 1 \in 0..Len(b) /\ ~(k <= k - 1)
        /\ k \in 1..NumLen /\ k - 1 \in 0..NumLen
    BY <1>0, <2>2, <2>3
  <2>5. f[k - 1] < Place[k - 1] /\ f[k - 1] \in Nat /\ Place[k - 1] \in Nat
    BY <2>2, <2>4, PlaceTypes
  <2>6. Appended(f[k - 1], b[k]) < Place[k - 1] * Base
    BY <1>0, <2>4, <2>5, AppendedByte
  <2>7. f[k] = Appended(f[k - 1], b[k]) /\ Place[k] = Place[k - 1] * Base
    BY <2>4, PlaceTypes DEF Prefixes
  <2>. QED
    BY <2>2, <2>6, <2>7
<1>. QED
  BY <1>1

LEMMA PlaceGrows ==
  \A k \in 0..NumLen : Place[k] <= Place[NumLen]
PROOF
<1>0. NumLen \in Nat /\ NumLen \in 0..NumLen
  BY BytesAssumption
<1> DEFINE D == {m \in 0..NumLen : ~(Place[NumLen - m] <= Place[NumLen])}
<1>1. D = {}
  <2>1. SUFFICES ASSUME D # {} PROVE FALSE
    OBVIOUS
  <2>2. PICK m \in D : \A j \in D : m <= j
    <3>1. D \subseteq Nat
      BY <1>0
    <3> HIDE DEF D
    <3>. QED
      BY <2>1, <3>1, LeastNumber
  <2>3. m # 0
    <3>1. NumLen - 0 = NumLen /\ Place[NumLen] \in Nat
      BY <1>0, PlaceTypes
    <3>. QED
      BY <2>2, <3>1
  <2>4. /\ m - 1 \in 0..NumLen /\ ~(m <= m - 1) /\ NumLen - m \in 0..NumLen
        /\ NumLen - (m - 1) \in 1..NumLen /\ (NumLen - (m - 1)) - 1 = NumLen - m
    BY <1>0, <2>2, <2>3
  <2>5. Place[NumLen - (m - 1)] <= Place[NumLen]
    BY <2>2, <2>4
  <2>6. /\ Place[NumLen - (m - 1)] = Place[NumLen - m] * Base
        /\ Place[NumLen - m] \in Nat /\ Base \in Nat \ {0}
    BY <2>4, PlaceTypes
  <2>7. \A x \in Nat, y \in Nat \ {0} : x <= x * y
    OBVIOUS
  <2>8. Place[NumLen - m] <= Place[NumLen - (m - 1)]
    BY <2>6, <2>7
  <2>9. Place[NumLen] \in Nat /\ Place[NumLen - (m - 1)] \in Nat
    BY <1>0, <2>4, <2>6, PlaceTypes
  <2>. QED
    BY <2>2, <2>5, <2>6, <2>8, <2>9
<1>2. \A k \in 0..NumLen : NumLen - k \in 0..NumLen /\ NumLen - (NumLen - k) = k
  BY <1>0
<1>. QED
  BY <1>1, <1>2

\* High bytes a before low bytes v of weight p.
Shifted(a, p, v) == (a * p) + v

LEMMA AppendShifted ==
  ASSUME NEW a \in Nat, NEW p \in Nat, NEW v \in Nat, NEW c \in Nat
  PROVE Appended(Shifted(a, p, v), c) = Shifted(a, p * Base, Appended(v, c))
PROOF
<1>1. \A B \in Nat : (((a * p) + v) * B) + c = (a * (p * B)) + ((v * B) + c)
  OBVIOUS
<1>2. Base \in Nat
  BY PlaceTypes
<1>. QED
  BY <1>1, <1>2 DEF Appended, Shifted

LEMMA ModExact ==
  ASSUME NEW v \in Nat, NEW c \in Nat, NEW P \in Nat \ {0}, c < P
  PROVE ((v * P) + c) % P = c
PROOF
  OBVIOUS

\* The low bytes of a long number.
LEMMA LowBytes ==
  ASSUME NEW b \in Str, NEW f \in [0..Len(b) -> Nat], Prefixes(f, b, Len(b)),
         NEW low \in Str, NEW g \in [0..NumLen -> Nat], Prefixes(g, low, NumLen),
         Len(low) = NumLen, NEW d \in Nat, d + NumLen = Len(b),
         \A k \in 1..NumLen : low[k] = b[d + k]
  PROVE f[Len(b)] = Shifted(f[d], Place[NumLen], g[NumLen])
PROOF
<1>0. /\ Len(b) \in Nat /\ NumLen \in Nat /\ Base \in Nat
      /\ \A k \in 1..NumLen : low[k] \in Nat
  BY StringTypes, BytesAssumption, PlaceTypes
<1>1. f[d] \in Nat
  <2>1. d \in 0..Len(b)
    BY <1>0
  <2>. QED
    BY <2>1
<1> DEFINE D == {k \in 0..NumLen : f[d + k] # Shifted(f[d], Place[k], g[k])}
<1>2. D = {}
  <2>1. SUFFICES ASSUME D # {} PROVE FALSE
    OBVIOUS
  <2>2. PICK k \in D : \A j \in D : k <= j
    <3>1. D \subseteq Nat
      BY <1>0
    <3> HIDE DEF D
    <3>. QED
      BY <2>1, <3>1, LeastNumber
  <2>3. k # 0
    <3>1. d + 0 = d /\ Place[0] = 1 /\ g[0] = 0
      BY PlaceTypes DEF Prefixes
    <3>2. f[d] = Shifted(f[d], 1, 0)
      BY <1>1 DEF Shifted
    <3>. QED
      BY <2>2, <3>1, <3>2
  <2>4. /\ k \in 1..NumLen /\ k - 1 \in 0..NumLen /\ ~(k <= k - 1)
        /\ d + k \in 1..Len(b) /\ (d + k) - 1 = d + (k - 1)
    BY <1>0, <2>2, <2>3
  <2>5. f[d + (k - 1)] = Shifted(f[d], Place[k - 1], g[k - 1])
    BY <2>2, <2>4
  <2>6. f[d + k] = Appended(f[d + (k - 1)], low[k]) /\ g[k] = Appended(g[k - 1], low[k])
    BY <2>4 DEF Prefixes
  <2>8. Place[k] = Place[k - 1] * Base /\ Place[k - 1] \in Nat /\ g[k - 1] \in Nat
        /\ low[k] \in Nat
    BY <1>0, <2>4, PlaceTypes
  <2>9. f[d + k] = Shifted(f[d], Place[k], g[k])
    BY <1>1, <2>5, <2>6, <2>8, AppendShifted
  <2>. QED
    BY <2>2, <2>9
<1>3. NumLen \in 0..NumLen
  BY <1>0
<1>. QED
  BY <1>2, <1>3

\* attrUint64 keeps a number modulo the width.
LEMMA WireNumber ==
  ASSUME NEW b \in Str
  PROVE attrUint64(b) = BigEndian(b) % (MaxUint + 1) /\ attrUint64(b) \in 0..MaxUint
PROOF
<1>0. /\ Len(b) \in Nat /\ NumLen \in Nat /\ NumLen \in 0..NumLen
      /\ Place[NumLen] \in Nat \ {0} /\ MaxUint + 1 = Place[NumLen]
      /\ \A n \in Nat : n < Place[NumLen] => n \in 0..MaxUint
  <2>1. Len(b) \in Nat /\ NumLen \in Nat /\ NumLen \in 0..NumLen
    BY StringTypes, BytesAssumption
  <2>2. Place[NumLen] \in Nat \ {0}
    BY <2>1, PlaceTypes
  <2>. QED
    BY <2>1, <2>2 DEF MaxUint
<1>1. PICK f \in [0..Len(b) -> Nat] : Prefixes(f, b, Len(b)) /\ BigEndian(b) = f[Len(b)]
  BY BigEndianValue
<1>2. Len(b) \in 0..Len(b) /\ f[Len(b)] \in Nat
  BY <1>0, <1>1
<1>3. CASE Len(b) <= NumLen
  <2>1. attrUint64(b) = BigEndian(b)
    BY <1>0, <1>3 DEF attrUint64
  <2>2. f[Len(b)] < Place[Len(b)] /\ Place[Len(b)] <= Place[NumLen] /\ Place[Len(b)] \in Nat
    <3>1. Len(b) \in 0..NumLen
      BY <1>0, <1>3
    <3>. QED
      BY <1>1, <1>2, <1>3, <3>1, PrefixesBounded, PlaceGrows, PlaceTypes
  <2>3. f[Len(b)] < Place[NumLen]
    BY <1>0, <1>2, <2>2
  <2>4. \A n \in Nat, P \in Nat \ {0} : n < P => n % P = n
    OBVIOUS
  <2>. QED
    BY <1>0, <1>1, <1>2, <2>1, <2>3, <2>4
<1>4. CASE Len(b) > NumLen
  <2> DEFINE d == Len(b) - NumLen
             low == SubSeq(b, d + 1, Len(b))
  <2>1. d \in Nat /\ d + NumLen = Len(b) /\ Len(b) - NumLen + 1 = d + 1 /\ d \in 0..Len(b)
    BY <1>0, <1>4
  <2>2. attrUint64(b) = BigEndian(low)
    BY <1>4, <2>1 DEF attrUint64
  <2>3. low \in Str /\ Len(low) = NumLen /\ \A k \in 1..NumLen : low[k] = b[d + k]
    <3> HIDE DEF d
    <3>1. \A k \in d + 1..Len(b) : b[k] \in Byte
      BY <1>0, <2>1 DEF Str
    <3>2. /\ low \in Seq(Byte) /\ Len(low) = (Len(b) - (d + 1)) + 1
          /\ \A k \in 1..(Len(b) - (d + 1)) + 1 : low[k] = b[(d + 1) + k - 1]
      BY <1>0, <2>1, <3>1, SubSeqProperties
    <3>3. (Len(b) - (d + 1)) + 1 = NumLen /\ \A k \in Nat : (d + 1) + k - 1 = d + k
      BY <1>0, <2>1
    <3> HIDE DEF low
    <3>. QED
      BY <1>0, <3>2, <3>3 DEF Str
  <2> HIDE DEF low, d
  <2>4. PICK g \in [0..NumLen -> Nat] : Prefixes(g, low, NumLen) /\ BigEndian(low) = g[NumLen]
    BY <2>3, BigEndianValue
  <2>5. f[Len(b)] = (f[d] * Place[NumLen]) + g[NumLen]
    BY <1>1, <2>1, <2>3, <2>4, LowBytes DEF Shifted
  <2>6. g[NumLen] < Place[NumLen] /\ g[NumLen] \in Nat /\ f[d] \in Nat
    <3>1. \A k \in 0..Len(low) : g[k] < Place[k]
      <4>1. g \in [0..Len(low) -> Nat] /\ Prefixes(g, low, Len(low)) /\ Len(low) <= NumLen
        BY <1>0, <2>3, <2>4
      <4>. QED
        BY <2>3, <4>1, PrefixesBounded
    <3>2. g[NumLen] < Place[NumLen]
      BY <1>0, <2>3, <3>1
    <3>. QED
      BY <1>0, <1>1, <2>1, <2>4, <3>2
  <2>7. ((f[d] * Place[NumLen]) + g[NumLen]) % Place[NumLen] = g[NumLen]
    BY <1>0, <2>6, ModExact
  <2>. QED
    BY <1>0, <1>1, <2>2, <2>4, <2>5, <2>6, <2>7
<1>. QED
  BY <1>0, <1>3, <1>4

(***************************************************************************)
(* Globs.  The recursion of globMatch has a solution that can be written   *)
(* down, the positions from which the rest of the string can be cut into   *)
(* pieces for the rest of the pattern, and no other.                       *)
(***************************************************************************)
Piece(p, s, k, a, b) ==
  IF p[k] = Star THEN a <= b ELSE b = a + 1 /\ p[k] \in {Question, s[b]}

\* The pattern from i on cuts the string from j on.
Cuts(p, s, i, j) ==
  \E cut \in [i - 1..Len(p) -> 0..Len(s)] :
    /\ cut[i - 1] = j - 1 /\ cut[Len(p)] = Len(s)
    /\ \A k \in i..Len(p) : Piece(p, s, k, cut[k - 1], cut[k])

\* One step of the recursion of globMatch.
RestOf(p, s, f, i) ==
  IF i > Len(p) THEN {Len(s) + 1}
  ELSE IF p[i] = Star
       THEN {j \in 1..Len(s) + 1 : i = Len(p) \/ \E k \in f[i + 1] : j <= k}
       ELSE {j \in 1..Len(s) : /\ p[i] = Question \/ p[i] = s[j]
                               /\ j + 1 \in f[i + 1]}

LEMMA CutsEnd ==
  ASSUME NEW p \in Str, NEW s \in Str, NEW j \in 1..Len(s) + 1
  PROVE Cuts(p, s, Len(p) + 1, j) <=> j = Len(s) + 1
PROOF
<1>1. Len(p) \in Nat /\ Len(s) \in Nat
  BY StringTypes
<1>2. ASSUME Cuts(p, s, Len(p) + 1, j) PROVE j = Len(s) + 1
  BY <1>1, <1>2 DEF Cuts
<1>3. ASSUME j = Len(s) + 1 PROVE Cuts(p, s, Len(p) + 1, j)
  <2> DEFINE cut == [k \in (Len(p) + 1) - 1..Len(p) |-> Len(s)]
  <2>1. /\ cut \in [(Len(p) + 1) - 1..Len(p) -> 0..Len(s)]
        /\ cut[(Len(p) + 1) - 1] = j - 1 /\ cut[Len(p)] = Len(s)
    BY <1>1, <1>3
  <2>2. Len(p) + 1..Len(p) = {}
    BY <1>1
  <2> HIDE DEF cut
  <2>. QED
    BY <2>1, <2>2 DEF Cuts
<1>. QED
  BY <1>2, <1>3

\* The first piece of a cut, and the rest of it.
LEMMA CutsStep ==
  ASSUME NEW p \in Str, NEW s \in Str, NEW i \in 1..Len(p), NEW j \in 1..Len(s) + 1
  PROVE Cuts(p, s, i, j) <=>
          \E b \in 0..Len(s) : Piece(p, s, i, j - 1, b) /\ Cuts(p, s, i + 1, b + 1)
PROOF
<1>1. Len(p) \in Nat /\ Len(s) \in Nat /\ i \in Nat /\ i >= 1 /\ i <= Len(p) /\ j - 1 \in 0..Len(s)
      /\ (i + 1) - 1 = i
  BY StringTypes
<1>2. ASSUME Cuts(p, s, i, j)
      PROVE \E b \in 0..Len(s) : Piece(p, s, i, j - 1, b) /\ Cuts(p, s, i + 1, b + 1)
  <2>1. PICK cut \in [i - 1..Len(p) -> 0..Len(s)] :
          /\ cut[i - 1] = j - 1 /\ cut[Len(p)] = Len(s)
          /\ \A k \in i..Len(p) : Piece(p, s, k, cut[k - 1], cut[k])
    BY <1>2 DEF Cuts
  <2>2. cut[i] \in 0..Len(s) /\ Piece(p, s, i, j - 1, cut[i])
    BY <1>1, <2>1
  <2> DEFINE c == [k \in i..Len(p) |-> cut[k]]
  <2>3. c \in [i..Len(p) -> 0..Len(s)]
    BY <1>1, <2>1
  <2>4. c[i] = (cut[i] + 1) - 1 /\ c[Len(p)] = Len(s)
    BY <1>1, <2>1, <2>2
  <2>5. ASSUME NEW k \in i + 1..Len(p) PROVE Piece(p, s, k, c[k - 1], c[k])
    <3>1. k \in i..Len(p) /\ k - 1 \in i..Len(p)
      BY <1>1, <2>5
    <3>2. c[k - 1] = cut[k - 1] /\ c[k] = cut[k]
      BY <3>1
    <3>3. Piece(p, s, k, cut[k - 1], cut[k])
      BY <2>1, <3>1
    <3>. QED
      BY <3>2, <3>3
  <2> HIDE DEF c
  <2>6. Cuts(p, s, i + 1, cut[i] + 1)
    BY <1>1, <2>3, <2>4, <2>5 DEF Cuts
  <2>. QED
    BY <2>2, <2>6
<1>3. ASSUME NEW b \in 0..Len(s), Piece(p, s, i, j - 1, b), Cuts(p, s, i + 1, b + 1)
      PROVE Cuts(p, s, i, j)
  <2>1. PICK c \in [i..Len(p) -> 0..Len(s)] :
          /\ c[i] = (b + 1) - 1 /\ c[Len(p)] = Len(s)
          /\ \A k \in i + 1..Len(p) : Piece(p, s, k, c[k - 1], c[k])
    BY <1>1, <1>3 DEF Cuts
  <2>2. c[i] = b
    BY <1>1, <1>3, <2>1
  <2> DEFINE cut == [k \in i - 1..Len(p) |-> IF k = i - 1 THEN j - 1 ELSE c[k]]
  <2>3. \A k \in i..Len(p) : cut[k] = c[k] /\ k # i - 1 /\ k \in i - 1..Len(p)
    BY <1>1
  <2>4. cut \in [i - 1..Len(p) -> 0..Len(s)] /\ cut[i - 1] = j - 1
    BY <1>1, <2>1
  <2>5. cut[Len(p)] = Len(s)
    BY <1>1, <2>1, <2>3
  <2>6. ASSUME NEW k \in i..Len(p) PROVE Piece(p, s, k, cut[k - 1], cut[k])
    <3>1. CASE k = i
      BY <1>1, <1>3, <2>2, <2>3, <2>4, <3>1
    <3>2. CASE k # i
      <4>1. k \in i + 1..Len(p) /\ k - 1 \in i..Len(p)
        BY <1>1, <2>6, <3>2
      <4>2. cut[k - 1] = c[k - 1] /\ cut[k] = c[k]
        BY <2>3, <2>6, <4>1
      <4>. QED
        BY <2>1, <4>1, <4>2
    <3>. QED
      BY <3>1, <3>2
  <2> HIDE DEF cut
  <2>. QED
    BY <2>4, <2>5, <2>6 DEF Cuts
<1>. QED
  BY <1>2, <1>3

\* The positions from which the rest can be cut solve the recursion.
LEMMA CutsSolve ==
  ASSUME NEW p \in Str, NEW s \in Str, NEW i \in 1..Len(p) + 1, NEW g,
         \A k \in 1..Len(p) + 1 : g[k] = {j \in 1..Len(s) + 1 : Cuts(p, s, k, j)}
  PROVE g[i] = RestOf(p, s, g, i)
PROOF
<1>1. Len(p) \in Nat /\ Len(s) \in Nat /\ i \in Nat /\ i >= 1 /\ i <= Len(p) + 1
  BY StringTypes
<1>2. CASE i = Len(p) + 1
  <2>1. \A j \in 1..Len(s) + 1 : Cuts(p, s, i, j) <=> j = Len(s) + 1
    BY <1>2, CutsEnd
  <2>2. g[i] = {Len(s) + 1}
    BY <1>1, <2>1
  <2>. QED
    BY <1>1, <1>2, <2>2 DEF RestOf
<1>3. CASE i <= Len(p)
  <2>1. i \in 1..Len(p) /\ i + 1 \in 1..Len(p) + 1 /\ ~(i > Len(p))
    BY <1>1, <1>3
  <2>2. \A b \in 0..Len(s) : Cuts(p, s, i + 1, b + 1) <=> b + 1 \in g[i + 1]
    BY <1>1, <2>1
  <2>3. \A j \in 1..Len(s) + 1 : Cuts(p, s, i, j) <=>
          \E b \in 0..Len(s) : Piece(p, s, i, j - 1, b) /\ b + 1 \in g[i + 1]
    BY <2>1, <2>2, CutsStep
  <2>4. CASE p[i] = Star
    <3>1. ASSUME NEW j \in 1..Len(s) + 1
          PROVE Cuts(p, s, i, j) <=> i = Len(p) \/ \E k \in g[i + 1] : j <= k
      <4>1. \A b \in 0..Len(s) : Piece(p, s, i, j - 1, b) <=> j <= b + 1
        BY <1>1, <2>4, <3>1 DEF Piece
      <4>2. \A k \in g[i + 1] : k \in 1..Len(s) + 1 /\ k - 1 \in 0..Len(s) /\ (k - 1) + 1 = k
        BY <1>1, <2>1
      <4>3. Cuts(p, s, i, j) <=> \E k \in g[i + 1] : j <= k
        BY <2>3, <4>1, <4>2
      <4>4. i = Len(p) => Len(s) + 1 \in g[i + 1] /\ j <= Len(s) + 1
        <5>1. Len(s) + 1 \in 1..Len(s) + 1
          BY <1>1
        <5>2. Cuts(p, s, Len(p) + 1, Len(s) + 1)
          BY <5>1, CutsEnd
        <5>. QED
          BY <1>1, <2>1, <3>1, <5>1, <5>2
      <4>. QED
        BY <4>3, <4>4
    <3>2. g[i] = {j \in 1..Len(s) + 1 : i = Len(p) \/ \E k \in g[i + 1] : j <= k}
      BY <2>1, <3>1
    <3>. QED
      BY <2>1, <2>4, <3>2 DEF RestOf
  <2>5. CASE p[i] # Star
    <3>1. ASSUME NEW j \in 1..Len(s) + 1
          PROVE Cuts(p, s, i, j) <=> /\ j \in 1..Len(s)
                                     /\ p[i] = Question \/ p[i] = s[j]
                                     /\ j + 1 \in g[i + 1]
      <4>1. \A b \in 0..Len(s) : Piece(p, s, i, j - 1, b)
              <=> b = j /\ (p[i] = Question \/ p[i] = s[j])
        BY <1>1, <2>5, <3>1 DEF Piece
      <4>2. j \in 0..Len(s) <=> j \in 1..Len(s)
        BY <1>1, <3>1
      <4>. QED
        BY <2>3, <4>1, <4>2
    <3>2. \A j \in 1..Len(s) : j \in 1..Len(s) + 1
      BY <1>1
    <3>3. g[i] = {j \in 1..Len(s) : /\ p[i] = Question \/ p[i] = s[j]
                                    /\ j + 1 \in g[i + 1]}
      BY <1>1, <3>1, <3>2
    <3>. QED
      BY <2>1, <2>5, <3>3 DEF RestOf
  <2>. QED
    BY <2>4, <2>5
<1>. QED
  BY <1>1, <1>2, <1>3

\* Two solutions are the same: the last position where they differ has a next
\* one, or is the end.
LEMMA OneSolution ==
  ASSUME NEW p \in Str, NEW s \in Str, NEW f, NEW g,
         \A i \in 1..Len(p) + 1 : f[i] = RestOf(p, s, f, i),
         \A i \in 1..Len(p) + 1 : g[i] = RestOf(p, s, g, i)
  PROVE f[1] = g[1]
PROOF
<1> DEFINE N == Len(p) + 1
           D == {m \in Nat : m < N /\ f[N - m] # g[N - m]}
<1>1. Len(p) \in Nat /\ N \in Nat /\ N >= 1
  BY StringTypes
<1>2. D = {}
  <2>1. SUFFICES ASSUME D # {} PROVE FALSE
    OBVIOUS
  <2>2. PICK m \in D : \A k \in D : m <= k
    <3>1. D \subseteq Nat
      OBVIOUS
    <3> HIDE DEF D
    <3>. QED
      BY <2>1, <3>1, LeastNumber
  <2>3. m \in Nat /\ m < N /\ f[N - m] # g[N - m] /\ N - m \in 1..Len(p) + 1
    BY <1>1, <2>2
  <2>4. CASE m = 0
    <3>1. N - m > Len(p)
      BY <1>1, <2>4
    <3>. QED
      BY <2>3, <3>1 DEF RestOf
  <2>5. CASE m > 0
    <3>1. m - 1 \in Nat /\ m - 1 < N /\ ~(m <= m - 1) /\ (N - m) + 1 = N - (m - 1)
      BY <1>1, <2>3, <2>5
    <3>2. f[(N - m) + 1] = g[(N - m) + 1]
      BY <2>2, <3>1
    <3>3. RestOf(p, s, f, N - m) = RestOf(p, s, g, N - m)
      BY <3>2 DEF RestOf
    <3> HIDE DEF N
    <3>. QED
      BY <2>3, <3>3
  <2>. QED
    BY <2>3, <2>4, <2>5
<1>3. Len(p) \in Nat /\ Len(p) < N /\ N - Len(p) = 1
  BY <1>1
<1>. QED
  BY <1>2, <1>3

\* globMatch computes what the pattern matches.
LEMMA GlobMatches ==
  ASSUME NEW p \in Str, NEW s \in Str
  PROVE globMatch(p, s) <=> Matches(p, s)
PROOF
<1> DEFINE Solves(f) == f = [i \in 1..Len(p) + 1 |-> RestOf(p, s, f, i)]
           r == CHOOSE f : Solves(f)
           g == [i \in 1..Len(p) + 1 |-> {j \in 1..Len(s) + 1 : Cuts(p, s, i, j)}]
<1>1. globMatch(p, s) <=> 1 \in r[1]
  BY DEF globMatch, RestOf
<1>2. Solves(g)
  BY CutsSolve
<1>3. Solves(r)
  <2> HIDE DEF Solves, g
  <2>. QED
    BY <1>2
<1>4. /\ \A i \in 1..Len(p) + 1 : g[i] = RestOf(p, s, g, i)
      /\ \A i \in 1..Len(p) + 1 : r[i] = RestOf(p, s, r, i)
  <2>1. \A f : Solves(f) => \A i \in 1..Len(p) + 1 : f[i] = RestOf(p, s, f, i)
    OBVIOUS
  <2> HIDE DEF Solves, g, r
  <2>. QED
    BY <1>2, <1>3, <2>1
<1>5. r[1] = g[1]
  <2> HIDE DEF r, g
  <2>. QED
    BY <1>4, OneSolution
<1>6. 1 \in g[1] <=> Cuts(p, s, 1, 1)
  <2>1. 1 \in 1..Len(p) + 1 /\ 1 \in 1..Len(s) + 1
    BY StringTypes
  <2>. QED
    BY <2>1
<1>7. Cuts(p, s, 1, 1) <=> Matches(p, s)
  BY DEF Cuts, Matches, Piece
<1>. QED
  BY <1>1, <1>5, <1>6, <1>7

\* A plain prefix and a star match what starts with the prefix: the pieces
\* before the star are one byte each.
LEMMA PrefixGlobMatches ==
  ASSUME NEW p \in Str, NEW s \in Str, isPrefixGlob(p)
  PROVE /\ SubSeq(p, 1, Len(p) - 1) \in Str
        /\ Matches(p, s) <=> HasPrefix(s, SubSeq(p, 1, Len(p) - 1))
PROOF
<1> DEFINE n == Len(p) - 1
           q == SubSeq(p, 1, n)
<1>1. /\ Len(p) \in Nat /\ Len(s) \in Nat /\ Len(p) >= 1 /\ n \in Nat /\ n + 1 = Len(p)
      /\ p[n + 1] = Star /\ \A i \in 1..n : p[i] # Star /\ p[i] # Question
  <2>1. p # <<>> => Len(p) >= 1
    BY EmptySeq DEF Str
  <2>. QED
    BY <2>1, StringTypes DEF isPrefixGlob
<1>2. q \in Str /\ Len(q) = n /\ \A i \in 1..n : q[i] = p[i]
  <2>1. \A i \in 1..n : p[i] \in Byte
    BY <1>1 DEF Str
  <2>. QED
    BY <1>1, <2>1, SubSeqProperties DEF Str
<1>3. HasPrefix(s, q) <=> n <= Len(s) /\ \A i \in 1..n : s[i] = p[i]
  <2> HIDE DEF q, n
  <2>. QED
    BY <1>2, PrefixAgree DEF Agree
<1>4. ASSUME Matches(p, s) PROVE n <= Len(s) /\ \A i \in 1..n : s[i] = p[i]
  <2>1. PICK cut \in [0..Len(p) -> 0..Len(s)] :
          /\ cut[0] = 0 /\ cut[Len(p)] = Len(s)
          /\ \A i \in 1..Len(p) :
               IF p[i] = Star THEN cut[i - 1] <= cut[i]
               ELSE cut[i] = cut[i - 1] + 1 /\ p[i] \in {Question, s[cut[i]]}
    BY <1>4 DEF Matches
  <2>2. \A i \in 1..n : /\ i \in 1..Len(p) /\ i - 1 \in 0..n
                        /\ cut[i] = cut[i - 1] + 1 /\ p[i] = s[cut[i]]
    BY <1>1, <2>1
  <2> DEFINE D == {i \in Nat : i <= n /\ cut[i] # i}
  <2>3. D = {}
    <3>1. SUFFICES ASSUME D # {} PROVE FALSE
      OBVIOUS
    <3>2. PICK i \in D : \A k \in D : i <= k
      <4>1. D \subseteq Nat
        OBVIOUS
      <4> HIDE DEF D
      <4>. QED
        BY <3>1, <4>1, LeastNumber
    <3>3. i # 0 /\ i \in 1..n
      BY <1>1, <2>1, <3>2
    <3>4. i - 1 \in Nat /\ i - 1 <= n /\ ~(i <= i - 1)
      BY <1>1, <3>3
    <3>5. cut[i - 1] = i - 1
      BY <3>2, <3>4
    <3>6. cut[i] = (i - 1) + 1
      BY <2>2, <3>3, <3>5
    <3>. QED
      BY <1>1, <3>2, <3>3, <3>6
  <2>4. \A i \in 0..n : cut[i] = i
    BY <1>1, <2>3
  <2>5. n \in 0..n /\ n \in 0..Len(p) /\ \A i \in 1..n : i \in 0..n
    BY <1>1
  <2>6. n <= Len(s)
    BY <1>1, <2>1, <2>4, <2>5
  <2>. QED
    BY <2>2, <2>4, <2>5, <2>6
<1>5. ASSUME n <= Len(s), \A i \in 1..n : s[i] = p[i] PROVE Matches(p, s)
  <2> DEFINE cut == [i \in 0..Len(p) |-> IF i = n + 1 THEN Len(s) ELSE i]
  <2>1. cut \in [0..Len(p) -> 0..Len(s)] /\ cut[0] = 0 /\ cut[Len(p)] = Len(s)
    BY <1>1, <1>5
  <2>2. ASSUME NEW i \in 1..Len(p)
        PROVE IF p[i] = Star THEN cut[i - 1] <= cut[i]
              ELSE cut[i] = cut[i - 1] + 1 /\ p[i] \in {Question, s[cut[i]]}
    <3>0. \A k \in 0..Len(p) : cut[k] = IF k = n + 1 THEN Len(s) ELSE k
      OBVIOUS
    <3> HIDE DEF cut, n
    <3>1. CASE i = n + 1
      <4>1. n \in 0..Len(p) /\ n # n + 1 /\ i - 1 = n /\ i \in 0..Len(p)
        BY <1>1, <3>1
      <4>2. cut[i - 1] = n /\ cut[i] = Len(s)
        BY <3>0, <3>1, <4>1
      <4>. QED
        BY <1>1, <1>5, <3>1, <4>2
    <3>2. CASE i # n + 1
      <4>1. /\ i \in 1..n /\ i \in 0..Len(p) /\ i - 1 \in 0..Len(p)
            /\ i - 1 # n + 1 /\ (i - 1) + 1 = i
        BY <1>1, <3>2
      <4>2. cut[i] = i /\ cut[i - 1] = i - 1
        BY <3>0, <3>2, <4>1
      <4>. QED
        BY <1>1, <1>5, <4>1, <4>2
    <3>. QED
      BY <3>1, <3>2
  <2> HIDE DEF cut
  <2>. QED
    BY <2>1, <2>2 DEF Matches
<1> HIDE DEF n
<1>. QED
  BY <1>2, <1>3, <1>4, <1>5 DEF n

(***************************************************************************)
(* The loop of a scan sees exactly the pointers between its bounds.        *)
(***************************************************************************)
AnyBound == {nil} \cup {<<"string", s>> : s \in Str}

\* The comparisons of the code, in the order.
LEMMA BoundOrder ==
  ASSUME NEW s \in Str, NEW t \in Str
  PROVE /\ ~Less(s, t) <=> Less(t, s) \/ s = t
        /\ ~Less(s, t) /\ s # t <=> Less(t, s)
PROOF
<1>1. ~(Less(s, t) /\ Less(t, s))
  BY LessTransitive, LessIrreflexive
<1>2. s = t => ~Less(s, t) /\ ~Less(t, s)
  BY LessIrreflexive
<1>3. s # t => Less(s, t) \/ Less(t, s)
  BY LessTotal
<1>. QED
  BY <1>1, <1>2, <1>3

LEMMA EmptyLeast ==
  ASSUME NEW s \in Str
  PROVE ~Less(s, <<>>)
PROOF
<1>1. <<>> \in Str /\ Len(<<>>) = 0
  BY DEF Str
<1>2. \A i \in Nat : ~BelowAt(s, <<>>, i)
  BY <1>1 DEF BelowAt
<1>. QED
  BY <1>1, <1>2, LessBelow

Between(key, lo, loIncl, hi, hiIncl) ==
  {p \in Pair : /\ p[1] = key /\ arkiv_annot[p] # Absent /\ suffix(p) # <<>>
                /\ AboveLow(suffix(p), lo, loIncl) /\ BelowHigh(suffix(p), hi, hiIncl)}

LEMMA ScanBetween ==
  ASSUME NEW key \in ScanKeys, NEW lo \in AnyBound, NEW hi \in AnyBound,
         NEW loIncl \in BOOLEAN, NEW hiIncl \in BOOLEAN
  PROVE IterateStringAnnotBitmaps(key, lo, loIncl, hi, hiIncl) =
          OrBitmaps(Between(key, lo, loIncl, hi, hiIncl))
PROOF
<1> DEFINE start == IF lo = nil THEN <<>> ELSE lo[2]
           inside == {p \in Iterator(key, start) :
                        /\ suffix(p) # <<>>
                        /\ lo # nil /\ ~loIncl => suffix(p) # lo[2]}
           above == {p \in inside : hi # nil /\ (\/ Less(hi[2], suffix(p))
                                                 \/ suffix(p) = hi[2] /\ ~hiIncl)}
<1>1. /\ \A p \in Pair : p[1] = key => suffix(p) \in Str
      /\ lo # nil => lo[2] \in Str
      /\ hi # nil => hi[2] \in Str
  BY ScanAssumption DEF AnyBound, Str
<1>2. ASSUME NEW p \in Pair, p[1] = key, arkiv_annot[p] # Absent, suffix(p) # <<>>
      PROVE p \in inside <=> AboveLow(suffix(p), lo, loIncl)
  <2>1. suffix(p) \in Str
    BY <1>1, <1>2
  <2>2. CASE lo = nil
    BY <1>2, <2>1, <2>2, EmptyLeast DEF Iterator, AboveLow
  <2>3. CASE lo # nil
    <3>1. /\ ~Less(suffix(p), lo[2]) <=> Less(lo[2], suffix(p)) \/ suffix(p) = lo[2]
          /\ ~Less(suffix(p), lo[2]) /\ suffix(p) # lo[2] <=> Less(lo[2], suffix(p))
      BY <1>1, <2>1, <2>3, BoundOrder
    <3>2. p \in inside <=> ~Less(suffix(p), lo[2]) /\ (~loIncl => suffix(p) # lo[2])
      BY <1>2, <2>3 DEF Iterator
    <3>3. AboveLow(suffix(p), lo, loIncl)
            <=> Less(lo[2], suffix(p)) \/ (loIncl /\ suffix(p) = lo[2])
      BY <2>3 DEF AboveLow
    <3> HIDE DEF inside
    <3>. QED
      BY <3>1, <3>2, <3>3
  <2>. QED
    BY <2>2, <2>3
<1>3. \A p \in inside : /\ p \in Pair /\ p[1] = key /\ arkiv_annot[p] # Absent
                        /\ suffix(p) # <<>> /\ suffix(p) \in Str
  BY <1>1 DEF Iterator
<1>4. ASSUME NEW p \in inside
      PROVE p \in above <=> ~BelowHigh(suffix(p), hi, hiIncl)
  <2>1. CASE hi = nil
    BY <2>1 DEF BelowHigh
  <2>2. CASE hi # nil
    <3>1. /\ ~Less(hi[2], suffix(p)) <=> Less(suffix(p), hi[2]) \/ hi[2] = suffix(p)
          /\ ~Less(hi[2], suffix(p)) /\ hi[2] # suffix(p) <=> Less(suffix(p), hi[2])
      BY <1>1, <1>3, <1>4, <2>2, BoundOrder
    <3>2. p \in above <=> Less(hi[2], suffix(p)) \/ (suffix(p) = hi[2] /\ ~hiIncl)
      BY <1>4, <2>2
    <3>3. BelowHigh(suffix(p), hi, hiIncl)
            <=> Less(suffix(p), hi[2]) \/ (hiIncl /\ suffix(p) = hi[2])
      BY <2>2 DEF BelowHigh
    <3> HIDE DEF inside, above
    <3>. QED
      BY <3>1, <3>2, <3>3
  <2>. QED
    BY <2>1, <2>2
<1>5. above \subseteq inside
  OBVIOUS
<1> HIDE DEF inside, above
\* The loop does not end before a value that is still in the range.
<1>6. ASSUME NEW p \in inside, NEW q \in above, p \notin above
      PROVE Less(suffix(p), suffix(q))
  <2>1. suffix(p) \in Str /\ suffix(q) \in Str
    BY <1>3, <1>5, <1>6
  <2>2. BelowHigh(suffix(p), hi, hiIncl) /\ ~BelowHigh(suffix(q), hi, hiIncl)
    BY <1>4, <1>5, <1>6
  <2>3. hi # nil /\ hi[2] \in Str
    BY <1>1, <2>2 DEF BelowHigh
  <2>4. SUFFICES ASSUME ~Less(suffix(p), suffix(q)) PROVE FALSE
    OBVIOUS
  <2>5. Less(suffix(q), suffix(p)) \/ suffix(p) = suffix(q)
    BY <2>1, <2>4, LessTotal
  <2>6. suffix(p) # suffix(q)
    BY <2>2
  <2>7. Less(suffix(p), hi[2]) \/ (hiIncl /\ suffix(p) = hi[2])
    BY <2>2, <2>3 DEF BelowHigh
  <2>8. Less(suffix(q), hi[2])
    BY <2>1, <2>3, <2>5, <2>6, <2>7, LessTransitive
  <2>. QED
    BY <2>2, <2>8 DEF BelowHigh
<1>7. UntilBreak(inside, above) = inside \ above
  <2>1. ASSUME NEW p \in inside, p \in above PROVE ~Less(suffix(p), suffix(p))
    BY <1>3, LessIrreflexive
  <2>. QED
    BY <1>6, <2>1 DEF UntilBreak
<1>8. inside \ above = Between(key, lo, loIncl, hi, hiIncl)
  <2>1. \A p \in inside \ above : p \in Between(key, lo, loIncl, hi, hiIncl)
    BY <1>2, <1>3, <1>4 DEF Between
  <2>2. \A p \in Between(key, lo, loIncl, hi, hiIncl) : p \in inside \ above
    BY <1>2, <1>4 DEF Between
  <2>. QED
    BY <2>1, <2>2
<1>9. IterateStringAnnotBitmaps(key, lo, loIncl, hi, hiIncl)
        = OrBitmaps(UntilBreak(inside, above))
  BY DEF IterateStringAnnotBitmaps, inside, above
<1>. QED
  BY <1>7, <1>8, <1>9

(***************************************************************************)
(* The bitmaps it unites are those of the head.                            *)
(***************************************************************************)
\* The entities of the head, and the pairs they carry.
LEMMA LiveAtHead ==
  ASSUME BitmapInv, NEW i \in ID, head.root.ids[i] # Absent
  PROVE /\ Entities(0)[head.root.ids[i]] = head.root.code[head.root.ids[i]]
        /\ allAnnotations(Entities(0)[head.root.ids[i]]) \subseteq Pair
PROOF
<1>1. ChainInv /\ SlotsLive
  BY DEF BitmapInv, IDInv, HistoryInv
<1>2. /\ tip \in Versions /\ head.root = RootAt(tip) /\ head.root \in Trie
      /\ head.root.ids[i] \in Addr
  BY <1>1, TipVersion, RootTypes
<1>3. head.root.code = Entities(0)
  BY ReadableIndex DEF Readable, openStateAt
<1>4. head.root.code[head.root.ids[i]] \in EntityRec
  <2>1. head.root.code[head.root.ids[i]] # Absent
    BY <1>1, <1>2 DEF SlotsLive
  <2>. QED
    BY <1>2, <2>1 DEF Trie
<1>5. \A e \in EntityRec : allAnnotations(e) \subseteq Pair
  BY DEF allAnnotations, builtinAnnotations, userAnnotations, Pair, BuiltinPair, UserPair, EntityRec
<1>. QED
  BY <1>3, <1>4, <1>5

LEMMA PointerExact ==
  ASSUME BitmapInv, NEW p \in Pair
  PROVE /\ loadBitmapFromPointer(p) =
             {i \in ID : head.root.ids[i] # Absent
                           /\ p \in allAnnotations(Entities(0)[head.root.ids[i]])}
        /\ arkiv_annot[p] = Absent => loadBitmapFromPointer(p) = {}
PROOF
<1>1. ChainInv /\ AnnotMirrorsTrie /\ TypeInv
  BY TipVersion DEF BitmapInv, IDInv, HistoryInv, ChainInv
<1>2. loadBitmapFromPointer(p) = ReadAnnotBitmap(0, p)
  BY <1>1 DEF loadBitmapFromPointer, ReadAnnotBitmap, openStateAt, AnnotMirrorsTrie
<1>3. ReadAnnotBitmap(0, p) = carriersAt(head.root, p)
  BY ReadableIndex DEF Readable, openStateAt
<1>4. head.root.code = Entities(0)
  BY ReadableIndex DEF Readable, openStateAt
<1>5. arkiv_annot[p] = Absent => arkiv_annot[p] \notin arkiv_bm
  BY <1>1, AbsentAssumption DEF TypeInv, TypeOK, DbTypeOK
<1>. QED
  BY <1>2, <1>3, <1>4, <1>5 DEF carriersAt, loadBitmapFromPointer

\* The pointers of a variable to values in V, and the entities with one.
Pointers(key, V) ==
  {p \in Pair : /\ p[1] = key /\ arkiv_annot[p] # Absent
                /\ suffix(p) # <<>> /\ suffix(p) \in V}

IDsWithin(key, V) == IDsWithValue(key, LAMBDA s : s \in V)

LEMMA UnitedExact ==
  ASSUME BitmapInv, NEW key, NEW V
  PROVE OrBitmaps(Pointers(key, V)) = IDsWithin(key, V)
PROOF
<1> DEFINE P == Pointers(key, V)
           W == {i \in ID : /\ head.root.ids[i] # Absent
                            /\ \E p \in allAnnotations(Entities(0)[head.root.ids[i]]) :
                                 p[1] = key /\ suffix(p) # <<>> /\ suffix(p) \in V}
<1>1. ASSUME NEW i \in OrBitmaps(P) PROVE i \in W
  <2>1. PICK p \in P : i \in loadBitmapFromPointer(p) /\ p \in Pair
    BY <1>1 DEF OrBitmaps, Pointers
  <2>2. /\ i \in ID /\ head.root.ids[i] # Absent
        /\ p \in allAnnotations(Entities(0)[head.root.ids[i]])
    BY <2>1, PointerExact
  <2>. QED
    BY <2>1, <2>2 DEF Pointers
<1>2. ASSUME NEW i \in W PROVE i \in OrBitmaps(P)
  <2>1. PICK p \in allAnnotations(Entities(0)[head.root.ids[i]]) :
          p[1] = key /\ suffix(p) # <<>> /\ suffix(p) \in V
    BY <1>2
  <2>2. p \in Pair
    BY <2>1, LiveAtHead
  <2>3. i \in loadBitmapFromPointer(p) /\ arkiv_annot[p] # Absent
    BY <1>2, <2>1, <2>2, PointerExact
  <2>4. p \in P
    BY <2>1, <2>2, <2>3 DEF Pointers
  <2>. QED
    BY <2>3, <2>4 DEF OrBitmaps
<1>3. OrBitmaps(P) = W
  BY <1>1, <1>2
<1>. QED
  BY <1>3 DEF IDsWithin, IDsWithValue

LEMMA RangeExact ==
  ASSUME BitmapInv, NEW key \in ScanKeys, NEW lo \in AnyBound, NEW hi \in AnyBound,
         NEW loIncl \in BOOLEAN, NEW hiIncl \in BOOLEAN
  PROVE IterateStringAnnotBitmaps(key, lo, loIncl, hi, hiIncl) =
          IDsWithin(key, {s \in Str : AboveLow(s, lo, loIncl) /\ BelowHigh(s, hi, hiIncl)})
PROOF
<1> DEFINE V == {s \in Str : AboveLow(s, lo, loIncl) /\ BelowHigh(s, hi, hiIncl)}
<1>1. \A p \in Pair : p[1] = key => suffix(p) \in Str
  BY ScanAssumption DEF Str
<1>2. Between(key, lo, loIncl, hi, hiIncl) = Pointers(key, V)
  BY <1>1 DEF Between, Pointers
<1> HIDE DEF V
<1>3. OrBitmaps(Pointers(key, V)) = IDsWithin(key, V)
  BY UnitedExact
<1>. QED
  BY <1>2, <1>3, ScanBetween DEF V

LEMMA PrefixExact ==
  ASSUME BitmapInv, NEW key \in ScanKeys, NEW prefix \in Str
  PROVE IteratePrefixAnnotBitmaps(key, prefix) =
          IDsWithin(key, {s \in Str : HasPrefix(s, prefix)})
PROOF
<1> DEFINE lo == <<"string", prefix>>
           hi == prefixSuccessor(prefix)
<1>1. lo # nil /\ lo[2] = prefix /\ lo \in AnyBound /\ hi \in AnyBound
  <2>1. hi = nil \/ \E u : hi = <<"string", u>>
    BY DEF prefixSuccessor, nil
  <2>2. hi # nil => hi[2] \in Str
    BY SuccessorExact
  <2>3. lo # nil
    BY DEF nil
  <2>. QED
    BY <2>1, <2>2, <2>3 DEF AnyBound
<1>2. IteratePrefixAnnotBitmaps(key, prefix) = IterateStringAnnotBitmaps(key, lo, TRUE, hi, FALSE)
  BY DEF IteratePrefixAnnotBitmaps
<1>3. ASSUME NEW s \in Str
      PROVE AboveLow(s, lo, TRUE) /\ BelowHigh(s, hi, FALSE) <=> HasPrefix(s, prefix)
  <2>1. AboveLow(s, lo, TRUE) <=> ~Less(s, prefix)
    BY <1>1, BoundOrder DEF AboveLow
  <2>2. BelowHigh(s, hi, FALSE) <=> hi = nil \/ Less(s, hi[2])
    BY DEF BelowHigh
  <2> HIDE DEF lo
  <2>. QED
    BY <2>1, <2>2, NoSuccessorExact, SuccessorExact
<1> HIDE DEF lo, hi
<1>4. {s \in Str : AboveLow(s, lo, TRUE) /\ BelowHigh(s, hi, FALSE)} =
        {s \in Str : HasPrefix(s, prefix)}
  BY <1>3
<1>5. IterateStringAnnotBitmaps(key, lo, TRUE, hi, FALSE) =
        IDsWithin(key, {s \in Str : AboveLow(s, lo, TRUE) /\ BelowHigh(s, hi, FALSE)})
  BY <1>1, RangeExact
<1>. QED
  BY <1>2, <1>4, <1>5

LEMMA NumericWithin ==
  ASSUME BitmapInv, NEW key \in ScanKeys, NEW lo \in 0..MaxUint, NEW hi \in 0..MaxUint
  PROVE IterateNumericAnnotBitmaps(key, lo, hi) =
          IDsWithin(key, {s \in Str : \E n \in lo..hi : s = numericVal(n)})
PROOF
<1> DEFINE V == {s \in Str : \E n \in lo..hi : s = numericVal(n)}
           start == IF lo > 0 THEN numericVal(lo) ELSE <<>>
           numeric == {p \in Iterator(key, start) : Len(suffix(p)) = NumLen}
           above == {p \in numeric : Uint(suffix(p)) > hi}
<1>0. /\ lo \in Nat /\ hi \in Nat /\ MaxUint \in Int
      /\ \A n \in 0..MaxUint : n \in Nat /\ (n \in lo..hi <=> lo <= n /\ n <= hi)
      /\ \A n \in lo..hi : n \in 0..MaxUint
  BY QuotientStep, PlaceTypes, BytesAssumption DEF MaxUint
<1>1. \A p \in Pair : p[1] = key => suffix(p) \in Str
  BY ScanAssumption DEF Str
\* A string starts the scan, or comes after its start, if its number does.
<1>2. ASSUME NEW s \in Str, Len(s) = NumLen
      PROVE ~Less(s, start) <=> lo <= Uint(s)
  <2>1. Uint(s) \in 0..MaxUint /\ numericVal(Uint(s)) = s
    BY <1>2, UintExact
  <2>2. CASE lo > 0
    <3>1. Uint(s) < lo => Less(s, numericVal(lo))
      BY <2>1, NumberOrder
    <3>2. lo < Uint(s) => Less(numericVal(lo), s)
      BY <2>1, NumberOrder
    <3>3. numericVal(lo) \in Str
      BY NumberBytes
    <3>4. Less(numericVal(lo), s) \/ numericVal(lo) = s <=> ~Less(s, numericVal(lo))
      BY <3>3, BoundOrder
    <3>5. Uint(s) = lo => numericVal(lo) = s
      BY <2>1
    <3>6. Uint(s) < lo \/ lo < Uint(s) \/ Uint(s) = lo
      BY <1>0, <2>1
    <3>7. lo <= Uint(s) <=> ~(Uint(s) < lo)
      BY <1>0, <2>1
    <3>. QED
      BY <2>2, <3>1, <3>2, <3>4, <3>5, <3>6, <3>7
  <2>3. CASE ~(lo > 0)
    BY <1>0, <2>1, <2>3, EmptyLeast
  <2>. QED
    BY <2>2, <2>3
<1>3. ASSUME NEW p \in Pair
      PROVE p \in numeric <=> /\ p[1] = key /\ arkiv_annot[p] # Absent
                              /\ Len(suffix(p)) = NumLen /\ lo <= Uint(suffix(p))
  <2> HIDE DEF start
  <2>. QED
    BY <1>1, <1>2 DEF Iterator
<1>4. \A p \in numeric : /\ p \in Pair /\ p[1] = key /\ arkiv_annot[p] # Absent
                         /\ suffix(p) \in Str /\ Len(suffix(p)) = NumLen
  BY <1>1 DEF Iterator
<1>5. \A p \in numeric : p \in above <=> Uint(suffix(p)) > hi
  OBVIOUS
<1>6. above \subseteq numeric
  OBVIOUS
<1>7. IterateNumericAnnotBitmaps(key, lo, hi) = OrBitmaps(UntilBreak(numeric, above))
  BY DEF IterateNumericAnnotBitmaps
<1> HIDE DEF numeric, above, start
<1>8. ASSUME NEW p \in numeric, NEW q \in above, p \notin above
      PROVE Less(suffix(p), suffix(q))
  <2>1. /\ Uint(suffix(p)) \in 0..MaxUint /\ numericVal(Uint(suffix(p))) = suffix(p)
        /\ Uint(suffix(q)) \in 0..MaxUint /\ numericVal(Uint(suffix(q))) = suffix(q)
    BY <1>4, <1>6, <1>8, UintExact
  <2>2. ~(Uint(suffix(p)) > hi) /\ Uint(suffix(q)) > hi
    BY <1>5, <1>6, <1>8
  <2>3. Uint(suffix(p)) < Uint(suffix(q))
    BY <1>0, <2>1, <2>2
  <2>. QED
    BY <2>1, <2>3, NumberOrder
<1>9. UntilBreak(numeric, above) = numeric \ above
  <2>1. ASSUME NEW p \in numeric, p \in above PROVE ~Less(suffix(p), suffix(p))
    BY <1>4, LessIrreflexive
  <2>. QED
    BY <1>8, <2>1 DEF UntilBreak
<1>10. ASSUME NEW s \in Str
       PROVE s \in V <=> Len(s) = NumLen /\ lo <= Uint(s) /\ ~(Uint(s) > hi)
  <2>1. ASSUME s \in V PROVE Len(s) = NumLen /\ lo <= Uint(s) /\ ~(Uint(s) > hi)
    <3>1. PICK n \in lo..hi : s = numericVal(n)
      BY <2>1
    <3>2. n \in 0..MaxUint /\ Uint(s) = n /\ Len(s) = NumLen
      BY <1>0, <3>1, UintExact, NumberBytes
    <3>. QED
      BY <1>0, <3>1, <3>2
  <2>2. ASSUME Len(s) = NumLen, lo <= Uint(s), ~(Uint(s) > hi) PROVE s \in V
    <3>1. Uint(s) \in 0..MaxUint /\ numericVal(Uint(s)) = s
      BY <2>2, UintExact
    <3>2. Uint(s) \in lo..hi
      BY <1>0, <2>2, <3>1
    <3>. QED
      BY <3>1, <3>2
  <2>. QED
    BY <2>1, <2>2
<1>11. \A s \in Str : Len(s) = NumLen => s # <<>>
  BY BytesAssumption
<1> HIDE DEF V
<1>12. numeric \ above = Pointers(key, V)
  <2>1. \A p \in numeric \ above : p \in Pointers(key, V)
    BY <1>3, <1>4, <1>5, <1>10, <1>11 DEF Pointers
  <2>2. \A p \in Pointers(key, V) : p \in numeric \ above
    BY <1>1, <1>3, <1>5, <1>10 DEF Pointers
  <2>. QED
    BY <1>4, <2>1, <2>2
<1>13. OrBitmaps(Pointers(key, V)) = IDsWithin(key, V)
  BY UnitedExact
<1>. QED
  BY <1>7, <1>9, <1>12, <1>13 DEF V

LEMMA GlobWithin ==
  ASSUME BitmapInv, NEW key \in ScanKeys, NEW pattern \in Str
  PROVE Glob(key, pattern) = IDsWithin(key, {s \in Str : Matches(pattern, s)})
PROOF
<1> DEFINE V == {s \in Str : Matches(pattern, s)}
           prefix == SubSeq(pattern, 1, Len(pattern) - 1)
<1>1. CASE isPrefixGlob(pattern)
  <2>1. prefix \in Str /\ V = {s \in Str : HasPrefix(s, prefix)}
    BY <1>1, PrefixGlobMatches
  <2>2. Glob(key, pattern) = IteratePrefixAnnotBitmaps(key, prefix)
    BY <1>1 DEF Glob
  <2> HIDE DEF prefix
  <2>. QED
    BY <2>1, <2>2, PrefixExact
<1>2. CASE ~isPrefixGlob(pattern)
  <2> DEFINE P == {p \in Iterator(key, <<>>) :
                     suffix(p) # <<>> /\ globMatch(pattern, suffix(p))}
  <2>1. \A p \in Pair : p[1] = key => /\ ~Less(suffix(p), <<>>)
                                      /\ globMatch(pattern, suffix(p)) <=> suffix(p) \in V
    BY ScanAssumption, EmptyLeast, GlobMatches DEF Str
  <2> HIDE DEF V
  <2>2. P = Pointers(key, V)
    BY <2>1 DEF Iterator, Pointers
  <2>3. Glob(key, pattern) = OrBitmaps(P)
    BY <1>2 DEF Glob, IterateGlobAnnotBitmaps
  <2>. QED
    BY <2>2, <2>3, UnitedExact DEF V
<1>. QED
  BY <1>1, <1>2

\* Every value of a scanned variable is a byte string.
LEMMA LiveValues ==
  ASSUME BitmapInv, NEW key \in ScanKeys
  PROVE \A i \in ID : head.root.ids[i] # Absent =>
          \A p \in allAnnotations(Entities(0)[head.root.ids[i]]) :
            p[1] = key => suffix(p) \in Str
PROOF
  BY LiveAtHead, ScanAssumption DEF Str

\* A scan between two bounds, and a scan of a prefix, returns exactly the
\* entities of the head with such a value, after any blocks, reverts, reorgs,
\* failures and restarts, and while a block is in progress.
THEOREM StringScanAlwaysExact == Spec => []StringScanExact
PROOF
<1>1. ASSUME BitmapInv, NEW key \in ScanKeys, NEW lo \in Bound, NEW hi \in Bound,
             NEW loIncl \in BOOLEAN, NEW hiIncl \in BOOLEAN
      PROVE IterateStringAnnotBitmaps(key, lo, loIncl, hi, hiIncl) =
              IDsWithValue(key, LAMBDA s : AboveLow(s, lo, loIncl) /\ BelowHigh(s, hi, hiIncl))
  <2> DEFINE V == {s \in Str : AboveLow(s, lo, loIncl) /\ BelowHigh(s, hi, hiIncl)}
  <2>1. lo \in AnyBound /\ hi \in AnyBound
    BY ScanAssumption DEF Bound, AnyBound, Str
  <2>2. IterateStringAnnotBitmaps(key, lo, loIncl, hi, hiIncl) = IDsWithin(key, V)
    BY <1>1, <2>1, RangeExact
  <2>3. IDsWithin(key, V) =
          IDsWithValue(key, LAMBDA s : AboveLow(s, lo, loIncl) /\ BelowHigh(s, hi, hiIncl))
    BY <1>1, LiveValues DEF IDsWithin, IDsWithValue
  <2>. QED
    BY <2>2, <2>3 DEF IDsWithValue
<1>2. ASSUME BitmapInv, NEW key \in ScanKeys, NEW prefix \in ScanBounds
      PROVE IteratePrefixAnnotBitmaps(key, prefix) =
              IDsWithValue(key, LAMBDA s : HasPrefix(s, prefix))
  <2> DEFINE V == {s \in Str : HasPrefix(s, prefix)}
  <2>1. IteratePrefixAnnotBitmaps(key, prefix) = IDsWithin(key, V)
    BY <1>2, ScanAssumption, PrefixExact DEF Str
  <2>2. IDsWithin(key, V) = IDsWithValue(key, LAMBDA s : HasPrefix(s, prefix))
    BY <1>2, LiveValues DEF IDsWithin, IDsWithValue
  <2>. QED
    BY <2>1, <2>2 DEF IDsWithValue
<1>3. BitmapInv => StringScanExact
  BY <1>1, <1>2 DEF StringScanExact, IDsWithValue
<1>. QED
  BY <1>3, BitmapInvariant, PTL

\* A scan between two numbers returns exactly the entities of the head with the
\* bytes of a number between them, up to the largest number.
THEOREM NumericScanAlwaysExact == Spec => []NumericScanExact
PROOF
<1>1. ASSUME BitmapInv, NEW key \in ScanKeys, NEW lo \in ScanNumbers, NEW hi \in ScanNumbers
      PROVE IterateNumericAnnotBitmaps(key, lo, hi) =
              IDsWithValue(key, LAMBDA s : \E n \in lo..hi : s = numericVal(n))
  <2> DEFINE V == {s \in Str : \E n \in lo..hi : s = numericVal(n)}
  <2>1. lo \in 0..MaxUint /\ hi \in 0..MaxUint
    BY ScanAssumption
  <2>2. IterateNumericAnnotBitmaps(key, lo, hi) = IDsWithin(key, V)
    BY <1>1, <2>1, NumericWithin
  <2>3. IDsWithin(key, V) = IDsWithValue(key, LAMBDA s : \E n \in lo..hi : s = numericVal(n))
    BY <1>1, LiveValues DEF IDsWithin, IDsWithValue
  <2>. QED
    BY <2>2, <2>3 DEF IDsWithValue
<1>2. BitmapInv => NumericScanExact
  BY <1>1 DEF NumericScanExact, IDsWithValue
<1>. QED
  BY <1>2, BitmapInvariant, PTL

\* A glob returns exactly the entities of the head with a value that the
\* pattern matches, whichever of the two scans it uses.
THEOREM GlobAlwaysExact == Spec => []GlobExact
PROOF
<1>1. ASSUME BitmapInv, NEW key \in ScanKeys, NEW pattern \in ScanPatterns
      PROVE Glob(key, pattern) = IDsWithValue(key, LAMBDA s : Matches(pattern, s))
  <2> DEFINE V == {s \in Str : Matches(pattern, s)}
  <2>1. Glob(key, pattern) = IDsWithin(key, V)
    BY <1>1, ScanAssumption, GlobWithin DEF Str
  <2>2. IDsWithin(key, V) = IDsWithValue(key, LAMBDA s : Matches(pattern, s))
    BY <1>1, LiveValues DEF IDsWithin, IDsWithValue
  <2>. QED
    BY <2>1, <2>2 DEF IDsWithValue
<1>2. BitmapInv => GlobExact
  BY <1>1 DEF GlobExact, IDsWithValue
<1>. QED
  BY <1>2, BitmapInvariant, PTL

(***************************************************************************)
(* Terms.  A term asks for values that meet one of its literals.  Values   *)
(* and literals of one type are told apart by their bytes, so it asks for  *)
(* some byte strings; the scans and lookups find the entities with those.  *)
(***************************************************************************)
Lit == ({"string"} \X Seq(Byte)) \cup ({"number"} \X (0..MaxUint))

LEMMA LiteralBytes ==
  /\ \A x \in Lit : /\ x = <<x[1], x[2]>> /\ annotVal(x) \in Str
                    /\ x[1] = "string" => annotVal(x) = x[2] /\ x[2] \in Str
                    /\ x[1] # "string" => /\ x[1] = "number" /\ x[2] \in 0..MaxUint
                                          /\ annotVal(x) = numericVal(x[2])
                                          /\ annotVal(x) # <<>>
                    /\ annotVal(x) = <<>> <=> x = <<"string", <<>>>>
  /\ \A x, y \in Lit : x[1] = y[1] => (annotVal(x) = annotVal(y) <=> x[2] = y[2])
PROOF
<1>1. ASSUME NEW x \in Lit
      PROVE /\ x = <<x[1], x[2]>> /\ annotVal(x) \in Str
            /\ x[1] = "string" => annotVal(x) = x[2] /\ x[2] \in Str
            /\ x[1] # "string" => /\ x[1] = "number" /\ x[2] \in 0..MaxUint
                                  /\ annotVal(x) = numericVal(x[2])
                                  /\ annotVal(x) # <<>>
            /\ annotVal(x) = <<>> <=> x = <<"string", <<>>>>
  <2>1. CASE x \in {"string"} \X Seq(Byte)
    <3>1. x = <<"string", x[2]>> /\ x[1] = "string" /\ x[2] \in Str
      BY <2>1 DEF Str
    <3>2. annotVal(x) = x[2]
      BY <3>1 DEF annotVal
    <3>. QED
      BY <3>1, <3>2
  <2>2. CASE x \in {"number"} \X (0..MaxUint)
    <3>1. x = <<"number", x[2]>> /\ x[1] = "number" /\ x[2] \in 0..MaxUint
      BY <2>2
    <3>2. "number" # "string"
      OBVIOUS
    <3>3. annotVal(x) = numericVal(x[2])
      BY <3>1, <3>2 DEF annotVal
    <3>4. numericVal(x[2]) \in Str /\ numericVal(x[2]) # <<>>
      BY <3>1, NumberBytes
    <3>5. x # <<"string", <<>>>>
      BY <3>1, <3>2
    <3>. QED
      BY <3>1, <3>2, <3>3, <3>4, <3>5
  <2>. QED
    BY <2>1, <2>2 DEF Lit
<1>2. ASSUME NEW x \in Lit, NEW y \in Lit, x[1] = y[1]
      PROVE annotVal(x) = annotVal(y) <=> x[2] = y[2]
  <2>1. CASE x[1] = "string"
    BY <1>1, <1>2, <2>1
  <2>2. CASE x[1] # "string"
    <3>1. /\ annotVal(x) = numericVal(x[2]) /\ annotVal(y) = numericVal(y[2])
          /\ Uint(numericVal(x[2])) = x[2] /\ Uint(numericVal(y[2])) = y[2]
      BY <1>1, <1>2, <2>2, UintExact
    <3>. QED
      BY <3>1
  <2>. QED
    BY <2>1, <2>2
<1>. QED
  BY <1>1, <1>2

LEMMA TrimNullsString ==
  ASSUME NEW s \in Str
  PROVE TrimNulls(s) \in Str
PROOF
<1> DEFINE last == {i \in 1..Len(s) : s[i] # 0}
           m == CHOOSE i \in last : \A j \in last : j <= i
<1>1. CASE last = {}
  BY <1>1 DEF TrimNulls, Str
<1>2. CASE last # {}
  <2>1. last \subseteq 1..Len(s)
    OBVIOUS
  <2>2. m \in 1..Len(s)
    <3> HIDE DEF last
    <3>. QED
      BY <1>2, <2>1, LastBelow
  <2>3. TrimNulls(s) = SubSeq(s, 1, m)
    BY <1>2 DEF TrimNulls
  <2> HIDE DEF m
  <2>4. Len(s) \in Nat /\ \A i \in 1..m : s[i] \in Byte
    BY <2>2, StringTypes DEF Str
  <2>5. SubSeq(s, 1, m) \in Seq(Byte)
    BY <2>2, <2>4, SubSeqProperties
  <2>. QED
    BY <2>3, <2>5 DEF Str
<1>. QED
  BY <1>1, <1>2

\* The wire attributes of a content, as they are indexed and as they count.
LEMMA AttributeValues ==
  ASSUME NEW c \in Content, NEW a \in Attributes[c]
  PROVE LET val == IF a.type = "string" THEN <<"string", TrimNulls(a.value)>>
                   ELSE <<"number", BigEndian(a.value) % (MaxUint + 1)>>
        IN /\ val \in Lit
           /\ val = IF a.type = "string" THEN <<"string", TrimNulls(a.value)>>
                    ELSE <<"number", attrUint64(a.value)>>
PROOF
<1>1. a.value \in Str
  BY EncodingAssumption DEF Str
<1>. QED
  BY <1>1, WireNumber, TrimNullsString DEF Lit, Str

LEMMA ContentAnnotations ==
  ASSUME NEW e \in EntityRec
  PROVE LET A == {<<a.name, IF a.type = "string" THEN <<"string", TrimNulls(a.value)>>
                            ELSE <<"number", BigEndian(a.value) % (MaxUint + 1)>>>>
                    : a \in Attributes[e.content]}
        IN /\ A = applyAttributes(Attributes[e.content])
           /\ \A a \in A : a[2] \in Lit
           /\ userAnnotations(e) = {<<a[1], annotVal(a[2])>> : a \in A}
PROOF
<1>1. e.content \in Content
  BY DEF EntityRec
<1> DEFINE val(a) == IF a.type = "string" THEN <<"string", TrimNulls(a.value)>>
                     ELSE <<"number", BigEndian(a.value) % (MaxUint + 1)>>
           old(a) == IF a.type = "string" THEN <<"string", TrimNulls(a.value)>>
                     ELSE <<"number", attrUint64(a.value)>>
           A == {<<a.name, val(a)>> : a \in Attributes[e.content]}
<1>2. \A a \in Attributes[e.content] : val(a) \in Lit /\ val(a) = old(a)
  BY <1>1, AttributeValues
<1>3. applyAttributes(Attributes[e.content]) = {<<a.name, old(a)>> : a \in Attributes[e.content]}
  BY DEF applyAttributes
<1> HIDE DEF val, old
<1>4. A = applyAttributes(Attributes[e.content]) /\ \A a \in A : a[2] \in Lit
  BY <1>2, <1>3
<1>5. userAnnotations(e) = {<<a[1], annotVal(a[2])>> : a \in A}
  BY <1>1, <1>4, EncodingAssumption DEF userAnnotations
<1>. QED
  BY <1>4, <1>5 DEF val

\* The index has the bytes of an entity's annotations and no others.
LEMMA AnnotationBytes ==
  ASSUME NEW t \in Terms, NEW e \in EntityRec
  PROVE /\ \A p \in allAnnotations(e) : p[1] = t.var =>
             \E a \in Annotations(e) : a[1] = t.var /\ suffix(p) = annotVal(a[2])
        /\ \A a \in Annotations(e) : a[1] = t.var =>
             /\ a[2] \in Lit
             /\ \E p \in allAnnotations(e) : p[1] = t.var /\ suffix(p) = annotVal(a[2])
             /\ OneType(t) => \A x \in t.vals : x[1] = a[2][1]
             /\ t.var \in AddressVar => ToLower(a[2][2]) = a[2][2]
PROOF
<1> DEFINE A == {<<a.name, IF a.type = "string" THEN <<"string", TrimNulls(a.value)>>
                           ELSE <<"number", BigEndian(a.value) % (MaxUint + 1)>>>>
                   : a \in Attributes[e.content]}
           numbers == {<<"$createdAtBlock", e.createdAt>>, <<"$lastModifiedAtBlock", e.lastModified>>,
                       <<"$expiration", e.expiresAt>>}
           strings == {<<"$owner", e.owner>>, <<"$creator", e.creator>>, <<"$key", e.key>>}
<1>1. Annotations(e) = {<<p[1], <<"number", p[2]>>>> : p \in numbers}
                         \cup {<<p[1], <<"string", p[2]>>>> : p \in strings} \cup A
  BY DEF Annotations
<1>2. /\ A = applyAttributes(Attributes[e.content]) /\ \A a \in A : a[2] \in Lit
      /\ userAnnotations(e) = {<<a[1], annotVal(a[2])>> : a \in A}
  BY ContentAnnotations
<1>3. allAnnotations(e) = {<<"$all", "true">>} \cup numbers \cup strings \cup userAnnotations(e)
  BY DEF allAnnotations, builtinAnnotations
<1>4. e.content \in Content
  BY DEF EntityRec
<1>5. \A p \in numbers : /\ p[1] \in NumericBuiltin /\ p[1] \notin AddressVar
                         /\ <<"number", p[2]>> \in Lit
  BY EncodingAssumption DEF EntityRec, NumericBuiltin, AddressVar, Lit
<1>6. \A p \in strings : /\ p[1] \in AddressVar /\ p[1] \notin NumericBuiltin
                         /\ p \in Pair
  BY DEF EntityRec, NumericBuiltin, AddressVar, Pair, BuiltinPair
<1>7. \A a \in A : a[1] \notin AddressVar /\ a[1] \notin NumericBuiltin
  <2> SUFFICES ASSUME NEW a \in A PROVE a[1] \notin AddressVar /\ a[1] \notin NumericBuiltin
    OBVIOUS
  <2> HIDE DEF A
  <2>1. <<a[1], annotVal(a[2])>> \in ContentPairs[e.content]
    BY <1>2 DEF userAnnotations
  <2>. QED
    BY <1>4, <2>1, ContentAssumption DEF NumericBuiltin, AddressVar
<1>8. t.var # "$all"
  BY TermAssumption
<1> HIDE DEF A, numbers, strings
<1>9. ASSUME NEW p \in numbers
      PROVE suffix(p) = annotVal(<<"number", p[2]>>)
  BY <1>5 DEF suffix, annotVal
<1>10. ASSUME NEW p \in strings
       PROVE suffix(p) = annotVal(<<"string", p[2]>>)
  BY <1>6 DEF suffix, annotVal
<1>11. ASSUME NEW a \in A
       PROVE suffix(<<a[1], annotVal(a[2])>>) = annotVal(a[2])
  BY <1>7 DEF suffix
<1>12. ASSUME NEW p \in allAnnotations(e), p[1] = t.var
       PROVE \E a \in Annotations(e) : a[1] = t.var /\ suffix(p) = annotVal(a[2])
  <2>1. CASE p \in numbers
    <3>1. <<p[1], <<"number", p[2]>>>> \in Annotations(e)
      BY <1>1, <2>1
    <3>. QED
      BY <1>9, <1>12, <2>1, <3>1
  <2>2. CASE p \in strings
    <3>1. <<p[1], <<"string", p[2]>>>> \in Annotations(e)
      BY <1>1, <2>2
    <3>. QED
      BY <1>10, <1>12, <2>2, <3>1
  <2>3. CASE p \in userAnnotations(e)
    <3>1. PICK a \in A : p = <<a[1], annotVal(a[2])>>
      BY <1>2, <2>3
    <3>2. a \in Annotations(e)
      BY <1>1
    <3>. QED
      BY <1>11, <1>12, <3>1, <3>2
  <2>. QED
    BY <1>3, <1>8, <1>12, <2>1, <2>2, <2>3
<1>13. ASSUME NEW a \in Annotations(e), a[1] = t.var
       PROVE /\ a[2] \in Lit
             /\ \E p \in allAnnotations(e) : p[1] = t.var /\ suffix(p) = annotVal(a[2])
             /\ OneType(t) => \A x \in t.vals : x[1] = a[2][1]
             /\ t.var \in AddressVar => ToLower(a[2][2]) = a[2][2]
  <2>1. CASE a \in {<<p[1], <<"number", p[2]>>>> : p \in numbers}
    <3>1. PICK p \in numbers : a = <<p[1], <<"number", p[2]>>>>
      BY <2>1
    <3>2. /\ p \in allAnnotations(e) /\ p[1] = t.var /\ a[2] = <<"number", p[2]>>
          /\ a[2][1] = "number"
      BY <1>3, <1>13, <3>1
    <3>3. OneType(t) => \A x \in t.vals : x[1] = "number"
      BY <1>5, <3>2 DEF OneType
    <3>. QED
      BY <1>5, <1>9, <3>2, <3>3
  <2>2. CASE a \in {<<p[1], <<"string", p[2]>>>> : p \in strings}
    <3>1. PICK p \in strings : a = <<p[1], <<"string", p[2]>>>>
      BY <2>2
    <3>2. /\ p \in allAnnotations(e) /\ p[1] = t.var /\ a[2] = <<"string", p[2]>>
          /\ a[2][1] = "string" /\ a[2][2] = p[2]
      BY <1>3, <1>13, <3>1
    <3>3. OneType(t) => \A x \in t.vals : x[1] = "string"
      BY <1>6, <3>2 DEF OneType
    <3>4. p[2] \in Seq(Byte) /\ ToLower(p[2]) = p[2]
      BY <1>6, <3>2, TermAssumption
    <3>5. a[2] \in Lit
      BY <3>2, <3>4 DEF Lit
    <3>. QED
      BY <1>10, <3>2, <3>3, <3>4, <3>5
  <2>3. CASE a \in A
    <3>1. <<a[1], annotVal(a[2])>> \in allAnnotations(e)
      BY <1>2, <1>3, <2>3
    <3>2. OneType(t) => \A x \in t.vals : x[1] = a[2][1]
      BY <1>2, <1>4, <1>13, <2>3 DEF OneType
    <3>. QED
      BY <1>2, <1>7, <1>11, <1>13, <2>3, <3>1, <3>2
  <2>. QED
    BY <1>1, <1>13, <2>1, <2>2, <2>3
<1>. QED
  BY <1>12, <1>13

\* Every live ID of a readable block has an entity there.
LEMMA LiveEntity ==
  ASSUME BitmapInv, NEW n \in Readable, NEW i \in ID, openStateAt(n).ids[i] # Absent
  PROVE Entities(n)[openStateAt(n).ids[i]] \in EntityRec
PROOF
<1> DEFINE m == IF n = 0 THEN tip ELSE n
           s == openStateAt(n)
<1>1. ChainInv /\ SlotsLive
  BY DEF BitmapInv, IDInv, HistoryInv
<1>2. m \in Versions /\ s = RootAt(m) /\ s \in Trie
  BY <1>1, ReadableState
<1>3. s.code = Entities(n) /\ s.ids \in [ID -> {Absent} \cup Addr]
  BY ReadableIndex
<1> HIDE DEF m, s
<1>4. s.ids[i] \in Addr
  BY <1>3 DEF s
<1>5. s.code[s.ids[i]] # Absent
  BY <1>1, <1>2, <1>4 DEF SlotsLive
<1>6. s.code[s.ids[i]] \in EntityRec
  BY <1>2, <1>4, <1>5 DEF Trie
<1>. QED
  BY <1>3, <1>6 DEF s

\* The byte strings a term asks for.
Hits(t) ==
  {s \in Str : \E x \in t.vals, y \in Lit : y[1] = x[1] /\ s = annotVal(y) /\ Meets(t, y, x)}

LEMMA HitsMeet ==
  ASSUME NEW t \in Terms, NEW y \in Lit, \A x \in t.vals : x[1] = y[1]
  PROVE annotVal(y) \in Hits(t) <=> \E x \in t.vals : Meets(t, y, x)
PROOF
<1>1. ASSUME NEW x \in t.vals, NEW z \in Lit, z[1] = x[1], annotVal(y) = annotVal(z), Meets(t, z, x)
      PROVE Meets(t, y, x)
  <2>1. y[1] = z[1] /\ y[2] = z[2] /\ y = <<y[1], y[2]>> /\ z = <<z[1], z[2]>>
    BY <1>1, LiteralBytes
  <2>2. y = z
    BY <2>1
  <2>. QED
    BY <1>1, <2>2
<1>2. annotVal(y) \in Str
  BY LiteralBytes
<1>. QED
  BY <1>1, <1>2 DEF Hits

LEMMA TermTypes ==
  ASSUME NEW t \in Terms
  PROVE /\ \A x \in t.vals : x \in Lit
        /\ Scanned(t) => /\ t.var \in ScanKeys /\ Literal(t) \in Lit /\ t.vals = {Literal(t)}
                         /\ t.op \in RangeOp \cup {"~"}
        /\ t.op = "~" => Literal(t)[1] = "string"
        /\ ~Scanned(t) => t.op \in {"=", "in"}
PROOF
<1>1. t.vals \subseteq Lit
  BY TermAssumption DEF Lit
<1>2. Scanned(t) => t.vals = {Literal(t)}
  <2>1. SUFFICES ASSUME Scanned(t) PROVE t.vals = {Literal(t)}
    OBVIOUS
  <2>2. PICK x \in t.vals : t.vals = {x}
    BY <2>1, TermAssumption
  <2>3. Literal(t) \in t.vals
    BY <2>2 DEF Literal
  <2>. QED
    BY <2>2, <2>3
<1>3. t.op = "~" => Scanned(t) /\ \A x \in t.vals : x[1] = "string"
  BY TermAssumption DEF Scanned
<1>4. Scanned(t) => t.var \in ScanKeys
  BY TermAssumption
<1>5. t.op \in RangeOp \cup {"~", "=", "in"}
  BY TermAssumption
<1>6. Scanned(t) <=> t.op \in RangeOp \cup {"~"}
  BY DEF Scanned
<1>. QED
  BY <1>1, <1>2, <1>3, <1>4, <1>5, <1>6

\* What a term with one literal asks for, by the type of the literal.
StringLit(s) == <<"string", s>>

LEMMA StringLits ==
  ASSUME NEW s \in Str
  PROVE StringLit(s) \in Lit /\ StringLit(s)[1] = "string" /\ StringLit(s)[2] = s /\ annotVal(StringLit(s)) = s
PROOF
  BY DEF StringLit, Lit, Str, annotVal

LEMMA StringHits ==
  ASSUME NEW t \in Terms, Scanned(t), Literal(t)[1] = "string", NEW s \in Str
  PROVE s \in Hits(t) <=> Meets(t, StringLit(s), Literal(t))
PROOF
<1>1. StringLit(s) \in Lit /\ annotVal(StringLit(s)) = s /\ StringLit(s)[1] = "string"
  BY StringLits
<1>2. \A x \in t.vals : x[1] = StringLit(s)[1]
  BY <1>1, TermTypes
<1>3. t.vals = {Literal(t)}
  BY TermTypes
<1>4. annotVal(StringLit(s)) \in Hits(t) <=> \E x \in t.vals : Meets(t, StringLit(s), x)
  BY <1>1, <1>2, HitsMeet
<1>. QED
  BY <1>1, <1>3, <1>4

LEMMA NumberHits ==
  ASSUME NEW t \in Terms, Scanned(t), Literal(t)[1] = "number"
  PROVE \A s \in Str :
          s \in Hits(t) <=> \E n \in 0..MaxUint : s = numericVal(n) /\ Meets(t, <<"number", n>>, Literal(t))
PROOF
<1>0. t.vals = {Literal(t)}
  BY TermTypes
<1>1. ASSUME NEW n \in 0..MaxUint
      PROVE /\ <<"number", n>> \in Lit /\ annotVal(<<"number", n>>) = numericVal(n)
            /\ <<"number", n>>[1] = "number"
  BY DEF Lit, annotVal
<1>2. ASSUME NEW s \in Hits(t)
      PROVE \E n \in 0..MaxUint : s = numericVal(n) /\ Meets(t, <<"number", n>>, Literal(t))
  <2>1. PICK y \in Lit : y[1] = "number" /\ s = annotVal(y) /\ Meets(t, y, Literal(t))
    BY <1>0 DEF Hits
  <2>2. y = <<"number", y[2]>> /\ y[2] \in 0..MaxUint /\ annotVal(y) = numericVal(y[2])
    BY <2>1, LiteralBytes
  <2>. QED
    BY <2>1, <2>2
<1>3. ASSUME NEW s \in Str, NEW n \in 0..MaxUint, s = numericVal(n),
             Meets(t, <<"number", n>>, Literal(t))
      PROVE s \in Hits(t)
  BY <1>0, <1>1, <1>3 DEF Hits
<1>. QED
  BY <1>2, <1>3

\* What a scanned term returns, without its NOT.
ScanOf(t) ==
  CASE t.op = "<" -> LessThan(t.var, Literal(t))
    [] t.op = "<=" -> LessOrEqualThan(t.var, Literal(t))
    [] t.op = ">" -> GreaterThan(t.var, Literal(t))
    [] t.op = ">=" -> GreaterOrEqualThan(t.var, Literal(t))
    [] t.op = "~" -> Glob(t.var, Literal(t)[2])

LEMMA Operators ==
  ASSUME NEW t, NEW y, NEW x, y[1] = x[1]
  PROVE /\ t.op \in {"=", "in"} => (Meets(t, y, x) <=> SameLiteral(t.var, y, x))
        /\ t.op = "<" => (Meets(t, y, x) <=> Below(y, x)) /\ ScanOf(t) = LessThan(t.var, Literal(t))
        /\ t.op = "<=" => (Meets(t, y, x) <=> ~Below(x, y)) /\ ScanOf(t) = LessOrEqualThan(t.var, Literal(t))
        /\ t.op = ">" => (Meets(t, y, x) <=> Below(x, y)) /\ ScanOf(t) = GreaterThan(t.var, Literal(t))
        /\ t.op = ">=" => (Meets(t, y, x) <=> ~Below(y, x)) /\ ScanOf(t) = GreaterOrEqualThan(t.var, Literal(t))
        /\ t.op = "~" => (Meets(t, y, x) <=> Matches(x[2], y[2])) /\ ScanOf(t) = Glob(t.var, Literal(t)[2])
PROOF
  BY DEF Meets, ScanOf

LEMMA StringTerm ==
  ASSUME BitmapInv, NEW t \in Terms, Scanned(t), Literal(t)[1] = "string"
  PROVE ScanOf(t) = IDsWithin(t.var, Hits(t))
PROOF
<1> DEFINE x == Literal(t)
           y(s) == StringLit(s)
<1>1. /\ t.var \in ScanKeys /\ x \in Lit /\ x = <<"string", x[2]>> /\ x[2] \in Str
      /\ t.op \in RangeOp \cup {"~"} /\ x[1] = "string"
  BY TermTypes, LiteralBytes
<1>2. x \in AnyBound /\ nil \in AnyBound /\ x # nil
  BY <1>1 DEF AnyBound, nil
<1>3. \A s \in Str : y(s)[1] = x[1] /\ y(s)[2] = s
  BY <1>1, StringLits
<1>4. \A s \in Str : s \in Hits(t) <=> Meets(t, y(s), x)
  BY StringHits
<1>5. \A s \in Str : (Below(y(s), x) <=> Less(s, x[2])) /\ (Below(x, y(s)) <=> Less(x[2], s))
  <2>1. "string" # "number"
    OBVIOUS
  <2>. QED
    BY <1>1, <1>3, <2>1 DEF Below
<1>6. \A s \in Str : /\ ~Less(s, x[2]) <=> Less(x[2], s) \/ s = x[2]
                     /\ ~Less(x[2], s) <=> Less(s, x[2]) \/ s = x[2]
  BY <1>1, BoundOrder
<1>7. \A s \in Str, incl \in BOOLEAN :
        /\ AboveLow(s, nil, incl) /\ BelowHigh(s, nil, incl)
        /\ AboveLow(s, x, incl) <=> Less(x[2], s) \/ (incl /\ s = x[2])
        /\ BelowHigh(s, x, incl) <=> Less(s, x[2]) \/ (incl /\ s = x[2])
  BY <1>2 DEF AboveLow, BelowHigh
<1>8. Hits(t) \subseteq Str
  BY DEF Hits
<1>9. \A lo, hi \in AnyBound, loIncl, hiIncl \in BOOLEAN :
        (\A s \in Str : s \in Hits(t) <=> AboveLow(s, lo, loIncl) /\ BelowHigh(s, hi, hiIncl))
          => IterateStringAnnotBitmaps(t.var, lo, loIncl, hi, hiIncl) = IDsWithin(t.var, Hits(t))
  <2> SUFFICES ASSUME NEW lo \in AnyBound, NEW hi \in AnyBound,
                      NEW loIncl \in BOOLEAN, NEW hiIncl \in BOOLEAN,
                      \A s \in Str : s \in Hits(t) <=> AboveLow(s, lo, loIncl) /\ BelowHigh(s, hi, hiIncl)
               PROVE IterateStringAnnotBitmaps(t.var, lo, loIncl, hi, hiIncl) = IDsWithin(t.var, Hits(t))
    OBVIOUS
  <2>1. Hits(t) = {s \in Str : AboveLow(s, lo, loIncl) /\ BelowHigh(s, hi, hiIncl)}
    BY <1>8
  <2>. QED
    BY <1>1, <2>1, RangeExact
<1> HIDE DEF x, y
<1>10. CASE t.op = "<"
  <2>1. \A s \in Str : s \in Hits(t) <=> AboveLow(s, nil, FALSE) /\ BelowHigh(s, x, FALSE)
    BY <1>3, <1>4, <1>5, <1>7, <1>10, Operators
  <2>2. ScanOf(t) = IterateStringAnnotBitmaps(t.var, nil, FALSE, x, FALSE)
    BY <1>1, <1>10, Operators DEF LessThan, x
  <2>. QED
    BY <1>2, <1>9, <2>1, <2>2
<1>11. CASE t.op = "<="
  <2>1. \A s \in Str : s \in Hits(t) <=> AboveLow(s, nil, FALSE) /\ BelowHigh(s, x, TRUE)
    BY <1>3, <1>4, <1>5, <1>6, <1>7, <1>11, Operators
  <2>2. ScanOf(t) = IterateStringAnnotBitmaps(t.var, nil, FALSE, x, TRUE)
    BY <1>1, <1>11, Operators DEF LessOrEqualThan, x
  <2>. QED
    BY <1>2, <1>9, <2>1, <2>2
<1>12. CASE t.op = ">"
  <2>1. \A s \in Str : s \in Hits(t) <=> AboveLow(s, x, FALSE) /\ BelowHigh(s, nil, FALSE)
    BY <1>3, <1>4, <1>5, <1>7, <1>12, Operators
  <2>2. ScanOf(t) = IterateStringAnnotBitmaps(t.var, x, FALSE, nil, FALSE)
    BY <1>1, <1>12, Operators DEF GreaterThan, x
  <2>. QED
    BY <1>2, <1>9, <2>1, <2>2
<1>13. CASE t.op = ">="
  <2>1. \A s \in Str : s \in Hits(t) <=> AboveLow(s, x, TRUE) /\ BelowHigh(s, nil, FALSE)
    BY <1>3, <1>4, <1>5, <1>6, <1>7, <1>13, Operators
  <2>2. ScanOf(t) = IterateStringAnnotBitmaps(t.var, x, TRUE, nil, FALSE)
    BY <1>1, <1>13, Operators DEF GreaterOrEqualThan, x
  <2>. QED
    BY <1>2, <1>9, <2>1, <2>2
<1>14. CASE t.op = "~"
  <2>1. \A s \in Str : s \in Hits(t) <=> Matches(x[2], s)
    BY <1>3, <1>4, <1>14, Operators
  <2>2. Hits(t) = {s \in Str : Matches(x[2], s)}
    BY <1>8, <2>1
  <2>3. ScanOf(t) = Glob(t.var, x[2])
    BY <1>14, Operators DEF x
  <2>. QED
    BY <1>1, <2>2, <2>3, GlobWithin
<1>. QED
  BY <1>1, <1>10, <1>11, <1>12, <1>13, <1>14 DEF RangeOp

LEMMA NumberTerm ==
  ASSUME BitmapInv, NEW t \in Terms, Scanned(t), Literal(t)[1] = "number"
  PROVE ScanOf(t) = IDsWithin(t.var, Hits(t))
PROOF
<1> DEFINE x == Literal(t)
           m == x[2]
           y(n) == <<"number", n>>
<1>1. /\ t.var \in ScanKeys /\ x \in Lit /\ m \in 0..MaxUint /\ x[1] = "number"
      /\ t.op \in RangeOp /\ x[1] # "string"
  <2>1. "number" # "string"
    OBVIOUS
  <2>. QED
    BY <2>1, TermTypes, LiteralBytes
<1>2. /\ m \in Nat /\ MaxUint \in Nat /\ 0 \in 0..MaxUint /\ MaxUint \in 0..MaxUint
      /\ \A n \in 0..MaxUint : n \in Nat /\ n <= MaxUint
  <2>1. Place[NumLen] \in Nat \ {0}
    <3>1. NumLen \in 0..NumLen
      BY BytesAssumption
    <3>. QED
      BY <3>1, PlaceTypes
  <2>. QED
    BY <1>1, <2>1 DEF MaxUint
<1>3. \A n \in 0..MaxUint : /\ y(n)[1] = x[1] /\ y(n)[2] = n
                            /\ Below(y(n), x) <=> n < m
                            /\ Below(x, y(n)) <=> m < n
  BY <1>1 DEF Below
<1>4. \A s \in Str : s \in Hits(t) <=>
        \E n \in 0..MaxUint : s = numericVal(n) /\ Meets(t, y(n), x)
  BY NumberHits
<1>5. Hits(t) \subseteq Str
  BY DEF Hits
<1>6. ASSUME NEW lo \in 0..MaxUint, NEW hi \in 0..MaxUint,
             \A n \in 0..MaxUint : Meets(t, y(n), x) <=> n \in lo..hi
      PROVE IterateNumericAnnotBitmaps(t.var, lo, hi) = IDsWithin(t.var, Hits(t))
  <2>1. \A n \in lo..hi : n \in 0..MaxUint
    BY <1>2
  <2>2. \A s \in Str : s \in Hits(t) <=> \E n \in lo..hi : s = numericVal(n)
    BY <1>4, <1>6, <2>1
  <2>3. Hits(t) = {s \in Str : \E n \in lo..hi : s = numericVal(n)}
    BY <1>5, <2>2
  <2>. QED
    BY <1>1, <2>3, NumericWithin
<1>7. ASSUME \A n \in 0..MaxUint : ~Meets(t, y(n), x)
      PROVE {} = IDsWithin(t.var, Hits(t))
  <2>1. Hits(t) = {}
    BY <1>4, <1>5, <1>7
  <2>. QED
    BY <2>1 DEF IDsWithin, IDsWithValue
<1> HIDE DEF x, y
<1>8. CASE t.op = "<"
  <2>1. \A n \in 0..MaxUint : Meets(t, y(n), x) <=> n < m
    BY <1>3, <1>8, Operators
  <2>2. CASE m = 0
    <3>1. ScanOf(t) = {}
      BY <1>1, <1>8, <2>2, Operators DEF LessThan, x
    <3>. QED
      BY <1>2, <1>7, <2>1, <2>2, <3>1
  <2>3. CASE m # 0
    <3>1. ScanOf(t) = IterateNumericAnnotBitmaps(t.var, 0, m - 1)
      BY <1>1, <1>8, <2>3, Operators DEF LessThan, x
    <3>2. m - 1 \in 0..MaxUint /\ \A n \in 0..MaxUint : n < m <=> n \in 0..m - 1
      BY <1>1, <1>2, <2>3
    <3>. QED
      BY <1>2, <1>6, <2>1, <3>1, <3>2
  <2>. QED
    BY <2>2, <2>3
<1>9. CASE t.op = "<="
  <2>1. \A n \in 0..MaxUint : Meets(t, y(n), x) <=> n \in 0..m
    BY <1>2, <1>3, <1>9, Operators
  <2>2. ScanOf(t) = IterateNumericAnnotBitmaps(t.var, 0, m)
    BY <1>1, <1>9, Operators DEF LessOrEqualThan, x
  <2>. QED
    BY <1>1, <1>2, <1>6, <2>1, <2>2
<1>10. CASE t.op = ">"
  <2>1. \A n \in 0..MaxUint : Meets(t, y(n), x) <=> m < n
    BY <1>3, <1>10, Operators
  <2>2. CASE m = MaxUint
    <3>1. ScanOf(t) = {}
      BY <1>1, <1>10, <2>2, Operators DEF GreaterThan, x
    <3>. QED
      BY <1>2, <1>7, <2>1, <2>2, <3>1
  <2>3. CASE m # MaxUint
    <3>1. ScanOf(t) = IterateNumericAnnotBitmaps(t.var, m + 1, MaxUint)
      BY <1>1, <1>10, <2>3, Operators DEF GreaterThan, x
    <3>2. m + 1 \in 0..MaxUint /\ \A n \in 0..MaxUint : m < n <=> n \in m + 1..MaxUint
      BY <1>1, <1>2, <2>3
    <3>. QED
      BY <1>2, <1>6, <2>1, <3>1, <3>2
  <2>. QED
    BY <2>2, <2>3
<1>11. CASE t.op = ">="
  <2>1. \A n \in 0..MaxUint : Meets(t, y(n), x) <=> n \in m..MaxUint
    BY <1>2, <1>3, <1>11, Operators
  <2>2. ScanOf(t) = IterateNumericAnnotBitmaps(t.var, m, MaxUint)
    BY <1>1, <1>11, Operators DEF GreaterOrEqualThan, x
  <2>. QED
    BY <1>1, <1>2, <1>6, <2>1, <2>2
<1>. QED
  BY <1>1, <1>8, <1>9, <1>10, <1>11 DEF RangeOp

\* Whether an entity is found by its bytes and whether it satisfies the term.
Good(t, A) == \E a \in A, x \in t.vals : a[1] = t.var /\ Meets(t, a[2], x)

LEMMA FoundByLookup ==
  ASSUME NEW t \in Terms, ~Scanned(t), OneType(t), NEW e \in EntityRec
  PROVE (\E p \in allAnnotations(e), x \in t.vals : p[1] = t.var /\ suffix(p) = annotVal(x))
          <=> Good(t, Annotations(e))
PROOF
<1>1. ASSUME NEW a \in Annotations(e), a[1] = t.var, NEW x \in t.vals
      PROVE annotVal(a[2]) = annotVal(x) <=> Meets(t, a[2], x)
  <2>1. a[2] \in Lit /\ x[1] = a[2][1] /\ (t.var \in AddressVar => ToLower(a[2][2]) = a[2][2])
    BY <1>1, AnnotationBytes
  <2>2. x \in Lit /\ t.op \in {"=", "in"}
    BY TermTypes
  <2>3. annotVal(a[2]) = annotVal(x) <=> a[2][2] = x[2]
    BY <2>1, <2>2, LiteralBytes
  <2>4. Meets(t, a[2], x) <=> SameLiteral(t.var, a[2], x)
    BY <2>1, <2>2, Operators
  <2>5. t.var \in AddressVar => ToLower(x[2]) = x[2]
    <3>1. SUFFICES ASSUME t.var \in AddressVar PROVE x[1] = "string"
      BY <3>1, TermAssumption
    <3>. QED
      BY <3>1 DEF OneType
  <2>6. SameLiteral(t.var, a[2], x) <=> a[2][2] = x[2]
    BY <2>1, <2>5 DEF SameLiteral
  <2>. QED
    BY <2>3, <2>4, <2>6
<1>. QED
  BY <1>1, AnnotationBytes DEF Good

LEMMA FoundByScan ==
  ASSUME NEW t \in Terms, OneType(t), NEW e \in EntityRec
  PROVE (\E p \in allAnnotations(e) : p[1] = t.var /\ suffix(p) # <<>> /\ suffix(p) \in Hits(t))
          <=> Good(t, NonEmpty(Annotations(e)))
PROOF
<1>1. ASSUME NEW a \in Annotations(e), a[1] = t.var
      PROVE /\ annotVal(a[2]) # <<>> <=> a \in NonEmpty(Annotations(e))
            /\ annotVal(a[2]) \in Hits(t) <=> \E x \in t.vals : Meets(t, a[2], x)
  <2>1. a[2] \in Lit /\ \A x \in t.vals : x[1] = a[2][1]
    BY <1>1, AnnotationBytes
  <2>2. annotVal(a[2]) = <<>> <=> a[2] = <<"string", <<>>>>
    BY <2>1, LiteralBytes
  <2>3. annotVal(a[2]) \in Hits(t) <=> \E x \in t.vals : Meets(t, a[2], x)
    BY <2>1, HitsMeet
  <2>. QED
    BY <2>2, <2>3 DEF NonEmpty
<1>2. NonEmpty(Annotations(e)) \subseteq Annotations(e)
  BY DEF NonEmpty
<1>. QED
  BY <1>1, <1>2, AnnotationBytes DEF Good

LEMMA LookupFinds ==
  ASSUME BitmapInv, NEW t \in Terms, ~Scanned(t), OneType(t), NEW n \in Readable
  PROVE Lookup(t, n) = {i \in ID : /\ openStateAt(n).ids[i] # Absent
                                   /\ Good(t, Annotations(Entities(n)[openStateAt(n).ids[i]]))}
PROOF
<1> DEFINE s == openStateAt(n)
           e(i) == Entities(n)[s.ids[i]]
           P == {q \in Pair : q[1] = t.var /\ \E x \in t.vals : suffix(q) = annotVal(x)}
<1>1. \A i \in ID : s.ids[i] # Absent => e(i) \in EntityRec
  BY LiveEntity
<1>2. \A q \in Pair : ReadAnnotBitmap(n, q) =
        {i \in ID : s.ids[i] # Absent /\ q \in allAnnotations(e(i))}
  BY ReadableIndex DEF carriersAt
<1>3. Lookup(t, n) = UNION {ReadAnnotBitmap(n, q) : q \in P}
  BY DEF Lookup
<1>4. \A i \in ID : s.ids[i] # Absent => allAnnotations(e(i)) \subseteq Pair
  <2>1. \A r \in EntityRec : allAnnotations(r) \subseteq Pair
    BY DEF allAnnotations, builtinAnnotations, userAnnotations, Pair, BuiltinPair, UserPair, EntityRec
  <2>. QED
    BY <1>1, <2>1
<1>5. \A i \in ID : s.ids[i] # Absent =>
        ((\E p \in allAnnotations(e(i)), x \in t.vals : p[1] = t.var /\ suffix(p) = annotVal(x))
           <=> Good(t, Annotations(e(i))))
  BY <1>1, FoundByLookup
<1> HIDE DEF s, e
<1>6. \A i \in ID : s.ids[i] # Absent =>
        ((\E q \in P : q \in allAnnotations(e(i))) <=> Good(t, Annotations(e(i))))
  BY <1>4, <1>5
<1>7. Lookup(t, n) = {i \in ID : s.ids[i] # Absent /\ \E q \in P : q \in allAnnotations(e(i))}
  <2>1. \A q \in P : ReadAnnotBitmap(n, q) =
          {i \in ID : s.ids[i] # Absent /\ q \in allAnnotations(e(i))}
    BY <1>2
  <2> HIDE DEF P
  <2>. QED
    BY <1>3, <2>1
<1> HIDE DEF P
<1>8. Lookup(t, n) = {i \in ID : s.ids[i] # Absent /\ Good(t, Annotations(e(i)))}
  BY <1>6, <1>7
<1>. QED
  BY <1>8 DEF s, e

LEMMA ScanFinds ==
  ASSUME BitmapInv, NEW t \in Terms, Scanned(t), OneType(t)
  PROVE ScanOf(t) = {i \in ID : /\ openStateAt(0).ids[i] # Absent
                                /\ Good(t, NonEmpty(Annotations(Entities(0)[openStateAt(0).ids[i]])))}
PROOF
<1> DEFINE s == openStateAt(0)
           e(i) == Entities(0)[s.ids[i]]
<1>1. ScanOf(t) = IDsWithin(t.var, Hits(t))
  <2>1. Literal(t) \in Lit
    BY TermTypes
  <2>2. Literal(t)[1] = "string" \/ Literal(t)[1] = "number"
    BY <2>1, LiteralBytes
  <2>. QED
    BY <2>2, StringTerm, NumberTerm
<1>2. s = head.root /\ 0 \in Readable
  BY DEF openStateAt, Readable
<1>3. \A i \in ID : s.ids[i] # Absent => e(i) \in EntityRec
  BY <1>2, LiveEntity
<1>4. \A i \in ID : s.ids[i] # Absent =>
        ((\E p \in allAnnotations(e(i)) : p[1] = t.var /\ suffix(p) # <<>> /\ suffix(p) \in Hits(t))
           <=> Good(t, NonEmpty(Annotations(e(i)))))
  BY <1>3, FoundByScan
<1>5. IDsWithin(t.var, Hits(t)) =
        {i \in ID : s.ids[i] # Absent /\ \E p \in allAnnotations(e(i)) :
                      p[1] = t.var /\ suffix(p) # <<>> /\ suffix(p) \in Hits(t)}
  BY <1>2 DEF IDsWithin, IDsWithValue
<1> HIDE DEF s, e
<1>6. IDsWithin(t.var, Hits(t)) = {i \in ID : s.ids[i] # Absent /\ Good(t, NonEmpty(Annotations(e(i))))}
  BY <1>4, <1>5
<1>7. ScanOf(t) = {i \in ID : s.ids[i] # Absent /\ Good(t, NonEmpty(Annotations(e(i))))}
  BY <1>1, <1>6 DEF IDsWithValue
<1>. QED
  BY <1>7 DEF s, e

\* A comparison or a glob returns exactly the entities of the head that satisfy
\* it, and an equality or inclusion exactly those of the block it is asked at,
\* after any blocks, reverts, reorgs, failures and restarts: the moved bounds
\* of < and >, the ends of the number range, NOT, and the truncation of wire
\* values lose and add none.
THEOREM TermAlwaysExact == Spec => []TermExact
PROOF
<1>1. ASSUME BitmapInv, NEW t \in Terms, OneType(t),
             NEW n \in IF Scanned(t) THEN {0} ELSE Readable
      PROVE EvaluateTerm(t, n) =
              IDsWhere(n, LAMBDA A : Satisfies(IF Scanned(t) THEN NonEmpty(A) ELSE A, t))
  <2> DEFINE s == openStateAt(n)
             A(i) == Annotations(Entities(n)[s.ids[i]])
             seen(i) == IF Scanned(t) THEN NonEmpty(A(i)) ELSE A(i)
             bm == IF Scanned(t) THEN ScanOf(t) ELSE Lookup(t, n)
  <2>1. n \in Readable
    BY <1>1 DEF Readable
  <2>2. bm = {i \in ID : s.ids[i] # Absent /\ Good(t, seen(i))}
    <3>1. CASE Scanned(t)
      <4>1. n = 0
        BY <1>1, <3>1
      <4>. QED
        BY <1>1, <3>1, <4>1, ScanFinds
    <3>2. CASE ~Scanned(t)
      BY <1>1, <2>1, <3>2, LookupFinds
    <3>. QED
      BY <3>1, <3>2
  <2>3. AllEntities(n) = {i \in ID : s.ids[i] # Absent}
    BY <1>1, <2>1, ReadableIndex
  <2>4. EvaluateTerm(t, n) = IF t.isNot THEN AllEntities(n) \ bm ELSE bm
    BY TermTypes DEF EvaluateTerm, ScanOf, Scanned, RangeOp
  <2>5. t.isNot \in BOOLEAN
    BY TermAssumption
  <2>6. \A i \in ID : Satisfies(seen(i), t) <=> (t.isNot # Good(t, seen(i)))
    BY DEF Satisfies, Good
  <2>7. IDsWhere(n, LAMBDA B : Satisfies(IF Scanned(t) THEN NonEmpty(B) ELSE B, t))
          = {i \in ID : s.ids[i] # Absent /\ Satisfies(seen(i), t)}
    BY DEF IDsWhere
  <2> HIDE DEF s, A, seen, bm
  <2>8. EvaluateTerm(t, n) = {i \in ID : s.ids[i] # Absent /\ Satisfies(seen(i), t)}
    <3>1. CASE t.isNot = TRUE
      <4>1. \A i \in ID : Satisfies(seen(i), t) <=> ~Good(t, seen(i))
        BY <2>6, <3>1 DEF Good
      <4>. QED
        BY <2>2, <2>3, <2>4, <3>1, <4>1
    <3>2. CASE t.isNot = FALSE
      <4>1. \A i \in ID : Satisfies(seen(i), t) <=> Good(t, seen(i))
        BY <2>6, <3>2 DEF Good
      <4>. QED
        BY <2>2, <2>4, <3>2, <4>1
    <3>. QED
      BY <2>5, <3>1, <3>2
  <2>. QED
    BY <2>7, <2>8 DEF IDsWhere
<1>2. BitmapInv => TermExact
  BY <1>1 DEF TermExact, TypedTerms, IDsWhere
<1>. QED
  BY <1>2, BitmapInvariant, PTL
=============================================================================
