---------------------------- MODULE AnnotValues -----------------------------
(***************************************************************************)
(* The values of annotations as the database keeps them: byte strings in   *)
(* lexicographic order, numbers in a fixed number of big-endian bytes      *)
(* (store/keys.go, ops.go, query.go).  The code has 256 bytes and numbers  *)
(* of 8 of them.                                                           *)
(***************************************************************************)
EXTENDS Naturals, Sequences

CONSTANTS
  MaxByte,   \* the largest byte, 0xFF
  NumLen,    \* bytes of a number, 8
  Star,      \* the byte '*'
  Question   \* the byte '?'

Byte == 0..MaxByte

\* The weight of the byte with i bytes to its right, 256^i.
Place[i \in 0..NumLen] == IF i = 0 THEN 1 ELSE Place[i - 1] * (MaxByte + 1)

\* math.MaxUint64
MaxUint == Place[NumLen] - 1

(***************************************************************************)
(* Go's byte order on strings: a proper prefix comes first.                *)
(***************************************************************************)
HasPrefix(s, p) == Len(p) <= Len(s) /\ SubSeq(s, 1, Len(p)) = p

Less(s, t) ==
  \/ HasPrefix(t, s) /\ s # t
  \/ \E i \in 1..Len(s) : /\ i <= Len(t) /\ s[i] < t[i]
                          /\ SubSeq(s, 1, i - 1) = SubSeq(t, 1, i - 1)

(***************************************************************************)
(* Numbers.                                                                *)
(***************************************************************************)
\* Mutant: the least significant byte comes first.
numericVal_LittleEndian(n) ==
  [i \in 1..NumLen |-> (n \div Place[i - 1]) % (MaxByte + 1)]

numericVal(n) ==
  [i \in 1..NumLen |-> (n \div Place[NumLen - i]) % (MaxByte + 1)]

\* The value of a byte string of NumLen bytes, binary.BigEndian.Uint64.
Uint(b) == CHOOSE n \in 0..MaxUint : numericVal(n) = b

\* The number that a big-endian byte string of any length stands for.
BigEndian(b) ==
  LET value[i \in 0..Len(b)] ==
        IF i = 0 THEN 0 ELSE value[i - 1] * (MaxByte + 1) + b[i]
  IN value[Len(b)]

\* Mutant: the most significant bytes are kept.
attrUint64_KeepsHigh(b) ==
  BigEndian(IF Len(b) > NumLen THEN SubSeq(b, 1, NumLen) ELSE b)

\* A wire value of any length: its least significant NumLen bytes.
attrUint64(b) ==
  BigEndian(IF Len(b) > NumLen THEN SubSeq(b, Len(b) - NumLen + 1, Len(b)) ELSE b)

\* strings.TrimRight(s, "\x00")
TrimNulls(s) ==
  LET last == {i \in 1..Len(s) : s[i] # 0}
  IN IF last = {} THEN <<>>
     ELSE SubSeq(s, 1, CHOOSE i \in last : \A j \in last : j <= i)

(***************************************************************************)
(* Patterns.                                                               *)
(***************************************************************************)
\* A missing successor: the prefix has only MaxByte bytes.
NoSuccessor == "nil"

\* Mutant: the bytes after the incremented one are kept.
prefixSuccessor_KeepsTail(p) ==
  LET below == {i \in 1..Len(p) : p[i] < MaxByte}
  IN IF below = {} THEN <<NoSuccessor>>
     ELSE LET i == CHOOSE i \in below : \A j \in below : j <= i
          IN <<"string", [p EXCEPT ![i] = @ + 1]>>

\* The least string above every string with prefix p, if there is one.
prefixSuccessor(p) ==
  LET below == {i \in 1..Len(p) : p[i] < MaxByte}
  IN IF below = {} THEN <<NoSuccessor>>
     ELSE LET i == CHOOSE i \in below : \A j \in below : j <= i
          IN <<"string", [SubSeq(p, 1, i) EXCEPT ![i] = @ + 1]>>

\* The pattern from i on matches the string from j on, for j in rest[i].  A run
\* of stars is one star; the last star takes the rest.
globMatch(p, s) ==
  LET rest[i \in 1..Len(p) + 1] ==
        IF i > Len(p) THEN {Len(s) + 1}
        ELSE IF p[i] = Star
             THEN {j \in 1..Len(s) + 1 : i = Len(p) \/ \E k \in rest[i + 1] : j <= k}
             ELSE {j \in 1..Len(s) : /\ p[i] = Question \/ p[i] = s[j]
                                     /\ j + 1 \in rest[i + 1]}
  IN 1 \in rest[1]

\* Mutant: wildcards before the last star are taken for bytes.
isPrefixGlob_AnyPrefix(p) == p # <<>> /\ p[Len(p)] = Star

\* A pattern that is a plain prefix and one trailing star.
isPrefixGlob(p) ==
  /\ p # <<>> /\ p[Len(p)] = Star
  /\ \A i \in 1..Len(p) - 1 : p[i] \notin {Star, Question}

(***************************************************************************)
(* What a pattern matches, without recursion: the string can be cut into   *)
(* one piece per byte of the pattern, each piece of the shape it asks for. *)
(***************************************************************************)
Matches(p, s) ==
  \E cut \in [0..Len(p) -> 0..Len(s)] :
    /\ cut[0] = 0 /\ cut[Len(p)] = Len(s)
    /\ \A i \in 1..Len(p) :
         IF p[i] = Star THEN cut[i - 1] <= cut[i]
         ELSE cut[i] = cut[i - 1] + 1 /\ p[i] \in {Question, s[cut[i]]}

ASSUME BytesAssumption ==
  /\ MaxByte \in Nat /\ NumLen \in Nat \ {0}
  /\ Star \in Byte /\ Question \in Byte /\ Star # Question
=============================================================================
