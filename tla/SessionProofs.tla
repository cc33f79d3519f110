---------------------------- MODULE SessionProofs ---------------------------
(***************************************************************************)
(* A query over all its pages and beside any writers (QueryServer), for    *)
(* every number of blocks, entities, IDs, terms and page sizes: IDs only   *)
(* go down, the cursor of a page is the ID of its last item, and the       *)
(* answer is SessionExact.                                                 *)
(*                                                                         *)
(* SafeSession says what the loop over the batches relies on.  It is about *)
(* the session alone, so that its lemmas are about the operators that the  *)
(* steps of a session are made of, and a writer, which changes nothing of  *)
(* a session but its observer, keeps it.                                   *)
(*                                                                         *)
(* ChainOK is what the versions and the ID map owe each other; a session   *)
(* relies on it between its reads.  Then, as long as the version it began  *)
(* on is still the one a read finds, every ID that the query wants is      *)
(* answered, is still ahead of the session, or does not resolve - and an   *)
(* ID of a live version that does not resolve never resolves again.        *)
(***************************************************************************)
EXTENDS QueryServer, FiniteSetTheorems, SequenceTheorems, WellFoundedInduction,
  TLAPS

(***************************************************************************)
(* Finite sets of numbers.                                                 *)
(***************************************************************************)
\* A set of numbers that is not empty has a least element.
LEMMA LeastElement ==
  ASSUME NEW S, S \subseteq Nat, S # {}
  PROVE  \E m \in S : \A i \in S : m <= i
<1> DEFINE less == {pair \in Nat \X Nat : pair[1] < pair[2]}
<1>1. IsWellFoundedOn(less, Nat)
  BY NatLessThanWellFounded DEF OpToRel
<1>2. \E m \in S : \A i \in S : ~ (<<i, m>> \in less)
  <2> HIDE DEF less
  <2> QED  BY <1>1, WFMin
<1>3. \A i, m \in Nat : i < m => <<i, m>> \in less
  OBVIOUS
<1>4. PICK m \in S : \A i \in S : ~ (<<i, m>> \in less)
  BY <1>2
<1>5. \A i \in S : m <= i
  <2> SUFFICES ASSUME NEW i \in S  PROVE m <= i
    OBVIOUS
  <2>1. i \in Nat /\ m \in Nat
    OBVIOUS
  <2>2. ~(i < m)
    <3> HIDE DEF less
    <3> QED  BY <1>3, <1>4, <2>1
  <2> QED  BY <2>1, <2>2
<1> QED  BY <1>5

\* What is above an element of a finite set of numbers is finite, and less of
\* it is above a greater element.
LEMMA AboveSmaller ==
  ASSUME NEW S, S \subseteq Nat, IsFiniteSet(S), NEW i \in S, NEW j \in S, i < j
  PROVE  Cardinality({k \in S : k > j}) < Cardinality({k \in S : k > i})
<1> DEFINE over == {k \in S : k > i}
           upper == {k \in S : k > j}
<1>1. IsFiniteSet(over) /\ Cardinality(over) \in Nat
  BY FS_Subset, FS_CardinalityType
<1>2. upper \subseteq over /\ j \in over /\ j \notin upper
  <2>1. i \in Nat /\ j \in Nat /\ \A k \in S : k \in Nat
    OBVIOUS
  <2>2. \A k \in S : k > j => k > i
    BY <2>1
  <2>3. j > i /\ ~(j > j)
    BY <2>1
  <2> QED  BY <2>2, <2>3
<1>3. IsFiniteSet(upper) /\ Cardinality(upper) \in Nat /\ Cardinality(upper) <= Cardinality(over)
  /\ Cardinality(upper) # Cardinality(over)
  <2> HIDE DEF over, upper
  <2> QED  BY <1>1, <1>2, FS_Subset, FS_CardinalityType
<1>4. QED
  <2> HIDE DEF over, upper
  <2>1. Cardinality(upper) < Cardinality(over)
    BY <1>1, <1>3
  <2> QED  BY <2>1 DEF over, upper

\* A batch: n of the greatest elements, all of them above what is left, and at
\* least one if there is any.
LEMMA NewestBatch ==
  ASSUME NEW S, S \subseteq Nat, IsFiniteSet(S), NEW n \in Nat \ {0}
  PROVE  /\ Newest(S, n) \subseteq S
         /\ S # {} => Newest(S, n) # {}
         /\ \A i \in Newest(S, n), j \in S \ Newest(S, n) : j < i
         /\ IsFiniteSet(Newest(S, n))
         /\ Cardinality(Newest(S, n)) <= n
<1> DEFINE above(i) == {k \in S : k > i}
           batch == Newest(S, n)
<1>1. \A i \in S : IsFiniteSet(above(i)) /\ Cardinality(above(i)) \in Nat
  BY FS_Subset, FS_CardinalityType
<1>2. \A i \in S : i \in batch <=> Cardinality(above(i)) < n
  BY DEF Newest
<1>3. batch \subseteq S
  BY DEF Newest
<1>4. \A i, j \in S : i < j => Cardinality(above(j)) < Cardinality(above(i))
  BY AboveSmaller
<1>5. \A i \in batch, j \in S \ batch : j < i
  <2> SUFFICES ASSUME NEW i \in batch, NEW j \in S \ batch  PROVE j < i
    OBVIOUS
  <2> HIDE DEF batch, above
  <2>1. i # j /\ i \in S /\ i \in Nat /\ j \in Nat
    BY <1>3
  <2>2. ~(i < j)
    BY <1>1, <1>2, <1>3, <1>4
  <2> QED  BY <2>1, <2>2
<1>6. IsFiniteSet(batch)
  BY <1>3, FS_Subset
<1>7. S # {} => batch # {}
  <2> SUFFICES ASSUME S # {}  PROVE batch # {}
    OBVIOUS
  <2> DEFINE sizes == {Cardinality(above(i)) : i \in S}
  <2>1. sizes \subseteq Nat /\ sizes # {}
    BY <1>1
  <2>2. PICK c \in sizes : \A d \in sizes : c <= d
    <3> HIDE DEF sizes
    <3> QED  BY <2>1, LeastElement
  <2>3. PICK m \in S : c = Cardinality(above(m))
    OBVIOUS
  <2>4. \A i \in S : ~(m < i)
    <3> SUFFICES ASSUME NEW i \in S, m < i  PROVE FALSE
      OBVIOUS
    <3>1. Cardinality(above(i)) < Cardinality(above(m))
      BY <1>4
    <3>2. Cardinality(above(m)) <= Cardinality(above(i))
      BY <2>2, <2>3
    <3> HIDE DEF above
    <3> QED  BY <3>1, <3>2, <1>1
  <2>5. above(m) = {}
    BY <2>4
  <2>6. Cardinality(above(m)) = 0
    BY <2>5, FS_EmptySet
  <2> HIDE DEF above, batch
  <2> QED  BY <2>6, <1>2
<1>8. Cardinality(batch) <= n
  <2>1. CASE batch = {}
    BY <2>1, FS_EmptySet
  <2>2. CASE batch # {}
    <3>1. PICK m \in batch : \A i \in batch : m <= i
      <4> HIDE DEF batch
      <4> QED  BY <1>3, <2>2, LeastElement
    <3>2. batch \ {m} \subseteq above(m) /\ m \in S
      <4>1. \A i \in batch : i \in S /\ i \in Nat
        BY <1>3
      <4>2. \A i \in batch \ {m} : i > m
        <5> HIDE DEF batch
        <5> QED  BY <4>1, <3>1
      <4> HIDE DEF batch
      <4> QED  BY <4>1, <4>2
    <3> HIDE DEF batch, above
    <3>3. Cardinality(batch \ {m}) <= Cardinality(above(m)) /\ Cardinality(above(m)) < n
      BY <1>1, <1>2, <3>2, FS_Subset
    <3>4. Cardinality(batch \ {m}) = Cardinality(batch) - 1 /\ Cardinality(batch) \in Nat
      BY <1>6, FS_RemoveElement, FS_CardinalityType
    <3> QED  BY <3>2, <3>3, <3>4, <1>1
  <2> QED  BY <2>1, <2>2
<1> QED  BY <1>3, <1>5, <1>6, <1>7, <1>8

(***************************************************************************)
(* The invariant of a session.                                             *)
(***************************************************************************)
Fields ==
  {"query", "at", "size", "cursor", "pc", "todo", "hash", "ids", "batch", "addr", "last",
   "page", "got", "seen"}

Typed(s) ==
  /\ DOMAIN s = Fields
  /\ s.size \in Nat
  /\ s.ids \subseteq Id /\ s.batch \subseteq Id
  /\ s.cursor \in Id \cup {Nothing} /\ s.last \in Id \cup {Nothing}
  /\ s.page \in Seq(Items(s))
  /\ \A item \in Items(s) \cup s.got : item.id \in Id

\* IDs go down on the page, which is below the cursor, and the pages before are
\* not below it.
Falling(s) ==
  /\ \A k, m \in DOMAIN s.page : k < m => s.page[k].id > s.page[m].id
  /\ s.cursor # Nothing => \A item \in Items(s) : item.id < s.cursor
  /\ \A item \in s.got : s.cursor # Nothing /\ item.id >= s.cursor

\* The IDs that are still to be looked at, the one being looked at included.
Left(s) == s.ids \cup s.batch

\* IDs in I come after every item so far, and those of the batch come first.
Ahead(s, I) ==
  /\ s.cursor # Nothing => \A i \in Left(s) : i < s.cursor
  /\ \A i \in s.batch, j \in s.ids : j < i
  /\ \A item \in Items(s), i \in I : i < item.id

LastIsItem(s) == s.page # <<>> /\ s.last = s.page[Len(s.page)].id

\* The largest ID of the batch is the one being looked at.
LastOfBatch(s) == s.last \in s.batch /\ \A i \in s.batch : i <= s.last

SafeSession(s) ==
  /\ Typed(s) /\ Falling(s)
  /\ Len(s.page) <= s.size
  /\ s.page # <<>> => s.last # Nothing
  /\ s.pc \in {"start", "term", "failed", "resolve", "fetch", "more", "done"}
  /\ s.pc \in {"start", "term", "failed"} => s.page = <<>> /\ s.batch = {} /\ s.last = Nothing
  /\ s.pc \in {"resolve", "fetch", "more", "done"} => Ahead(s, Left(s))
  /\ s.pc \in {"resolve", "fetch"} =>
       s.batch # {} /\ Len(s.page) + Cardinality(s.batch) <= s.size
  /\ s.pc = "fetch" => LastOfBatch(s)
  /\ s.pc \in {"more", "done"} => s.batch = {}
  /\ s.pc = "more" => LastIsItem(s)
  /\ s.pc = "done" /\ s.size > 0 => s.ids = {}

\* The session before NextBatch, and before NextID.
BatchDone(s) ==
  /\ Typed(s) /\ Falling(s) /\ Ahead(s, Left(s)) /\ s.batch = {}
  /\ Len(s.page) <= s.size
  /\ s.page # <<>> => s.last # Nothing
  /\ Len(s.page) = s.size /\ s.last # Nothing => LastIsItem(s)

IDDone(s) ==
  /\ Typed(s) /\ Falling(s) /\ Ahead(s, Left(s) \ {s.last}) /\ LastOfBatch(s)
  /\ Len(s.page) + Cardinality(s.batch \ {s.last}) <= s.size
  /\ Len(s.page) = s.size => LastIsItem(s)

\* t is s but for what NextBatch and NextID change.
SamePage(s, t) ==
  /\ DOMAIN t = DOMAIN s
  /\ t.query = s.query /\ t.at = s.at /\ t.size = s.size /\ t.cursor = s.cursor
  /\ t.todo = s.todo /\ t.last = s.last /\ t.page = s.page /\ t.got = s.got
  /\ t.seen = s.seen

\* Invariance of everything that is not about the IDs left.
LEMMA SamePageFacts ==
  ASSUME NEW s, NEW t, SamePage(s, t), t.ids \subseteq Id, t.batch \subseteq Id
  PROVE  /\ Typed(s) => Typed(t)
         /\ Falling(s) => Falling(t)
         /\ LastIsItem(s) <=> LastIsItem(t)
         /\ Items(t) = Items(s)
<1>1. Items(t) = Items(s)
  BY DEF SamePage, Items
<1> QED  BY <1>1 DEF SamePage, Typed, Falling, LastIsItem

\* The next batch is cut to the rest of the page, and comes before what is left.
LEMMA NextBatchSafe ==
  ASSUME NEW s, BatchDone(s)
  PROVE  /\ SafeSession(NextBatch(s))
         /\ SamePage(s, NextBatch(s))
         /\ Left(NextBatch(s)) = Left(s)
         /\ NextBatch(s).pc \in {"resolve", "more", "done"}
         /\ NextBatch(s).hash = s.hash /\ NextBatch(s).addr = s.addr
<1> DEFINE t == NextBatch(s)
<1>0. Typed(s) /\ Falling(s) /\ Ahead(s, Left(s)) /\ s.batch = {} /\ Len(s.page) \in Nat
      /\ s.size \in Nat /\ Left(s) = s.ids
  BY DEF BatchDone, Typed, Left
<1>1. CASE s.ids # {} /\ Len(s.page) < s.size
  <2> DEFINE n == BatchSize(s)
             batch == Newest(s.ids, n)
  <2>1. n \in Nat \ {0} /\ Len(s.page) + n <= s.size
    BY <1>0, <1>1, ServerAssumption DEF BatchSize
  <2>2. s.ids \subseteq Nat /\ s.ids \subseteq Id /\ IsFiniteSet(s.ids)
    BY <1>0, ServerAssumption, FS_Subset DEF Typed
  <2>3. /\ batch \subseteq s.ids /\ batch # {} /\ IsFiniteSet(batch) /\ Cardinality(batch) <= n
        /\ \A i \in batch, j \in s.ids \ batch : j < i
    <3> HIDE DEF n
    <3> QED  BY <1>1, <2>1, <2>2, NewestBatch
  <2>4. Cardinality(batch) \in Nat
    <3> HIDE DEF batch
    <3> QED  BY <2>3, FS_CardinalityType
  <2>5. t = [s EXCEPT !.pc = "resolve", !.batch = batch, !.ids = @ \ batch]
    BY <1>1 DEF NextBatch
  <2> HIDE DEF t, n, batch
  <2>6. t.pc = "resolve" /\ t.batch = batch /\ t.ids = s.ids \ batch /\ SamePage(s, t)
        /\ t.hash = s.hash /\ t.addr = s.addr
    BY <1>0, <2>5 DEF Typed, Fields, SamePage
  <2>7. Left(t) = Left(s)
    BY <2>3, <2>6, <1>0 DEF Left
  <2>8. Typed(t) /\ Falling(t) /\ Items(t) = Items(s)
    BY <1>0, <2>2, <2>3, <2>6, SamePageFacts
  <2>9. Ahead(t, Left(t))
    BY <1>0, <2>3, <2>6, <2>7, <2>8 DEF Ahead, SamePage
  <2>10. Len(t.page) + Cardinality(t.batch) <= t.size /\ Len(t.page) <= t.size
    BY <2>1, <2>3, <2>4, <2>6, <1>0 DEF SamePage
  <2>11. SafeSession(t)
    BY <2>3, <2>6, <2>8, <2>9, <2>10 DEF SafeSession, SamePage, BatchDone
  <2> QED  BY <2>6, <2>7, <2>11 DEF t
<1>2. CASE ~(s.ids # {} /\ Len(s.page) < s.size)
  <2>1. t = [s EXCEPT !.pc = IF s.ids # {} /\ s.last # Nothing THEN "more" ELSE "done"]
    BY <1>2 DEF NextBatch
  <2> HIDE DEF t
  <2>2. /\ t.pc = IF s.ids # {} /\ s.last # Nothing THEN "more" ELSE "done"
        /\ t.batch = s.batch /\ t.ids = s.ids /\ SamePage(s, t)
        /\ t.hash = s.hash /\ t.addr = s.addr
    BY <1>0, <2>1 DEF Typed, Fields, SamePage
  <2>3. Typed(t) /\ Falling(t) /\ Items(t) = Items(s) /\ (LastIsItem(s) <=> LastIsItem(t))
    BY <1>0, <2>2, SamePageFacts DEF Typed
  <2>4. Left(t) = Left(s) /\ Ahead(t, Left(t))
    BY <1>0, <2>2, <2>3 DEF Ahead, SamePage, Left
  <2>5. t.pc = "more" => LastIsItem(t)
    BY <1>0, <1>2, <2>2, <2>3 DEF BatchDone
  <2>6. t.pc = "done" /\ t.size > 0 => t.ids = {}
    BY <1>0, <1>2, <2>2 DEF BatchDone, SamePage
  <2>7. SafeSession(t)
    BY <2>2, <2>3, <2>4, <2>5, <2>6, <1>0 DEF SafeSession, SamePage, BatchDone
  <2> QED  BY <2>2, <2>4, <2>7 DEF t
<1> QED  BY <1>1, <1>2

\* The ID looked at leaves the batch, and the rest of the batch or the next one
\* follows.
LEMMA NextIDSafe ==
  ASSUME NEW s, IDDone(s)
  PROVE  /\ SafeSession(NextID(s))
         /\ SamePage(s, NextID(s))
         /\ Left(NextID(s)) = Left(s) \ {s.last}
         /\ NextID(s).pc \in {"resolve", "more", "done"}
         /\ NextID(s).hash = Nothing
<1> DEFINE rest == [s EXCEPT !.batch = @ \ {s.last}, !.addr = Nothing, !.hash = Nothing]
           t == [rest EXCEPT !.pc = "resolve"]
<1>0. /\ Typed(s) /\ Falling(s) /\ Ahead(s, Left(s) \ {s.last}) /\ LastOfBatch(s)
      /\ Len(s.page) \in Nat /\ s.size \in Nat /\ s.last \in Id /\ s.last # Nothing
  <2>1. s.last \in Id
    BY DEF IDDone, LastOfBatch, Typed
  <2> QED  BY <2>1, ServerAssumption DEF IDDone, Typed
<1>1. /\ SamePage(s, rest) /\ rest.batch = s.batch \ {s.last} /\ rest.ids = s.ids
      /\ rest.addr = Nothing /\ rest.hash = Nothing
  BY <1>0 DEF Typed, Fields, SamePage
<1>2. \A i \in s.ids : i # s.last
  <2>1. \A i \in s.ids : i < s.last /\ i \in Nat /\ s.last \in Nat
    BY <1>0, ServerAssumption DEF Ahead, LastOfBatch, Typed
  <2> QED  BY <2>1
<1>3. Left(rest) = Left(s) \ {s.last}
  <2> HIDE DEF rest
  <2> QED  BY <1>1, <1>2 DEF Left
<1>4. Typed(rest) /\ Falling(rest) /\ Items(rest) = Items(s) /\ (LastIsItem(s) <=> LastIsItem(rest))
  <2> HIDE DEF rest
  <2>1. rest.ids \subseteq Id /\ rest.batch \subseteq Id
    BY <1>0, <1>1 DEF Typed
  <2> QED  BY <1>0, <1>1, <2>1, SamePageFacts
<1>5. Ahead(rest, Left(rest))
  <2> HIDE DEF rest
  <2>1. rest.batch \subseteq s.batch /\ Left(rest) \subseteq Left(s)
    BY <1>1, <1>3
  <2> QED  BY <1>0, <1>1, <1>3, <1>4, <2>1 DEF Ahead, SamePage
<1>6. IsFiniteSet(rest.batch) /\ Cardinality(rest.batch) \in Nat
  <2> HIDE DEF rest
  <2> QED  BY <1>4, ServerAssumption, FS_Subset, FS_CardinalityType DEF Typed
<1>7. Len(rest.page) + Cardinality(rest.batch) <= rest.size /\ Len(rest.page) <= rest.size
      /\ Len(rest.page) \in Nat /\ rest.size \in Nat /\ rest.last # Nothing
  <2> HIDE DEF rest
  <2> QED  BY <1>0, <1>1, <1>6 DEF IDDone, SamePage
<1>8. CASE rest.batch # {}
  <2>1. NextID(s) = t
    BY <1>8 DEF NextID
  <2>2. /\ SamePage(rest, t) /\ t.batch = rest.batch /\ t.ids = rest.ids
        /\ t.hash = Nothing /\ t.pc = "resolve"
    <3>1. DOMAIN rest = Fields
      BY <1>0, <1>1 DEF Typed, SamePage
    <3> HIDE DEF rest
    <3> QED  BY <1>1, <3>1 DEF Fields, SamePage
  <2> HIDE DEF t, rest
  <2>3. Typed(t) /\ Falling(t) /\ Items(t) = Items(rest)
    BY <1>4, <2>2, SamePageFacts DEF Typed
  <2>4. Left(t) = Left(rest) /\ Ahead(t, Left(t))
    BY <1>5, <2>2, <2>3 DEF Ahead, SamePage, Left
  <2>5. SafeSession(t)
    BY <1>7, <1>8, <2>2, <2>3, <2>4 DEF SafeSession, SamePage
  <2>6. SamePage(s, t)
    BY <1>1, <2>2 DEF SamePage
  <2> QED  BY <2>1, <2>2, <2>4, <2>5, <2>6, <1>3
<1>9. CASE rest.batch = {}
  <2>1. NextID(s) = NextBatch(rest)
    BY <1>9 DEF NextID
  <2> HIDE DEF t, rest
  <2>2. Len(rest.page) = rest.size => LastIsItem(rest)
    BY <1>1, <1>4 DEF IDDone, SamePage
  <2>3. BatchDone(rest)
    BY <1>4, <1>5, <1>7, <1>9, <2>2 DEF BatchDone
  <2>4. /\ SafeSession(NextBatch(rest)) /\ SamePage(rest, NextBatch(rest))
        /\ Left(NextBatch(rest)) = Left(rest) /\ NextBatch(rest).pc \in {"resolve", "more", "done"}
        /\ NextBatch(rest).hash = rest.hash
    BY <2>3, NextBatchSafe
  <2>5. SamePage(s, NextBatch(rest))
    BY <1>1, <2>4 DEF SamePage
  <2> QED  BY <1>1, <1>3, <2>1, <2>4, <2>5
<1> QED  BY <1>8, <1>9

\* The entity is skipped: the page still has room.
LEMMA SkipSafe ==
  ASSUME NEW s, SafeSession(s), s.batch # {}, LastOfBatch(s), Ahead(s, Left(s)),
         Len(s.page) + Cardinality(s.batch) <= s.size
  PROVE  IDDone(s)
<1>1. Typed(s) /\ Falling(s) /\ Len(s.page) \in Nat /\ s.size \in Nat
  BY DEF SafeSession, Typed
<1>2. IsFiniteSet(s.batch)
  BY <1>1, ServerAssumption, FS_Subset DEF Typed
<1>3. Cardinality(s.batch \ {s.last}) = Cardinality(s.batch) - 1 /\ Cardinality(s.batch) \in Nat
  BY <1>2, FS_RemoveElement, FS_CardinalityType DEF LastOfBatch
<1>4. Cardinality(s.batch \ {s.last}) \in Nat
  BY <1>2, FS_RemoveElement, FS_CardinalityType
<1>5. Ahead(s, Left(s) \ {s.last})
  BY DEF Ahead
<1>6. Len(s.page) + Cardinality(s.batch \ {s.last}) <= s.size /\ Len(s.page) < s.size
  BY <1>1, <1>3, <1>4
<1> QED  BY <1>1, <1>5, <1>6 DEF IDDone

\* The entity is appended to the page.
LEMMA AppendSafe ==
  ASSUME NEW s, IDDone(s), Ahead(s, Left(s)), NEW e,
         Len(s.page) + Cardinality(s.batch) <= s.size
  PROVE  LET item == [id |-> s.last, value |-> e]
             t == [s EXCEPT !.page = Append(@, item)]
         IN  /\ IDDone(t)
             /\ Items(t) = Items(s) \cup {item}
             /\ \A f \in Fields \ {"page"} : t[f] = s[f]
             /\ DOMAIN t = Fields
<1> DEFINE item == [id |-> s.last, value |-> e]
           t == [s EXCEPT !.page = Append(@, item)]
           q == Append(s.page, item)
           S == Items(s) \cup {item}
<1>0. Typed(s) /\ Falling(s) /\ LastOfBatch(s) /\ Len(s.page) \in Nat /\ s.size \in Nat
      /\ s.last \in Id /\ DOMAIN s = Fields
  BY DEF IDDone, Typed, LastOfBatch
<1>1. \A f \in Fields \ {"page"} : t[f] = s[f]
  BY <1>0 DEF Fields
<1>2. DOMAIN t = Fields /\ t.page = q
  BY <1>0 DEF Fields
<1>3. s.page \in Seq(S) /\ item \in S
  BY <1>0 DEF Typed
<1>4. /\ q \in Seq(S) /\ q # <<>> /\ Len(q) = Len(s.page) + 1
      /\ \A k \in 1 .. Len(s.page) : q[k] = s.page[k]
      /\ q[Len(s.page) + 1] = item
  <2> HIDE DEF item, S
  <2> QED  BY <1>3, AppendProperties
<1>5. DOMAIN q = 1 .. Len(s.page) + 1 /\ DOMAIN s.page = 1 .. Len(s.page)
  <2> HIDE DEF q, item, S
  <2> QED  BY <1>3, <1>4, <1>0
<1>6. Items(t) = S
  <2> HIDE DEF t, q, item
  <2>1. Items(t) = {q[k] : k \in 1 .. Len(s.page) + 1}
    BY <1>2, <1>5 DEF Items
  <2>2. Items(s) = {s.page[k] : k \in 1 .. Len(s.page)}
    BY <1>5 DEF Items
  <2>3. 1 .. Len(s.page) + 1 = (1 .. Len(s.page)) \cup {Len(s.page) + 1}
    BY <1>0
  <2> QED  BY <2>1, <2>2, <2>3, <1>4
<1>7. item.id = s.last
  OBVIOUS
<1>8. /\ t.query = s.query /\ t.at = s.at /\ t.size = s.size /\ t.cursor = s.cursor
      /\ t.ids = s.ids /\ t.batch = s.batch /\ t.last = s.last /\ t.got = s.got
      /\ Left(t) = Left(s)
  <2> HIDE DEF t
  <2> QED  BY <1>1 DEF Fields, Left
<1> HIDE DEF t, q, item
<1>9. Typed(t)
  BY <1>0, <1>2, <1>4, <1>6, <1>7, <1>8 DEF Typed
<1>10. \A i \in Items(s) : s.last < i.id
  BY <1>0 DEF Ahead, LastOfBatch, Left
<1>11. Falling(t)
  <2>1. \A k, m \in 1 .. Len(s.page) + 1 : k < m => q[k].id > q[m].id
    <3> SUFFICES ASSUME NEW k \in 1 .. Len(s.page) + 1, NEW m \in 1 .. Len(s.page) + 1, k < m
                 PROVE  q[k].id > q[m].id
      OBVIOUS
    <3>1. k \in 1 .. Len(s.page) /\ q[k] = s.page[k]
      BY <1>0, <1>4
    <3>2. CASE m \in 1 .. Len(s.page)
      BY <3>1, <3>2, <1>0, <1>4, <1>5 DEF Falling
    <3>3. CASE m = Len(s.page) + 1
      <4>1. s.page[k] \in Items(s)
        BY <3>1, <1>5 DEF Items
      <4>2. s.page[k].id \in Nat /\ s.last \in Nat
        BY <4>1, <1>0, ServerAssumption DEF Typed
      <4> QED  BY <3>1, <3>3, <4>1, <4>2, <1>4, <1>7, <1>10
    <3> QED  BY <3>2, <3>3, <1>0
  <2>2. s.cursor # Nothing => s.last < s.cursor
    BY <1>0 DEF Ahead, LastOfBatch, Left
  <2> QED  BY <1>0, <1>2, <1>5, <1>6, <1>7, <1>8, <2>1, <2>2 DEF Falling
<1>12. Ahead(t, Left(t) \ {t.last})
  <2>1. \A i \in Left(s) \ {s.last} : i < s.last
    <3>1. \A i \in Left(s) : i \in Nat /\ s.last \in Nat
      BY <1>0, ServerAssumption DEF Left, Typed
    <3> QED  BY <3>1, <1>0 DEF Left, Ahead, LastOfBatch
  <2> QED  BY <1>6, <1>7, <1>8, <2>1 DEF Ahead
<1>13. IsFiniteSet(s.batch)
  BY <1>0, ServerAssumption, FS_Subset DEF Typed
<1>14. Cardinality(s.batch \ {s.last}) = Cardinality(s.batch) - 1 /\ Cardinality(s.batch) \in Nat
  BY <1>0, <1>13, FS_RemoveElement, FS_CardinalityType DEF LastOfBatch
<1>15. Len(t.page) + Cardinality(t.batch \ {t.last}) <= t.size
  BY <1>0, <1>2, <1>4, <1>8, <1>14
<1>16. LastIsItem(t) /\ LastOfBatch(t)
  BY <1>0, <1>2, <1>4, <1>7, <1>8 DEF LastIsItem, LastOfBatch
<1>17. IDDone(t)
  BY <1>9, <1>11, <1>12, <1>15, <1>16 DEF IDDone
<1> QED  BY <1>1, <1>2, <1>6, <1>17 DEF t, item

(***************************************************************************)
(* The steps of a session.                                                 *)
(***************************************************************************)
SessionSafe == session # Nothing => SafeSession(session)

\* A step that changes nothing that SafeSession is about.
LEMMA SameSessionSafe ==
  ASSUME NEW s, NEW t, SafeSession(s), DOMAIN t = DOMAIN s,
         t.size = s.size, t.cursor = s.cursor, t.last = s.last, t.page = s.page, t.got = s.got,
         t.pc = s.pc, t.ids = s.ids, t.batch = s.batch
  PROVE  SafeSession(t)
<1>1. Items(t) = Items(s) /\ Left(t) = Left(s)
  BY DEF Items, Left
<1>2. Typed(t) /\ Falling(t)
  BY <1>1 DEF SafeSession, Typed, Falling
<1>3. (Ahead(s, Left(s)) <=> Ahead(t, Left(t))) /\ (LastIsItem(s) <=> LastIsItem(t))
      /\ (LastOfBatch(s) <=> LastOfBatch(t))
  BY <1>1 DEF Ahead, LastIsItem, LastOfBatch
<1> QED  BY <1>2, <1>3 DEF SafeSession

\* The last term is read: the iterator starts below the cursor.
LEMMA EvaluatedDone ==
  ASSUME NEW s, SafeSession(s), s.pc = "term", NEW bm,
         NEW t, DOMAIN t = DOMAIN s, t.size = s.size, t.cursor = s.cursor, t.last = s.last,
         t.page = s.page, t.got = s.got, t.batch = s.batch,
         t.ids = IF s.cursor = Nothing THEN s.ids \cap bm ELSE {i \in s.ids \cap bm : i < s.cursor}
  PROVE  BatchDone(t)
<1>1. Items(t) = Items(s) /\ Left(t) = t.ids /\ t.page = <<>> /\ t.last = Nothing /\ t.batch = {}
  BY DEF SafeSession, Items, Left
<1>2. Typed(t) /\ Falling(t)
  BY <1>1 DEF SafeSession, Typed, Falling
<1>3. Items(t) = {}
  BY <1>1 DEF Items
<1>4. Ahead(t, Left(t))
  BY <1>1, <1>3 DEF Ahead
<1> QED  BY <1>1, <1>2, <1>4 DEF BatchDone, SafeSession

\* The largest ID of a batch is found.
LEMMA ResolveSafe ==
  ASSUME NEW s, SafeSession(s), s.pc = "resolve"
  PROVE  LET i == CHOOSE i \in s.batch : \A j \in s.batch : j <= i
             looked == [s EXCEPT !.last = i]
         IN  /\ i \in s.batch /\ \A j \in s.batch : j <= i
             /\ looked.last = i
             /\ \A f \in Fields \ {"last"} : looked[f] = s[f]
             /\ DOMAIN looked = Fields
             /\ IDDone(looked)
             /\ Left(looked) = Left(s)
             /\ Items(looked) = Items(s)
<1> DEFINE i == CHOOSE i \in s.batch : \A j \in s.batch : j <= i
           t == [s EXCEPT !.last = i]
<1>0. Typed(s) /\ Falling(s) /\ Ahead(s, Left(s)) /\ s.batch # {} /\ DOMAIN s = Fields
      /\ Len(s.page) + Cardinality(s.batch) <= s.size /\ Len(s.page) \in Nat /\ s.size \in Nat
  BY DEF SafeSession, Typed
<1>1. i \in s.batch /\ \A j \in s.batch : j <= i
  <2>1. s.batch \subseteq Nat /\ IsFiniteSet(s.batch)
    BY <1>0, ServerAssumption, FS_Subset DEF Typed
  <2>2. \E m \in s.batch : \A j \in s.batch : j <= m
    <3> DEFINE top1 == Newest(s.batch, 1)
    <3>1. top1 \subseteq s.batch /\ top1 # {} /\ (\A k \in top1, j \in s.batch \ top1 : j < k)
      BY <1>0, <2>1, NewestBatch
    <3>2. PICK m \in top1 : \A k \in top1 : m <= k
      <4> HIDE DEF top1
      <4> QED  BY <2>1, <3>1, LeastElement
    <3>3. Cardinality({j \in s.batch : j > m}) < 1
      BY DEF Newest
    <3>4. {j \in s.batch : j > m} = {}
      <4> DEFINE over == {j \in s.batch : j > m}
      <4>1. IsFiniteSet(over) /\ Cardinality(over) \in Nat
        BY <2>1, FS_Subset, FS_CardinalityType
      <4>2. Cardinality(over) = 0
        BY <4>1, <3>3
      <4> HIDE DEF over
      <4>3. over = {}
        BY <4>1, <4>2, FS_EmptySet
      <4> QED  BY <4>3 DEF over
    <3>5. \A j \in s.batch : j \in Nat /\ ~(j > m)
      BY <2>1, <3>4
    <3> HIDE DEF top1
    <3>6. m \in s.batch /\ m \in Nat
      BY <2>1, <3>1
    <3> QED  BY <3>5, <3>6
  <2> QED  BY <2>2
<1>2. \A f \in Fields \ {"last"} : t[f] = s[f]
  BY <1>0 DEF Fields
<1>3. DOMAIN t = Fields /\ t.last = i
  BY <1>0 DEF Fields
<1> HIDE DEF t, i
<1>4. /\ t.size = s.size /\ t.cursor = s.cursor /\ t.page = s.page /\ t.got = s.got
      /\ t.pc = s.pc /\ t.ids = s.ids /\ t.batch = s.batch
  BY <1>2 DEF Fields
<1>5. Items(t) = Items(s) /\ Left(t) = Left(s)
  BY <1>4 DEF Items, Left
<1>6. i \in Id /\ i # Nothing
  BY <1>0, <1>1, ServerAssumption DEF Typed
<1>7. Typed(t) /\ Falling(t) /\ Ahead(t, Left(t)) /\ LastOfBatch(t)
  BY <1>0, <1>1, <1>3, <1>4, <1>5, <1>6 DEF Typed, Falling, Ahead, LastOfBatch
<1>8. IsFiniteSet(t.batch)
  BY <1>7, ServerAssumption, FS_Subset DEF Typed
<1>9. Cardinality(t.batch \ {i}) = Cardinality(t.batch) - 1 /\ Cardinality(t.batch) \in Nat
      /\ Cardinality(t.batch \ {i}) \in Nat
  BY <1>1, <1>4, <1>8, FS_RemoveElement, FS_CardinalityType
<1>10. Len(t.page) + Cardinality(t.batch \ {t.last}) <= t.size /\ Len(t.page) < t.size
  BY <1>0, <1>3, <1>4, <1>9
<1>11. IDDone(t)
  BY <1>7, <1>10, <1>0 DEF IDDone, Ahead
<1> QED  BY <1>1, <1>2, <1>3, <1>5, <1>11 DEF t, i

\* A query starts with an empty page.
LEMMA AskSafe ==
  ASSUME NEW query, NEW at, NEW size \in PageSize
  PROVE  SafeSession(NewSession(query, at, size))
<1> DEFINE s == NewSession(query, at, size)
<1>1. /\ DOMAIN s = Fields /\ s.size = ResultsPerPage(size) /\ s.cursor = Nothing
      /\ s.pc = "start" /\ s.ids = Id /\ s.batch = {} /\ s.last = Nothing /\ s.page = <<>>
      /\ s.got = {}
  BY DEF NewSession, Fields
<1>2. ResultsPerPage(size) \in Nat
  BY ServerAssumption DEF ResultsPerPage
<1> HIDE DEF s
<1>3. Items(s) = {} /\ s.page \in Seq({})
  BY <1>1 DEF Items
<1>4. Typed(s) /\ Falling(s)
  BY <1>1, <1>2, <1>3 DEF Typed, Falling
<1>5. Len(s.page) = 0
  BY <1>1
<1>6. SafeSession(s)
  BY <1>1, <1>2, <1>4, <1>5 DEF SafeSession
<1> QED  BY <1>6 DEF s

\* A page that has more is followed by one below its last item.
LEMMA FollowSafe ==
  ASSUME NEW s, SafeSession(s), s.pc = "more"
  PROVE  SafeSession([s EXCEPT !.pc = "start", !.cursor = s.last, !.todo = s.query,
                        !.ids = Id, !.last = Nothing, !.page = <<>>, !.got = @ \cup Items(s)])
<1> DEFINE t == [s EXCEPT !.pc = "start", !.cursor = s.last, !.todo = s.query,
                   !.ids = Id, !.last = Nothing, !.page = <<>>, !.got = @ \cup Items(s)]
<1>0. Typed(s) /\ Falling(s) /\ LastIsItem(s) /\ s.batch = {} /\ s.size \in Nat /\ DOMAIN s = Fields
  BY DEF SafeSession, Typed
<1>1. /\ DOMAIN t = Fields /\ t.size = s.size /\ t.cursor = s.last /\ t.pc = "start"
      /\ t.ids = Id /\ t.batch = {} /\ t.last = Nothing /\ t.page = <<>>
      /\ t.got = s.got \cup Items(s)
  BY <1>0 DEF Fields
<1> HIDE DEF t
<1>2. Items(t) = {} /\ t.page \in Seq({}) /\ Len(t.page) = 0
  BY <1>1 DEF Items
<1>3. DOMAIN s.page = 1 .. Len(s.page) /\ Len(s.page) \in Nat \ {0}
  BY <1>0 DEF Typed, LastIsItem
<1>4. s.last = s.page[Len(s.page)].id /\ s.page[Len(s.page)] \in Items(s)
  BY <1>0, <1>3 DEF LastIsItem, Items
<1>5. s.last \in Id /\ s.last \in Nat /\ s.last # Nothing
  BY <1>0, <1>4, ServerAssumption DEF Typed
<1>6. \A item \in Items(s) : item.id >= s.last
  <2> SUFFICES ASSUME NEW k \in 1 .. Len(s.page)  PROVE s.page[k].id >= s.last
    BY <1>3 DEF Items
  <2>1. s.page[k].id \in Nat
    BY <1>0, <1>3, ServerAssumption DEF Typed, Items
  <2>2. k < Len(s.page) => s.page[k].id > s.page[Len(s.page)].id
    BY <1>0, <1>3 DEF Falling
  <2> QED  BY <1>3, <1>4, <1>5, <2>1, <2>2
<1>7. \A item \in s.got : item.id >= s.last
  <2> SUFFICES ASSUME NEW item \in s.got  PROVE item.id >= s.last
    OBVIOUS
  <2>1. s.cursor # Nothing /\ item.id >= s.cursor /\ s.last < s.cursor
    BY <1>0, <1>4 DEF Falling
  <2>2. item.id \in Nat /\ s.cursor \in Nat
    BY <2>1, <1>0, ServerAssumption DEF Typed
  <2> QED  BY <2>1, <2>2, <1>5
<1>8. Typed(t)
  BY <1>0, <1>1, <1>2, <1>5 DEF Typed
<1>9. Falling(t)
  BY <1>1, <1>2, <1>5, <1>6, <1>7 DEF Falling
<1>10. SafeSession(t)
  BY <1>0, <1>1, <1>2, <1>8, <1>9 DEF SafeSession
<1> QED  BY <1>10 DEF t

\* Every step of the server, of the client and of a writer keeps the session safe.
LEMMA NextSafe ==
  ASSUME SessionSafe, [Next]_vars
  PROVE  SessionSafe'
<1> DEFINE s == session
<1> SUFFICES ASSUME session' # Nothing  PROVE SafeSession(session')
  BY DEF SessionSafe
<1>0. ASSUME NEW x, At(x)
      PROVE  session # Nothing /\ SafeSession(s) /\ DOMAIN s = Fields /\ s.pc = x
  BY <1>0 DEF SessionSafe, SafeSession, Typed, At
<1>1. ASSUME NEW query \in Query, NEW at, NEW size \in PageSize, Ask(query, at, size)
      PROVE  SafeSession(session')
  BY <1>1, AskSafe DEF Ask
<1>2. CASE ReadHeadNumber
  <2>1. SafeSession(s) /\ DOMAIN s = Fields /\ s.pc = "start"
    BY <1>0, <1>2 DEF ReadHeadNumber
  <2> DEFINE t == [s EXCEPT !.pc = "term"]
  <2>2. /\ DOMAIN t = DOMAIN s /\ t.size = s.size /\ t.cursor = s.cursor /\ t.last = s.last
        /\ t.page = s.page /\ t.got = s.got /\ t.ids = s.ids /\ t.batch = s.batch /\ t.pc = "term"
    BY <2>1 DEF Fields
  <2>3. session' = t
    BY <1>2 DEF ReadHeadNumber
  <2> HIDE DEF t
  <2>4. Items(t) = Items(s)
    BY <2>2 DEF Items
  <2>5. Typed(t) /\ Falling(t)
    BY <2>1, <2>2, <2>4 DEF SafeSession, Typed, Falling
  <2> QED  BY <2>1, <2>2, <2>3, <2>5 DEF SafeSession
<1>3. ASSUME At("term") \/ At("fetch"), OpenFails
      PROVE  SafeSession(session')
  <2>1. CASE At("term")
    <3>1. SafeSession(s) /\ DOMAIN s = Fields /\ s.pc = "term"
      BY <1>0, <2>1
    <3> DEFINE t == [s EXCEPT !.pc = "failed"]
    <3>2. /\ DOMAIN t = DOMAIN s /\ t.size = s.size /\ t.cursor = s.cursor /\ t.last = s.last
          /\ t.page = s.page /\ t.got = s.got /\ t.ids = s.ids /\ t.batch = s.batch
          /\ t.pc = "failed"
      BY <3>1 DEF Fields
    <3>3. session' = t
      BY <1>3, <3>1 DEF OpenFails
    <3> HIDE DEF t
    <3>4. Items(t) = Items(s)
      BY <3>2 DEF Items
    <3>5. Typed(t) /\ Falling(t)
      BY <3>1, <3>2, <3>4 DEF SafeSession, Typed, Falling
    <3> QED  BY <3>1, <3>2, <3>3, <3>5 DEF SafeSession
  <2>2. CASE At("fetch")
    <3>1. SafeSession(s) /\ s.pc = "fetch"
      BY <1>0, <2>2
    <3>2. IDDone(s)
      BY <3>1, SkipSafe DEF SafeSession
    <3>3. session' = NextID(s)
      BY <1>3, <3>1 DEF OpenFails
    <3> QED  BY <3>2, <3>3, NextIDSafe
  <2> QED  BY <1>3, <2>1, <2>2
<1>4. CASE ReadBlockHash
  <2>1. At("term") \/ At("fetch")
    BY <1>4 DEF ReadBlockHash
  <2>2. CASE chain[s.at] = Nothing
    BY <1>3, <1>4, <2>1, <2>2 DEF ReadBlockHash
  <2>3. CASE chain[s.at] # Nothing
    <3>1. SafeSession(s) /\ DOMAIN s = Fields
      BY <1>0, <2>1
    <3> DEFINE t == [s EXCEPT !.hash = chain[s.at].name]
    <3>2. /\ DOMAIN t = DOMAIN s /\ t.size = s.size /\ t.cursor = s.cursor /\ t.last = s.last
          /\ t.page = s.page /\ t.got = s.got /\ t.ids = s.ids /\ t.batch = s.batch
          /\ t.pc = s.pc
      BY <3>1 DEF Fields
    <3>3. session' = t
      BY <1>4, <2>3 DEF ReadBlockHash
    <3> HIDE DEF t
    <3> QED  BY <3>1, <3>2, <3>3, SameSessionSafe
  <2> QED  BY <2>2, <2>3
<1>5. ASSUME NEW bm, At("term"), TermRead(bm)
      PROVE  SafeSession(session')
  <2>1. SafeSession(s) /\ DOMAIN s = Fields /\ s.pc = "term"
    BY <1>0, <1>5
  <2> DEFINE read == [s EXCEPT !.ids = @ \cap bm, !.todo = Tail(@), !.hash = Nothing]
             t == [read EXCEPT !.ids = BelowCursor(read)]
  <2>2. /\ DOMAIN read = DOMAIN s /\ read.size = s.size /\ read.cursor = s.cursor
        /\ read.last = s.last /\ read.page = s.page /\ read.got = s.got
        /\ read.batch = s.batch /\ read.pc = s.pc /\ read.ids = s.ids \cap bm
    BY <2>1 DEF Fields
  <2>3. session' = IF read.todo # <<>> THEN read ELSE NextBatch(t)
    BY <1>5 DEF TermRead
  <2> HIDE DEF read
  <2>4. CASE read.todo # <<>>
    <3>1. Items(read) = Items(s)
      BY <2>2 DEF Items
    <3>2. Typed(read) /\ Falling(read)
      BY <2>1, <2>2, <3>1 DEF SafeSession, Typed, Falling
    <3>3. SafeSession(read)
      BY <2>1, <2>2, <3>2 DEF SafeSession
    <3> QED  BY <2>3, <2>4, <3>3
  <2>5. CASE read.todo = <<>>
    <3>1. /\ DOMAIN t = DOMAIN s /\ t.size = s.size /\ t.cursor = s.cursor /\ t.last = s.last
          /\ t.page = s.page /\ t.got = s.got /\ t.batch = s.batch
          /\ t.ids = BelowCursor(read)
      BY <2>1, <2>2 DEF Fields
    <3> HIDE DEF t
    <3>2. BatchDone(t)
      BY <2>1, <2>2, <3>1, EvaluatedDone DEF BelowCursor
    <3> QED  BY <2>3, <2>5, <3>2, NextBatchSafe
  <2> QED  BY <2>4, <2>5
<1>6. CASE ReadTerm
  BY <1>3, <1>5, <1>6 DEF ReadTerm
<1>7. CASE ScanTerm
  BY <1>5, <1>7 DEF ScanTerm
<1>8. CASE ResolveID
  <2>1. SafeSession(s) /\ s.pc = "resolve" /\ DOMAIN s = Fields
    BY <1>0, <1>8 DEF ResolveID
  <2> DEFINE i == CHOOSE i \in s.batch : \A j \in s.batch : j <= i
             looked == [s EXCEPT !.last = i]
             t == [looked EXCEPT !.pc = "fetch", !.addr = idmap[i]]
  <2>2. session' = IF idmap[i] = Nothing THEN NextID(looked) ELSE t
    BY <1>8 DEF ResolveID
  <2>3. /\ i \in s.batch /\ \A j \in s.batch : j <= i
        /\ looked.last = i
        /\ \A f \in Fields \ {"last"} : looked[f] = s[f]
        /\ DOMAIN looked = Fields /\ IDDone(looked)
        /\ Left(looked) = Left(s) /\ Items(looked) = Items(s)
    BY <2>1, ResolveSafe
  <2> HIDE DEF looked, i
  <2>4. CASE idmap[i] = Nothing
    BY <2>2, <2>3, <2>4, NextIDSafe
  <2>5. CASE idmap[i] # Nothing
    <3>1. /\ DOMAIN t = Fields /\ t.size = s.size /\ t.cursor = s.cursor /\ t.last = i
          /\ t.page = s.page /\ t.got = s.got /\ t.batch = s.batch /\ t.ids = s.ids
          /\ t.pc = "fetch"
      BY <2>3 DEF Fields
    <3>2. session' = t
      BY <2>2, <2>5
    <3> HIDE DEF t
    <3>3. Items(t) = Items(s) /\ Left(t) = Left(s)
      BY <3>1 DEF Items, Left
    <3>4. i \in Id /\ i # Nothing
      BY <2>1, <2>3, ServerAssumption DEF SafeSession, Typed
    <3>5. Typed(t) /\ Falling(t) /\ Ahead(t, Left(t)) /\ LastOfBatch(t)
      BY <2>1, <2>3, <3>1, <3>3, <3>4 DEF SafeSession, Typed, Falling, Ahead, LastOfBatch
    <3> QED  BY <2>1, <3>1, <3>2, <3>4, <3>5 DEF SafeSession
  <2> QED  BY <2>4, <2>5
<1>9. CASE FetchEntity
  <2>1. SafeSession(s) /\ s.pc = "fetch" /\ DOMAIN s = Fields /\ At("fetch")
    BY <1>0, <1>9 DEF FetchEntity
  <2>2. CASE OpenedVersion = Nothing
    BY <1>3, <1>9, <2>1, <2>2 DEF FetchEntity
  <2>3. CASE OpenedVersion # Nothing
    <3> DEFINE e == OpenedVersion.ents[s.addr]
               item == [id |-> s.last, value |-> e]
               t == [s EXCEPT !.page = Append(@, item)]
    <3>1. session' = NextID(IF e = Nothing THEN s ELSE t)
      BY <1>9, <2>3 DEF FetchEntity
    <3>2. IDDone(s)
      BY <2>1, SkipSafe DEF SafeSession
    <3>3. IDDone(t)
      BY <2>1, <3>2, AppendSafe DEF SafeSession
    <3> HIDE DEF e, t
    <3> QED  BY <3>1, <3>2, <3>3, NextIDSafe
  <2> QED  BY <2>2, <2>3
<1>10. CASE FollowCursor
  <2>1. SafeSession(s) /\ s.pc = "more"
    BY <1>0, <1>10 DEF FollowCursor
  <2> QED  BY <1>10, <2>1, FollowSafe DEF FollowCursor
<1>11. CASE Finish
  BY <1>11 DEF Finish
<1>12. CASE Write
  <2>1. session # Nothing /\ SafeSession(s) /\ DOMAIN s = Fields
    BY <1>12 DEF Write, Watched, SessionSafe, SafeSession, Typed
  <2> DEFINE seen == IF chain'[IF s.at = 0 THEN top' ELSE s.at] = s.seen THEN s.seen ELSE Nothing
             t == [s EXCEPT !.seen = seen]
  <2>2. session' = t
    BY <1>12, <2>1 DEF Write, Watched
  <2> HIDE DEF seen
  <2>3. /\ DOMAIN t = DOMAIN s /\ t.size = s.size /\ t.cursor = s.cursor /\ t.last = s.last
        /\ t.page = s.page /\ t.got = s.got /\ t.ids = s.ids /\ t.batch = s.batch /\ t.pc = s.pc
    BY <2>1 DEF Fields
  <2> HIDE DEF t
  <2> QED  BY <2>1, <2>2, <2>3, SameSessionSafe
<1>13. CASE Restart
  BY <1>13 DEF Restart
<1>14. CASE UNCHANGED vars
  BY <1>14 DEF vars, SessionSafe
<1> QED
  BY <1>1, <1>2, <1>4, <1>6, <1>7, <1>8, <1>9, <1>10, <1>11, <1>12, <1>13, <1>14 DEF Next

(***************************************************************************)
(* The theorems.                                                           *)
(***************************************************************************)
\* handler.Query: SafeSession is an invariant of every session, beside any
\* writers.
THEOREM SessionInvariant == Spec => []SessionSafe
<1>1. ServerInit => SessionSafe
  BY DEF ServerInit, SessionSafe
<1>2. SessionSafe /\ [Next]_vars => SessionSafe'
  BY NextSafe
<1> QED  BY <1>1, <1>2, PTL DEF Spec

\* The cursor and the reverse iterator: over all pages, and however the store
\* changes between them, no ID comes twice and IDs only go down.
THEOREM AlwaysNewestFirst == Spec => []NewestFirst
<1>1. SessionSafe => NewestFirst
  <2> SUFFICES ASSUME SessionSafe, session # Nothing
               PROVE  /\ \A k, m \in DOMAIN session.page :
                           k < m => session.page[k].id > session.page[m].id
                      /\ \A old \in session.got, new \in Items(session) : old.id > new.id
    BY DEF NewestFirst
  <2>1. Typed(session) /\ Falling(session)
    BY DEF SessionSafe, SafeSession
  <2>2. ASSUME NEW old \in session.got, NEW new \in Items(session)
        PROVE  old.id > new.id
    <3>1. session.cursor # Nothing /\ old.id >= session.cursor /\ new.id < session.cursor
      BY <2>1 DEF Falling
    <3>2. old.id \in Nat /\ new.id \in Nat /\ session.cursor \in Nat
      BY <2>1, <3>1, ServerAssumption DEF Typed
    <3> QED  BY <3>1, <3>2
  <2> QED  BY <2>1, <2>2 DEF Falling
<1> QED  BY <1>1, SessionInvariant, PTL

\* Options.Cursor and the page loop: a page never exceeds its size, and its
\* cursor is the ID of its last item, whatever IDs were skipped.
THEOREM CursorAlwaysLastItem == Spec => []CursorIsLastItem
<1>1. SessionSafe => CursorIsLastItem
  BY DEF SessionSafe, SafeSession, LastIsItem, CursorIsLastItem
<1> QED  BY <1>1, SessionInvariant, PTL

(***************************************************************************)
(* The chain beside the session.                                           *)
(***************************************************************************)
\* Live IDs have been issued, and name an entity.
VersionOK(v) ==
  /\ v.count \in Nat
  /\ \A i \in Id : v.ids[i] # Nothing =>
       i <= v.count /\ v.ids[i] \in Key /\ v.ents[v.ids[i]] \in Value

NamesUnique == \A m, n \in Sealed : chain[m].name = chain[n].name => m = n

CountsGrow == \A m, n \in Base .. top : m <= n => chain[m].count <= chain[n].count

\* A live ID of any version resolves to that version's key, or not at all.
MapAgrees ==
  \A n \in Base .. top, i \in Id :
    chain[n].ids[i] # Nothing => idmap[i] \in {Nothing, chain[n].ids[i]}

ChainOK ==
  /\ top \in Nat /\ Base .. top \subseteq Version /\ Base <= top
  /\ DOMAIN chain = Version /\ DOMAIN idmap = Id
  /\ \A n \in Version : n > top => chain[n] = Nothing
  /\ \A n \in Base .. top : VersionOK(chain[n])
  /\ NamesUnique /\ CountsGrow /\ MapAgrees

(***************************************************************************)
(* The session.                                                            *)
(***************************************************************************)
\* The block a session reads.
Now(s) == IF s.at = 0 THEN top ELSE s.at

\* What the observer has seen is what a read finds.
Observed(s) ==
  s.seen # Nothing =>
    /\ s.query \in Query
    /\ s.at # 0 => s.at \in Version /\ s.at > Base
    /\ chain[Now(s)] = s.seen
    /\ s.hash \in {Nothing, s.seen.name}

\* The hypotheses of SessionExact.
Comparable(s) ==
  /\ s.seen # Nothing /\ s.size > 0
  /\ s.at = 0 \/ \A k \in DOMAIN s.query : ~s.query[k].scan

Terms(q) == {q[k] : k \in DOMAIN q}

\* Items are wanted, and as the version has them.
Right(s) ==
  \A item \in Answer(s) :
    item.id \in Wanted(s) /\ item.value = s.seen.ents[s.seen.ids[item.id]]

Settled(s, i) == idmap[i] = Nothing \/ \E item \in Answer(s) : item.id = i

\* The IDs in I are what is left of the query.
Covers(s, I) == I \subseteq Wanted(s) /\ \A i \in Wanted(s) \ I : Settled(s, i)

\* While terms are read: the terms left will cut what is left down to the IDs
\* wanted, and those from the cursor on are settled.
Evaluating(s) ==
  /\ s.todo \in Seq(Terms(s.query)) /\ s.todo # <<>>
  /\ Wanted(s) = {i \in s.ids : \A t \in Terms(s.todo) : i \in Bitmap(s.seen, t.match)}
  /\ \A i \in Wanted(s) : s.cursor # Nothing /\ i >= s.cursor => Settled(s, i)

Exact(s) ==
  Comparable(s) =>
    /\ Right(s)
    /\ s.pc \in {"start", "term"} => Evaluating(s)
    /\ s.pc \in {"resolve", "fetch", "more", "done"} => Covers(s, Left(s))
    /\ s.pc = "fetch" => s.addr = s.seen.ids[s.last]

ExactInv ==
  /\ ChainOK /\ SessionSafe
  /\ session # Nothing => Observed(session) /\ Exact(session)

(***************************************************************************)
(* Writers keep ChainOK.                                                   *)
(***************************************************************************)
LEMMA InitChainOK == Init => ChainOK
<1> SUFFICES ASSUME Init  PROVE ChainOK
  OBVIOUS
<1>1. Base \in Nat /\ Base \in Version /\ Version \subseteq Nat
  BY ServerAssumption
<1>2. Base .. top = {Base} /\ Sealed = {} /\ top = Base
  BY <1>1 DEF Init, Sealed
<1>3. chain[Base] = EmptyVersion
  BY <1>1 DEF Init
<1>4. VersionOK(EmptyVersion)
  BY DEF VersionOK, EmptyVersion
<1>5. EmptyVersion.count = 0 /\ \A i \in Id : EmptyVersion.ids[i] = Nothing
  BY DEF EmptyVersion
<1>6. NamesUnique /\ CountsGrow /\ MapAgrees
  BY <1>2, <1>3, <1>5 DEF NamesUnique, CountsGrow, MapAgrees
<1>7. DOMAIN chain = Version /\ DOMAIN idmap = Id /\ \A n \in Version : n > top => chain[n] = Nothing
  BY <1>1 DEF Init
<1> QED  BY <1>1, <1>2, <1>3, <1>4, <1>6, <1>7 DEF ChainOK

\* What the IDs of a new block are.
LEMMA BirthIDs ==
  ASSUME NEW v, VersionOK(v), NEW born \in Births(v)
  PROVE  /\ \A i \in DOMAIN born : i \in Nat /\ i > v.count /\ born[i] \in Key
         /\ DOMAIN born # {} =>
              LET c == CHOOSE i \in DOMAIN born : \A j \in DOMAIN born : j <= i
              IN  c \in DOMAIN born /\ \A j \in DOMAIN born : j <= c
<1>1. v.count \in Nat
  BY DEF VersionOK
<1>2. PICK n \in {v.count} \cup {i \in Id : i > v.count} :
        born \in {b \in [v.count + 1 .. n -> Key \ v.used] :
                    \A i, j \in DOMAIN b : b[i] = b[j] => i = j}
  BY DEF Births
<1>3. n \in Nat /\ DOMAIN born = v.count + 1 .. n /\ \A i \in DOMAIN born : born[i] \in Key
  BY <1>1, <1>2, ServerAssumption
<1>4. \A i \in DOMAIN born : i \in Nat /\ i > v.count
  BY <1>1, <1>3
<1>5. DOMAIN born # {} => n \in DOMAIN born /\ \A j \in DOMAIN born : j <= n
  BY <1>1, <1>3
<1> QED  BY <1>3, <1>4, <1>5

\* A block gives IDs above the count, and every live ID of it an entity.
LEMMA SealedVersion ==
  ASSUME NEW v, VersionOK(v), NEW born \in Births(v), NEW gone, NEW name,
         NEW vals \in [{IssuedBy(v, born, i) :
                          i \in {i \in Id : IssuedBy(v, born, i) # Nothing} \ gone} -> Value]
  PROVE  LET w == NextVersion(v, name, born, gone, vals)
         IN  /\ VersionOK(w) /\ w.name = name /\ v.count <= w.count
             /\ \A i \in Id : w.ids[i] # Nothing => w.ids[i] = IssuedBy(v, born, i)
<1> DEFINE w == NextVersion(v, name, born, gone, vals)
           ids == [i \in Id |-> IF i \in gone THEN Nothing ELSE IssuedBy(v, born, i)]
           c == IF DOMAIN born = {} THEN v.count
                ELSE CHOOSE i \in DOMAIN born : \A j \in DOMAIN born : j <= i
<1>1. /\ \A i \in DOMAIN born : i \in Nat /\ i > v.count /\ born[i] \in Key
      /\ DOMAIN born # {} => c \in DOMAIN born /\ \A j \in DOMAIN born : j <= c
  BY BirthIDs
<1>2. v.count \in Nat
  BY DEF VersionOK
<1>3. c \in Nat /\ v.count <= c /\ \A i \in DOMAIN born : i <= c
  <2>1. CASE DOMAIN born = {}
    BY <2>1, <1>2
  <2>2. CASE DOMAIN born # {}
    <3> HIDE DEF c
    <3> QED  BY <2>2, <1>1, <1>2
  <2> QED  BY <2>1, <2>2
<1>4. /\ w.ids = ids /\ w.count = c /\ w.name = name
      /\ w.ents = [k \in Key |-> IF \E i \in Id : ids[i] = k THEN vals[k] ELSE Nothing]
  BY DEF NextVersion
<1>5. \A i \in Id : ids[i] # Nothing => ids[i] = IssuedBy(v, born, i) /\ i \notin gone
  OBVIOUS
<1> HIDE DEF w, c, ids
<1>6. ASSUME NEW i \in Id, ids[i] # Nothing
      PROVE  i <= c /\ ids[i] \in Key /\ w.ents[ids[i]] \in Value
  <2>1. ids[i] = IssuedBy(v, born, i) /\ i \notin gone
    BY <1>5, <1>6
  <2>2. i <= c /\ ids[i] \in Key
    <3>1. CASE i \in DOMAIN born
      BY <3>1, <2>1, <1>1, <1>3 DEF IssuedBy
    <3>2. CASE i \notin DOMAIN born
      <4>1. ids[i] = v.ids[i] /\ i <= v.count /\ v.ids[i] \in Key
        BY <3>2, <2>1, <1>6 DEF IssuedBy, VersionOK
      <4>2. i \in Nat
        BY ServerAssumption
      <4> QED  BY <4>1, <4>2, <1>2, <1>3
    <3> QED  BY <3>1, <3>2
  <2>3. w.ents[ids[i]] = vals[ids[i]]
    BY <2>2, <1>4
  <2>4. vals[ids[i]] \in Value
    BY <2>1, <1>6
  <2> QED  BY <2>2, <2>3, <2>4
<1>7. VersionOK(w)
  BY <1>3, <1>4, <1>6 DEF VersionOK
<1> QED  BY <1>3, <1>4, <1>5, <1>7 DEF w

\* A map entry of a live ID that is gone stays gone.
Unresolved ==
  \A n \in Base .. top, i \in Id :
    chain[n].ids[i] # Nothing /\ idmap[i] = Nothing => idmap'[i] = Nothing

LEMMA SealChain ==
  ASSUME ChainOK, Seal
  PROVE  ChainOK' /\ Unresolved
<1> DEFINE v == chain[top]
<1>1. PICK born \in Births(v) :
        LET issued == {i \in Id : IssuedBy(v, born, i) # Nothing}
        IN /\ idmap' = [i \in Id |-> IF i \in DOMAIN born THEN born[i] ELSE idmap[i]]
           /\ \E gone \in SUBSET issued, name \in Name \ {chain[n].name : n \in Sealed} :
              \E vals \in [{IssuedBy(v, born, i) : i \in issued \ gone} -> Value] :
                chain' = [chain EXCEPT ![top + 1] = NextVersion(v, name, born, gone, vals)]
  BY DEF Seal
<1> DEFINE issued == {i \in Id : IssuedBy(v, born, i) # Nothing}
<1>2. PICK gone \in SUBSET issued, name \in Name \ {chain[n].name : n \in Sealed} :
              \E vals \in [{IssuedBy(v, born, i) : i \in issued \ gone} -> Value] :
                chain' = [chain EXCEPT ![top + 1] = NextVersion(v, name, born, gone, vals)]
  BY <1>1
<1>3. PICK vals \in [{IssuedBy(v, born, i) : i \in issued \ gone} -> Value] :
                chain' = [chain EXCEPT ![top + 1] = NextVersion(v, name, born, gone, vals)]
  BY <1>2
<1> DEFINE w == NextVersion(v, name, born, gone, vals)
<1>4. top \in Nat /\ Base \in Nat /\ Base <= top /\ top \in Base .. top /\ Version \subseteq Nat
  BY ServerAssumption DEF ChainOK
<1>5. VersionOK(v) /\ v.count \in Nat
  BY <1>4 DEF ChainOK, VersionOK
<1>6. /\ VersionOK(w) /\ w.name = name /\ v.count <= w.count
      /\ \A i \in Id : w.ids[i] # Nothing => w.ids[i] = IssuedBy(v, born, i)
  BY <1>3, <1>5, SealedVersion
<1>7. \A i \in DOMAIN born : i \in Nat /\ i > v.count
  BY <1>5, BirthIDs
<1>8. top' = top + 1 /\ top + 1 \in Version
  BY DEF Seal
<1>9. /\ Base .. top' = (Base .. top) \cup {top + 1}
      /\ Sealed' = Sealed \cup {top + 1}
      /\ Sealed \subseteq Base .. top
      /\ \A n \in Base .. top : n <= top /\ n \in Nat /\ n # top + 1
  BY <1>4, <1>8 DEF Sealed
<1>10. DOMAIN chain' = Version /\ chain'[top + 1] = w /\ \A n \in Base .. top : chain'[n] = chain[n]
  BY <1>3, <1>8, <1>9 DEF ChainOK
<1>11. \A n \in Version : n > top + 1 => chain'[n] = Nothing
  <2> SUFFICES ASSUME NEW n \in Version, n > top + 1  PROVE chain'[n] = Nothing
    OBVIOUS
  <2>1. n \in Nat /\ n # top + 1 /\ n > top
    BY <1>4
  <2> HIDE DEF w
  <2> QED  BY <2>1, <1>3 DEF ChainOK
<1>12. name \notin {chain[n].name : n \in Sealed}
  OBVIOUS
<1>13. DOMAIN idmap' = Id /\ \A i \in Id : idmap'[i] = IF i \in DOMAIN born THEN born[i] ELSE idmap[i]
  BY <1>1
<1> HIDE DEF w, v
<1>14. ASSUME NEW n \in Base .. top, NEW i \in Id, chain[n].ids[i] # Nothing
       PROVE  idmap'[i] = idmap[i]
  <2>1. i <= chain[n].count /\ chain[n].count <= v.count /\ chain[n].count \in Nat /\ i \in Nat
    BY <1>4, <1>9, <1>14, ServerAssumption DEF ChainOK, CountsGrow, VersionOK, v
  <2>2. i \notin DOMAIN born
    BY <2>1, <1>5, <1>7
  <2> QED  BY <2>2, <1>13
<1>15. Unresolved
  BY <1>14 DEF Unresolved
<1>16. \A n \in Base .. top' : VersionOK(chain'[n])
  BY <1>6, <1>9, <1>10 DEF ChainOK
<1>17. NamesUnique'
  <2>1. \A n \in Sealed : chain'[n] = chain[n] /\ chain'[n].name # w.name /\ n # top + 1
    BY <1>6, <1>9, <1>10, <1>12
  <2> QED  BY <2>1, <1>9, <1>10 DEF NamesUnique, ChainOK
<1>18. CountsGrow'
  <2> SUFFICES ASSUME NEW m \in Base .. top', NEW n \in Base .. top', m <= n
               PROVE  chain'[m].count <= chain'[n].count
    BY DEF CountsGrow
  <2>1. CASE n \in Base .. top
    <3>1. m \in Base .. top
      BY <2>1, <1>4, <1>8
    <3> QED  BY <2>1, <3>1, <1>10 DEF ChainOK, CountsGrow
  <2>2. CASE n = top + 1 /\ m = top + 1
    BY <2>2, <1>6, <1>10 DEF VersionOK
  <2>3. CASE n = top + 1 /\ m \in Base .. top
    <3>1. chain[m].count <= v.count /\ chain[m].count \in Nat /\ w.count \in Nat
      BY <2>3, <1>4, <1>6, <1>9 DEF ChainOK, CountsGrow, VersionOK, v
    <3> QED  BY <2>3, <3>1, <1>5, <1>6, <1>10
  <2> QED  BY <2>1, <2>2, <2>3, <1>9
<1>19. MapAgrees'
  <2> SUFFICES ASSUME NEW n \in Base .. top', NEW i \in Id, chain'[n].ids[i] # Nothing
               PROVE  idmap'[i] \in {Nothing, chain'[n].ids[i]}
    BY DEF MapAgrees
  <2>1. CASE n \in Base .. top
    <3>1. chain'[n] = chain[n] /\ idmap'[i] = idmap[i]
      BY <2>1, <1>10, <1>14
    <3> QED  BY <2>1, <3>1 DEF ChainOK, MapAgrees
  <2>2. CASE n = top + 1
    <3>1. chain'[n].ids[i] = IssuedBy(v, born, i)
      BY <2>2, <1>6, <1>10
    <3>2. CASE i \in DOMAIN born
      BY <3>1, <3>2, <1>13 DEF IssuedBy
    <3>3. CASE i \notin DOMAIN born
      <4>1. chain'[n].ids[i] = v.ids[i] /\ v.ids[i] # Nothing
        BY <3>1, <3>3 DEF IssuedBy
      <4> QED  BY <4>1, <3>3, <1>4, <1>13 DEF ChainOK, MapAgrees, v
    <3> QED  BY <3>2, <3>3
  <2> QED  BY <2>1, <2>2, <1>9
<1>20. top' \in Nat /\ Base .. top' \subseteq Version /\ Base <= top'
  BY <1>4, <1>8, <1>9 DEF ChainOK
<1> QED  BY <1>8, <1>10, <1>11, <1>13, <1>15, <1>16, <1>17, <1>18, <1>19, <1>20 DEF ChainOK

LEMMA TruncateChain ==
  ASSUME ChainOK, NEW n \in Base .. top, n < top, NEW held, Truncate(n, held)
  PROVE  ChainOK' /\ Unresolved
<1>1. top \in Nat /\ Base \in Nat /\ Base <= top /\ n \in Nat /\ Base <= n /\ Version \subseteq Nat
  BY ServerAssumption DEF ChainOK
<1>2. /\ top' = n
      /\ Base .. top' \subseteq Base .. top /\ Sealed' \subseteq Sealed
      /\ Sealed \subseteq Base .. top
  BY <1>1 DEF Truncate, Sealed
<1>3. DOMAIN chain' = Version /\ \A m \in Version : m > top' => chain'[m] = Nothing
  BY <1>2 DEF Truncate
<1>4. \A m \in Base .. top' : chain'[m] = chain[m]
  <2> SUFFICES ASSUME NEW m \in Base .. top'  PROVE chain'[m] = chain[m]
    OBVIOUS
  <2>1. m \in Version /\ ~(m > n)
    BY <1>1, <1>2 DEF ChainOK
  <2> QED  BY <2>1 DEF Truncate
<1>5. Sealed' \subseteq Base .. top'
  BY <1>1, <1>2 DEF Sealed
<1>6. DOMAIN idmap' = Id /\ \A i \in Id : idmap'[i] \in {Nothing, idmap[i]}
  BY DEF Truncate
<1>7. NamesUnique' /\ CountsGrow' /\ (\A m \in Base .. top' : VersionOK(chain'[m]))
  BY <1>2, <1>4, <1>5 DEF ChainOK, NamesUnique, CountsGrow
<1>8. MapAgrees'
  <2> SUFFICES ASSUME NEW m \in Base .. top', NEW i \in Id, chain'[m].ids[i] # Nothing
               PROVE  idmap'[i] \in {Nothing, chain'[m].ids[i]}
    BY DEF MapAgrees
  <2>1. idmap[i] \in {Nothing, chain[m].ids[i]}
    BY <1>2, <1>4 DEF ChainOK, MapAgrees
  <2> QED  BY <2>1, <1>4, <1>6
<1>9. Unresolved
  BY <1>6 DEF Unresolved
<1> QED  BY <1>1, <1>2, <1>3, <1>6, <1>7, <1>8, <1>9 DEF ChainOK

LEMMA SameChain ==
  ASSUME ChainOK, UNCHANGED <<chain, top, idmap>>
  PROVE  ChainOK' /\ Unresolved
<1>1. Unresolved
  BY DEF Unresolved
<1> QED  BY <1>1 DEF ChainOK, NamesUnique, CountsGrow, MapAgrees, Sealed

\* A step of a writer.
LEMMA ChainStep ==
  ASSUME ChainOK, ChainNext
  PROVE  ChainOK' /\ Unresolved
<1>1. CASE Acquire \/ Release
  BY <1>1, SameChain DEF Acquire, Release
<1> QED  BY <1>1, SealChain, TruncateChain DEF ChainNext

(***************************************************************************)
(* What the reads of a session find.                                       *)
(***************************************************************************)
\* The state that is opened is the version the observer has seen: the hash that
\* was read names one block only.
LEMMA OpensSeen ==
  ASSUME ChainOK, Observed(session), session.seen # Nothing
  PROVE  /\ Now(session) \in Base .. top
         /\ VersionOK(session.seen)
         /\ session.at # 0 => chain[session.at] = session.seen
         /\ session.at = 0 => chain[top] = session.seen
         /\ StateOpens => OpenedVersion = session.seen
<1>1. top \in Nat /\ Base \in Nat /\ Base <= top /\ Version \subseteq Nat
  BY ServerAssumption DEF ChainOK
<1>2. chain[Now(session)] = session.seen
  BY DEF Observed
<1>3. session.at # 0 => session.at \in Sealed
  <2> SUFFICES ASSUME session.at # 0  PROVE session.at \in Sealed
    OBVIOUS
  <2>1. session.at \in Version /\ session.at > Base /\ chain[session.at] # Nothing
    BY <1>2 DEF Observed, Now
  <2>2. session.at \in Nat /\ ~(session.at > top)
    BY <2>1, <1>1 DEF ChainOK
  <2> QED  BY <1>1, <2>1, <2>2 DEF Sealed
<1>4. Now(session) \in Base .. top
  BY <1>1, <1>3 DEF Now, Sealed
<1>5. VersionOK(session.seen)
  BY <1>2, <1>4 DEF ChainOK
<1>6. ASSUME StateOpens, session.at # 0
      PROVE  OpenedVersion = session.seen
  <2> DEFINE found == {n \in Sealed : chain[n].name = session.hash}
  <2>1. session.hash = session.seen.name /\ chain[session.at] = session.seen
    BY <1>2, <1>6 DEF StateOpens, Observed, Now
  <2>2. found = {session.at}
    BY <1>3, <1>6, <2>1 DEF ChainOK, NamesUnique
  <2>3. OpenedVersion = IF found = {} THEN Nothing ELSE chain[CHOOSE n \in found : TRUE]
    BY <1>6 DEF OpenedVersion
  <2> HIDE DEF found
  <2> QED  BY <2>1, <2>2, <2>3
<1>7. session.at = 0 => OpenedVersion = session.seen
  BY <1>2 DEF OpenedVersion, Now
<1> QED  BY <1>2, <1>4, <1>5, <1>6, <1>7 DEF Now

\* A query has a term, so that an ID it wants is live.
LEMMA WantedLive ==
  ASSUME NEW s, Observed(s), Comparable(s), NEW i \in Wanted(s)
  PROVE  i \in Id /\ s.seen.ids[i] # Nothing
<1>1. s.query \in Query
  BY DEF Observed, Comparable
<1>2. s.query # <<>> /\ s.query \in Seq(Terms(s.query))
  BY <1>1, ServerAssumption DEF Terms
<1>3. Len(s.query) \in Nat \ {0} /\ DOMAIN s.query = 1 .. Len(s.query)
  BY <1>2
<1>4. 1 \in DOMAIN s.query
  BY <1>3
<1> QED  BY <1>4 DEF Wanted, Bitmap

\* What does not depend on how far the session is.
LEMMA SameAnswer ==
  ASSUME NEW s, NEW t, SamePage(s, t)
  PROVE  /\ Wanted(t) = Wanted(s) /\ Answer(t) = Answer(s)
         /\ Comparable(t) <=> Comparable(s)
         /\ Right(t) <=> Right(s)
         /\ \A I : Covers(t, I) <=> Covers(s, I)
         /\ Observed(s) /\ t.hash \in {Nothing, s.hash} => Observed(t)
<1>1. Wanted(t) = Wanted(s) /\ Answer(t) = Answer(s)
  BY DEF SamePage, Wanted, Answer, Items
<1>2. Comparable(t) <=> Comparable(s)
  BY DEF SamePage, Comparable
<1>3. Right(t) <=> Right(s)
  BY <1>1 DEF Right, SamePage
<1>4. \A I : Covers(t, I) <=> Covers(s, I)
  BY <1>1 DEF Covers, Settled
<1>5. Observed(s) /\ t.hash \in {Nothing, s.hash} => Observed(t)
  BY DEF Observed, SamePage, Now
<1> QED  BY <1>1, <1>2, <1>3, <1>4, <1>5

\* The ID looked at is settled, and the session goes on.
LEMMA NextIDExact ==
  ASSUME NEW s, IDDone(s), Observed(s),
         Comparable(s) => Right(s) /\ Covers(s, Left(s) \ {s.last})
  PROVE  Observed(NextID(s)) /\ Exact(NextID(s))
<1> DEFINE t == NextID(s)
<1>1. /\ SamePage(s, t) /\ Left(t) = Left(s) \ {s.last}
      /\ t.pc \in {"resolve", "more", "done"} /\ t.hash = Nothing
  BY NextIDSafe
<1> HIDE DEF t
<1>2. Observed(t)
  BY <1>1, SameAnswer
<1>3. Comparable(t) => Right(t) /\ Covers(t, Left(t))
  BY <1>1, SameAnswer
<1>4. Exact(t)
  BY <1>1, <1>3 DEF Exact
<1> QED  BY <1>2, <1>4 DEF t

\* A query starts with everything wanted ahead of it.
LEMMA AskExact ==
  ASSUME NEW query \in Query, NEW at \in {0} \cup Sealed, at # 0 => at \in Version,
         NEW size \in PageSize, ChainOK
  PROVE  LET s == NewSession(query, at, size) IN Observed(s) /\ Exact(s)
<1> DEFINE s == NewSession(query, at, size)
<1>1. /\ s.query = query /\ s.at = at /\ s.cursor = Nothing /\ s.pc = "start" /\ s.todo = query
      /\ s.hash = Nothing /\ s.ids = Id /\ s.page = <<>> /\ s.got = {}
      /\ s.seen = chain[IF at = 0 THEN top ELSE at]
  BY DEF NewSession
<1> HIDE DEF s
<1>2. Answer(s) = {}
  BY <1>1 DEF Answer, Items
<1>3. at # 0 => at > Base
  BY ServerAssumption DEF ChainOK, Sealed
<1>4. Observed(s)
  BY <1>1, <1>3 DEF Observed, Now
<1>5. s.todo \in Seq(Terms(s.query)) /\ s.todo # <<>>
  BY <1>1, ServerAssumption DEF Terms
<1>6. Wanted(s) = {i \in s.ids : \A t \in Terms(s.todo) : i \in Bitmap(s.seen, t.match)}
  BY <1>1 DEF Wanted, Terms
<1>7. Evaluating(s) /\ Right(s)
  BY <1>1, <1>2, <1>5, <1>6 DEF Evaluating, Right
<1>8. Exact(s)
  BY <1>1, <1>7 DEF Exact
<1> QED  BY <1>4, <1>8 DEF s

\* The next page: what is left is below the new cursor.
LEMMA FollowExact ==
  ASSUME NEW s, SafeSession(s), Observed(s), Exact(s), s.pc = "more"
  PROVE  LET t == [s EXCEPT !.pc = "start", !.cursor = s.last, !.todo = s.query,
                     !.ids = Id, !.last = Nothing, !.page = <<>>, !.got = @ \cup Items(s)]
         IN  Observed(t) /\ Exact(t)
<1> DEFINE t == [s EXCEPT !.pc = "start", !.cursor = s.last, !.todo = s.query,
                   !.ids = Id, !.last = Nothing, !.page = <<>>, !.got = @ \cup Items(s)]
<1>0. DOMAIN s = Fields /\ Typed(s) /\ LastIsItem(s) /\ s.batch = {} /\ Ahead(s, Left(s))
  BY DEF SafeSession, Typed
<1>1. /\ t.query = s.query /\ t.at = s.at /\ t.size = s.size /\ t.cursor = s.last
      /\ t.pc = "start" /\ t.todo = s.query /\ t.hash = s.hash /\ t.ids = Id /\ t.page = <<>>
      /\ t.got = s.got \cup Items(s) /\ t.seen = s.seen
  BY <1>0 DEF Fields
<1> HIDE DEF t
<1>2. Observed(t)
  BY <1>1 DEF Observed, Now
<1>3. Items(t) = {}
  BY <1>1 DEF Items
<1>4. Answer(t) = Answer(s) /\ Wanted(t) = Wanted(s) /\ (Comparable(t) <=> Comparable(s))
  BY <1>1, <1>3 DEF Answer, Wanted, Comparable
<1>5. SUFFICES ASSUME Comparable(t)  PROVE Right(t) /\ Evaluating(t)
  BY <1>1, <1>2 DEF Exact, t
<1>6. Right(s) /\ Covers(s, Left(s)) /\ s.query \in Query
  BY <1>4, <1>5 DEF Exact, Comparable, Observed
<1>7. Right(t)
  BY <1>1, <1>4, <1>6 DEF Right
<1>8. t.todo \in Seq(Terms(t.query)) /\ t.todo # <<>>
  BY <1>1, <1>6, ServerAssumption DEF Terms
<1>9. Wanted(t) = {i \in t.ids : \A x \in Terms(t.todo) : i \in Bitmap(t.seen, x.match)}
  BY <1>1 DEF Wanted, Terms
<1>10. \A i \in Left(s) : i < s.last
  <2>1. s.page[Len(s.page)] \in Items(s)
    <3>1. Len(s.page) \in DOMAIN s.page
      BY <1>0 DEF Typed, LastIsItem
    <3> QED  BY <3>1 DEF Items
  <2> QED  BY <1>0, <2>1 DEF Ahead, LastIsItem
<1>11. ASSUME NEW i \in Wanted(t), i >= t.cursor
       PROVE  Settled(t, i)
  <2>1. i \notin Left(s)
    <3>1. \A j \in Left(s) : j \in Nat
      BY <1>0, ServerAssumption DEF Typed, Left
    <3>2. s.last \in Nat
      <4>1. Len(s.page) \in DOMAIN s.page
        BY <1>0 DEF Typed, LastIsItem
      <4> QED  BY <4>1, <1>0, ServerAssumption DEF Typed, LastIsItem, Items
    <3> QED  BY <3>1, <3>2, <1>1, <1>10, <1>11
  <2> QED  BY <2>1, <1>4, <1>6, <1>11 DEF Covers, Settled
<1>12. Evaluating(t)
  BY <1>8, <1>9, <1>11 DEF Evaluating
<1> QED  BY <1>7, <1>12

\* The terms of a query are the first one and the others.
LEMMA FirstTerm ==
  ASSUME NEW S, NEW q \in Seq(S), q # <<>>
  PROVE  /\ Tail(q) \in Seq(S) /\ Head(q) \in S
         /\ Terms(q) = {Head(q)} \cup Terms(Tail(q))
<1>1. Len(q) \in Nat \ {0} /\ DOMAIN q = 1 .. Len(q) /\ Head(q) = q[1]
  OBVIOUS
<1>2. Tail(q) \in Seq(S) /\ Len(Tail(q)) = Len(q) - 1 /\ \A k \in 1 .. Len(q) - 1 : Tail(q)[k] = q[k + 1]
  BY HeadTailProperties
<1>3. DOMAIN Tail(q) = 1 .. Len(q) - 1
  BY <1>2
<1>4. Head(q) \in S
  BY <1>1
<1>5. Terms(q) \subseteq {Head(q)} \cup Terms(Tail(q))
  <2> SUFFICES ASSUME NEW k \in 1 .. Len(q), k # 1  PROVE q[k] \in Terms(Tail(q))
    BY <1>1 DEF Terms
  <2>1. k - 1 \in 1 .. Len(q) - 1 /\ (k - 1) + 1 = k
    BY <1>1
  <2>2. Tail(q)[k - 1] = q[k]
    BY <2>1, <1>2
  <2> QED  BY <2>1, <2>2, <1>3 DEF Terms
<1>6. {Head(q)} \cup Terms(Tail(q)) \subseteq Terms(q)
  <2>1. Head(q) \in Terms(q)
    BY <1>1 DEF Terms
  <2>2. ASSUME NEW k \in 1 .. Len(q) - 1  PROVE Tail(q)[k] \in Terms(q)
    <3>1. k + 1 \in 1 .. Len(q)
      BY <1>1
    <3> QED  BY <3>1, <1>1, <1>2 DEF Terms
  <2> QED  BY <2>1, <2>2, <1>3 DEF Terms
<1> QED  BY <1>2, <1>4, <1>5, <1>6

\* A term is read from the version that was seen.
LEMMA TermReadExact ==
  ASSUME SafeSession(session), Observed(session), Exact(session), session.pc = "term",
         NEW bm, Comparable(session) => bm = Bitmap(session.seen, Head(session.todo).match),
         TermRead(bm)
  PROVE  Observed(session') /\ Exact(session')
<1> DEFINE s == session
           read == [s EXCEPT !.ids = @ \cap bm, !.todo = Tail(@), !.hash = Nothing]
           t == [read EXCEPT !.ids = BelowCursor(read)]
<1>0. DOMAIN s = Fields /\ Typed(s)
  BY DEF SafeSession, Typed
<1>1. /\ DOMAIN read = Fields /\ read.query = s.query /\ read.at = s.at /\ read.size = s.size
      /\ read.cursor = s.cursor /\ read.pc = "term" /\ read.todo = Tail(s.todo)
      /\ read.hash = Nothing /\ read.ids = s.ids \cap bm /\ read.batch = s.batch
      /\ read.last = s.last /\ read.page = s.page /\ read.got = s.got /\ read.seen = s.seen
  BY <1>0 DEF Fields
<1>2. session' = IF read.todo # <<>> THEN read ELSE NextBatch(t)
  BY DEF TermRead
<1> HIDE DEF read
<1>3. /\ DOMAIN t = Fields /\ t.query = s.query /\ t.at = s.at /\ t.size = s.size
      /\ t.cursor = s.cursor /\ t.hash = Nothing /\ t.ids = BelowCursor(read)
      /\ t.batch = s.batch
      /\ t.last = s.last /\ t.page = s.page /\ t.got = s.got /\ t.seen = s.seen
  BY <1>1 DEF Fields
<1> HIDE DEF t
<1>4. /\ Wanted(read) = Wanted(s) /\ Answer(read) = Answer(s) /\ (Comparable(read) <=> Comparable(s))
      /\ (Right(read) <=> Right(s)) /\ Observed(read)
  BY <1>1 DEF Wanted, Answer, Items, Comparable, Right, Observed, Now
<1>5. /\ Wanted(t) = Wanted(s) /\ Answer(t) = Answer(s) /\ (Comparable(t) <=> Comparable(s))
      /\ (Right(t) <=> Right(s)) /\ Observed(t)
  BY <1>3 DEF Wanted, Answer, Items, Comparable, Right, Observed, Now
<1>6. ASSUME Comparable(s)
      PROVE  /\ Right(s) /\ Tail(s.todo) \in Seq(Terms(s.query))
             /\ Wanted(s) = {i \in read.ids :
                               \A x \in Terms(read.todo) : i \in Bitmap(s.seen, x.match)}
             /\ \A i \in Wanted(s) : s.cursor # Nothing /\ i >= s.cursor => Settled(s, i)
  <2>1. Right(s) /\ Evaluating(s)
    BY <1>6 DEF Exact
  <2>2. Tail(s.todo) \in Seq(Terms(s.query)) /\ Terms(s.todo) = {Head(s.todo)} \cup Terms(Tail(s.todo))
    BY <2>1, FirstTerm DEF Evaluating
  <2>3. bm = Bitmap(s.seen, Head(s.todo).match)
    BY <1>6
  <2> HIDE DEF s
  <2> QED  BY <1>1, <2>1, <2>2, <2>3 DEF Evaluating
<1>7. CASE read.todo # <<>>
  <2>1. Comparable(read) => Right(read) /\ Evaluating(read)
    BY <1>1, <1>4, <1>6, <1>7 DEF Evaluating, Settled
  <2>2. Exact(read)
    BY <1>1, <2>1 DEF Exact
  <2> QED  BY <1>2, <1>4, <1>7, <2>2
<1>8. CASE read.todo = <<>>
  <2>1. BatchDone(t)
    BY <1>0, <1>1, <1>3, EvaluatedDone DEF BelowCursor
  <2> DEFINE u == NextBatch(t)
  <2>2. /\ SamePage(t, u) /\ Left(u) = Left(t) /\ u.pc \in {"resolve", "more", "done"}
        /\ u.hash = Nothing
    BY <1>3, <2>1, NextBatchSafe
  <2> HIDE DEF u
  <2>3. Left(t) = BelowCursor(read)
    BY <1>3 DEF Left, SafeSession
  <2>4. Comparable(t) => Right(t) /\ Covers(t, Left(t))
    <3> SUFFICES ASSUME Comparable(t)  PROVE Right(t) /\ Covers(t, Left(t))
      OBVIOUS
    <3>0. Terms(read.todo) = {}
      BY <1>8 DEF Terms
    <3>1. Right(s) /\ Wanted(s) = read.ids
      BY <1>5, <1>6, <3>0
    <3>2. Left(t) = IF s.cursor = Nothing THEN Wanted(s) ELSE {i \in Wanted(s) : i < s.cursor}
      BY <1>1, <2>3, <3>1 DEF BelowCursor
    <3>3. \A i \in Wanted(s) \ Left(t) : s.cursor # Nothing /\ i >= s.cursor
      <4>1. \A i \in Wanted(s) : i \in Nat
        BY ServerAssumption DEF Wanted
      <4>2. s.cursor # Nothing => s.cursor \in Nat
        BY <1>0, ServerAssumption DEF Typed
      <4> QED  BY <3>2, <4>1, <4>2
    <3>4. \A i \in Wanted(t) \ Left(t) : Settled(t, i)
      BY <1>5, <1>6, <3>3 DEF Settled
    <3>5. Left(t) \subseteq Wanted(t)
      BY <3>2, <1>5
    <3> QED  BY <1>5, <3>1, <3>4, <3>5 DEF Covers
  <2>5. Observed(u) /\ (Comparable(u) => Right(u) /\ Covers(u, Left(u)))
    BY <1>3, <1>5, <2>2, <2>4, SameAnswer
  <2>6. Exact(u)
    BY <2>2, <2>5 DEF Exact
  <2> QED  BY <1>2, <1>8, <2>5, <2>6 DEF u
<1> QED  BY <1>7, <1>8

\* An ID is resolved to the key of the version that was seen, or not at all.
LEMMA ResolveExact ==
  ASSUME ChainOK, SafeSession(session), Observed(session), Exact(session), ResolveID
  PROVE  Observed(session') /\ Exact(session')
<1> DEFINE s == session
           i == CHOOSE i \in s.batch : \A j \in s.batch : j <= i
           looked == [s EXCEPT !.last = i]
           t == [looked EXCEPT !.pc = "fetch", !.addr = idmap[i]]
<1>0. s.pc = "resolve"
  BY DEF ResolveID, At
<1>1. session' = IF idmap[i] = Nothing THEN NextID(looked) ELSE t
  BY DEF ResolveID
<1>2. /\ i \in s.batch /\ looked.last = i
      /\ \A f \in Fields \ {"last"} : looked[f] = s[f]
      /\ DOMAIN looked = Fields /\ IDDone(looked)
      /\ Left(looked) = Left(s)
  BY <1>0, ResolveSafe
<1> HIDE DEF i, looked
<1>3. /\ looked.query = s.query /\ looked.at = s.at /\ looked.size = s.size
      /\ looked.page = s.page /\ looked.got = s.got /\ looked.seen = s.seen /\ looked.hash = s.hash
  BY <1>2 DEF Fields
<1>4. /\ Wanted(looked) = Wanted(s) /\ Answer(looked) = Answer(s)
      /\ (Comparable(looked) <=> Comparable(s)) /\ (Right(looked) <=> Right(s)) /\ Observed(looked)
  BY <1>3 DEF Wanted, Answer, Items, Comparable, Right, Observed, Now
<1>5. Comparable(s) => Right(s) /\ Covers(s, Left(s)) /\ i \in Wanted(s) /\ i \in Left(s)
  BY <1>0, <1>2 DEF Exact, Covers, Left
<1>6. CASE idmap[i] = Nothing
  <2>1. Comparable(looked) => Right(looked) /\ Covers(looked, Left(looked) \ {looked.last})
    BY <1>2, <1>4, <1>5, <1>6 DEF Covers, Settled
  <2>2. Observed(NextID(looked)) /\ Exact(NextID(looked))
    BY <1>2, <1>4, <2>1, NextIDExact
  <2> QED  BY <1>1, <1>6, <2>2
<1>7. CASE idmap[i] # Nothing
  <2>1. /\ t.query = s.query /\ t.at = s.at /\ t.size = s.size /\ t.page = s.page
        /\ t.got = s.got /\ t.seen = s.seen /\ t.hash = s.hash /\ t.pc = "fetch"
        /\ t.addr = idmap[i] /\ t.last = i /\ t.ids = s.ids /\ t.batch = s.batch
    BY <1>2 DEF Fields
  <2> HIDE DEF t
  <2>2. /\ Wanted(t) = Wanted(s) /\ Answer(t) = Answer(s) /\ (Comparable(t) <=> Comparable(s))
        /\ (Right(t) <=> Right(s)) /\ Observed(t) /\ Left(t) = Left(s)
    BY <2>1 DEF Wanted, Answer, Items, Comparable, Right, Observed, Now, Left
  <2>3. ASSUME Comparable(s)  PROVE idmap[i] = s.seen.ids[i]
    <3>1. i \in Id /\ s.seen.ids[i] # Nothing
      BY <1>5, <2>3, WantedLive
    <3>2. Now(s) \in Base .. top /\ chain[Now(s)] = s.seen
      BY <2>3, OpensSeen DEF Comparable, Observed
    <3> QED  BY <3>1, <3>2, <1>7 DEF ChainOK, MapAgrees
  <2>4. Comparable(t) => Right(t) /\ Covers(t, Left(t)) /\ t.addr = t.seen.ids[t.last]
    BY <1>5, <2>1, <2>2, <2>3 DEF Covers, Settled
  <2>5. Exact(t)
    BY <2>1, <2>4 DEF Exact
  <2> QED  BY <1>1, <1>7, <2>2, <2>5
<1> QED  BY <1>6, <1>7

\* openStateAt fails only once the version that was seen is gone.
LEMMA FailsExact ==
  ASSUME SafeSession(session), session.seen = Nothing, session.pc \in {"term", "fetch"}, OpenFails
  PROVE  Observed(session') /\ Exact(session')
<1> DEFINE s == session
           t == [s EXCEPT !.pc = "failed"]
<1>0. DOMAIN s = Fields
  BY DEF SafeSession, Typed
<1>1. ~Comparable(s) /\ Observed(s)
  BY DEF Comparable, Observed
<1>2. CASE s.pc = "term"
  <2>1. session' = t /\ t.seen = Nothing
    BY <1>0, <1>2 DEF OpenFails, Fields
  <2> HIDE DEF t
  <2> QED  BY <2>1 DEF Observed, Exact, Comparable
<1>3. CASE s.pc = "fetch"
  <2>1. IDDone(s)
    BY <1>3, SkipSafe DEF SafeSession
  <2>2. session' = NextID(s)
    BY <1>3 DEF OpenFails
  <2>3. Observed(NextID(s)) /\ Exact(NextID(s))
    BY <1>1, <2>1, NextIDExact
  <2> QED  BY <2>2, <2>3
<1> QED  BY <1>2, <1>3

LEMMA BlockHashExact ==
  ASSUME ChainOK, SafeSession(session), Observed(session), Exact(session), ReadBlockHash
  PROVE  Observed(session') /\ Exact(session')
<1> DEFINE s == session
           t == [s EXCEPT !.hash = chain[s.at].name]
<1>0. DOMAIN s = Fields /\ s.pc \in {"term", "fetch"} /\ s.at # 0
  BY DEF SafeSession, Typed, ReadBlockHash, At
<1>1. s.seen # Nothing => chain[s.at] = s.seen
  BY <1>0, OpensSeen
<1>2. CASE chain[s.at] = Nothing
  <2>1. s.seen = Nothing /\ OpenFails
    BY <1>1, <1>2 DEF ReadBlockHash
  <2> QED  BY <1>0, <2>1, FailsExact
<1>3. CASE chain[s.at] # Nothing
  <2>1. session' = t
    BY <1>3 DEF ReadBlockHash
  <2>2. /\ t.query = s.query /\ t.at = s.at /\ t.size = s.size /\ t.cursor = s.cursor
        /\ t.page = s.page /\ t.got = s.got /\ t.seen = s.seen /\ t.hash = chain[s.at].name
        /\ t.addr = s.addr /\ t.last = s.last /\ t.ids = s.ids /\ t.batch = s.batch
        /\ t.pc = s.pc /\ t.todo = s.todo
    BY <1>0 DEF Fields
  <2> HIDE DEF t
  <2>3. /\ Wanted(t) = Wanted(s) /\ Answer(t) = Answer(s) /\ (Comparable(t) <=> Comparable(s))
        /\ (Right(t) <=> Right(s)) /\ Left(t) = Left(s)
    BY <2>2 DEF Wanted, Answer, Items, Comparable, Right, Left
  <2>4. Observed(t)
    BY <1>1, <2>2 DEF Observed, Now
  <2>5. (Evaluating(s) => Evaluating(t)) /\ (Covers(s, Left(s)) => Covers(t, Left(t)))
    BY <2>2, <2>3 DEF Evaluating, Covers, Settled
  <2>6. Exact(t)
    BY <2>2, <2>3, <2>5 DEF Exact
  <2> QED  BY <2>1, <2>4, <2>6
<1> QED  BY <1>2, <1>3

\* The entity is fetched as the version has it.
LEMMA FetchExact ==
  ASSUME ChainOK, SafeSession(session), Observed(session), Exact(session), FetchEntity
  PROVE  Observed(session') /\ Exact(session')
<1> DEFINE s == session
           e == OpenedVersion.ents[s.addr]
           item == [id |-> s.last, value |-> e]
           t == [s EXCEPT !.page = Append(@, item)]
<1>0. DOMAIN s = Fields /\ s.pc = "fetch" /\ StateOpens
  BY DEF SafeSession, Typed, FetchEntity, At
<1>1. s.seen # Nothing => OpenedVersion = s.seen
  BY <1>0, OpensSeen
<1>2. CASE OpenedVersion = Nothing
  <2>1. s.seen = Nothing /\ OpenFails
    BY <1>1, <1>2 DEF FetchEntity
  <2> QED  BY <1>0, <2>1, FailsExact
<1>3. CASE OpenedVersion # Nothing
  <2>1. session' = NextID(IF e = Nothing THEN s ELSE t)
    BY <1>3 DEF FetchEntity
  <2>2. IDDone(s) /\ s.last \in Left(s)
    BY <1>0, SkipSafe DEF SafeSession, LastOfBatch, Left
  <2>3. /\ IDDone(t) /\ Items(t) = Items(s) \cup {item} /\ DOMAIN t = Fields
        /\ \A f \in Fields \ {"page"} : t[f] = s[f]
    <3>1. Ahead(s, Left(s)) /\ Len(s.page) + Cardinality(s.batch) <= s.size
      BY <1>0 DEF SafeSession
    <3> HIDE DEF e
    <3> QED  BY <2>2, <3>1, AppendSafe
  <2>4. ASSUME Comparable(s)
        PROVE  /\ Right(s) /\ Covers(s, Left(s)) /\ s.last \in Wanted(s)
               /\ e = s.seen.ents[s.seen.ids[s.last]] /\ e # Nothing
    <3>1. Right(s) /\ Covers(s, Left(s)) /\ s.addr = s.seen.ids[s.last]
      BY <1>0, <2>4 DEF Exact
    <3>2. s.last \in Wanted(s)
      BY <2>2, <3>1 DEF Covers
    <3>3. s.last \in Id /\ s.seen.ids[s.last] # Nothing
      BY <2>4, <3>2, WantedLive
    <3>4. VersionOK(s.seen) /\ OpenedVersion = s.seen
      BY <1>1, <2>4, OpensSeen DEF Comparable
    <3>5. e = s.seen.ents[s.seen.ids[s.last]] /\ e \in Value
      BY <3>1, <3>3, <3>4 DEF VersionOK
    <3> QED  BY <3>1, <3>2, <3>5, ServerAssumption
  <2>5. CASE e = Nothing
    <3>1. ~Comparable(s)
      BY <2>4, <2>5
    <3>2. Observed(NextID(s)) /\ Exact(NextID(s))
      BY <2>2, <3>1, NextIDExact
    <3> QED  BY <2>1, <2>5, <3>2
  <2>6. CASE e # Nothing
    <3>0. item.id = s.last /\ item.value = e
      OBVIOUS
    <3> HIDE DEF t, item, e
    <3>1. /\ t.query = s.query /\ t.at = s.at /\ t.size = s.size /\ t.got = s.got
          /\ t.seen = s.seen /\ t.hash = s.hash /\ t.last = s.last /\ Left(t) = Left(s)
      BY <2>3 DEF Fields, Left
    <3>2. /\ Wanted(t) = Wanted(s) /\ (Comparable(t) <=> Comparable(s)) /\ Observed(t)
          /\ Answer(t) = Answer(s) \cup {item}
      BY <2>3, <3>1 DEF Wanted, Comparable, Observed, Now, Answer
    <3>3. Comparable(t) => Right(t)
      BY <2>4, <3>0, <3>1, <3>2 DEF Right
    <3>4. Comparable(t) => Covers(t, Left(t) \ {t.last})
      BY <2>4, <3>0, <3>1, <3>2 DEF Covers, Settled
    <3>5. Observed(NextID(t)) /\ Exact(NextID(t))
      BY <2>3, <3>2, <3>3, <3>4, NextIDExact
    <3> QED  BY <2>1, <2>6, <3>5
  <2> QED  BY <2>5, <2>6
<1> QED  BY <1>2, <1>3

LEMMA TermStepExact ==
  ASSUME ChainOK, SafeSession(session), Observed(session), Exact(session),
         ReadTerm \/ ScanTerm
  PROVE  Observed(session') /\ Exact(session')
<1> DEFINE first == Head(session.todo)
<1>0. session.pc = "term"
  BY DEF ReadTerm, ScanTerm, At
<1>1. CASE ReadTerm
  <2>1. session.seen # Nothing => OpenedVersion = session.seen
    BY <1>1, OpensSeen DEF ReadTerm
  <2>2. CASE OpenedVersion = Nothing
    <3>1. session.seen = Nothing /\ OpenFails
      BY <1>1, <2>1, <2>2 DEF ReadTerm
    <3> QED  BY <1>0, <3>1, FailsExact
  <2>3. CASE OpenedVersion # Nothing
    <3>1. TermRead(Bitmap(OpenedVersion, first.match))
      BY <1>1, <2>3 DEF ReadTerm
    <3>2. Comparable(session) => Bitmap(OpenedVersion, first.match) = Bitmap(session.seen, first.match)
      BY <2>1 DEF Comparable
    <3> QED  BY <1>0, <3>1, <3>2, TermReadExact
  <2> QED  BY <2>2, <2>3
<1>2. CASE ScanTerm
  <2>1. TermRead(Bitmap(chain[top], first.match)) /\ first.scan
    BY <1>2 DEF ScanTerm
  <2>2. ASSUME Comparable(session)  PROVE chain[top] = session.seen
    <3>1. session.todo \in Seq(Terms(session.query)) /\ session.todo # <<>>
      BY <1>0, <2>2 DEF Exact, Evaluating
    <3>2. first \in Terms(session.query)
      BY <3>1, FirstTerm
    <3>3. session.at = 0
      BY <2>1, <2>2, <3>2 DEF Comparable, Terms
    <3> QED  BY <2>2, <3>3, OpensSeen DEF Comparable
  <2> QED  BY <1>0, <2>1, <2>2, TermReadExact
<1> QED  BY <1>1, <1>2

LEMMA HeadNumberExact ==
  ASSUME SafeSession(session), Observed(session), Exact(session), ReadHeadNumber
  PROVE  Observed(session') /\ Exact(session')
<1> DEFINE s == session
           t == [s EXCEPT !.pc = "term"]
<1>0. DOMAIN s = Fields /\ s.pc = "start" /\ session' = t
  BY DEF SafeSession, Typed, ReadHeadNumber, At
<1>1. /\ t.query = s.query /\ t.at = s.at /\ t.size = s.size /\ t.cursor = s.cursor
      /\ t.page = s.page /\ t.got = s.got /\ t.seen = s.seen /\ t.hash = s.hash
      /\ t.ids = s.ids /\ t.pc = "term" /\ t.todo = s.todo
  BY <1>0 DEF Fields
<1> HIDE DEF t
<1>2. /\ Wanted(t) = Wanted(s) /\ Answer(t) = Answer(s) /\ (Comparable(t) <=> Comparable(s))
      /\ (Right(t) <=> Right(s)) /\ Observed(t)
  BY <1>1 DEF Wanted, Answer, Items, Comparable, Right, Observed, Now
<1>3. Evaluating(s) => Evaluating(t)
  BY <1>1, <1>2 DEF Evaluating, Settled
<1>4. Exact(t)
  BY <1>0, <1>1, <1>2, <1>3 DEF Exact
<1> QED  BY <1>0, <1>2, <1>4

\* A writer that leaves the version alone leaves the session's account right.
LEMMA WriteExact ==
  ASSUME ChainOK, SafeSession(session), Observed(session), Exact(session), session # Nothing,
         Write
  PROVE  Observed(session)' /\ Exact(session)'
<1> DEFINE s == session
           seen == IF chain'[IF s.at = 0 THEN top' ELSE s.at] = s.seen THEN s.seen ELSE Nothing
           t == [s EXCEPT !.seen = seen]
<1>0. DOMAIN s = Fields /\ session' = t
  BY DEF SafeSession, Typed, Write, Watched
<1>1. Unresolved
  BY ChainStep DEF Write
<1>2. /\ t.query = s.query /\ t.at = s.at /\ t.size = s.size /\ t.cursor = s.cursor
      /\ t.page = s.page /\ t.got = s.got /\ t.seen = seen /\ t.hash = s.hash
      /\ t.ids = s.ids /\ t.batch = s.batch /\ t.pc = s.pc /\ t.todo = s.todo
      /\ t.addr = s.addr /\ t.last = s.last
  <2> HIDE DEF seen
  <2> QED  BY <1>0 DEF Fields
<1>3. seen # Nothing => s.seen # Nothing /\ seen = s.seen
  OBVIOUS
<1>4. Observed(session)'
  <2>1. seen # Nothing => chain'[IF s.at = 0 THEN top' ELSE s.at] = s.seen
    OBVIOUS
  <2> HIDE DEF t, seen
  <2> QED  BY <1>0, <1>2, <1>3, <2>1 DEF Observed, Now
<1>5. ASSUME Comparable(t)
      PROVE  /\ Comparable(s) /\ t.seen = s.seen /\ Wanted(t) = Wanted(s) /\ Answer(t) = Answer(s)
             /\ Left(t) = Left(s)
  <2> HIDE DEF t, seen
  <2> QED  BY <1>2, <1>3, <1>5 DEF Comparable, Wanted, Answer, Items, Left
<1>6. ASSUME Comparable(s), NEW i \in Wanted(s), idmap[i] = Nothing
      PROVE  idmap'[i] = Nothing
  <2>1. i \in Id /\ s.seen.ids[i] # Nothing
    BY <1>6, WantedLive
  <2>2. Now(s) \in Base .. top /\ chain[Now(s)] = s.seen
    BY <1>6, OpensSeen DEF Comparable, Observed
  <2> QED  BY <1>1, <1>6, <2>1, <2>2 DEF Unresolved
<1> HIDE DEF t, seen
<1>7. ASSUME Comparable(t), NEW i \in Wanted(s), Settled(s, i)
      PROVE  idmap'[i] = Nothing \/ \E item \in Answer(t) : item.id = i
  BY <1>5, <1>6, <1>7 DEF Settled
<1>8. Exact(session)'
  <2> SUFFICES ASSUME Comparable(t)
               PROVE  /\ Right(t)
                      /\ t.pc \in {"start", "term"} => Evaluating(session)'
                      /\ t.pc \in {"resolve", "fetch", "more", "done"} => Covers(session, Left(session))'
                      /\ t.pc = "fetch" => t.addr = t.seen.ids[t.last]
    BY <1>0 DEF Exact
  <2>1. Comparable(s) /\ t.seen = s.seen /\ Wanted(t) = Wanted(s) /\ Answer(t) = Answer(s)
        /\ Left(t) = Left(s)
    BY <1>5
  <2>2. Right(t)
    BY <2>1 DEF Exact, Right
  <2>3. ASSUME t.pc \in {"start", "term"}  PROVE Evaluating(session)'
    <3>1. Evaluating(s)
      BY <1>2, <2>1, <2>3 DEF Exact
    <3>2. \A i \in Wanted(t) : t.cursor # Nothing /\ i >= t.cursor =>
            (idmap'[i] = Nothing \/ \E item \in Answer(t) : item.id = i)
      BY <1>2, <1>7, <2>1, <3>1 DEF Evaluating
    <3> QED  BY <1>0, <1>2, <2>1, <3>1, <3>2 DEF Evaluating, Settled
  <2>4. ASSUME t.pc \in {"resolve", "fetch", "more", "done"}
        PROVE  Covers(session, Left(session))'
    <3>1. Covers(s, Left(s))
      BY <1>2, <2>1, <2>4 DEF Exact
    <3>2. \A i \in Wanted(t) \ Left(t) :
            (idmap'[i] = Nothing \/ \E item \in Answer(t) : item.id = i)
      BY <1>7, <2>1, <3>1 DEF Covers
    <3> QED  BY <1>0, <2>1, <3>1, <3>2 DEF Covers, Settled
  <2>5. t.pc = "fetch" => t.addr = t.seen.ids[t.last]
    BY <1>2, <2>1 DEF Exact
  <2> QED  BY <2>2, <2>3, <2>4, <2>5
<1> QED  BY <1>4, <1>8

(***************************************************************************)
(* The theorem.                                                            *)
(***************************************************************************)
\* ExactInv is kept by every step.
LEMMA NextExact ==
  ASSUME ExactInv, [Next]_vars
  PROVE  ExactInv'
<1>1. SessionSafe'
  BY NextSafe DEF ExactInv
<1>2. ChainOK'
  <2>1. CASE UNCHANGED <<chain, top, idmap>>
    BY <2>1, SameChain DEF ExactInv
  <2>2. CASE Write
    BY <2>2, ChainStep DEF ExactInv, Write
  <2> QED
    BY <2>1, <2>2 DEF Next, vars, chainVars, Ask, ReadHeadNumber, ReadBlockHash, ReadTerm,
       ScanTerm, ResolveID, FetchEntity, FollowCursor, Finish, Restart
<1>3. SUFFICES ASSUME session' # Nothing  PROVE Observed(session)' /\ Exact(session)'
  BY <1>1, <1>2 DEF ExactInv
<1>4. ASSUME UNCHANGED chainVars, Observed(session'), Exact(session')
      PROVE  Observed(session)' /\ Exact(session)'
  BY <1>4 DEF chainVars, Observed, Now, Exact, Evaluating, Covers, Settled
<1>5. session # Nothing => SafeSession(session) /\ Observed(session) /\ Exact(session)
  BY DEF ExactInv, SessionSafe
<1>6. ASSUME NEW query \in Query, NEW at \in {0} \cup Version, NEW size \in PageSize,
             Ask(query, at, size)
      PROVE  Observed(session)' /\ Exact(session)'
  <2>1. at \in {0} \cup Sealed /\ session' = NewSession(query, at, size) /\ UNCHANGED chainVars
    BY <1>6 DEF Ask
  <2>2. Observed(session') /\ Exact(session')
    BY <2>1, AskExact DEF ExactInv
  <2> QED  BY <2>1, <2>2, <1>4
<1>7. CASE ReadHeadNumber
  BY <1>4, <1>5, <1>7, HeadNumberExact DEF ReadHeadNumber, At
<1>8. CASE ReadBlockHash
  BY <1>4, <1>5, <1>8, BlockHashExact DEF ReadBlockHash, At, ExactInv
<1>9. CASE ReadTerm \/ ScanTerm
  BY <1>4, <1>5, <1>9, TermStepExact DEF ReadTerm, ScanTerm, At, ExactInv
<1>10. CASE ResolveID
  BY <1>4, <1>5, <1>10, ResolveExact DEF ResolveID, At, ExactInv
<1>11. CASE FetchEntity
  BY <1>4, <1>5, <1>11, FetchExact DEF FetchEntity, At, ExactInv
<1>12. CASE FollowCursor
  <2>1. SafeSession(session) /\ Observed(session) /\ Exact(session) /\ session.pc = "more"
    BY <1>5, <1>12 DEF FollowCursor, At
  <2>2. Observed(session') /\ Exact(session')
    BY <1>12, <2>1, FollowExact DEF FollowCursor
  <2> QED  BY <1>4, <1>12, <2>2 DEF FollowCursor
<1>13. CASE Finish \/ Restart
  BY <1>3, <1>13 DEF Finish, Restart
<1>14. CASE Write
  <2>1. session # Nothing
    BY <1>3, <1>14 DEF Write, Watched
  <2> QED  BY <1>5, <1>14, <2>1, WriteExact DEF ExactInv
<1>15. CASE UNCHANGED vars
  <2>1. session # Nothing /\ UNCHANGED chainVars /\ session' = session
    BY <1>3, <1>15 DEF vars
  <2> QED  BY <1>4, <1>5, <2>1
<1> QED
  BY <1>6, <1>7, <1>8, <1>9, <1>10, <1>11, <1>12, <1>13, <1>14, <1>15 DEF Next

\* handler.Query beside any writers: ExactInv is an invariant of the server.
THEOREM ExactInvariant == Spec => []ExactInv
<1>1. ServerInit => ExactInv
  BY InitChainOK DEF ServerInit, ExactInv, SessionSafe
<1>2. ExactInv /\ [Next]_vars => ExactInv'
  BY NextExact
<1> QED  BY <1>1, <1>2, PTL DEF Spec

\* handler.Query over all its pages: if the head did not change, or the block
\* asked for was not reverted, the session returned every matching entity whose
\* ID resolves, as the block has it, and nothing else.
THEOREM SessionsAlwaysExact == Spec => []SessionExact
<1>1. ExactInv => SessionExact
  <2> SUFFICES ASSUME ExactInv, At("done"), session.seen # Nothing, session.size > 0,
                      session.at = 0 \/ \A k \in DOMAIN session.query : ~session.query[k].scan
               PROVE  /\ \A item \in Answer(session) :
                           /\ item.id \in Wanted(session)
                           /\ item.value = session.seen.ents[session.seen.ids[item.id]]
                      /\ \A i \in Wanted(session) :
                           idmap[i] # Nothing => \E item \in Answer(session) : item.id = i
    BY DEF SessionExact
  <2>1. Comparable(session) /\ SafeSession(session) /\ Exact(session) /\ session.pc = "done"
    BY DEF Comparable, ExactInv, SessionSafe, At
  <2>2. Right(session) /\ Covers(session, Left(session))
    BY <2>1 DEF Exact
  <2>3. Left(session) = {}
    BY <2>1 DEF SafeSession, Left
  <2> QED  BY <2>2, <2>3 DEF Right, Covers, Settled
<1> QED  BY <1>1, ExactInvariant, PTL
=============================================================================
