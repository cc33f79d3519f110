---------------------------- MODULE IndexProofs -----------------------------
(***************************************************************************)
(* The inverted index: at every canonical block the bitmap of a pair holds *)
(* exactly the IDs of the live entities that carry the pair, so a query    *)
(* evaluated on bitmaps means what it says about entities.                 *)
(***************************************************************************)
EXTENDS IDProofs

(***************************************************************************)
(* The inductive invariant.                                                *)
(***************************************************************************)
\* The bitmap a slot points to, and the IDs it should hold.
bitmapAt(t, p) == IF t.annot[p] = Absent THEN {} ELSE t.annot[p]

carriersAt(t, p) ==
  {i \in ID : t.ids[i] # Absent /\ p \in allAnnotations(t.code[t.ids[i]])}

draftCarriers(p) ==
  {i \in ID : cs.state.ids[i] # Absent
                /\ p \in allAnnotations(getEntity(cs, cs.state.ids[i]))}

\* Every bitmap a canonical state points to is in the blob store: blobs are
\* never collected, so a revert finds those of its ancestor.
BlobsKept ==
  \A n \in Versions, p \in Pair :
    RootAt(n).annot[p] # Absent => RootAt(n).annot[p] \in arkiv_bm

BitmapsExact ==
  \A n \in Versions, p \in Pair : bitmapAt(RootAt(n), p) = carriersAt(RootAt(n), p)

\* The block in progress: what a handler loads for a pair, dirty or not.
DraftExact ==
  cs # Absent => \A p \in Pair : loadBitmap(cs, p) = draftCarriers(p)

BitmapInv == IDInv /\ BlobsKept /\ BitmapsExact /\ DraftExact

\* What is loaded for a pair after the bitmaps of rem and add are mutated.
LEMMA MutateLoad ==
  ASSUME DbTypeOK, NEW c \in CacheStoreRec, NEW d, NEW i \in ID, NEW rem, NEW add,
         d.dirtyBitmaps = mutateBitmaps(c, rem, add, i), NEW p \in Pair
  PROVE /\ loadBitmap(c, p) \subseteq ID
        /\ loadBitmap(d, p) = IF p \in add THEN loadBitmap(c, p) \cup {i}
                              ELSE IF p \in rem THEN loadBitmap(c, p) \ {i}
                              ELSE loadBitmap(c, p)
PROOF
<1>1. c.dirtyBitmaps \in [Pair -> {Absent} \cup Bitmap]
  BY DEF CacheStoreRec
<1>2. arkiv_annot \in [Pair -> {Absent} \cup Bitmap]
  BY DEF DbTypeOK
<1>3. loadBitmap(c, p) \in Bitmap /\ loadBitmap(c, p) \subseteq ID
  BY <1>1, <1>2 DEF loadBitmap, Bitmap
<1>4. loadBitmap(c, p) \cup {i} \in Bitmap /\ loadBitmap(c, p) \ {i} \in Bitmap
  BY <1>3 DEF Bitmap
<1>5. /\ loadBitmap(c, p) \cup {i} # Absent /\ loadBitmap(c, p) \ {i} # Absent
  BY <1>4, AbsentAssumption
<1>6. d.dirtyBitmaps[p] = CASE p \in add -> loadBitmap(c, p) \cup {i}
                            [] p \in rem \ add -> loadBitmap(c, p) \ {i}
                            [] OTHER -> c.dirtyBitmaps[p]
  BY DEF mutateBitmaps
<1>7. CASE p \in add
  <2>1. d.dirtyBitmaps[p] = loadBitmap(c, p) \cup {i}
    BY <1>6, <1>7
  <2>. QED
    BY <1>3, <1>5, <1>7, <2>1 DEF loadBitmap
<1>8. CASE p \in rem \ add
  <2>1. d.dirtyBitmaps[p] = loadBitmap(c, p) \ {i}
    BY <1>6, <1>8
  <2>. QED
    BY <1>3, <1>5, <1>8, <2>1 DEF loadBitmap
<1>9. CASE p \notin rem /\ p \notin add
  <2>1. d.dirtyBitmaps[p] = c.dirtyBitmaps[p]
    BY <1>6, <1>9
  <2>. QED
    BY <1>3, <1>9, <2>1 DEF loadBitmap
<1>. QED
  BY <1>7, <1>8, <1>9

\* What is loaded for a pair is what the slots and entities of c say.
ExactIn(c, p) ==
  loadBitmap(c, p) = {i \in ID : c.state.ids[i] # Absent
                                   /\ p \in allAnnotations(getEntity(c, c.state.ids[i]))}

\* The handler that makes d of the block works on one slot k, held by one
\* address b, and leaves the bits of k as the new entity of b has them.
SlotStep(d, b, k, rem, add) ==
  /\ d.dirtyBitmaps = mutateBitmaps(cs, rem, add, k)
  /\ \A j \in ID \ {k} : d.state.ids[j] = cs.state.ids[j] /\ cs.state.ids[j] # b
  /\ \A a \in Addr \ {b} : getEntity(d, a) = getEntity(cs, a)
  /\ \A p \in Pair : p \in add \/ (p \notin rem /\ k \in loadBitmap(cs, p))
                       <=> /\ d.state.ids[k] # Absent
                           /\ p \in allAnnotations(getEntity(d, d.state.ids[k]))

\* A handler that works on one slot k, held by one address b, keeps the
\* bitmaps exact when it keeps the bits of k exact.
LEMMA OneSlot ==
  ASSUME DbTypeOK, cs \in CacheStoreRec, cs # Absent, DraftExact,
         NEW d, NEW b \in Addr, NEW k \in ID, NEW rem, NEW add,
         SlotStep(d, b, k, rem, add), NEW p \in Pair
  PROVE ExactIn(d, p)
PROOF
<1>1. /\ loadBitmap(cs, p) \subseteq ID
      /\ loadBitmap(d, p) = IF p \in add THEN loadBitmap(cs, p) \cup {k}
                            ELSE IF p \in rem THEN loadBitmap(cs, p) \ {k}
                            ELSE loadBitmap(cs, p)
  BY MutateLoad DEF SlotStep
<1>2. loadBitmap(d, p) \subseteq ID
  BY <1>1
<1>3. k \in loadBitmap(d, p) <=> /\ d.state.ids[k] # Absent
                                 /\ p \in allAnnotations(getEntity(d, d.state.ids[k]))
  BY <1>1 DEF SlotStep
<1>4. ASSUME NEW j \in ID \ {k}
      PROVE j \in loadBitmap(d, p) <=> /\ d.state.ids[j] # Absent
                                       /\ p \in allAnnotations(getEntity(d, d.state.ids[j]))
  <2>1. j \in loadBitmap(d, p) <=> j \in loadBitmap(cs, p)
    BY <1>1
  <2>2. j \in loadBitmap(cs, p) <=>
          cs.state.ids[j] # Absent /\ p \in allAnnotations(getEntity(cs, cs.state.ids[j]))
    BY DEF DraftExact, draftCarriers
  <2>3. cs.state.ids[j] \in {Absent} \cup Addr
    BY DEF CacheStoreRec, Trie
  <2>4. d.state.ids[j] = cs.state.ids[j] /\ cs.state.ids[j] # b
    BY DEF SlotStep
  <2>5. cs.state.ids[j] # Absent => getEntity(d, d.state.ids[j]) = getEntity(cs, cs.state.ids[j])
    BY <2>3, <2>4 DEF SlotStep
  <2>. QED
    BY <2>1, <2>2, <2>4, <2>5
<1>. QED
  BY <1>2, <1>3, <1>4 DEF ExactIn

\* The entity a handler changes, its slot, and the bits of that slot.
LEMMA TargetSlot ==
  ASSUME BitmapInv, cs # Absent, NEW a \in Addr, getEntity(cs, a) # Absent,
         entityID(cs, a) # Absent
  PROVE /\ cs \in CacheStoreRec /\ DbTypeOK /\ entityID(cs, a) \in ID
        /\ getEntity(cs, a) \in EntityRec
        /\ \A j \in ID : cs.state.ids[j] = a <=> j = entityID(cs, a)
        /\ \A p \in Pair : entityID(cs, a) \in loadBitmap(cs, p)
                             <=> p \in allAnnotations(getEntity(cs, a))
PROOF
<1>0. IDInv /\ TypeInv /\ DraftExact /\ DraftSlots
  BY DEF BitmapInv, IDInv, HistoryInv, ChainInv, DraftIDs
<1>1. cs \in CacheStoreRec /\ DbTypeOK
  BY <1>0, IDTypes
<1>2. entityID(cs, a) \in ID /\ getEntity(cs, a) \in EntityRec
  BY <1>1, ReadTypes
<1>3. \A j \in ID : cs.state.ids[j] = a => j = entityID(cs, a)
  BY <1>0, SlotOfID
<1>4. \E j \in ID : cs.state.ids[j] = a
  BY <1>0 DEF DraftSlots
<1>5. cs.state.ids[entityID(cs, a)] = a
  BY <1>3, <1>4
<1>6. \A p \in Pair : entityID(cs, a) \in loadBitmap(cs, p)
                        <=> p \in allAnnotations(getEntity(cs, a))
  BY <1>0, <1>2, <1>5, AbsentAssumption DEF DraftExact, draftCarriers
<1>. QED
  BY <1>1, <1>2, <1>3, <1>5, <1>6

\* User attributes never collide with a built-in pair, so replacing the one
\* built-in pair a handler replaces gives the pairs of the new entity.
LEMMA ReplacedPair ==
  ASSUME NEW e \in EntityRec, NEW x, NEW p
  PROVE /\ p \in allAnnotations([e EXCEPT !.expiresAt = x]) <=>
             p = <<"$expiration", x>>
               \/ (p # <<"$expiration", e.expiresAt>> /\ p \in allAnnotations(e))
        /\ p \in allAnnotations([e EXCEPT !.owner = x]) <=>
             p = <<"$owner", x>> \/ (p # <<"$owner", e.owner>> /\ p \in allAnnotations(e))
PROOF
<1>1. \A q \in ContentPairs[e.content] : q[1] # "$expiration" /\ q[1] # "$owner"
  BY ContentAssumption DEF EntityRec
<1>2. /\ \A y : <<"$expiration", y>>[1] = "$expiration" /\ <<"$owner", y>>[1] = "$owner"
      /\ \A k, l, y, z : <<k, y>> = <<l, z>> <=> k = l /\ y = z
  OBVIOUS
<1>3. \A y : /\ <<"$expiration", y>> \notin ContentPairs[e.content]
             /\ <<"$owner", y>> \notin ContentPairs[e.content]
  BY <1>1, <1>2
<1> DEFINE f == [e EXCEPT !.expiresAt = x]
           g == [e EXCEPT !.owner = x]
<1>4. /\ f.expiresAt = x /\ f.content = e.content /\ f.owner = e.owner /\ f.key = e.key
      /\ f.creator = e.creator /\ f.createdAt = e.createdAt /\ f.lastModified = e.lastModified
  BY DEF EntityRec
<1>5. /\ g.owner = x /\ g.content = e.content /\ g.expiresAt = e.expiresAt /\ g.key = e.key
      /\ g.creator = e.creator /\ g.createdAt = e.createdAt /\ g.lastModified = e.lastModified
  BY DEF EntityRec
<1> DEFINE others == {<<"$all", "true">>, <<"$creator", e.creator>>,
                      <<"$createdAtBlock", e.createdAt>>,
                      <<"$lastModifiedAtBlock", e.lastModified>>, <<"$key", e.key>>}
                       \cup ContentPairs[e.content]
<1>6. /\ allAnnotations(e) =
           others \cup {<<"$owner", e.owner>>, <<"$expiration", e.expiresAt>>}
      /\ allAnnotations(f) = others \cup {<<"$owner", e.owner>>, <<"$expiration", x>>}
      /\ allAnnotations(g) = others \cup {<<"$owner", x>>, <<"$expiration", e.expiresAt>>}
  <2>1. allAnnotations(e) =
           others \cup {<<"$owner", e.owner>>, <<"$expiration", e.expiresAt>>}
    BY DEF allAnnotations, builtinAnnotations, userAnnotations
  <2>2. allAnnotations(f) = others \cup {<<"$owner", e.owner>>, <<"$expiration", x>>}
    BY <1>4 DEF allAnnotations, builtinAnnotations, userAnnotations
  <2>3. allAnnotations(g) = others \cup {<<"$owner", x>>, <<"$expiration", e.expiresAt>>}
    BY <1>5 DEF allAnnotations, builtinAnnotations, userAnnotations
  <2>. QED
    BY <2>1, <2>2, <2>3
<1>7. \A y, z : /\ <<"$expiration", y>> \notin others /\ <<"$owner", y>> \notin others
                /\ <<"$expiration", y>> # <<"$owner", z>>
  <2> SUFFICES ASSUME NEW y, NEW z
               PROVE /\ <<"$expiration", y>> \notin others /\ <<"$owner", y>> \notin others
                     /\ <<"$expiration", y>> # <<"$owner", z>>
    OBVIOUS
  <2>1. \A k, l : k # l => \A u : <<k, y>> # <<l, u>>
    BY <1>2
  <2>. QED
    BY <1>3, <2>1
<1> HIDE DEF others, f, g
<1>8. p \in allAnnotations(f) <=>
        p = <<"$expiration", x>>
          \/ (p # <<"$expiration", e.expiresAt>> /\ p \in allAnnotations(e))
  BY <1>6, <1>7
<1>9. p \in allAnnotations(g) <=>
        p = <<"$owner", x>> \/ (p # <<"$owner", e.owner>> /\ p \in allAnnotations(e))
  BY <1>6, <1>7
<1>. QED
  BY <1>8, <1>9 DEF f, g

\* Each handler keeps the bitmaps of the block exact.
LEMMA CreateExact ==
  ASSUME BitmapInv, NEW op \in CreateOp, Create(op), NEW p \in Pair
  PROVE ExactIn(cs', p)
PROOF
<1>0. /\ TypeInv /\ ChainInv /\ IDInv /\ DraftExact /\ StagedNew /\ DraftSlots /\ SlotsIssued
      /\ cs # Absent
  BY DEF BitmapInv, IDInv, HistoryInv, ChainInv, DraftIDs, Create
<1>1. cs \in CacheStoreRec /\ DbTypeOK /\ cs.state.count \in Nat
      /\ cs.state.ids \in [ID -> {Absent} \cup Addr]
  BY <1>0, IDTypes
<1> DEFINE k == cs.state.count + 1
           b == op.addr
           e == newEntity(cs, op)
           d == processCreate(cs, op)
<1>2. /\ cs' = d /\ b \in Addr /\ b \notin pending.minted /\ k \in ID
  BY <1>1, BoundsAssumption DEF Create, ApplyOp, ContractAllows, CreateOp, ID
<1>3. /\ d.dirtyBitmaps = mutateBitmaps(cs, {}, allAnnotations(e), k)
      /\ d.state.ids = [cs.state.ids EXCEPT ![k] = b]
  BY <1>1 DEF processCreate, CacheStoreRec, Trie
<1>4. \A a \in Addr : getEntity(d, a) = IF a = b THEN e ELSE getEntity(cs, a)
  BY <1>1, HandlerEntity
<1>5. \A j \in ID : cs.state.ids[j] # b
  <2>1. tip \in Versions /\ head.root = RootAt(tip) /\ b # Absent
    BY <1>0, <1>2, TipVersion, AbsentAssumption
  <2>. SUFFICES ASSUME NEW j \in ID, cs.state.ids[j] = b PROVE FALSE
    OBVIOUS
  <2>2. CASE cs.state.ids[j] = head.root.ids[j]
    BY <1>0, <1>2, <2>1, <2>2 DEF SlotsIssued, StagedNew
  <2>3. CASE cs.state.ids[j] = cs.id[j]
    BY <1>0, <1>2, <2>1, <2>3 DEF StagedNew
  <2>. QED
    BY <1>0, <2>1, <2>2, <2>3 DEF DraftSlots
<1>6. cs.state.ids[k] = Absent
  <2>1. head.root.count \in Nat
    BY <1>0, IDTypes
  <2>2. cs.id[k] = Absent
    BY <1>0, <1>1, <1>2 DEF StagedNew
  <2>3. ~(k <= head.root.count)
    BY <1>0, <1>1, <2>1 DEF StagedNew
  <2>. QED
    BY <1>0, <1>2, <2>2, <2>3 DEF DraftSlots
<1>7. \A q \in Pair : k \notin loadBitmap(cs, q)
  BY <1>0, <1>6 DEF DraftExact, draftCarriers
<1>8. d.state.ids[k] = b /\ b # Absent
      /\ \A j \in ID \ {k} : d.state.ids[j] = cs.state.ids[j] /\ cs.state.ids[j] # b
  BY <1>1, <1>2, <1>3, <1>5, AbsentAssumption
<1>9. \A q \in Pair : q \in allAnnotations(e) \/ (q \notin {} /\ k \in loadBitmap(cs, q))
                        <=> /\ d.state.ids[k] # Absent
                            /\ q \in allAnnotations(getEntity(d, d.state.ids[k]))
  BY <1>2, <1>4, <1>7, <1>8
<1>10. SlotStep(d, b, k, {}, allAnnotations(e))
  BY <1>3, <1>4, <1>8, <1>9 DEF SlotStep
<1> HIDE DEF k, b, e, d
<1>. QED
  BY <1>0, <1>1, <1>2, <1>10, OneSlot

LEMMA DeleteExact ==
  ASSUME BitmapInv, NEW op \in DeleteOp \cup ExpireOp, Delete(op), NEW p \in Pair
  PROVE ExactIn(cs', p)
PROOF
<1>0. DraftExact /\ cs # Absent
  BY DEF BitmapInv, Delete
<1> DEFINE b == op.addr
           k == entityID(cs, b)
           rem == allAnnotations(getEntity(cs, b))
           d == deleteEntity(cs, op)
<1>1. /\ cs' = d /\ b \in Addr /\ getEntity(cs, b) # Absent /\ k # Absent
  BY DEF Delete, ApplyOp, Applicable, DeleteOp, ExpireOp
<1>2. /\ cs \in CacheStoreRec /\ DbTypeOK /\ k \in ID
      /\ \A j \in ID : cs.state.ids[j] = b <=> j = k
      /\ \A q \in Pair : k \in loadBitmap(cs, q) <=> q \in rem
  BY <1>0, <1>1, TargetSlot
<1>3. /\ d.dirtyBitmaps = mutateBitmaps(cs, rem, {}, k)
      /\ d.state.ids = [cs.state.ids EXCEPT ![k] = Absent]
  BY <1>2 DEF deleteEntity, CacheStoreRec, Trie
<1>4. \A a \in Addr : getEntity(d, a) = IF a = b THEN Absent ELSE getEntity(cs, a)
  BY <1>2, HandlerEntity
<1>5. /\ d.state.ids[k] = Absent
      /\ \A j \in ID \ {k} : d.state.ids[j] = cs.state.ids[j] /\ cs.state.ids[j] # b
  <2>1. cs.state.ids \in [ID -> {Absent} \cup Addr]
    BY <1>2 DEF CacheStoreRec, Trie
  <2>. QED
    BY <1>2, <1>3, <2>1
<1>6. \A q \in Pair : q \in {} \/ (q \notin rem /\ k \in loadBitmap(cs, q))
                        <=> /\ d.state.ids[k] # Absent
                            /\ q \in allAnnotations(getEntity(d, d.state.ids[k]))
  BY <1>2, <1>5
<1>7. SlotStep(d, b, k, rem, {})
  BY <1>3, <1>4, <1>5, <1>6 DEF SlotStep
<1> HIDE DEF k, b, rem, d
<1>. QED
  BY <1>0, <1>1, <1>2, <1>7, OneSlot

\* Update, Extend and Transfer: the slot stays, the pairs move from those of
\* the old entity to those of the new one.
LEMMA EditExact ==
  ASSUME BitmapInv, cs # Absent, NEW b \in Addr, getEntity(cs, b) # Absent,
         entityID(cs, b) # Absent, NEW d, NEW e, NEW rem, NEW add,
         d.state = cs.state, d.dirtyBitmaps = mutateBitmaps(cs, rem, add, entityID(cs, b)),
         \A a \in Addr : getEntity(d, a) = IF a = b THEN e ELSE getEntity(cs, a),
         \A q \in Pair : q \in allAnnotations(e) <=>
            q \in add \/ (q \notin rem /\ q \in allAnnotations(getEntity(cs, b))),
         NEW p \in Pair
  PROVE ExactIn(d, p)
PROOF
<1>0. DraftExact
  BY DEF BitmapInv
<1> DEFINE k == entityID(cs, b)
<1>1. /\ cs \in CacheStoreRec /\ DbTypeOK /\ k \in ID
      /\ \A j \in ID : cs.state.ids[j] = b <=> j = k
      /\ \A q \in Pair : k \in loadBitmap(cs, q) <=> q \in allAnnotations(getEntity(cs, b))
  BY TargetSlot
<1>2. d.state.ids[k] = b /\ b # Absent
  BY <1>1, AbsentAssumption
<1>3. \A j \in ID \ {k} : d.state.ids[j] = cs.state.ids[j] /\ cs.state.ids[j] # b
  BY <1>1
<1>4. \A q \in Pair : q \in add \/ (q \notin rem /\ k \in loadBitmap(cs, q))
                        <=> /\ d.state.ids[k] # Absent
                            /\ q \in allAnnotations(getEntity(d, d.state.ids[k]))
  BY <1>1, <1>2
<1>5. SlotStep(d, b, k, rem, add)
  BY <1>3, <1>4 DEF SlotStep
<1> HIDE DEF k
<1>. QED
  BY <1>0, <1>1, <1>5, OneSlot

LEMMA HandlersExact ==
  ASSUME BitmapInv, NEW p \in Pair,
         \/ \E op \in CreateOp : Create(op)
         \/ \E op \in UpdateOp : Update(op)
         \/ \E op \in DeleteOp \cup ExpireOp : Delete(op)
         \/ \E op \in ExtendOp : Extend(op)
         \/ \E op \in TransferOp : Transfer(op)
  PROVE ExactIn(cs', p)
PROOF
<1>0. cs # Absent /\ cs \in CacheStoreRec /\ DbTypeOK
  BY IDTypes DEF Create, Update, Delete, Extend, Transfer, BitmapInv, IDInv, HistoryInv, ChainInv
<1>1. ASSUME NEW op \in CreateOp, Create(op) PROVE ExactIn(cs', p)
  BY <1>1, CreateExact
<1>2. ASSUME NEW op \in DeleteOp \cup ExpireOp, Delete(op) PROVE ExactIn(cs', p)
  BY <1>2, DeleteExact
<1>3. ASSUME NEW op \in UpdateOp, Update(op) PROVE ExactIn(cs', p)
  <2> DEFINE old == allAnnotations(getEntity(cs, op.addr))
             new == allAnnotations(updatedEntity(cs, op))
             d == processUpdate(cs, op)
  <2>1. /\ op.addr \in Addr /\ op.type = "update" /\ Applicable(cs, op) /\ cs' = d
    BY <1>3 DEF Update, ApplyOp, UpdateOp
  <2>2. getEntity(cs, op.addr) # Absent /\ entityID(cs, op.addr) # Absent
    BY <2>1 DEF Applicable
  <2>3. /\ d.state = cs.state
        /\ d.dirtyBitmaps = mutateBitmaps(cs, old \ new, new \ old, entityID(cs, op.addr))
    BY <1>0 DEF processUpdate, CacheStoreRec
  <2>4. \A a \in Addr :
          getEntity(d, a) = IF a = op.addr THEN updatedEntity(cs, op) ELSE getEntity(cs, a)
    BY <1>0, <2>1, HandlerEntity
  <2>5. \A q \in Pair : q \in new <=> q \in new \ old \/ (q \notin old \ new /\ q \in old)
    OBVIOUS
  <2> HIDE DEF d
  <2>. QED
    BY <1>0, <2>1, <2>2, <2>3, <2>4, <2>5, EditExact
<1>4. ASSUME NEW op \in ExtendOp, Extend(op) PROVE ExactIn(cs', p)
  <2> DEFINE e == getEntity(cs, op.addr)
             f == [e EXCEPT !.expiresAt = op.expiresAt]
             rem == {<<"$expiration", e.expiresAt>>}
             add == {<<"$expiration", op.expiresAt>>}
             d == processExtend(cs, op)
  <2>1. /\ op.addr \in Addr /\ op.type = "extend" /\ Applicable(cs, op) /\ cs' = d
    BY <1>4 DEF Extend, ApplyOp, ExtendOp
  <2>2. e # Absent /\ entityID(cs, op.addr) # Absent
    BY <2>1 DEF Applicable
  <2>3. /\ d.state = cs.state
        /\ d.dirtyBitmaps = mutateBitmaps(cs, rem, add, entityID(cs, op.addr))
    BY <1>0 DEF processExtend, CacheStoreRec
  <2>4. \A a \in Addr : getEntity(d, a) = IF a = op.addr THEN f ELSE getEntity(cs, a)
    BY <1>0, <2>1, HandlerEntity
  <2>5. e \in EntityRec
    BY <1>0, <2>1, <2>2, ReadTypes
  <2>6. \A q \in Pair : q \in allAnnotations(f) <=>
                          q \in add \/ (q \notin rem /\ q \in allAnnotations(e))
    <3>1. \A q : q \in allAnnotations(f) <=>
                   q = <<"$expiration", op.expiresAt>>
                     \/ (q # <<"$expiration", e.expiresAt>> /\ q \in allAnnotations(e))
      BY <2>5, ReplacedPair
    <3> HIDE DEF f, e
    <3>. QED
      BY <3>1
  <2> HIDE DEF d, f, rem, add
  <2>. QED
    BY <1>0, <2>1, <2>2, <2>3, <2>4, <2>6, EditExact
<1>5. ASSUME NEW op \in TransferOp, Transfer(op) PROVE ExactIn(cs', p)
  <2> DEFINE e == getEntity(cs, op.addr)
             f == [e EXCEPT !.owner = op.owner]
             rem == {<<"$owner", e.owner>>}
             add == {<<"$owner", op.owner>>}
             d == processTransfer(cs, op)
  <2>1. /\ op.addr \in Addr /\ op.type = "transfer" /\ Applicable(cs, op) /\ cs' = d
    BY <1>5 DEF Transfer, ApplyOp, TransferOp
  <2>2. e # Absent /\ entityID(cs, op.addr) # Absent
    BY <2>1 DEF Applicable
  <2>3. /\ d.state = cs.state
        /\ d.dirtyBitmaps = mutateBitmaps(cs, rem, add, entityID(cs, op.addr))
    BY <1>0 DEF processTransfer, CacheStoreRec
  <2>4. \A a \in Addr : getEntity(d, a) = IF a = op.addr THEN f ELSE getEntity(cs, a)
    BY <1>0, <2>1, HandlerEntity
  <2>5. e \in EntityRec
    BY <1>0, <2>1, <2>2, ReadTypes
  <2>6. \A q \in Pair : q \in allAnnotations(f) <=>
                          q \in add \/ (q \notin rem /\ q \in allAnnotations(e))
    <3>1. \A q : q \in allAnnotations(f) <=>
                   q = <<"$owner", op.owner>>
                     \/ (q # <<"$owner", e.owner>> /\ q \in allAnnotations(e))
      BY <2>5, ReplacedPair
    <3> HIDE DEF f, e
    <3>. QED
      BY <3>1
  <2> HIDE DEF d, f, rem, add
  <2>. QED
    BY <1>0, <2>1, <2>2, <2>3, <2>4, <2>6, EditExact
<1>. QED
  BY <1>1, <1>2, <1>3, <1>4, <1>5

\* New on an empty database: no pair has a bitmap and no slot is taken.
LEMMA InitBitmaps == Init => BitmapInv
PROOF
<1> SUFFICES ASSUME Init PROVE BitmapInv
  OBVIOUS
<1>1. IDInv
  BY InitIDs
<1>2. Versions = {BaseNumber}
  BY StoreAssumption, BoundsAssumption DEF Init, Versions, Number
<1>3. /\ \A p \in Pair : RootAt(BaseNumber).annot[p] = Absent
      /\ \A i \in ID : RootAt(BaseNumber).ids[i] = Absent
  BY DEF RootAt, EmptyTrie
<1>4. BlobsKept /\ BitmapsExact
  BY <1>2, <1>3 DEF BlobsKept, BitmapsExact, bitmapAt, carriersAt
<1>. QED
  BY <1>1, <1>4 DEF BitmapInv, DraftExact, Init

\* Commit flushes the caches of the block into the new state.
LEMMA CommitBitmaps ==
  ASSUME BitmapInv, IDInv', CommitBlock
  PROVE BitmapInv'
PROOF
<1>0. ChainInv /\ TypeInv /\ cs # Absent /\ BlobsKept /\ BitmapsExact /\ DraftExact
  BY DEF BitmapInv, IDInv, HistoryInv, ChainInv, CommitBlock
<1> PICK new \in Nat : new = tip + 1
  BY <1>0, BoundsAssumption DEF TypeInv, TypeOK, EnvTypeOK, Number
<1>1. /\ Versions' = Versions \cup {new} /\ new \notin Versions
      /\ \A n \in Versions : RootAt(n)' = RootAt(n)
      /\ RootAt(new)' = newRoot(cs)
      /\ cs \in CacheStoreRec /\ cs.state.nonce = 1
  BY <1>0, CommitEffect DEF RootAt
<1>2. tip \in Versions /\ head.root = RootAt(tip)
  BY <1>0, TipVersion
<1>3. /\ newRoot(cs).ids = cs.state.ids
      /\ \A a \in Addr : newRoot(cs).code[a] = getEntity(cs, a)
      /\ newRoot(cs).annot = flushBitmaps(cs, head.root.annot)
  BY <1>0, <1>1, NewRootFields DEF flushEntities, getEntity, ChainInv, BlockOnHead
<1>4. \A p \in Pair : newRoot(cs).annot[p] =
        IF cs.dirtyBitmaps[p] # Absent THEN cs.dirtyBitmaps[p] ELSE arkiv_annot[p]
  BY <1>0, <1>3 DEF flushBitmaps, ChainInv, AnnotMirrorsTrie
<1>5. BlobsKept'
  <2> SUFFICES ASSUME NEW n \in Versions', NEW p \in Pair, RootAt(n)'.annot[p] # Absent
               PROVE RootAt(n)'.annot[p] \in arkiv_bm'
    BY DEF BlobsKept
  <2>1. arkiv_bm' = arkiv_bm \cup {cs.dirtyBitmaps[q] : q \in dirtyPairs(cs)}
    BY DEF CommitBlock, Commit
  <2>2. CASE n \in Versions
    BY <1>0, <1>1, <2>1, <2>2 DEF BlobsKept
  <2>3. CASE n = new /\ cs.dirtyBitmaps[p] # Absent
    BY <1>1, <1>4, <2>1, <2>3 DEF dirtyPairs
  <2>4. CASE n = new /\ cs.dirtyBitmaps[p] = Absent
    <3>1. RootAt(n)'.annot[p] = RootAt(tip).annot[p]
      BY <1>0, <1>1, <1>2, <1>4, <2>4 DEF ChainInv, AnnotMirrorsTrie
    <3>. QED
      BY <1>0, <1>2, <2>1, <3>1 DEF BlobsKept
  <2>. QED
    BY <1>1, <2>2, <2>3, <2>4
<1>6. \A p \in Pair : bitmapAt(newRoot(cs), p) = carriersAt(newRoot(cs), p)
  <2> SUFFICES ASSUME NEW p \in Pair
               PROVE bitmapAt(newRoot(cs), p) = carriersAt(newRoot(cs), p)
    OBVIOUS
  <2>1. bitmapAt(newRoot(cs), p) = loadBitmap(cs, p)
    BY <1>4 DEF bitmapAt, loadBitmap
  <2>2. cs.state.ids \in [ID -> {Absent} \cup Addr]
    BY <1>1 DEF CacheStoreRec, Trie
  <2>3. carriersAt(newRoot(cs), p) = draftCarriers(p)
    BY <1>3, <2>2 DEF carriersAt, draftCarriers
  <2>. QED
    BY <1>0, <2>1, <2>3 DEF DraftExact
<1>7. BitmapsExact'
  <2> SUFFICES ASSUME NEW n \in Versions', NEW p \in Pair
               PROVE bitmapAt(RootAt(n)', p) = carriersAt(RootAt(n)', p)
    BY DEF BitmapsExact, bitmapAt, carriersAt
  <2>1. CASE n \in Versions
    BY <1>0, <1>1, <2>1 DEF BitmapsExact
  <2>2. CASE n = new
    BY <1>1, <1>6, <2>2
  <2>. QED
    BY <1>1, <2>1, <2>2
<1>8. DraftExact'
  BY DEF DraftExact, CommitBlock, Commit
<1>. QED
  BY <1>5, <1>7, <1>8 DEF BitmapInv

\* Every step keeps the bitmaps exact and their blobs stored.
LEMMA NextBitmaps == BitmapInv /\ [Next]_vars => BitmapInv'
PROOF
<1> SUFFICES ASSUME BitmapInv, [Next]_vars PROVE BitmapInv'
  OBVIOUS
<1>0. /\ IDInv /\ IDInv' /\ ChainInv /\ TypeInv /\ DraftMatches
      /\ BlobsKept /\ BitmapsExact /\ DraftExact
  BY NextIDs DEF BitmapInv, IDInv, HistoryInv, ChainInv
<1>1. ASSUME UNCHANGED <<dbVars, head, canon, tip>> PROVE BlobsKept' /\ BitmapsExact'
  <2>1. Versions' = Versions /\ \A n \in Versions : RootAt(n)' = RootAt(n)
    BY <1>1, SameRoots
  <2>2. BlobsKept'
    BY <1>0, <1>1, <2>1 DEF BlobsKept, dbVars
  <2>3. \A n \in Versions, p \in Pair : bitmapAt(RootAt(n)', p) = carriersAt(RootAt(n)', p)
    BY <1>0, <2>1 DEF BitmapsExact
  <2>. QED
    BY <2>1, <2>2, <2>3 DEF BitmapsExact, bitmapAt, carriersAt
<1>2. ASSUME \A p \in Pair : ExactIn(cs', p), arkiv_annot' = arkiv_annot PROVE DraftExact'
  BY <1>2 DEF ExactIn, DraftExact, draftCarriers, loadBitmap, getEntity
<1>3. CASE Quiet
  <2>1. DraftExact'
    BY <1>0, <1>3 DEF Quiet, dbVars, DraftExact, draftCarriers, loadBitmap, getEntity
  <2>. QED
    BY <1>0, <1>1, <1>3, <2>1 DEF BitmapInv, Quiet
<1>4. ASSUME NEW h \in Hash, BeginBlock(h) PROVE BitmapInv'
  <2>1. /\ cs'.state = [head.root EXCEPT !.nonce = 1] /\ head.root \in Trie
        /\ \A a \in Addr : cs'.dirtyEntities[a] = Absent
        /\ \A p \in Pair : cs'.dirtyBitmaps[p] = Absent
        /\ UNCHANGED <<dbVars, head, canon, tip>>
    BY <1>0, <1>4, BeginEffect
  <2>2. /\ cs'.state.ids = head.root.ids /\ cs'.state.code = head.root.code
        /\ head.root.ids \in [ID -> {Absent} \cup Addr]
    BY <2>1 DEF Trie
  <2>3. tip \in Versions /\ head.root = RootAt(tip)
    BY <1>0, TipVersion
  <2>4. ASSUME NEW p \in Pair PROVE ExactIn(cs', p)
    <3>1. loadBitmap(cs', p) = bitmapAt(head.root, p)
      BY <1>0, <2>1 DEF loadBitmap, bitmapAt, ChainInv, AnnotMirrorsTrie
    <3>2. \A a \in Addr : getEntity(cs', a) = head.root.code[a]
      BY <2>1, <2>2 DEF getEntity
    <3>3. carriersAt(head.root, p) =
            {i \in ID : cs'.state.ids[i] # Absent
                          /\ p \in allAnnotations(getEntity(cs', cs'.state.ids[i]))}
      BY <2>2, <3>2 DEF carriersAt
    <3>. QED
      BY <1>0, <2>3, <3>1, <3>3 DEF ExactIn, BitmapsExact
  <2>. QED
    BY <1>0, <1>1, <1>2, <2>1, <2>4 DEF BitmapInv, dbVars
<1>5. CASE \/ \E op \in CreateOp : Create(op)
           \/ \E op \in UpdateOp : Update(op)
           \/ \E op \in DeleteOp \cup ExpireOp : Delete(op)
           \/ \E op \in ExtendOp : Extend(op)
           \/ \E op \in TransferOp : Transfer(op)
  <2>1. UNCHANGED <<dbVars, head, canon, tip>>
    BY <1>0, <1>5, OpChangesDraft
  <2>2. \A p \in Pair : ExactIn(cs', p)
    BY <1>5, HandlersExact
  <2>. QED
    BY <1>0, <1>1, <1>2, <2>1, <2>2 DEF BitmapInv, dbVars
<1>6. CASE CommitBlock
  BY <1>0, <1>6, CommitBitmaps
<1>7. ASSUME NEW oldest \in Canonical, call = Absent, revertToAncestor(oldest)
      PROVE BitmapInv'
  <2>1. /\ Versions' \subseteq Versions /\ cs' = Absent
        /\ \A n \in Versions' : RootAt(n)' = RootAt(n)
    BY <1>0, <1>7, RevertEffect
  <2>2. BlobsKept'
    BY <1>0, <1>7, <2>1 DEF BlobsKept, revertToAncestor
  <2>3. \A n \in Versions', p \in Pair : bitmapAt(RootAt(n)', p) = carriersAt(RootAt(n)', p)
    BY <1>0, <2>1 DEF BitmapsExact
  <2>4. BitmapsExact'
    BY <2>3 DEF BitmapsExact, bitmapAt, carriersAt
  <2>. QED
    BY <1>0, <2>1, <2>2, <2>4 DEF BitmapInv, DraftExact
<1>. QED
  BY <1>0, <1>3, <1>4, <1>5, <1>6, <1>7, StepKinds

\* The inductive invariant about bitmaps holds in every reachable state.
THEOREM BitmapInvariant == Spec => []BitmapInv
PROOF
  BY InitBitmaps, NextBitmaps, PTL DEF Spec

(***************************************************************************)
(* What a reader gets.                                                     *)
(***************************************************************************)
\* The bitmaps, slots and entities of a readable number.
LEMMA ReadableIndex ==
  ASSUME BitmapInv, NEW n \in Readable
  PROVE /\ \A p \in Pair : ReadAnnotBitmap(n, p) = carriersAt(openStateAt(n), p)
        /\ AllEntities(n) = {i \in ID : openStateAt(n).ids[i] # Absent}
        /\ openStateAt(n).code = Entities(n)
        /\ openStateAt(n).ids \in [ID -> {Absent} \cup Addr]
PROOF
<1>0. ChainInv /\ TypeInv /\ ViewsMatch /\ BlobsKept /\ BitmapsExact
  BY DEF BitmapInv, IDInv, HistoryInv, ChainInv
<1> DEFINE m == IF n = 0 THEN tip ELSE n
           t == openStateAt(n)
<1>1. m \in Versions /\ t = RootAt(m) /\ t \in Trie
  BY <1>0, ReadableState
<1>2. Absent \notin arkiv_bm
  BY <1>0, AbsentAssumption DEF TypeInv, TypeOK, DbTypeOK
<1>3. \A p \in Pair : ReadAnnotBitmap(n, p) = carriersAt(t, p)
  <2> SUFFICES ASSUME NEW p \in Pair PROVE ReadAnnotBitmap(n, p) = carriersAt(t, p)
    OBVIOUS
  <2>1. ReadAnnotBitmap(n, p) = bitmapAt(t, p)
    BY <1>0, <1>1, <1>2 DEF ReadAnnotBitmap, bitmapAt, BlobsKept
  <2>. QED
    BY <1>0, <1>1, <2>1 DEF BitmapsExact
<1>4. <<"$all", "true">> \in Pair
  BY DEF Pair, BuiltinPair
<1>5. carriersAt(t, <<"$all", "true">>) = {i \in ID : t.ids[i] # Absent}
  BY DEF carriersAt, allAnnotations, builtinAnnotations
<1>6. t.code = Entities(n)
  BY <1>0, <1>1 DEF ViewsMatch, Entities
<1>7. t.ids \in [ID -> {Absent} \cup Addr]
  BY <1>1 DEF Trie
<1>. QED
  BY <1>3, <1>4, <1>5, <1>6, <1>7 DEF AllEntities

\* In a state of the invariant the bitmaps read are exact.
LEMMA ExactReads == BitmapInv => IndexExact
PROOF
<1> SUFFICES ASSUME BitmapInv, NEW n \in Readable
             PROVE LET t == openStateAt(n)
                       E == Entities(n)
                   IN /\ \A p \in Pair : ReadAnnotBitmap(n, p) =
                           {i \in ID : t.ids[i] # Absent /\ p \in allAnnotations(E[t.ids[i]])}
                      /\ {t.ids[i] : i \in AllEntities(n)} = {a \in Addr : E[a] # Absent}
                      /\ \A i, j \in AllEntities(n) : t.ids[i] = t.ids[j] => i = j
  BY DEF IndexExact, ExactAt
<1> DEFINE t == openStateAt(n)
           m == IF n = 0 THEN tip ELSE n
<1>1. /\ \A p \in Pair : ReadAnnotBitmap(n, p) = carriersAt(t, p)
      /\ AllEntities(n) = {i \in ID : t.ids[i] # Absent}
      /\ t.code = Entities(n) /\ t.ids \in [ID -> {Absent} \cup Addr]
  BY ReadableIndex
<1>2. m \in Versions /\ t = RootAt(m) /\ SlotsLive /\ SlotsStable
  BY ReadableState DEF BitmapInv, IDInv, HistoryInv
<1> HIDE DEF t, m
<1>3. \A p \in Pair : ReadAnnotBitmap(n, p) =
        {i \in ID : t.ids[i] # Absent /\ p \in allAnnotations(Entities(n)[t.ids[i]])}
  BY <1>1 DEF carriersAt
<1>4. {t.ids[i] : i \in AllEntities(n)} = {a \in Addr : Entities(n)[a] # Absent}
  <2>1. \A a \in Addr : Entities(n)[a] # Absent <=> \E i \in ID : t.ids[i] = a
    BY <1>1, <1>2 DEF SlotsLive
  <2>2. \A i \in AllEntities(n) : t.ids[i] \in Addr
    BY <1>1
  <2>3. \A a \in Addr : (\E i \in ID : t.ids[i] = a) <=> \E i \in AllEntities(n) : t.ids[i] = a
    BY <1>1, AbsentAssumption
  <2>. QED
    BY <2>1, <2>2, <2>3
<1>5. \A i, j \in AllEntities(n) : t.ids[i] = t.ids[j] => i = j
  BY <1>1, <1>2 DEF SlotsStable
<1>. QED
  BY <1>3, <1>4, <1>5 DEF t

\* At the head and at every canonical block, the bitmap of a pair is exactly
\* the set of IDs of the live entities that carry it, and a live entity has
\* exactly one ID.
THEOREM IndexAlwaysExact == Spec => []IndexExact
PROOF
  BY ExactReads, BitmapInvariant, PTL

\* In a state of the invariant the ID maps do not contradict what is read.
LEMMA SoundReads == BitmapInv => ResolveSound
PROOF
<1> SUFFICES ASSUME BitmapInv, NEW n \in Readable
             PROVE /\ \A i \in AllEntities(n) :
                        IDToAddress(i) \in {Absent, openStateAt(n).ids[i]}
                   /\ \A a \in Addr : GetEntity(n, a) # Absent /\ arkiv_addr[a] # Absent
                        => openStateAt(n).ids[arkiv_addr[a]] = a
  BY DEF ResolveSound, ResolvesAt
<1> DEFINE t == openStateAt(n)
           m == IF n = 0 THEN tip ELSE n
<1>1. AllEntities(n) = {i \in ID : t.ids[i] # Absent}
  BY ReadableIndex
<1>2. /\ m \in Versions /\ t = RootAt(m) /\ SlotsLive /\ MapsMatchSlots /\ MapsInverse
      /\ arkiv_addr \in [Addr -> {Absent} \cup ID]
  BY ReadableState, IDTypes DEF BitmapInv, IDInv, HistoryInv, ChainInv
<1> HIDE DEF t, m
<1>3. \A i \in AllEntities(n) : IDToAddress(i) \in {Absent, t.ids[i]}
  BY <1>1, <1>2 DEF IDToAddress, MapsMatchSlots
<1>4. ASSUME NEW a \in Addr, GetEntity(n, a) # Absent, arkiv_addr[a] # Absent
      PROVE t.ids[arkiv_addr[a]] = a
  <2>1. t.code[a] # Absent /\ a # Absent
    BY <1>4, AbsentAssumption DEF GetEntity, t
  <2>2. PICK i \in ID : t.ids[i] = a
    BY <1>2, <2>1 DEF SlotsLive
  <2>3. arkiv_addr[a] \in ID
    BY <1>2, <1>4
  <2>4. arkiv_id[arkiv_addr[a]] = a
    BY <1>2, <2>3 DEF MapsInverse
  <2>5. arkiv_addr[a] = i
    BY <1>2, <2>1, <2>2, <2>3, <2>4 DEF MapsMatchSlots
  <2>. QED
    BY <2>2, <2>5
<1>. QED
  BY <1>3, <1>4 DEF t

\* The ID maps never resolve an ID or an address to the wrong entity of any
\* canonical block: they give the right answer or none.
THEOREM ResolveAlwaysSound == Spec => []ResolveSound
PROOF
  BY SoundReads, BitmapInvariant, PTL
=============================================================================
