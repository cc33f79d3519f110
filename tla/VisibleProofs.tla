---------------------------- MODULE VisibleProofs ---------------------------
(***************************************************************************)
(* The store implements IndexedChain, beside which the sessions of         *)
(* QueryServer are proved exact: whatever a reader looks at, with or       *)
(* without the lock, is a state of IndexedChain, and whatever the store    *)
(* does between two looks is a step of it.                                 *)
(***************************************************************************)
EXTENDS IDProofs

(***************************************************************************)
(* The invariant: a block in progress has given every ID up to its count   *)
(* to an address, and has minted these addresses and no others.            *)
(***************************************************************************)
DraftMinted ==
  cs # Absent =>
    /\ \A i \in ID : head.root.count < i /\ i <= cs.state.count => cs.id[i] # Absent
    /\ \A a \in pending.minted : a \in minted(tip) \/ \E i \in ID : cs.id[i] = a

VisibleInv == IDInv /\ HeadNumber /\ DraftMinted

\* An entity that is live in the block in progress has been minted.
LEMMA LiveMinted ==
  ASSUME IDInv, cs # Absent, NEW a \in Addr, getEntity(cs, a) # Absent
  PROVE  a \in pending.minted
<1>0. ChainInv /\ StagedNew /\ DraftSlots /\ SlotsIssued
  BY DEF IDInv, HistoryInv, DraftIDs
<1>1. tip \in Versions /\ head.root = RootAt(tip) /\ a # Absent
  BY <1>0, TipVersion, AbsentAssumption
<1>2. PICK i \in ID : cs.state.ids[i] = a
  BY <1>0 DEF DraftSlots
<1>3. CASE cs.state.ids[i] = head.root.ids[i]
  BY <1>0, <1>1, <1>2, <1>3 DEF SlotsIssued, StagedNew
<1>4. CASE cs.state.ids[i] = cs.id[i]
  BY <1>0, <1>1, <1>2, <1>4 DEF StagedNew
<1> QED  BY <1>0, <1>1, <1>2, <1>3, <1>4 DEF DraftSlots

\* Every step keeps it.
LEMMA NextMinted ==
  ASSUME IDInv, DraftMinted, [Next]_vars
  PROVE  DraftMinted'
<1>0. ChainInv /\ TypeInv /\ HistoryInv
  BY DEF IDInv, HistoryInv, ChainInv
<1>1. CASE cs' = Absent
  BY <1>1 DEF DraftMinted
<1>2. CASE Quiet
  BY <1>2 DEF Quiet, DraftMinted, minted
<1>3. ASSUME NEW h \in Hash, BeginBlock(h)  PROVE DraftMinted'
  <2>1. /\ cs'.state = [head.root EXCEPT !.nonce = 1] /\ head.root \in Trie
        /\ pending' = canon[tip].view /\ UNCHANGED <<head, canon, tip>>
    BY <1>0, <1>3, BeginEffect
  <2>2. cs'.state.count = head.root.count /\ head.root.count \in Nat /\ ID \subseteq Nat
    BY <1>0, <2>1, IDTypes DEF Trie
  <2>3. \A i \in ID : ~(head.root.count < i /\ i <= cs'.state.count)
    BY <2>2
  <2> QED  BY <2>1, <2>3 DEF DraftMinted, minted
<1>4. ASSUME NEW op \in CreateOp, Create(op)  PROVE DraftMinted'
  <2> DEFINE k == cs.state.count + 1
  <2>1. /\ op.addr \in Addr /\ cs # Absent /\ cs \in CacheStoreRec /\ cs.state.count < MaxId
        /\ cs' = processCreate(cs, op)
        /\ pending' = ContractEffect(op, tip + 1) /\ UNCHANGED <<head, canon, tip>>
    BY <1>0, <1>4, IDTypes DEF Create, ApplyOp, CreateOp
  <2>2. k \in ID /\ cs.state.count \in Nat /\ cs.id \in [ID -> {Absent} \cup Addr] /\ ID \subseteq Nat
    BY <1>0, <2>1, BoundsAssumption, IDTypes DEF ID
  <2>3. cs'.id = [cs.id EXCEPT ![k] = op.addr] /\ cs'.state.count = k
    BY <1>0, <2>1 DEF processCreate, CacheStoreRec, Trie
  <2>4. pending'.minted = pending.minted \cup {op.addr}
    BY <2>1 DEF ContractEffect
  <2>5. \A i \in ID : cs'.id[i] = IF i = k THEN op.addr ELSE cs.id[i]
    BY <2>2, <2>3
  <2>6. cs.id[k] = Absent /\ op.addr # Absent
    <3>1. StagedNew
      BY <2>1 DEF IDInv, DraftIDs
    <3> QED  BY <2>1, <2>2, <3>1, AbsentAssumption DEF StagedNew
  <2>7. \A i \in ID : head.root.count < i /\ i <= k => cs'.id[i] # Absent
    <3> SUFFICES ASSUME NEW i \in ID, head.root.count < i, i <= k, i # k  PROVE cs.id[i] # Absent
      BY <2>5, <2>6
    <3>1. i <= cs.state.count
      BY <2>2
    <3> QED  BY <2>1, <3>1 DEF DraftMinted
  <2>8. \A a \in pending'.minted : a \in minted(tip) \/ \E i \in ID : cs'.id[i] = a
    <3> SUFFICES ASSUME NEW a \in pending.minted, a \notin minted(tip), a # op.addr
                 PROVE  \E i \in ID : cs'.id[i] = a
      BY <2>2, <2>4, <2>5
    <3>1. PICK i \in ID : cs.id[i] = a
      BY <2>1 DEF DraftMinted
    <3>2. a \in Addr
      BY <1>0, <2>1, IDTypes DEF ContractView
    <3>3. i # k
      BY <2>6, <3>1, <3>2, AbsentAssumption
    <3> QED  BY <2>5, <3>1, <3>3
  <2> QED  BY <2>1, <2>3, <2>7, <2>8 DEF DraftMinted, minted
<1>5. ASSUME NEW op, op.addr \in Addr, op.type # "create", NEW next, ApplyOp(op, next),
             next.id = cs.id, next.state.count = cs.state.count
      PROVE  DraftMinted'
  <2>1. /\ cs # Absent /\ cs' = next /\ UNCHANGED <<head, canon, tip>>
        /\ getEntity(cs, op.addr) # Absent
        /\ pending'.minted = pending.minted \cup {op.addr}
    BY <1>5 DEF ApplyOp, Applicable, ContractEffect
  <2>2. op.addr \in pending.minted
    BY <1>5, <2>1, LiveMinted
  <2> QED  BY <1>5, <2>1, <2>2 DEF DraftMinted, minted
<1>6. cs # Absent => cs \in CacheStoreRec
  BY <1>0, IDTypes
<1>7. ASSUME NEW op \in DeleteOp \cup ExpireOp, Delete(op)  PROVE DraftMinted'
  <2>1. cs \in CacheStoreRec /\ ApplyOp(op, deleteEntity(cs, op))
    BY <1>6, <1>7 DEF Delete
  <2>2. deleteEntity(cs, op).id = cs.id /\ deleteEntity(cs, op).state.count = cs.state.count
    BY <2>1 DEF deleteEntity, CacheStoreRec, Trie
  <2> QED  BY <1>5, <2>1, <2>2 DEF DeleteOp, ExpireOp
<1>8. ASSUME NEW op \in UpdateOp, Update(op)  PROVE DraftMinted'
  <2>1. cs \in CacheStoreRec /\ ApplyOp(op, processUpdate(cs, op))
    BY <1>6, <1>8 DEF Update
  <2>2. processUpdate(cs, op).id = cs.id /\ processUpdate(cs, op).state.count = cs.state.count
    BY <2>1 DEF processUpdate, CacheStoreRec
  <2> QED  BY <1>5, <2>1, <2>2 DEF UpdateOp
<1>9. ASSUME NEW op \in ExtendOp, Extend(op)  PROVE DraftMinted'
  <2>1. cs \in CacheStoreRec /\ ApplyOp(op, processExtend(cs, op))
    BY <1>6, <1>9 DEF Extend
  <2>2. processExtend(cs, op).id = cs.id /\ processExtend(cs, op).state.count = cs.state.count
    BY <2>1 DEF processExtend, CacheStoreRec
  <2> QED  BY <1>5, <2>1, <2>2 DEF ExtendOp
<1>10. ASSUME NEW op \in TransferOp, Transfer(op)  PROVE DraftMinted'
  <2>1. cs \in CacheStoreRec /\ ApplyOp(op, processTransfer(cs, op))
    BY <1>6, <1>10 DEF Transfer
  <2>2. processTransfer(cs, op).id = cs.id /\ processTransfer(cs, op).state.count = cs.state.count
    BY <2>1 DEF processTransfer, CacheStoreRec
  <2> QED  BY <1>5, <2>1, <2>2 DEF TransferOp
<1>11. CASE CommitBlock
  BY <1>1, <1>11 DEF CommitBlock, Commit
<1>12. ASSUME NEW oldest \in Canonical, call = Absent, revertToAncestor(oldest)
       PROVE  DraftMinted'
  BY <1>0, <1>1, <1>12, RevertEffect
<1> QED
  BY <1>0, <1>2, <1>3, <1>4, <1>7, <1>8, <1>9, <1>10, <1>11, <1>12, StepKinds

\* The invariant of the refinement holds in every reachable state.
LEMMA VisibleInvariant == Spec => []VisibleInv
<1>1. Init => DraftMinted
  BY DEF Init, DraftMinted
<1>2. IDInv /\ DraftMinted /\ [Next]_vars => DraftMinted'
  BY NextMinted
<1>3. IndexInv => HeadNumber
  BY DEF IndexInv
<1> QED  BY <1>1, <1>2, <1>3, IDInvariant, IndexInvariant, PTL DEF Spec, VisibleInv

(***************************************************************************)
(* The refinement mapping, and what it comes to in a reachable state.      *)
(***************************************************************************)
visibleChain == [n \in Number |-> indexedVersion(n)]

VersionOf(n) ==
  [name |-> canon[n].hash, ents |-> RootAt(n).code, ids |-> RootAt(n).ids,
   count |-> RootAt(n).count, used |-> minted(n)]

VisibleMapped ==
  /\ topVersion = tip
  /\ visibleChain = [n \in Number |-> IF n \in Versions THEN VersionOf(n) ELSE Absent]

LEMMA MappedVisible == VisibleInv => VisibleMapped
<1> SUFFICES ASSUME VisibleInv  PROVE VisibleMapped
  OBVIOUS
<1>0. ChainInv /\ IndexInv
  BY DEF VisibleInv, IDInv, HistoryInv, IndexInv
<1>1. topVersion = tip
  BY <1>0, MappedState DEF StackMapped
<1>2. ASSUME NEW n \in Number
      PROVE  indexedVersion(n) = IF n \in Versions THEN VersionOf(n) ELSE Absent
  <2>1. /\ BaseNumber \in Versions /\ canon[BaseNumber].hash = BaseHash
        /\ n # BaseNumber => (n \in Versions <=> n \in Canonical)
    BY <1>0, StoreAssumption, BoundsAssumption
       DEF ChainInv, TypeInv, ChainShape, TypeOK, EnvTypeOK, Number, Versions, Canonical,
           HashesUnique
  <2>2. CASE n = BaseNumber
    BY <2>1, <2>2 DEF indexedVersion, VersionOf, RootAt, minted
  <2>3. CASE n # BaseNumber /\ n \in Versions
    <3>1. arkiv_blknum[n] = canon[n].hash /\ canon[n].hash \in Hash
      BY <1>0, <2>1, <2>3 DEF ChainInv, BlockIndexIsChain, HashesUnique
    <3> QED  BY <2>3, <3>1, HashAssumption DEF indexedVersion, VersionOf, RootAt, minted, AnyHash
  <2>4. CASE n # BaseNumber /\ n \notin Versions
    BY <1>0, <2>1, <2>4 DEF indexedVersion, ChainInv, BlockIndexIsChain
  <2> QED  BY <2>2, <2>3, <2>4
<1> QED  BY <1>1, <1>2 DEF VisibleMapped, visibleChain

(***************************************************************************)
(* The block in progress as a step of IndexedChain: the addresses it has   *)
(* created by the IDs they got, the IDs it has deleted, and the entities   *)
(* that are live in it.                                                    *)
(***************************************************************************)
bornIn == [i \in head.root.count + 1 .. cs.state.count |-> cs.id[i]]
goneIn == {i \in ID : /\ Visible!IssuedBy(VersionOf(tip), bornIn, i) # Absent
                      /\ cs.state.ids[i] = Absent}
liveIn == {cs.state.ids[i] : i \in {j \in ID : cs.state.ids[j] # Absent}}
valsIn == [a \in liveIn |-> getEntity(cs, a)]

\* The IDs of the block and the slots they stand in.
LEMMA DraftIssued ==
  ASSUME VisibleInv, cs # Absent
  PROVE  /\ DOMAIN bornIn = {i \in ID : head.root.count < i /\ i <= cs.state.count}
         /\ \A i \in DOMAIN bornIn : bornIn[i] = cs.id[i] /\ cs.id[i] \in Addr
         /\ \A i \in ID : i \notin DOMAIN bornIn => cs.id[i] = Absent
         /\ \A i \in ID : cs.state.ids[i] =
              IF i \in goneIn THEN Absent ELSE Visible!IssuedBy(VersionOf(tip), bornIn, i)
         /\ VersionOf(tip).count = head.root.count
<1>0. ChainInv /\ TypeInv /\ StagedNew /\ DraftSlots
  BY DEF VisibleInv, IDInv, HistoryInv, ChainInv, DraftIDs
<1>1. head.root = RootAt(tip)
  BY <1>0, TipVersion
<1>2. /\ cs.id \in [ID -> {Absent} \cup Addr] /\ cs.state.ids \in [ID -> {Absent} \cup Addr]
      /\ head.root.count \in Nat /\ cs.state.count \in 0..MaxId /\ MaxId \in Nat
  <2>1. cs.state \in Trie
    BY <1>0, IDTypes DEF CacheStoreRec
  <2> QED  BY <1>0, <2>1, IDTypes, BoundsAssumption DEF Trie
<1>3. DOMAIN bornIn = {i \in ID : head.root.count < i /\ i <= cs.state.count}
  BY <1>2 DEF bornIn, ID
<1>4. ASSUME NEW i \in DOMAIN bornIn  PROVE bornIn[i] = cs.id[i] /\ cs.id[i] \in Addr
  <2>1. i \in ID /\ cs.id[i] # Absent
    BY <1>3 DEF VisibleInv, DraftMinted
  <2> QED  BY <1>2, <2>1 DEF bornIn
<1>5. ASSUME NEW i \in ID, i \notin DOMAIN bornIn  PROVE cs.id[i] = Absent
  BY <1>0, <1>3, <1>5 DEF StagedNew
<1>6. ASSUME NEW i \in ID
      PROVE  cs.state.ids[i] =
               IF i \in goneIn THEN Absent ELSE Visible!IssuedBy(VersionOf(tip), bornIn, i)
  <2> DEFINE issue == Visible!IssuedBy(VersionOf(tip), bornIn, i)
  <2>1. issue = IF i \in DOMAIN bornIn THEN cs.id[i] ELSE head.root.ids[i]
    BY <1>1, <1>4 DEF Visible!IssuedBy, VersionOf
  <2>2. i \in goneIn <=> issue # Absent /\ cs.state.ids[i] = Absent
    BY DEF goneIn
  <2>3. cs.state.ids[i] # Absent => issue = cs.state.ids[i]
    <3>1. i \in Nat
      BY <1>0, IDTypes
    <3> QED  BY <1>0, <1>2, <1>3, <1>5, <2>1, <3>1 DEF DraftSlots
  <2> HIDE DEF issue
  <2>4. cs.state.ids[i] = IF i \in goneIn THEN Absent ELSE issue
    BY <2>2, <2>3
  <2> QED  BY <2>4 DEF issue
<1>7. VersionOf(tip).count = head.root.count
  BY <1>1 DEF VersionOf
<1> QED  BY <1>3, <1>4, <1>5, <1>6, <1>7

\* The addresses created in the block are births IndexedChain allows.
LEMMA DraftBirths ==
  ASSUME VisibleInv, cs # Absent
  PROVE  bornIn \in Visible!Births(VersionOf(tip))
<1>0. ChainInv /\ TypeInv /\ StagedNew
  BY DEF VisibleInv, IDInv, HistoryInv, ChainInv, DraftIDs
<1> DEFINE v == VersionOf(tip)
           n == cs.state.count
<1>1. /\ v.count = head.root.count /\ v.used = minted(tip)
      /\ DOMAIN bornIn = {i \in ID : head.root.count < i /\ i <= cs.state.count}
      /\ \A i \in DOMAIN bornIn : bornIn[i] = cs.id[i] /\ cs.id[i] \in Addr
  BY DraftIssued DEF VersionOf
<1>2. \A i \in DOMAIN bornIn : bornIn[i] \in Addr \ v.used
  BY <1>0, <1>1, AbsentAssumption DEF StagedNew
<1>3. \A i, j \in DOMAIN bornIn : bornIn[i] = bornIn[j] => i = j
  BY <1>0, <1>1 DEF StagedNew
<1>4. bornIn \in [v.count + 1 .. n -> Addr \ v.used]
  <2>1. bornIn = [i \in v.count + 1 .. n |-> cs.id[i]]
    BY <1>1 DEF bornIn
  <2> QED  BY <1>2, <2>1
<1>5. n \in {v.count} \cup {i \in ID : i > v.count}
  <2>1. cs.state \in Trie /\ head.root.count \in Nat
    BY <1>0, IDTypes DEF CacheStoreRec
  <2>2. n \in 0..MaxId /\ MaxId \in Nat /\ head.root.count <= n
    BY <1>0, <2>1, BoundsAssumption DEF Trie, StagedNew
  <2> QED  BY <1>1, <2>1, <2>2 DEF ID
<1> HIDE DEF v, n
<1>6. bornIn \in {b \in [v.count + 1 .. n -> Addr \ v.used] :
                    \A i, j \in DOMAIN b : b[i] = b[j] => i = j}
  BY <1>3, <1>4
<1>7. bornIn \in Visible!Births(v)
  BY <1>5, <1>6 DEF Visible!Births
<1> QED  BY <1>7 DEF v

\* Commit makes of the block the version IndexedChain makes of it.
LEMMA DraftVersion ==
  ASSUME VisibleInv, cs # Absent
  PROVE  Visible!NextVersion(VersionOf(tip), cs.hash, bornIn, goneIn, valsIn) =
           [name |-> cs.hash, ents |-> flushEntities(cs), ids |-> cs.state.ids,
            count |-> cs.state.count, used |-> pending.minted]
<1>0. ChainInv /\ TypeInv /\ StagedNew /\ DraftSlots
  BY DEF VisibleInv, IDInv, HistoryInv, ChainInv, DraftIDs
<1> DEFINE v == VersionOf(tip)
           issue(i) == Visible!IssuedBy(v, bornIn, i)
           slots == [i \in ID |-> IF i \in goneIn THEN Absent ELSE issue(i)]
           ents == [a \in Addr |-> IF \E i \in ID : slots[i] = a THEN valsIn[a] ELSE Absent]
           cnt == IF DOMAIN bornIn = {} THEN v.count
                  ELSE CHOOSE i \in DOMAIN bornIn : \A j \in DOMAIN bornIn : j <= i
           used == v.used \cup {bornIn[i] : i \in DOMAIN bornIn}
<1>1. /\ v.count = head.root.count /\ v.used = minted(tip)
      /\ DOMAIN bornIn = {i \in ID : head.root.count < i /\ i <= cs.state.count}
      /\ \A i \in DOMAIN bornIn : bornIn[i] = cs.id[i] /\ cs.id[i] \in Addr
      /\ \A i \in ID : i \notin DOMAIN bornIn => cs.id[i] = Absent
      /\ \A i \in ID : cs.state.ids[i] = IF i \in goneIn THEN Absent ELSE issue(i)
  BY DraftIssued DEF VersionOf
<1>2. cs.state.count \in 0..MaxId /\ MaxId \in Nat /\ head.root.count \in Nat
      /\ cs.state.ids \in [ID -> {Absent} \cup Addr] /\ head.root.count <= cs.state.count
  <2>1. cs.state \in Trie /\ head.root.count \in Nat
    BY <1>0, IDTypes DEF CacheStoreRec
  <2> QED  BY <1>0, <2>1, BoundsAssumption, IDTypes DEF Trie, StagedNew
<1>3. slots = cs.state.ids
  <2> HIDE DEF issue
  <2> QED  BY <1>1, <1>2
<1>4. ents = flushEntities(cs)
  <2> HIDE DEF slots
  <2>1. ASSUME NEW a \in Addr
        PROVE  (IF \E i \in ID : slots[i] = a THEN valsIn[a] ELSE Absent) = getEntity(cs, a)
    <3>1. CASE \E i \in ID : cs.state.ids[i] = a
      <4>1. a \in liveIn
        BY <3>1, AbsentAssumption DEF liveIn
      <4> QED  BY <1>3, <3>1, <4>1 DEF valsIn
    <3>2. CASE ~\E i \in ID : cs.state.ids[i] = a
      BY <1>0, <1>3, <3>2 DEF DraftSlots
    <3> QED  BY <3>1, <3>2
  <2>2. flushEntities(cs) = [a \in Addr |-> getEntity(cs, a)]
    BY DEF flushEntities, getEntity
  <2> QED  BY <2>1, <2>2
<1>5. cnt = cs.state.count
  <2>1. CASE DOMAIN bornIn = {}
    <3>1. ~(head.root.count < cs.state.count)
      BY <1>1, <1>2, <2>1 DEF ID
    <3> QED  BY <1>1, <1>2, <2>1, <3>1
  <2>2. CASE DOMAIN bornIn # {}
    <3>1. cs.state.count \in DOMAIN bornIn
      BY <1>1, <1>2, <2>2 DEF ID
    <3>2. \A j \in DOMAIN bornIn : j <= cs.state.count /\ j \in Nat
      BY <1>1 DEF ID
    <3>3. \A i \in DOMAIN bornIn : (\A j \in DOMAIN bornIn : j <= i) => i = cs.state.count
      BY <1>2, <3>1, <3>2
    <3> QED  BY <2>2, <3>1, <3>2, <3>3
  <2> QED  BY <2>1, <2>2
<1>6. used = pending.minted
  <2>1. ASSUME NEW a \in used  PROVE a \in pending.minted
    BY <1>0, <1>1, AbsentAssumption DEF StagedNew
  <2>2. ASSUME NEW a \in pending.minted  PROVE a \in used
    <3>1. a \in Addr /\ a # Absent
      BY <1>0, IDTypes, AbsentAssumption DEF ContractView
    <3>2. CASE a \notin minted(tip)
      <4>1. PICK i \in ID : cs.id[i] = a
        BY <3>2 DEF VisibleInv, DraftMinted
      <4>2. i \in DOMAIN bornIn /\ bornIn[i] = a
        BY <1>1, <3>1, <4>1
      <4> QED  BY <4>2
    <3> QED  BY <1>1, <3>2
  <2> QED  BY <2>1, <2>2
<1>7. Visible!NextVersion(v, cs.hash, bornIn, goneIn, valsIn) =
        [name |-> cs.hash, ids |-> slots, ents |-> ents, count |-> cnt, used |-> used]
  BY DEF Visible!NextVersion
<1> HIDE DEF slots, ents, cnt, used
<1> QED  BY <1>3, <1>4, <1>5, <1>6, <1>7

(***************************************************************************)
(* The steps.                                                              *)
(***************************************************************************)
\* Commit seals the block under the lock, in one step.
LEMMA CommitSeals ==
  ASSUME VisibleInv, VisibleMapped, VisibleMapped', CommitBlock
  PROVE  Visible!Seal
<1>0. ChainInv /\ TypeInv /\ DraftSlots /\ cs # Absent /\ cs' = Absent
  BY DEF VisibleInv, IDInv, HistoryInv, ChainInv, DraftIDs, CommitBlock, Commit
<1>1. /\ cs \in CacheStoreRec /\ cs.state.nonce = 1
      /\ tip' = tip + 1 /\ Versions' = Versions \cup {tip + 1} /\ tip + 1 \notin Versions
      /\ tip \in Versions /\ tip \in Number /\ tip + 1 \in Number
      /\ RootAt(tip)' = newRoot(cs) /\ canon'[tip + 1] = [hash |-> cs.hash, view |-> pending]
      /\ \A n \in Versions : RootAt(n)' = RootAt(n) /\ canon'[n] = canon[n]
  BY <1>0, CommitEffect, RootTypes
<1> DEFINE v == visibleChain[topVersion]
           issue(i) == Visible!IssuedBy(v, bornIn, i)
           issued == {i \in ID : issue(i) # Absent}
<1>2. v = VersionOf(tip) /\ topVersion = tip /\ topVersion' = tip + 1
  BY <1>1 DEF VisibleMapped
<1>3. WriteLock # "free" /\ topVersion + 1 \in Number
  BY <1>0, <1>1, <1>2 DEF WriteLock
<1>4. WriteLock' \in IF WriteLock = "block" THEN {"free"} ELSE {"free", "reorg"}
  <2>1. call \in Call
    BY <1>0 DEF TypeInv, TypeOK
  <2>2. call' = Absent \/ call'.method = call.method
    BY <2>1 DEF CommitBlock, Call
  <2>3. call.method = "reorg" <=> WriteLock = "reorg"
    BY <1>0 DEF WriteLock, TypeInv, TypeOK
  <2> QED  BY <1>0, <2>2, <2>3 DEF WriteLock
<1>5. bornIn \in Visible!Births(v)
  BY <1>0, <1>2, DraftBirths
<1>6. arkiv_id' = [i \in ID |-> IF i \in DOMAIN bornIn THEN bornIn[i] ELSE arkiv_id[i]]
  <2>1. arkiv_id' = [i \in ID |-> IF cs.id[i] # Absent THEN cs.id[i] ELSE arkiv_id[i]]
    BY DEF CommitBlock, Commit, StagingGet
  <2>2. ASSUME NEW i \in ID
        PROVE  (IF cs.id[i] # Absent THEN cs.id[i] ELSE arkiv_id[i])
                 = IF i \in DOMAIN bornIn THEN bornIn[i] ELSE arkiv_id[i]
    BY <1>0, DraftIssued, AbsentAssumption
  <2> QED  BY <2>1, <2>2
<1>7. goneIn \in SUBSET issued
  BY <1>2 DEF goneIn
<1>8. cs.hash \in Hash \ {visibleChain[n].name : n \in BaseNumber + 1 .. topVersion}
  <2>1. cs.hash \in Hash \ {canon[n].hash : n \in Canonical}
    BY <1>0 DEF ChainInv, BlockOnHead, FreshHash
  <2>2. \A n \in Canonical : visibleChain[n].name = canon[n].hash
    <3> TAKE n \in Canonical
    <3>1. n \in Versions /\ n \in Number
      BY <1>0, StoreAssumption, BoundsAssumption
         DEF Canonical, Versions, Number, TypeInv, TypeOK, EnvTypeOK, ChainShape
    <3> QED  BY <3>1 DEF VisibleMapped, VersionOf
  <2> QED  BY <1>2, <2>1, <2>2 DEF Canonical
<1>9. valsIn \in [{issue(i) : i \in issued \ goneIn} -> EntityRec]
  <2>1. \A i \in ID : cs.state.ids[i] = IF i \in goneIn THEN Absent ELSE issue(i)
    BY <1>0, <1>2, DraftIssued
  <2>2. \A i \in ID : i \in issued \ goneIn <=> cs.state.ids[i] # Absent
    <3> HIDE DEF issue
    <3> QED  BY <2>1 DEF goneIn
  <2>3. liveIn = {issue(i) : i \in issued \ goneIn}
    <3>1. \A i \in issued \ goneIn : i \in ID /\ issue(i) = cs.state.ids[i]
      BY <2>1
    <3>2. issued \ goneIn = {j \in ID : cs.state.ids[j] # Absent}
      BY <2>2
    <3> HIDE DEF issue, issued
    <3> QED  BY <3>1, <3>2 DEF liveIn
  <2>4. ASSUME NEW a \in liveIn  PROVE getEntity(cs, a) \in EntityRec
    <3>1. a \in Addr /\ \E i \in ID : cs.state.ids[i] = a
      BY <1>0, IDTypes DEF liveIn
    <3>2. getEntity(cs, a) # Absent
      BY <1>0, <3>1 DEF DraftSlots
    <3> QED  BY <1>0, <1>1, <3>1, <3>2, IDTypes, ReadTypes
  <2> QED  BY <2>3, <2>4 DEF valsIn
<1>10. visibleChain' = [visibleChain EXCEPT ![topVersion + 1] =
                          Visible!NextVersion(v, cs.hash, bornIn, goneIn, valsIn)]
  <2> DEFINE w == [name |-> cs.hash, ents |-> flushEntities(cs), ids |-> cs.state.ids,
                   count |-> cs.state.count, used |-> pending.minted]
  <2>1. \A n \in Versions : VersionOf(n)' = VersionOf(n)
    BY <1>1 DEF VersionOf, minted
  <2>2. VersionOf(tip)' = w
    <3>1. RootAt(tip)' = newRoot(cs) /\ canon'[tip'] = [hash |-> cs.hash, view |-> pending]
      BY <1>1
    <3> QED  BY <1>1, <3>1, NewRootFields DEF VersionOf, minted
  <2>3. Visible!NextVersion(v, cs.hash, bornIn, goneIn, valsIn) = w
    BY <1>0, <1>2, DraftVersion
  <2> HIDE DEF w, v
  <2>4. visibleChain' =
          [n \in Number |-> IF n \in Versions \cup {tip + 1}
                            THEN IF n = tip + 1 THEN w ELSE VersionOf(n)
                            ELSE Absent]
    <3>1. visibleChain' = [n \in Number |-> IF n \in Versions' THEN VersionOf(n)' ELSE Absent]
      BY DEF VisibleMapped
    <3>2. \A n \in Number : n = tip + 1 => VersionOf(n)' = w
      BY <1>1, <2>2 DEF VersionOf, RootAt, minted
    <3> QED  BY <1>1, <2>1, <3>1, <3>2
  <2>5. visibleChain' = [visibleChain EXCEPT ![tip + 1] = w]
    <3>1. visibleChain = [n \in Number |-> IF n \in Versions THEN VersionOf(n) ELSE Absent]
      BY DEF VisibleMapped
    <3> QED  BY <1>1, <2>4, <3>1
  <2> QED  BY <1>2, <2>3, <2>5
<1>11. \E born \in Visible!Births(v) :
         /\ arkiv_id' = [i \in ID |-> IF i \in DOMAIN born THEN born[i] ELSE arkiv_id[i]]
         /\ \E gone \in SUBSET {i \in ID : Visible!IssuedBy(v, born, i) # Absent},
               name \in Hash \ {visibleChain[n].name : n \in BaseNumber + 1 .. topVersion} :
            \E vals \in [{Visible!IssuedBy(v, born, i) :
                            i \in {j \in ID : Visible!IssuedBy(v, born, j) # Absent} \ gone}
                           -> EntityRec] :
              visibleChain' = [visibleChain EXCEPT ![topVersion + 1] =
                                 Visible!NextVersion(v, name, born, gone, vals)]
  <2> HIDE DEF v
  <2> WITNESS bornIn \in Visible!Births(v)
  <2>1. PICK gone \in SUBSET {i \in ID : Visible!IssuedBy(v, bornIn, i) # Absent} : gone = goneIn
    BY <1>7
  <2>2. PICK name \in Hash \ {visibleChain[n].name : n \in BaseNumber + 1 .. topVersion} :
          name = cs.hash
    BY <1>8
  <2> QED  BY <1>6, <1>9, <1>10, <2>1, <2>2
<1> QED
  BY <1>2, <1>3, <1>4, <1>11 DEF Visible!Seal, Visible!Sealed, visibleChain, topVersion

\* A revert cuts the stack at the ancestor and deletes from the ID map the
\* IDs without a slot there; Reorg keeps the lock.
LEMMA RevertTruncates ==
  ASSUME VisibleInv, VisibleMapped, VisibleMapped',
         NEW oldest \in Canonical, call = Absent, revertToAncestor(oldest),
         NEW held \in {"free", "reorg"}, WriteLock' = held
  PROVE  Visible!ChainNext
<1>0. ChainInv /\ TypeInv
  BY DEF VisibleInv, IDInv, HistoryInv, ChainInv
<1>1. /\ tip' = oldest - 1 /\ tip' \in Versions /\ oldest <= tip /\ cs = Absent
      /\ Versions' = BaseNumber..(oldest - 1) /\ Versions' \subseteq Versions
      /\ ancestorRoot(oldest) = RootAt(oldest - 1)
      /\ \A n \in Versions' : RootAt(n)' = RootAt(n) /\ canon'[n] = canon[n]
  BY <1>0, RevertEffect
<1>2. PICK anc \in Nat : /\ anc = oldest - 1 /\ anc \in Versions /\ anc \in Number /\ anc < tip
                         /\ tip \in Nat /\ BaseNumber \in Nat /\ BaseNumber <= anc
                         /\ Number \subseteq Nat
  BY <1>0, <1>1, RootTypes, StoreAssumption, BoundsAssumption
     DEF Canonical, TypeInv, TypeOK, EnvTypeOK, Number, Versions
<1>3. WriteLock = "free"
  BY <1>1 DEF WriteLock
<1>4. topVersion = tip /\ topVersion' = anc
  BY <1>1, <1>2 DEF VisibleMapped
<1>5. visibleChain[anc].ids = RootAt(anc).ids
  BY <1>2 DEF VisibleMapped, VersionOf
<1>6. visibleChain' = [m \in Number |-> IF m > anc THEN Absent ELSE visibleChain[m]]
  <2>1. \A m \in Versions' : VersionOf(m)' = VersionOf(m)
    BY <1>1 DEF VersionOf, minted
  <2>2. \A m \in Number : m \in Versions' <=> m \in Versions /\ ~(m > anc)
    <3> TAKE m \in Number
    <3>1. m \in Nat
      BY <1>2
    <3> QED  BY <1>1, <1>2, <3>1 DEF Versions
  <2>3. visibleChain' = [m \in Number |-> IF m \in Versions' THEN VersionOf(m)' ELSE Absent]
    BY DEF VisibleMapped
  <2>4. visibleChain = [m \in Number |-> IF m \in Versions THEN VersionOf(m) ELSE Absent]
    BY DEF VisibleMapped
  <2> QED  BY <2>1, <2>2, <2>3, <2>4
<1>7. arkiv_id' = [i \in ID |-> IF visibleChain[anc].ids[i] = Absent THEN Absent ELSE arkiv_id[i]]
  <2>1. arkiv_id' = [i \in ID |-> IF i \in OrphanIDs(RootAt(anc)) THEN Absent ELSE arkiv_id[i]]
    BY <1>1, <1>2 DEF revertToAncestor
  <2>2. ASSUME NEW i \in ID
        PROVE  (IF i \in OrphanIDs(RootAt(anc)) THEN Absent ELSE arkiv_id[i])
                 = IF RootAt(anc).ids[i] = Absent THEN Absent ELSE arkiv_id[i]
    BY DEF OrphanIDs
  <2> QED  BY <1>5, <2>1, <2>2
<1>8. Visible!Truncate(anc, held)
  BY <1>3, <1>4, <1>6, <1>7 DEF Visible!Truncate, visibleChain, topVersion
<1>9. anc \in BaseNumber..topVersion /\ anc < topVersion
  BY <1>2, <1>4
<1> QED  BY <1>8, <1>9 DEF Visible!ChainNext, topVersion

\* Every step of the store is a step of IndexedChain, or leaves it alone.
LEMMA VisibleStep ==
  ASSUME VisibleInv, VisibleInv', [Next]_vars
  PROVE  [Visible!ChainNext]_(Visible!chainVars)
<1>0. ChainInv /\ TypeInv /\ TypeInv' /\ VisibleMapped /\ VisibleMapped'
  <2>1. VisibleMapped'
    BY MappedVisible, PTL
  <2> QED  BY <2>1, MappedVisible DEF VisibleInv, IDInv, HistoryInv, ChainInv
<1>1. /\ call = Absent => cs = Absent
      /\ call \in {Absent} \cup Call /\ Absent \notin Call
  BY <1>0, StoreAssumption DEF TypeInv, TypeOK
<1> DEFINE same == UNCHANGED <<visibleChain, topVersion, arkiv_id>>
<1>2. ASSUME UNCHANGED <<dbVars, canon>>  PROVE same
  <2>1. \A n : indexedVersion(n)' = indexedVersion(n)
    BY <1>2 DEF indexedVersion, dbVars
  <2> QED  BY <1>2, <2>1 DEF visibleChain, topVersion, dbVars
<1> HIDE DEF same
<1>3. ASSUME same, WriteLock' = WriteLock  PROVE UNCHANGED Visible!chainVars
  BY <1>3 DEF same, Visible!chainVars, visibleChain, topVersion
<1>4. ASSUME same, WriteLock' = "free"  PROVE [Visible!ChainNext]_(Visible!chainVars)
  <2>1. CASE WriteLock = "free"
    BY <1>3, <1>4, <2>1
  <2>2. CASE WriteLock # "free"
    <3>1. Visible!Release
      BY <1>4, <2>2 DEF same, Visible!Release, visibleChain, topVersion
    <3> QED  BY <3>1 DEF Visible!ChainNext
  <2> QED  BY <2>1, <2>2
<1>5. CASE UNCHANGED vars
  BY <1>2, <1>3, <1>5 DEF vars, envVars, WriteLock
<1>6. ASSUME NEW k \in 1..MaxBatch, CommitChain(k)  PROVE UNCHANGED Visible!chainVars
  <2>1. call = Absent /\ cs' = cs /\ call'.method = "commitChain" /\ same
    BY <1>2, <1>6 DEF CommitChain, envVars
  <2> QED  BY <1>1, <1>3, <2>1 DEF WriteLock
<1>7. ASSUME NEW h \in Hash, BeginBlock(h)  PROVE [Visible!ChainNext]_(Visible!chainVars)
  <2>1. same /\ call' = call /\ call # Absent /\ cs = Absent /\ cs' # Absent
    BY <1>0, <1>2, <1>7, BeginEffect DEF BeginBlock
  <2>2. CASE call.method = "reorg"
    BY <1>3, <2>1, <2>2 DEF WriteLock
  <2>3. CASE call.method # "reorg"
    <3>1. WriteLock = "free" /\ WriteLock' = "block"
      BY <2>1, <2>3 DEF WriteLock
    <3>2. Visible!Acquire
      BY <2>1, <3>1 DEF same, Visible!Acquire, visibleChain, topVersion
    <3> QED  BY <3>2 DEF Visible!ChainNext
  <2> QED  BY <2>2, <2>3
<1>8. ASSUME NEW op, NEW next, cs # Absent, next # Absent, ApplyOp(op, next)
      PROVE  UNCHANGED Visible!chainVars
  <2>1. same /\ call' = call /\ cs' # Absent
    BY <1>2, <1>8 DEF ApplyOp
  <2> QED  BY <1>3, <1>8, <2>1 DEF WriteLock
<1>9. CASE \/ \E op \in CreateOp : Create(op)
           \/ \E op \in UpdateOp : Update(op)
           \/ \E op \in DeleteOp : Delete(op)
           \/ \E op \in ExtendOp : Extend(op)
           \/ \E op \in TransferOp : Transfer(op)
           \/ \E op \in ExpireOp : Expire(op)
  <2>1. cs # Absent /\ \E op, next : cs' = next /\ ApplyOp(op, next)
    BY <1>9 DEF Create, Update, Delete, Extend, Transfer, Expire, ApplyOp
  <2>2. cs' # Absent
    <3>1. \/ \E op \in CreateOp : Create(op)
          \/ \E op \in UpdateOp : Update(op)
          \/ \E op \in DeleteOp \cup ExpireOp : Delete(op)
          \/ \E op \in ExtendOp : Extend(op)
          \/ \E op \in TransferOp : Transfer(op)
      BY <1>9 DEF Expire, Delete
    <3>2. DraftMatches
      BY DEF VisibleInv, IDInv, HistoryInv
    <3> QED  BY <1>0, <3>1, <3>2, OpChangesDraft
  <2> QED  BY <1>8, <2>1, <2>2
<1>10. CASE CommitBlock
  <2>1. Visible!Seal
    BY <1>0, <1>10, CommitSeals
  <2> QED  BY <2>1 DEF Visible!ChainNext
<1>11. CASE AbortCall \/ Restart
  <2>1. same /\ call' = Absent /\ cs' = Absent
    BY <1>2, <1>11 DEF AbortCall, Discard, Restart
  <2>2. WriteLock' = "free"
    BY <2>1 DEF WriteLock
  <2> QED  BY <1>4, <2>1, <2>2
<1>12. ASSUME NEW oldest \in Canonical, call = Absent, revertToAncestor(oldest),
              call' # Absent => call'.method = "reorg"
       PROVE  Visible!ChainNext
  <2>1. cs' = Absent
    BY <1>0, <1>12, RevertEffect
  <2>2. WriteLock' \in {"free", "reorg"}
    BY <1>12, <2>1 DEF WriteLock
  <2> QED  BY <1>0, <1>12, <2>2, RevertTruncates
<1>13. CASE (\E oldest \in Canonical : Revert(oldest)) \/ RevertBlock
  <2>1. PICK oldest \in Canonical : call = Absent /\ revertToAncestor(oldest) /\ call' = Absent
    BY <1>13 DEF Revert, RevertBlock, revertBlock
  <2>2. Visible!ChainNext
    BY <1>12, <2>1
  <2> QED  BY <2>2
<1>14. CASE \E oldest \in Canonical, k \in 1..MaxBatch : Reorg(oldest, k)
  <2>1. PICK oldest \in Canonical :
          call = Absent /\ revertToAncestor(oldest) /\ call'.method = "reorg"
    BY <1>14 DEF Reorg
  <2>2. Visible!ChainNext
    BY <1>12, <2>1
  <2> QED  BY <2>2
<1>15. CASE (\E op \in CreateOp \cup UpdateOp \cup DeleteOp \cup ExtendOp \cup TransferOp
                         \cup ExpireOp : OpFails(op)) \/ IOFails
  BY <1>11, <1>15 DEF OpFails, IOFails
<1>16. CASE (\E k \in 1..MaxBatch : CommitChain(k)) \/ \E h \in Hash : BeginBlock(h)
  BY <1>6, <1>7, <1>16
<1>17. \/ UNCHANGED vars \/ CommitBlock \/ AbortCall \/ Restart \/ RevertBlock
       \/ \E op \in CreateOp \cup UpdateOp \cup DeleteOp \cup ExtendOp \cup TransferOp
                         \cup ExpireOp : OpFails(op)
       \/ IOFails
       \/ \E k \in 1..MaxBatch : CommitChain(k)
       \/ \E h \in Hash : BeginBlock(h)
       \/ \E op \in CreateOp : Create(op)
       \/ \E op \in UpdateOp : Update(op)
       \/ \E op \in DeleteOp : Delete(op)
       \/ \E op \in ExtendOp : Extend(op)
       \/ \E op \in TransferOp : Transfer(op)
       \/ \E op \in ExpireOp : Expire(op)
       \/ \E oldest \in Canonical : Revert(oldest)
       \/ \E oldest \in Canonical, k \in 1..MaxBatch : Reorg(oldest, k)
  BY DEF Next
<1> QED
  BY <1>5, <1>9, <1>10, <1>11, <1>13, <1>14, <1>15, <1>16, <1>17

\* The store with its failures, crashes, reverts and reorgs implements the
\* chain beside which QueryServer runs: readers, with or without the lock,
\* never meet half a block, half a revert or a reorg whose lock was let go.
THEOREM VisibleRefinement == Spec => ImplementsVisible
<1>1. Init => Visible!Init
  <2> SUFFICES ASSUME Init  PROVE Visible!Init
    OBVIOUS
  <2>1. \A n \in Number : indexedVersion(n) = IF n = BaseNumber THEN Visible!EmptyVersion ELSE Absent
    BY StoreAssumption DEF Init, indexedVersion, EmptyTrie, NoEntities, Visible!EmptyVersion
  <2>2. [n \in Number |-> indexedVersion(n)]
          = [n \in Number |-> IF n = BaseNumber THEN Visible!EmptyVersion ELSE Absent]
    BY <2>1
  <2> QED  BY <2>2 DEF Init, Visible!Init, WriteLock
<1>2. VisibleInv /\ VisibleInv' /\ [Next]_vars => [Visible!ChainNext]_(Visible!chainVars)
  BY VisibleStep
<1> QED
  BY <1>1, <1>2, VisibleInvariant, PTL DEF Spec, ImplementsVisible, Visible!ChainSpec
=============================================================================
