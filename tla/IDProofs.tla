------------------------------ MODULE IDProofs ------------------------------
(***************************************************************************)
(* Entity IDs: the maps between IDs and addresses stay inverse to each     *)
(* other, and never contradict the ID slots of any canonical state, though *)
(* a revert makes the counter issue the same IDs again.                    *)
(***************************************************************************)
EXTENDS HistoryProofs

(***************************************************************************)
(* The inductive invariant.                                                *)
(***************************************************************************)
minted(n) == canon[n].view.minted

\* In every canonical state the slots hold issued IDs of minted addresses,
\* and an address has a slot exactly when its entity is live.
SlotsIssued ==
  \A n \in Versions, i \in ID :
    RootAt(n).ids[i] # Absent => /\ i <= RootAt(n).count
                                 /\ RootAt(n).ids[i] \in minted(n)

SlotsLive ==
  \A n \in Versions, a \in Addr :
    RootAt(n).code[a] # Absent <=> \E i \in ID : RootAt(n).ids[i] = a

\* Counters and minted addresses only grow along the chain.
ChainGrows ==
  \A m, n \in Versions : m <= n => /\ RootAt(m).count <= RootAt(n).count
                                   /\ minted(m) \subseteq minted(n)

\* An address has the same ID in every canonical state it has one in.
SlotsStable ==
  \A m, n \in Versions, i, j \in ID :
    RootAt(m).ids[i] # Absent /\ RootAt(m).ids[i] = RootAt(n).ids[j] => i = j

\* The ID maps are inverse, hold only what the state at the head has issued,
\* and agree with every canonical state on what they share with it.
MapsInverse == \A i \in ID, a \in Addr : arkiv_id[i] = a <=> arkiv_addr[a] = i

MapsIssued ==
  \A i \in ID : arkiv_id[i] # Absent => /\ i <= head.root.count
                                        /\ arkiv_id[i] \in minted(tip)

MapsMatchSlots ==
  \A n \in Versions, i, j \in ID :
    arkiv_id[i] # Absent /\ RootAt(n).ids[j] # Absent
      => (arkiv_id[i] = RootAt(n).ids[j] <=> i = j)

\* The block in progress: IDs staged in it are new and so are their
\* addresses; every slot is one of the head's or one it has staged; slots and
\* live entities correspond.
StagedNew ==
  /\ head.root.count <= cs.state.count /\ minted(tip) \subseteq pending.minted
  /\ \A i \in ID : cs.id[i] # Absent => /\ head.root.count < i /\ i <= cs.state.count
                                        /\ cs.id[i] \notin minted(tip)
                                        /\ cs.id[i] \in pending.minted
  /\ \A i \in ID, a \in Addr : cs.id[i] = a <=> cs.addr[a] = i

DraftSlots ==
  /\ \A i \in ID : cs.state.ids[i] # Absent =>
       \/ i <= head.root.count /\ cs.state.ids[i] = head.root.ids[i]
       \/ cs.state.ids[i] = cs.id[i]
  /\ \A a \in Addr : getEntity(cs, a) # Absent <=> \E i \in ID : cs.state.ids[i] = a

DraftIDs == cs # Absent => StagedNew /\ DraftSlots

IDInv ==
  /\ HistoryInv
  /\ SlotsIssued /\ SlotsLive /\ ChainGrows /\ SlotsStable
  /\ MapsInverse /\ MapsIssued /\ MapsMatchSlots
  /\ DraftIDs

\* The tip is a canonical state, and the head holds it.
LEMMA TipVersion ==
  ASSUME ChainInv
  PROVE tip \in Versions /\ head.root = RootAt(tip) /\ TypeInv
PROOF
  BY StoreAssumption, BoundsAssumption
     DEF ChainInv, HeadIsTip, Versions, TypeInv, ChainShape, TypeOK, EnvTypeOK, Number

\* The types of what the invariant speaks of.
LEMMA IDTypes ==
  ASSUME TypeInv
  PROVE /\ arkiv_id \in [ID -> {Absent} \cup Addr] /\ arkiv_addr \in [Addr -> {Absent} \cup ID]
        /\ head.root.count \in Nat /\ head.root.ids \in [ID -> {Absent} \cup Addr]
        /\ cs # Absent => /\ cs \in CacheStoreRec /\ cs.id \in [ID -> {Absent} \cup Addr]
                          /\ cs.addr \in [Addr -> {Absent} \cup ID] /\ cs.state.count \in Nat
                          /\ cs.state.ids \in [ID -> {Absent} \cup Addr]
                          /\ pending \in ContractView
        /\ ID \subseteq Nat /\ DbTypeOK
PROOF
<1>1. /\ arkiv_id \in [ID -> {Absent} \cup Addr] /\ arkiv_addr \in [Addr -> {Absent} \cup ID]
      /\ DbTypeOK /\ ID \subseteq Nat
  BY BoundsAssumption DEF TypeInv, TypeOK, DbTypeOK, ID
<1>2. head.root \in Trie /\ (cs # Absent => cs \in CacheStoreRec /\ pending \in ContractView)
  BY DEF TypeInv, TypeOK, EnvTypeOK, HeadRec
<1>3. cs # Absent => /\ cs.id \in [ID -> {Absent} \cup Addr]
                     /\ cs.addr \in [Addr -> {Absent} \cup ID] /\ cs.state \in Trie
  BY <1>2 DEF CacheStoreRec
<1>4. \A t \in Trie : t.count \in Nat /\ t.ids \in [ID -> {Absent} \cup Addr]
  BY BoundsAssumption DEF Trie
<1>. QED
  BY <1>1, <1>2, <1>3, <1>4

\* What the tries of the chain are.
LEMMA RootTypes ==
  ASSUME ChainInv, NEW n \in Versions
  PROVE /\ RootAt(n) \in Trie /\ RootAt(n).count \in Nat
        /\ RootAt(n).ids \in [ID -> {Absent} \cup Addr]
        /\ n \in Nat /\ n \in Number /\ n <= tip /\ tip \in Versions
        /\ head.root = RootAt(tip)
PROOF
<1>1. /\ tip \in Nat /\ BaseNumber \in Nat /\ n \in Nat /\ BaseNumber <= tip /\ n <= tip
      /\ n \in Number /\ tip \in Versions
      /\ n # BaseNumber => n \in Canonical
  BY StoreAssumption, BoundsAssumption
     DEF ChainInv, TypeInv, ChainShape, TypeOK, EnvTypeOK, Number, Versions, Canonical
<1>2. RootAt(n) \in Trie
  <2>1. CASE n = BaseNumber
    BY <2>1, EmptyTrieType DEF RootAt
  <2>2. CASE n # BaseNumber
    <3>1. /\ arkiv_root[canon[n].hash] # Absent /\ canon[n].hash \in AnyHash
          /\ arkiv_root \in [AnyHash -> {Absent} \cup Trie]
      BY <1>1, <2>2
         DEF ChainInv, BlockIndexIsChain, HashesUnique, AnyHash, TypeInv, TypeOK, DbTypeOK
    <3>. QED
      BY <2>2, <3>1 DEF RootAt
  <2>. QED
    BY <2>1, <2>2
<1>3. RootAt(n).count \in Nat /\ RootAt(n).ids \in [ID -> {Absent} \cup Addr]
  BY <1>2, BoundsAssumption DEF Trie
<1>. QED
  BY <1>1, <1>2, <1>3 DEF ChainInv, HeadIsTip

\* A live entity whose ID is found sits in the slot of that ID, so a handler
\* that goes through entityID works on the right slot and bitmaps.
LEMMA SlotOfID ==
  ASSUME IDInv, cs # Absent, NEW a \in Addr, entityID(cs, a) # Absent,
         NEW i \in ID, cs.state.ids[i] = a
  PROVE i = entityID(cs, a)
PROOF
<1>1. StagedNew /\ DraftSlots /\ MapsInverse /\ MapsMatchSlots /\ SlotsIssued /\ ChainInv
  BY DEF IDInv, DraftIDs, HistoryInv
<1>2. TypeInv
  BY <1>1 DEF ChainInv
<1>3. tip \in Versions /\ head.root = RootAt(tip)
  BY <1>1, TipVersion
<1>4. a # Absent
  BY AbsentAssumption
<1>5. CASE cs.addr[a] # Absent
  <2>1. cs.addr[a] \in ID /\ entityID(cs, a) = cs.addr[a]
    BY <1>2, <1>5, IDTypes DEF entityID, StagingGet
  <2>2. cs.id[cs.addr[a]] = a
    BY <1>1, <2>1 DEF StagedNew
  <2>3. a \notin minted(tip)
    BY <1>1, <1>4, <2>1, <2>2 DEF StagedNew
  <2>4. head.root.ids[i] # a
    BY <1>1, <1>3, <1>4, <2>3 DEF SlotsIssued
  <2>5. cs.id[i] = a
    BY <1>1, <1>4, <2>4 DEF DraftSlots
  <2>. QED
    BY <1>1, <2>1, <2>5 DEF StagedNew
<1>6. CASE cs.addr[a] = Absent
  <2>1. arkiv_addr[a] \in ID /\ entityID(cs, a) = arkiv_addr[a]
    BY <1>2, <1>6, IDTypes DEF entityID, StagingGet
  <2>2. arkiv_id[arkiv_addr[a]] = a
    BY <1>1, <2>1 DEF MapsInverse
  <2>3. cs.id[i] # a
    BY <1>1, <1>6, AbsentAssumption DEF StagedNew
  <2>4. head.root.ids[i] = a
    BY <1>1, <1>4, <2>3 DEF DraftSlots
  <2>. QED
    BY <1>1, <1>3, <1>4, <2>1, <2>2, <2>4 DEF MapsMatchSlots
<1>. QED
  BY <1>5, <1>6

\* No two slots of the block in progress hold the same address.
LEMMA DraftSlotsOnce ==
  ASSUME IDInv, cs # Absent, NEW i \in ID, NEW j \in ID,
         cs.state.ids[i] # Absent, cs.state.ids[i] = cs.state.ids[j]
  PROVE i = j
PROOF
<1>1. StagedNew /\ DraftSlots /\ SlotsStable /\ SlotsIssued /\ ChainInv /\ TypeInv
  BY DEF IDInv, DraftIDs, HistoryInv, ChainInv
<1>2. tip \in Versions /\ head.root = RootAt(tip)
  BY <1>1, TipVersion
<1> DEFINE a == cs.state.ids[i]
<1>3. a \in Addr
  BY <1>1, IDTypes
<1>4. ASSUME NEW k \in ID, cs.state.ids[k] = a
      PROVE \/ head.root.ids[k] = a /\ a \in minted(tip)
            \/ cs.addr[a] = k /\ a \notin minted(tip)
  <2>1. CASE cs.state.ids[k] = head.root.ids[k]
    BY <1>1, <1>2, <1>4, <2>1 DEF SlotsIssued
  <2>2. CASE cs.state.ids[k] = cs.id[k]
    BY <1>1, <1>3, <1>4, <2>2 DEF StagedNew
  <2>. QED
    BY <1>1, <1>4, <2>1, <2>2 DEF DraftSlots
<1>5. head.root.ids[i] = a /\ head.root.ids[j] = a => i = j
  BY <1>1, <1>2 DEF SlotsStable
<1>. QED
  BY <1>4, <1>5

\* A step that leaves the store alone can only disturb the block in progress.
LEMMA SameStoreIDs ==
  ASSUME IDInv, HistoryInv', UNCHANGED <<dbVars, head, canon, tip>>, DraftIDs'
  PROVE IDInv'
PROOF
<1>1. Versions' = Versions /\ \A n \in Versions : RootAt(n)' = RootAt(n)
  BY SameRoots
<1>2. arkiv_id' = arkiv_id /\ arkiv_addr' = arkiv_addr /\ \A n : minted(n)' = minted(n)
  BY DEF dbVars, minted
<1>3. SlotsIssued' /\ SlotsLive' /\ ChainGrows'
  BY <1>1, <1>2 DEF IDInv, SlotsIssued, SlotsLive, ChainGrows
<1>4. SlotsStable' /\ MapsMatchSlots'
  BY <1>1, <1>2 DEF IDInv, SlotsStable, MapsMatchSlots
<1>5. MapsInverse' /\ MapsIssued'
  BY <1>2 DEF IDInv, MapsInverse, MapsIssued, minted
<1>. QED
  BY <1>3, <1>4, <1>5 DEF IDInv

\* New on an empty database: no ID has been issued.
LEMMA InitIDs == Init => IDInv
PROOF
<1> SUFFICES ASSUME Init PROVE IDInv
  OBVIOUS
<1>1. HistoryInv
  BY InitHistory
<1>2. Versions = {BaseNumber} /\ BaseNumber \in Nat
  BY StoreAssumption, BoundsAssumption DEF Init, Versions, Number
<1>3. /\ RootAt(BaseNumber).count = 0
      /\ \A i \in ID : RootAt(BaseNumber).ids[i] = Absent
      /\ \A a \in Addr : RootAt(BaseNumber).code[a] = Absent
  BY DEF RootAt, EmptyTrie, NoEntities
<1>4. SlotsIssued /\ SlotsLive /\ ChainGrows /\ SlotsStable
  BY <1>2, <1>3, AbsentAssumption DEF SlotsIssued, SlotsLive, ChainGrows, SlotsStable
<1>5. MapsInverse /\ MapsIssued /\ MapsMatchSlots
  BY AbsentAssumption DEF Init, MapsInverse, MapsIssued, MapsMatchSlots
<1>. QED
  BY <1>1, <1>4, <1>5 DEF IDInv, DraftIDs, Init

\* A block opens with nothing staged, on the slots of the head.
LEMMA BeginIDs ==
  ASSUME IDInv, NEW h \in Hash, BeginBlock(h)
  PROVE DraftIDs'
PROOF
<1>0. ChainInv /\ TypeInv /\ HistoryInv /\ SlotsLive
  BY DEF IDInv, HistoryInv, ChainInv
<1>1. /\ cs' # Absent /\ cs'.state = [head.root EXCEPT !.nonce = 1] /\ head.root \in Trie
      /\ \A i \in ID : cs'.id[i] = Absent
      /\ \A a \in Addr : cs'.addr[a] = Absent /\ cs'.dirtyEntities[a] = Absent
      /\ tip \in Versions /\ pending' = canon[tip].view
      /\ UNCHANGED <<head, canon, tip>>
  BY <1>0, BeginEffect
<1>2. /\ cs'.state.count = head.root.count /\ cs'.state.ids = head.root.ids
      /\ cs'.state.code = head.root.code /\ head.root.count \in Nat
      /\ \A i \in ID : i \in Nat /\ head.root = RootAt(tip)
  BY <1>0, <1>1, IDTypes DEF Trie, ChainInv, HeadIsTip
<1>3. StagedNew'
  BY <1>1, <1>2, AbsentAssumption DEF StagedNew, minted
<1>4. \A a \in Addr : getEntity(cs', a) = head.root.code[a]
  BY <1>1, <1>2 DEF getEntity
<1>5. \A i \in ID : head.root.ids[i] # Absent => i <= head.root.count
  BY <1>1, <1>2 DEF IDInv, SlotsIssued
<1>6. \A a \in Addr : getEntity(cs', a) # Absent <=> \E i \in ID : cs'.state.ids[i] = a
  <2>1. head.root = RootAt(tip)
    BY <1>0 DEF ChainInv, HeadIsTip
  <2>2. \A a \in Addr : head.root.code[a] # Absent <=> \E i \in ID : head.root.ids[i] = a
    BY <1>0, <1>1, <2>1 DEF SlotsLive
  <2>. QED
    BY <1>2, <1>4, <2>2
<1>7. DraftSlots'
  BY <1>1, <1>2, <1>5, <1>6 DEF DraftSlots, getEntity
<1>. QED
  BY <1>3, <1>7 DEF DraftIDs

\* Update, Extend and Transfer leave the IDs of the block alone.
LEMMA EditIDs ==
  ASSUME IDInv, cs # Absent, cs' # Absent, UNCHANGED <<dbVars, head, canon, tip>>,
         cs'.id = cs.id, cs'.addr = cs.addr, cs'.state = cs.state,
         pending.minted \subseteq pending'.minted,
         \A a \in Addr : getEntity(cs', a) # Absent <=> getEntity(cs, a) # Absent
  PROVE DraftIDs'
PROOF
<1>1. StagedNew /\ DraftSlots
  BY DEF IDInv, DraftIDs
<1>2. StagedNew'
  BY <1>1 DEF StagedNew, minted
<1>3. DraftSlots'
  BY <1>1 DEF DraftSlots, getEntity
<1>. QED
  BY <1>2, <1>3 DEF DraftIDs

\* processCreate takes the next ID and stages both maps and the slot.
LEMMA CreateIDs ==
  ASSUME IDInv, NEW op \in CreateOp, Create(op)
  PROVE DraftIDs'
PROOF
<1>0. ChainInv /\ TypeInv /\ StagedNew /\ DraftSlots /\ SlotsIssued /\ cs # Absent
  BY DEF IDInv, HistoryInv, ChainInv, DraftIDs, Create
<1> DEFINE k == cs.state.count + 1
           b == op.addr
<1>1. /\ op.addr \in Addr /\ op.addr \notin pending.minted /\ op.type = "create"
      /\ cs.state.count < MaxId /\ cs' = processCreate(cs, op)
      /\ pending' = ContractEffect(op, tip + 1) /\ UNCHANGED <<dbVars, head, canon, tip>>
  BY DEF Create, ApplyOp, ContractAllows, CreateOp
<1>2. k \in ID /\ k \in Nat
  BY <1>0, <1>1, BoundsAssumption, IDTypes DEF ID
<1>3. /\ cs'.id = [cs.id EXCEPT ![k] = b] /\ cs'.addr = [cs.addr EXCEPT ![b] = k]
      /\ cs'.state.ids = [cs.state.ids EXCEPT ![k] = b] /\ cs'.state.count = k
  BY <1>0, <1>1, IDTypes DEF processCreate, CacheStoreRec, Trie
<1>4. pending'.minted = pending.minted \cup {b}
  BY <1>1 DEF ContractEffect
<1> HIDE DEF k, b
<1>5. b \in Addr /\ b # Absent /\ b \notin pending.minted /\ b \notin minted(tip)
  BY <1>0, <1>1, AbsentAssumption DEF b, StagedNew
<1>6. cs.id[k] = Absent /\ cs.addr[b] = Absent
  <2>1. cs.id[k] = Absent
    BY <1>0, <1>2, IDTypes DEF StagedNew, k
  <2>2. cs.addr[b] = Absent
    BY <1>0, <1>5, IDTypes DEF StagedNew
  <2>. QED
    BY <2>1, <2>2
<1>7. StagedNew'
  <2>1. head'.root.count <= cs'.state.count /\ minted(tip)' \subseteq pending'.minted
    BY <1>0, <1>1, <1>2, <1>3, <1>4, IDTypes DEF StagedNew, minted, k
  <2>2. ASSUME NEW i \in ID, cs'.id[i] # Absent
        PROVE /\ head'.root.count < i /\ i <= cs'.state.count
              /\ cs'.id[i] \notin minted(tip)' /\ cs'.id[i] \in pending'.minted
    <3>1. CASE i = k
      <4>1. cs'.id[i] = b
        BY <1>0, <1>2, <1>3, <3>1, IDTypes
      <4>. QED
        BY <1>0, <1>1, <1>3, <1>4, <1>5, <3>1, <4>1, IDTypes DEF StagedNew, minted, k
    <3>2. CASE i # k
      <4>1. cs'.id[i] = cs.id[i]
        BY <1>0, <1>2, <1>3, <3>2, IDTypes
      <4>2. i <= cs.state.count /\ i \in Nat /\ cs.state.count \in Nat
        BY <1>0, <2>2, <4>1, IDTypes DEF StagedNew
      <4>. QED
        BY <1>0, <1>1, <1>3, <1>4, <2>2, <4>1, <4>2 DEF StagedNew, minted, k
    <3>. QED
      BY <3>1, <3>2
  <2>3. ASSUME NEW i \in ID, NEW a \in Addr PROVE cs'.id[i] = a <=> cs'.addr[a] = i
    <3>1. /\ cs'.id[i] = IF i = k THEN b ELSE cs.id[i]
          /\ cs'.addr[a] = IF a = b THEN k ELSE cs.addr[a]
      BY <1>0, <1>2, <1>3, <1>5, IDTypes
    <3>2. cs.id[i] = a <=> cs.addr[a] = i
      BY <1>0 DEF StagedNew
    <3>. QED
      BY <1>5, <1>6, <3>1, <3>2, AbsentAssumption
  <2>. QED
    BY <2>1, <2>2, <2>3 DEF StagedNew
<1>8. \A i \in ID : cs.state.ids[i] # b
  <2>1. tip \in Versions /\ head.root = RootAt(tip)
    BY <1>0, TipVersion
  <2> SUFFICES ASSUME NEW i \in ID, cs.state.ids[i] = b PROVE FALSE
    OBVIOUS
  <2>2. CASE cs.state.ids[i] = head.root.ids[i]
    BY <1>0, <1>5, <2>1, <2>2 DEF SlotsIssued
  <2>3. CASE cs.state.ids[i] = cs.id[i]
    BY <1>0, <1>5, <2>3 DEF StagedNew
  <2>. QED
    BY <1>0, <1>5, <2>2, <2>3 DEF DraftSlots
<1>9. DraftSlots'
  <2>1. \A i \in ID : cs'.state.ids[i] = IF i = k THEN b ELSE cs.state.ids[i]
    BY <1>0, <1>2, <1>3, IDTypes
  <2>2. \A i \in ID : cs'.id[i] = IF i = k THEN b ELSE cs.id[i]
    BY <1>0, <1>2, <1>3, IDTypes
  <2>3. \A a \in Addr : getEntity(cs', a) # Absent <=> a = b \/ getEntity(cs, a) # Absent
    <3>1. newEntity(cs, op) # Absent
      <4>1. newEntity(cs, op) \in EntityRec
        BY <1>0, IDTypes DEF CacheStoreRec, CreateOp, newEntity, EntityRec
      <4>. QED
        BY <4>1, AbsentAssumption
    <3>. QED
      BY <1>0, <1>1, <3>1, IDTypes, HandlerEntity DEF b
  <2>4. \A a \in Addr : getEntity(cs', a) # Absent <=> \E i \in ID : cs'.state.ids[i] = a
    <3> SUFFICES ASSUME NEW a \in Addr
                 PROVE getEntity(cs', a) # Absent <=> \E i \in ID : cs'.state.ids[i] = a
      OBVIOUS
    <3>0. getEntity(cs, a) # Absent <=> \E i \in ID : cs.state.ids[i] = a
      BY <1>0 DEF DraftSlots
    <3>1. CASE a = b
      BY <1>2, <2>1, <2>3, <3>1
    <3>2. CASE a # b
      <4>1. cs.state.ids[k] # a
        <5>1. ASSUME cs.state.ids[k] = a PROVE FALSE
          <6>1. a # Absent /\ cs.state.count \in Nat /\ head.root.count \in Nat
            BY <1>0, AbsentAssumption, IDTypes
          <6>2. k <= head.root.count \/ cs.id[k] # Absent
            BY <1>0, <1>2, <5>1, <6>1 DEF DraftSlots
          <6>. QED
            BY <1>0, <1>6, <6>1, <6>2 DEF StagedNew, k
        <5>. QED
          BY <5>1
      <4>2. (\E i \in ID : cs'.state.ids[i] = a) <=> (\E i \in ID : cs.state.ids[i] = a)
        BY <2>1, <3>2, <4>1
      <4>. QED
        BY <2>3, <3>0, <3>2, <4>2
    <3>. QED
      BY <3>1, <3>2
  <2>5. \A i \in ID : cs'.state.ids[i] # Absent =>
          \/ i <= head'.root.count /\ cs'.state.ids[i] = head'.root.ids[i]
          \/ cs'.state.ids[i] = cs'.id[i]
    BY <1>0, <1>1, <2>1, <2>2 DEF DraftSlots
  <2>. QED
    BY <2>4, <2>5 DEF DraftSlots, getEntity
<1>10. cs' # Absent
  BY <1>0, <1>1, IDTypes, CreateType, HashAssumption
<1>. QED
  BY <1>7, <1>9 DEF DraftIDs

\* deleteEntity clears the slot of the entity and of no other.
LEMMA DeleteIDs ==
  ASSUME IDInv, NEW op \in DeleteOp \cup ExpireOp, Delete(op)
  PROVE DraftIDs'
PROOF
<1>0. ChainInv /\ TypeInv /\ StagedNew /\ DraftSlots /\ cs # Absent
  BY DEF IDInv, HistoryInv, ChainInv, DraftIDs, Delete
<1> DEFINE k == entityID(cs, op.addr)
           b == op.addr
<1>1. /\ op.addr \in Addr /\ op.type # "create" /\ Applicable(cs, op)
      /\ cs' = deleteEntity(cs, op)
      /\ pending' = ContractEffect(op, tip + 1) /\ UNCHANGED <<dbVars, head, canon, tip>>
  BY DEF Delete, ApplyOp, DeleteOp, ExpireOp
<1>2. getEntity(cs, b) # Absent /\ k \in ID
  BY <1>0, <1>1, IDTypes, ReadTypes DEF Applicable
<1>3. /\ cs'.id = cs.id /\ cs'.addr = cs.addr /\ cs'.state.count = cs.state.count
      /\ cs'.state.ids = [cs.state.ids EXCEPT ![k] = Absent]
  BY <1>0, <1>1, IDTypes DEF deleteEntity, CacheStoreRec, Trie
<1>4. pending'.minted = pending.minted \cup {b}
  BY <1>1 DEF ContractEffect
<1>5. \A i \in ID : cs.state.ids[i] = b <=> i = k
  <2>1. \A i \in ID : cs.state.ids[i] = b => i = k
    BY <1>0, <1>1, <1>2, SlotOfID, AbsentAssumption
  <2>2. \E i \in ID : cs.state.ids[i] = b
    BY <1>0, <1>1, <1>2 DEF DraftSlots
  <2>. QED
    BY <2>1, <2>2
<1>6. \A a \in Addr : getEntity(cs', a) = IF a = b THEN Absent ELSE getEntity(cs, a)
  BY <1>0, <1>1, IDTypes, HandlerEntity
<1> HIDE DEF k, b
<1>7. StagedNew'
  BY <1>0, <1>1, <1>3, <1>4 DEF StagedNew, minted
<1>8. \A i \in ID : cs'.state.ids[i] = IF i = k THEN Absent ELSE cs.state.ids[i]
  BY <1>0, <1>2, <1>3, IDTypes
<1>9. \A a \in Addr : getEntity(cs', a) # Absent <=> \E i \in ID : cs'.state.ids[i] = a
  <2> SUFFICES ASSUME NEW a \in Addr
               PROVE getEntity(cs', a) # Absent <=> \E i \in ID : cs'.state.ids[i] = a
    OBVIOUS
  <2>0. getEntity(cs, a) # Absent <=> \E i \in ID : cs.state.ids[i] = a
    BY <1>0 DEF DraftSlots
  <2>1. CASE a = b
    BY <1>5, <1>6, <1>8, <2>1, AbsentAssumption
  <2>2. CASE a # b
    <3>1. (\E i \in ID : cs'.state.ids[i] = a) <=> (\E i \in ID : cs.state.ids[i] = a)
      BY <1>5, <1>8, <2>2, AbsentAssumption
    <3>. QED
      BY <1>6, <2>0, <2>2, <3>1
  <2>. QED
    BY <2>1, <2>2
<1>10. DraftSlots'
  BY <1>0, <1>1, <1>3, <1>8, <1>9 DEF DraftSlots, getEntity
<1>. QED
  BY <1>7, <1>10 DEF DraftIDs

\* Commit: the staged IDs join the maps, and the new state has their slots.
LEMMA CommitIDs ==
  ASSUME IDInv, HistoryInv', CommitBlock
  PROVE IDInv'
PROOF
<1>0. /\ ChainInv /\ TypeInv /\ StagedNew /\ DraftSlots /\ cs # Absent
      /\ SlotsIssued /\ SlotsLive /\ ChainGrows /\ SlotsStable
      /\ MapsInverse /\ MapsIssued /\ MapsMatchSlots
  BY DEF IDInv, HistoryInv, ChainInv, DraftIDs, CommitBlock
<1> PICK new \in Nat : new = tip + 1
  BY <1>0, BoundsAssumption DEF TypeInv, TypeOK, EnvTypeOK, Number
<1>1. /\ Versions' = Versions \cup {new} /\ new \notin Versions /\ tip' = new
      /\ \A n \in Versions : RootAt(n)' = RootAt(n) /\ minted(n)' = minted(n)
      /\ minted(new)' = pending.minted /\ RootAt(new)' = newRoot(cs)
      /\ head'.root = newRoot(cs)
  BY <1>0, CommitEffect DEF minted, RootAt
<1>2. /\ newRoot(cs).ids = cs.state.ids /\ newRoot(cs).count = cs.state.count
      /\ \A a \in Addr : newRoot(cs).code[a] = getEntity(cs, a)
  BY <1>0, CommitEffect, NewRootFields DEF flushEntities, getEntity
<1>3. /\ \A i \in ID : arkiv_id'[i] = IF cs.id[i] # Absent THEN cs.id[i] ELSE arkiv_id[i]
      /\ \A a \in Addr :
           arkiv_addr'[a] = IF cs.addr[a] # Absent THEN cs.addr[a] ELSE arkiv_addr[a]
  BY DEF CommitBlock, Commit, StagingGet
<1>4. /\ tip \in Versions /\ head.root = RootAt(tip)
      /\ \A n \in Versions : n \in Nat /\ n <= tip /\ RootAt(n).count \in Nat
      /\ \A n \in Versions : RootAt(n).ids \in [ID -> {Absent} \cup Addr]
  BY <1>0, TipVersion, RootTypes
<1>5. /\ cs.id \in [ID -> {Absent} \cup Addr] /\ cs.addr \in [Addr -> {Absent} \cup ID]
      /\ cs.state.ids \in [ID -> {Absent} \cup Addr] /\ cs.state.count \in Nat
      /\ arkiv_id \in [ID -> {Absent} \cup Addr] /\ arkiv_addr \in [Addr -> {Absent} \cup ID]
      /\ ID \subseteq Nat
  BY <1>0, IDTypes
\* A slot of the new state is one of the head's, or one staged in the block.
<1>6. ASSUME NEW i \in ID, cs.state.ids[i] # Absent
      PROVE \/ /\ i <= head.root.count /\ cs.state.ids[i] = head.root.ids[i]
               /\ cs.state.ids[i] \in minted(tip) /\ cs.id[i] = Absent
            \/ /\ head.root.count < i /\ cs.state.ids[i] = cs.id[i]
               /\ cs.state.ids[i] \notin minted(tip) /\ cs.state.ids[i] \in pending.minted
               /\ i <= cs.state.count
  <2>1. head.root.count \in Nat /\ i \in Nat
    BY <1>4, <1>5
  <2>2. CASE i <= head.root.count /\ cs.state.ids[i] = head.root.ids[i]
    <3>1. cs.id[i] = Absent
      BY <1>0, <2>1, <2>2 DEF StagedNew
    <3>. QED
      BY <1>0, <1>4, <1>6, <2>2, <3>1 DEF SlotsIssued
  <2>3. CASE cs.state.ids[i] = cs.id[i]
    BY <1>0, <1>6, <2>3 DEF StagedNew
  <2>. QED
    BY <1>0, <1>6, <2>2, <2>3 DEF DraftSlots
<1>7. SlotsIssued'
  <2> SUFFICES ASSUME NEW n \in Versions', NEW i \in ID, RootAt(n)'.ids[i] # Absent
               PROVE i <= RootAt(n)'.count /\ RootAt(n)'.ids[i] \in minted(n)'
    BY DEF SlotsIssued
  <2>1. CASE n \in Versions
    BY <1>0, <1>1, <2>1 DEF SlotsIssued
  <2>2. CASE n = new
    BY <1>0, <1>1, <1>2, <1>4, <1>5, <1>6, <2>2 DEF StagedNew
  <2>. QED
    BY <1>1, <2>1, <2>2
<1>8. SlotsLive'
  <2> SUFFICES ASSUME NEW n \in Versions', NEW a \in Addr
               PROVE RootAt(n)'.code[a] # Absent <=> \E i \in ID : RootAt(n)'.ids[i] = a
    BY DEF SlotsLive
  <2>1. CASE n \in Versions
    BY <1>0, <1>1, <2>1 DEF SlotsLive
  <2>2. CASE n = new
    BY <1>0, <1>1, <1>2, <2>2 DEF DraftSlots
  <2>. QED
    BY <1>1, <2>1, <2>2
<1>9. ChainGrows'
  <2> SUFFICES ASSUME NEW m \in Versions', NEW n \in Versions', m <= n
               PROVE RootAt(m)'.count <= RootAt(n)'.count /\ minted(m)' \subseteq minted(n)'
    BY DEF ChainGrows
  <2>1. CASE n \in Versions
    <3>1. m \in Versions
      BY <1>1, <1>4, <2>1
    <3>. QED
      BY <1>0, <1>1, <2>1, <3>1 DEF ChainGrows
  <2>2. CASE n = new /\ m = new
    BY <1>1, <1>2, <1>5, <2>2
  <2>3. CASE n = new /\ m \in Versions
    <3>1. RootAt(m).count <= head.root.count /\ minted(m) \subseteq minted(tip)
      BY <1>0, <1>4, <2>3 DEF ChainGrows
    <3>. QED
      BY <1>0, <1>1, <1>2, <1>4, <1>5, <2>3, <3>1 DEF StagedNew
  <2>. QED
    BY <1>1, <2>1, <2>2, <2>3
\* An address in a slot of an older state was minted before the block.
<1>10. \A n \in Versions, i \in ID : RootAt(n).ids[i] # Absent =>
         RootAt(n).ids[i] \in minted(tip) /\ i <= head.root.count /\ cs.id[i] = Absent
  <2> SUFFICES ASSUME NEW n \in Versions, NEW i \in ID, RootAt(n).ids[i] # Absent
               PROVE /\ RootAt(n).ids[i] \in minted(tip)
                     /\ i <= head.root.count /\ cs.id[i] = Absent
    OBVIOUS
  <2>1. i <= RootAt(n).count /\ RootAt(n).ids[i] \in minted(n)
    BY <1>0 DEF SlotsIssued
  <2>2. RootAt(n).count <= head.root.count /\ minted(n) \subseteq minted(tip)
    BY <1>0, <1>4 DEF ChainGrows
  <2>3. i <= head.root.count /\ i \in Nat /\ head.root.count \in Nat
    BY <1>4, <1>5, <2>1, <2>2
  <2>. QED
    BY <1>0, <2>1, <2>2, <2>3 DEF StagedNew
<1>11. SlotsStable'
  <2>1. ASSUME NEW n \in Versions, NEW i \in ID, NEW j \in ID,
               cs.state.ids[i] # Absent, cs.state.ids[i] = RootAt(n).ids[j]
        PROVE i = j
    <3>1. cs.state.ids[i] = head.root.ids[i]
      BY <1>6, <1>10, <2>1
    <3>. QED
      BY <1>0, <1>4, <2>1, <3>1 DEF SlotsStable
  <2>2. ASSUME NEW i \in ID, NEW j \in ID,
               cs.state.ids[i] # Absent, cs.state.ids[i] = cs.state.ids[j]
        PROVE i = j
    BY <1>0, <2>2, DraftSlotsOnce
  <2> SUFFICES ASSUME NEW m \in Versions', NEW n \in Versions', NEW i \in ID, NEW j \in ID,
                      RootAt(m)'.ids[i] # Absent, RootAt(m)'.ids[i] = RootAt(n)'.ids[j]
               PROVE i = j
    BY DEF SlotsStable
  <2>3. CASE m \in Versions /\ n \in Versions
    BY <1>0, <1>1, <2>3 DEF SlotsStable
  <2>4. CASE m = new /\ n \in Versions
    BY <1>1, <1>2, <2>1, <2>4
  <2>5. CASE m \in Versions /\ n = new
    BY <1>1, <1>2, <2>1, <2>5
  <2>6. CASE m = new /\ n = new
    BY <1>1, <1>2, <2>2, <2>6
  <2>. QED
    BY <1>1, <2>3, <2>4, <2>5, <2>6
<1>12. \A i \in ID : arkiv_id[i] # Absent => cs.id[i] = Absent /\ arkiv_id[i] \in minted(tip)
  BY <1>0, <1>4, <1>5 DEF MapsIssued, StagedNew
<1>13. MapsInverse'
  <2> SUFFICES ASSUME NEW i \in ID, NEW a \in Addr PROVE arkiv_id'[i] = a <=> arkiv_addr'[a] = i
    BY DEF MapsInverse
  <2>1. (cs.id[i] = a <=> cs.addr[a] = i) /\ (arkiv_id[i] = a <=> arkiv_addr[a] = i)
    BY <1>0 DEF StagedNew, MapsInverse
  <2>2. a # Absent /\ i # Absent
    BY AbsentAssumption
  <2>3. ASSUME arkiv_id[i] = a PROVE cs.id[i] = Absent /\ cs.addr[a] = Absent
    <3>1. cs.id[i] = Absent /\ a \in minted(tip)
      BY <1>12, <2>2, <2>3
    <3>2. ASSUME cs.addr[a] # Absent PROVE FALSE
      <4>1. cs.addr[a] \in ID
        BY <1>5, <3>2
      <4>2. cs.id[cs.addr[a]] = a
        BY <1>0, <4>1 DEF StagedNew
      <4>. QED
        BY <1>0, <2>2, <3>1, <4>1, <4>2 DEF StagedNew
    <3>. QED
      BY <3>1, <3>2
  <2>. QED
    BY <1>3, <2>1, <2>2, <2>3
<1>14. MapsIssued'
  <2> SUFFICES ASSUME NEW i \in ID, arkiv_id'[i] # Absent
               PROVE i <= newRoot(cs).count /\ arkiv_id'[i] \in pending.minted
    BY <1>1 DEF MapsIssued, minted
  <2>1. CASE cs.id[i] # Absent
    BY <1>0, <1>2, <1>3, <2>1 DEF StagedNew
  <2>2. CASE cs.id[i] = Absent
    BY <1>0, <1>2, <1>3, <1>4, <1>5, <2>2 DEF StagedNew, MapsIssued
  <2>. QED
    BY <2>1, <2>2
<1>15. MapsMatchSlots'
  <2> SUFFICES ASSUME NEW n \in Versions', NEW i \in ID, NEW j \in ID,
                      arkiv_id'[i] # Absent, RootAt(n)'.ids[j] # Absent
               PROVE arkiv_id'[i] = RootAt(n)'.ids[j] <=> i = j
    BY DEF MapsMatchSlots
  <2>1. CASE n \in Versions /\ cs.id[i] # Absent
    <3>1. RootAt(n)'.ids[j] \in minted(tip) /\ cs.id[j] = Absent
      BY <1>1, <1>10, <2>1
    <3>2. arkiv_id'[i] = cs.id[i] /\ cs.id[i] \notin minted(tip)
      BY <1>0, <1>3, <2>1 DEF StagedNew
    <3>. QED
      BY <2>1, <3>1, <3>2
  <2>2. CASE n \in Versions /\ cs.id[i] = Absent
    BY <1>0, <1>1, <1>3, <2>2 DEF MapsMatchSlots
  <2>3. CASE n = new
    <3>1. RootAt(n)'.ids[j] = cs.state.ids[j]
      BY <1>1, <1>2, <2>3
    <3>2. CASE cs.state.ids[j] = head.root.ids[j] /\ cs.state.ids[j] \in minted(tip) /\ cs.id[j] = Absent
      <4>1. CASE cs.id[i] # Absent
        BY <1>0, <1>3, <3>1, <3>2, <4>1 DEF StagedNew
      <4>2. CASE cs.id[i] = Absent
        <5>1. arkiv_id'[i] = arkiv_id[i] /\ RootAt(tip).ids[j] = RootAt(n)'.ids[j]
          BY <1>3, <1>4, <3>1, <3>2, <4>2
        <5>. QED
          BY <1>0, <1>4, <5>1 DEF MapsMatchSlots
      <4>. QED
        BY <4>1, <4>2
    <3>3. CASE cs.state.ids[j] = cs.id[j] /\ cs.state.ids[j] \notin minted(tip)
      <4>1. CASE cs.id[i] # Absent
        <5>1. cs.id[i] \in Addr /\ (cs.id[i] = cs.id[j] => i = j)
          BY <1>0, <1>5, <4>1 DEF StagedNew
        <5>. QED
          BY <1>3, <3>1, <3>3, <4>1, <5>1
      <4>2. CASE cs.id[i] = Absent
        <5>1. arkiv_id'[i] \in minted(tip) /\ cs.id[j] # Absent
          BY <1>3, <1>12, <3>1, <3>3, <4>2
        <5>. QED
          BY <3>1, <3>3, <4>2, <5>1
      <4>. QED
        BY <4>1, <4>2
    <3>. QED
      BY <1>6, <3>1, <3>2, <3>3
  <2>. QED
    BY <1>1, <2>1, <2>2, <2>3
<1>16. DraftIDs'
  BY DEF DraftIDs, CommitBlock, Commit
<1>. QED
  BY <1>7, <1>8, <1>9, <1>11, <1>13, <1>14, <1>15, <1>16 DEF IDInv

\* revertToAncestor: the entries whose slot the ancestor does not have leave
\* both maps, which puts the maps back under the ancestor's counter.
LEMMA RevertIDs ==
  ASSUME IDInv, HistoryInv', NEW oldest \in Canonical, call = Absent,
         revertToAncestor(oldest)
  PROVE IDInv'
PROOF
<1>0. /\ ChainInv /\ TypeInv
      /\ SlotsIssued /\ SlotsLive /\ ChainGrows /\ SlotsStable
      /\ MapsInverse /\ MapsIssued /\ MapsMatchSlots
  BY DEF IDInv, HistoryInv, ChainInv
<1> PICK anc \in Nat : anc = oldest - 1
  BY StoreAssumption, BoundsAssumption, <1>0 DEF Canonical, TypeInv, TypeOK, EnvTypeOK, Number
<1>1. /\ Versions' \subseteq Versions /\ tip' = anc /\ anc \in Versions
      /\ head'.root = RootAt(anc) /\ ancestorRoot(oldest) = RootAt(anc)
      /\ \A n \in Versions' : RootAt(n)' = RootAt(n) /\ minted(n)' = minted(n)
      /\ minted(tip)' = minted(anc) /\ cs' = Absent
  BY <1>0, RevertEffect DEF minted
<1> DEFINE t == RootAt(anc)
<1>2. /\ \A i \in ID : arkiv_id'[i] = IF t.ids[i] = Absent THEN Absent ELSE arkiv_id[i]
      /\ \A a \in Addr : arkiv_addr'[a] =
           IF \E i \in ID : arkiv_id[i] = a /\ t.ids[i] = Absent THEN Absent ELSE arkiv_addr[a]
  <2>1. OrphanIDs(t) = {i \in ID : arkiv_id[i] # Absent /\ t.ids[i] = Absent}
    BY DEF OrphanIDs
  <2>2. /\ arkiv_id' = [i \in ID |-> IF i \in OrphanIDs(t) THEN Absent ELSE arkiv_id[i]]
        /\ arkiv_addr' = [a \in Addr |-> IF a \in {arkiv_id[i] : i \in OrphanIDs(t)}
                                         THEN Absent ELSE arkiv_addr[a]]
    BY <1>1 DEF revertToAncestor
  <2>3. \A i \in ID : arkiv_id'[i] = IF t.ids[i] = Absent THEN Absent ELSE arkiv_id[i]
    BY <2>1, <2>2
  <2>4. \A a \in Addr : a \in {arkiv_id[i] : i \in OrphanIDs(t)}
                          <=> \E i \in ID : arkiv_id[i] = a /\ t.ids[i] = Absent
    BY <2>1, AbsentAssumption
  <2>. QED
    BY <2>2, <2>3, <2>4
<1> HIDE DEF t
<1>3. SlotsIssued' /\ SlotsLive' /\ ChainGrows' /\ SlotsStable'
  <2>1. SlotsIssued'
    BY <1>0, <1>1 DEF SlotsIssued
  <2>2. SlotsLive'
    BY <1>0, <1>1 DEF SlotsLive
  <2>3. ChainGrows'
    BY <1>0, <1>1 DEF ChainGrows
  <2>4. SlotsStable'
    BY <1>0, <1>1 DEF SlotsStable
  <2>. QED
    BY <2>1, <2>2, <2>3, <2>4
<1>4. MapsInverse'
  <2> SUFFICES ASSUME NEW i \in ID, NEW a \in Addr PROVE arkiv_id'[i] = a <=> arkiv_addr'[a] = i
    BY DEF MapsInverse
  <2>1. \A j \in ID : arkiv_id[j] = a <=> arkiv_addr[a] = j
    BY <1>0 DEF MapsInverse
  <2>. QED
    BY <1>2, <2>1, AbsentAssumption
<1>5. MapsIssued'
  <2> SUFFICES ASSUME NEW i \in ID, arkiv_id'[i] # Absent
               PROVE i <= t.count /\ arkiv_id'[i] \in minted(anc)
    BY <1>1 DEF MapsIssued, minted, t
  <2>1. arkiv_id'[i] = arkiv_id[i] /\ t.ids[i] # Absent
    BY <1>2
  <2>2. arkiv_id[i] = t.ids[i]
    BY <1>0, <1>1, <2>1 DEF MapsMatchSlots, t
  <2>. QED
    BY <1>0, <1>1, <2>1, <2>2 DEF SlotsIssued, t
<1>6. MapsMatchSlots'
  BY <1>0, <1>1, <1>2 DEF MapsMatchSlots
<1>7. DraftIDs'
  BY <1>1 DEF DraftIDs
<1>. QED
  BY <1>3, <1>4, <1>5, <1>6, <1>7 DEF IDInv

\* Every step keeps the invariant.
LEMMA NextIDs == IDInv /\ [Next]_vars => IDInv'
PROOF
<1> SUFFICES ASSUME IDInv, [Next]_vars PROVE IDInv'
  OBVIOUS
<1>0. HistoryInv /\ HistoryInv' /\ ChainInv /\ TypeInv /\ DraftMatches
  BY NextHistory DEF IDInv, HistoryInv, ChainInv
<1>1. CASE Quiet
  <2>1. DraftIDs'
    <3>1. CASE cs' = Absent
      BY <3>1 DEF DraftIDs
    <3>2. CASE UNCHANGED <<cs, pending>> /\ cs # Absent
      BY <1>1, <3>2, EditIDs DEF Quiet
    <3>. QED
      BY <1>1, <3>1, <3>2 DEF Quiet
  <2>. QED
    BY <1>0, <1>1, <2>1, SameStoreIDs DEF Quiet
<1>2. ASSUME NEW h \in Hash, BeginBlock(h) PROVE IDInv'
  BY <1>0, <1>2, BeginIDs, SameStoreIDs DEF BeginBlock
<1>3. ASSUME NEW op \in CreateOp, Create(op) PROVE IDInv'
  BY <1>0, <1>3, CreateIDs, SameStoreIDs DEF Create, ApplyOp
<1>4. ASSUME NEW op \in DeleteOp \cup ExpireOp, Delete(op) PROVE IDInv'
  BY <1>0, <1>4, DeleteIDs, SameStoreIDs DEF Delete, ApplyOp
<1>5. ASSUME NEW op, NEW next, cs # Absent, next \in CacheStoreRec, ApplyOp(op, next),
             next.id = cs.id, next.addr = cs.addr, next.state = cs.state,
             \A a \in Addr : getEntity(next, a) # Absent <=> getEntity(cs, a) # Absent
      PROVE IDInv'
  <2>1. /\ cs' = next /\ cs' # Absent /\ UNCHANGED <<dbVars, head, canon, tip>>
        /\ pending.minted \subseteq pending'.minted
    BY <1>5, HashAssumption DEF ApplyOp, ContractEffect
  <2>2. DraftIDs'
    BY <1>5, <2>1, EditIDs
  <2>. QED
    BY <1>0, <2>1, <2>2, SameStoreIDs
<1>6. cs # Absent => cs \in CacheStoreRec /\ DbTypeOK
  BY <1>0, IDTypes
<1>7. ASSUME NEW op \in UpdateOp, Update(op) PROVE IDInv'
  <2>1. cs # Absent /\ Applicable(cs, op) /\ ApplyOp(op, processUpdate(cs, op))
    BY <1>7 DEF Update, ApplyOp
  <2>2. /\ processUpdate(cs, op).id = cs.id /\ processUpdate(cs, op).addr = cs.addr
        /\ processUpdate(cs, op).state = cs.state
    BY <1>6, <2>1 DEF processUpdate, CacheStoreRec
  <2>3. op.addr \in Addr /\ op.type = "update" /\ op.content \in Content
    BY DEF UpdateOp
  <2>4. getEntity(cs, op.addr) \in EntityRec
    BY <1>6, <2>1, <2>3, ReadTypes DEF Applicable
  <2>5. updatedEntity(cs, op) \in EntityRec
    BY <1>6, <2>1, <2>3, <2>4 DEF updatedEntity, EntityRec, CacheStoreRec
  <2>6. \A a \in Addr : getEntity(processUpdate(cs, op), a) # Absent
                          <=> getEntity(cs, a) # Absent
    BY <1>6, <2>1, <2>4, <2>5, HandlerEntity, AbsentAssumption
  <2>. QED
    BY <1>5, <1>6, <2>1, <2>2, <2>6, UpdateType
<1>8. ASSUME NEW op \in ExtendOp, Extend(op) PROVE IDInv'
  <2>1. cs # Absent /\ Applicable(cs, op) /\ ApplyOp(op, processExtend(cs, op))
    BY <1>8 DEF Extend, ApplyOp
  <2>2. /\ processExtend(cs, op).id = cs.id /\ processExtend(cs, op).addr = cs.addr
        /\ processExtend(cs, op).state = cs.state
    BY <1>6, <2>1 DEF processExtend, CacheStoreRec
  <2>3. op.addr \in Addr /\ op.type = "extend" /\ op.expiresAt \in Expiry
    BY DEF ExtendOp
  <2>4. getEntity(cs, op.addr) \in EntityRec
    BY <1>6, <2>1, <2>3, ReadTypes DEF Applicable
  <2>5. [getEntity(cs, op.addr) EXCEPT !.expiresAt = op.expiresAt] \in EntityRec
    BY <2>3, <2>4 DEF EntityRec
  <2>6. \A a \in Addr : getEntity(processExtend(cs, op), a) # Absent
                          <=> getEntity(cs, a) # Absent
    BY <1>6, <2>1, <2>4, <2>5, HandlerEntity, AbsentAssumption
  <2>. QED
    BY <1>5, <1>6, <2>1, <2>2, <2>6, ExtendType
<1>9. ASSUME NEW op \in TransferOp, Transfer(op) PROVE IDInv'
  <2>1. cs # Absent /\ Applicable(cs, op) /\ ApplyOp(op, processTransfer(cs, op))
    BY <1>9 DEF Transfer, ApplyOp
  <2>2. /\ processTransfer(cs, op).id = cs.id /\ processTransfer(cs, op).addr = cs.addr
        /\ processTransfer(cs, op).state = cs.state
    BY <1>6, <2>1 DEF processTransfer, CacheStoreRec
  <2>3. op.addr \in Addr /\ op.type = "transfer" /\ op.owner \in Owner
    BY DEF TransferOp
  <2>4. getEntity(cs, op.addr) \in EntityRec
    BY <1>6, <2>1, <2>3, ReadTypes DEF Applicable
  <2>5. [getEntity(cs, op.addr) EXCEPT !.owner = op.owner] \in EntityRec
    BY <2>3, <2>4 DEF EntityRec
  <2>6. \A a \in Addr : getEntity(processTransfer(cs, op), a) # Absent
                          <=> getEntity(cs, a) # Absent
    BY <1>6, <2>1, <2>4, <2>5, HandlerEntity, AbsentAssumption
  <2>. QED
    BY <1>5, <1>6, <2>1, <2>2, <2>6, TransferType
<1>10. CASE CommitBlock
  BY <1>0, <1>10, CommitIDs
<1>11. ASSUME NEW oldest \in Canonical, call = Absent, revertToAncestor(oldest)
       PROVE IDInv'
  BY <1>0, <1>11, RevertIDs
<1>. QED
  BY <1>0, <1>1, <1>2, <1>3, <1>4, <1>7, <1>8, <1>9, <1>10, <1>11, StepKinds

\* The inductive invariant about IDs holds in every reachable state.
THEOREM IDInvariant == Spec => []IDInv
PROOF
  BY InitIDs, NextIDs, PTL DEF Spec

\* In a state of the invariant the ID maps agree.
LEMMA AgreeingMaps == IDInv => IDMapsAgree
PROOF
  BY DEF IDInv, MapsInverse, MapsIssued, IDMapsAgree

\* The two ID maps are always inverse to each other and hold only IDs the
\* counter at the head has issued.
THEOREM IDMapsAlwaysAgree == Spec => []IDMapsAgree
PROOF
  BY AgreeingMaps, IDInvariant, PTL
=============================================================================
