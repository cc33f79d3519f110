---------------------------- MODULE StoreProofs -----------------------------
(***************************************************************************)
(* Theorems about the store, for every value of the constants: its types,  *)
(* and how it follows the chain.                                           *)
(***************************************************************************)
EXTENDS StoreReads, TLAPS

(***************************************************************************)
(* Type correctness needs to know how far a request can still go, and that *)
(* the canonical chain has no holes.                                       *)
(***************************************************************************)
ChainShape ==
  /\ BaseNumber <= tip
  /\ \A n \in BaseNumber..tip : canon[n] # Absent
  /\ call # Absent => Fits(tip, call.left)
  /\ cs # Absent => cs.number = tip + 1

TypeInv == TypeOK /\ ChainShape

(***************************************************************************)
(* What the handlers make of a CacheStore.                                 *)
(***************************************************************************)
\* loadBitmap and mutateBitmap keep a cache of bitmaps a cache of bitmaps.
LEMMA MutateType ==
  ASSUME DbTypeOK, NEW c \in CacheStoreRec, NEW i \in ID, NEW rem, NEW add
  PROVE mutateBitmaps(c, rem, add, i) \in [Pair -> {Absent} \cup Bitmap]
PROOF
<1>1. c.dirtyBitmaps \in [Pair -> {Absent} \cup Bitmap]
  BY DEF CacheStoreRec
<1>2. arkiv_annot \in [Pair -> {Absent} \cup Bitmap]
  BY DEF DbTypeOK
<1>3. \A p \in Pair : loadBitmap(c, p) \in Bitmap
  BY <1>1, <1>2 DEF loadBitmap, Bitmap
<1>4. \A p \in Pair : /\ loadBitmap(c, p) \cup {i} \in Bitmap
                      /\ loadBitmap(c, p) \ {i} \in Bitmap
  BY <1>3 DEF Bitmap
<1>. QED
  BY <1>1, <1>4 DEF mutateBitmaps

\* getEntity returns an entity or nothing, entityID an ID or nothing.
LEMMA ReadTypes ==
  ASSUME DbTypeOK, NEW c \in CacheStoreRec, NEW a \in Addr
  PROVE /\ getEntity(c, a) \in {Absent} \cup EntityRec
        /\ entityID(c, a) \in {Absent} \cup ID
PROOF
  BY DEF CacheStoreRec, Trie, DbTypeOK, getEntity, entityID, StagingGet

\* processCreate builds a well-typed block and does not renumber it.
LEMMA CreateType ==
  ASSUME DbTypeOK, NEW c \in CacheStoreRec, NEW op \in CreateOp, c.state.count < MaxId
  PROVE /\ processCreate(c, op) \in CacheStoreRec
        /\ processCreate(c, op).number = c.number
PROOF
<1> DEFINE i == c.state.count + 1
           e == newEntity(c, op)
<1>1. i \in ID /\ i \in 0..MaxId
  BY BoundsAssumption DEF CacheStoreRec, Trie, ID
<1>2. e \in EntityRec
  BY DEF CacheStoreRec, CreateOp, newEntity, EntityRec
<1>3. mutateBitmaps(c, {}, allAnnotations(e), i) \in [Pair -> {Absent} \cup Bitmap]
  BY <1>1, MutateType
<1>4. [c.state EXCEPT !.count = i, !.ids[i] = op.addr, !.code[op.addr] = Absent] \in Trie
  BY <1>1 DEF CacheStoreRec, Trie, CreateOp
<1>. QED
  BY <1>1, <1>2, <1>3, <1>4 DEF processCreate, CacheStoreRec, CreateOp

\* processUpdate, on an entity that is found.
LEMMA UpdateType ==
  ASSUME DbTypeOK, NEW c \in CacheStoreRec, NEW op \in UpdateOp, Applicable(c, op)
  PROVE /\ processUpdate(c, op) \in CacheStoreRec
        /\ processUpdate(c, op).number = c.number
PROOF
<1>1. op.addr \in Addr /\ op.type = "update" /\ op.content \in Content
  BY DEF UpdateOp
<1>2. getEntity(c, op.addr) \in EntityRec /\ entityID(c, op.addr) \in ID
  BY <1>1, ReadTypes DEF Applicable
<1>3. updatedEntity(c, op) \in EntityRec
  BY <1>1, <1>2 DEF updatedEntity, EntityRec, CacheStoreRec
<1>4. \A rem, add : mutateBitmaps(c, rem, add, entityID(c, op.addr))
                      \in [Pair -> {Absent} \cup Bitmap]
  BY <1>2, MutateType
<1>. QED
  BY <1>1, <1>3, <1>4 DEF processUpdate, CacheStoreRec

\* deleteEntity, the handler of Delete and Expire.
LEMMA DeleteType ==
  ASSUME DbTypeOK, NEW c \in CacheStoreRec, NEW op \in DeleteOp \cup ExpireOp,
         Applicable(c, op)
  PROVE /\ deleteEntity(c, op) \in CacheStoreRec
        /\ deleteEntity(c, op).number = c.number
PROOF
<1>1. op.addr \in Addr /\ op.type # "create"
  BY DEF DeleteOp, ExpireOp
<1>2. entityID(c, op.addr) \in ID
  BY <1>1, ReadTypes DEF Applicable
<1>3. \A rem, add : mutateBitmaps(c, rem, add, entityID(c, op.addr))
                      \in [Pair -> {Absent} \cup Bitmap]
  BY <1>2, MutateType
<1>4. [c.state EXCEPT !.ids[entityID(c, op.addr)] = Absent, !.code[op.addr] = Absent]
        \in Trie
  BY <1>1, <1>2 DEF CacheStoreRec, Trie
<1>. QED
  BY <1>1, <1>2, <1>3, <1>4 DEF deleteEntity, CacheStoreRec

\* processExtend
LEMMA ExtendType ==
  ASSUME DbTypeOK, NEW c \in CacheStoreRec, NEW op \in ExtendOp, Applicable(c, op)
  PROVE /\ processExtend(c, op) \in CacheStoreRec
        /\ processExtend(c, op).number = c.number
PROOF
<1>1. op.addr \in Addr /\ op.type = "extend" /\ op.expiresAt \in Expiry
  BY DEF ExtendOp
<1>2. getEntity(c, op.addr) \in EntityRec /\ entityID(c, op.addr) \in ID
  BY <1>1, ReadTypes DEF Applicable
<1>3. [getEntity(c, op.addr) EXCEPT !.expiresAt = op.expiresAt] \in EntityRec
  BY <1>1, <1>2 DEF EntityRec
<1>4. \A rem, add : mutateBitmaps(c, rem, add, entityID(c, op.addr))
                      \in [Pair -> {Absent} \cup Bitmap]
  BY <1>2, MutateType
<1>. QED
  BY <1>1, <1>3, <1>4 DEF processExtend, CacheStoreRec

\* processTransfer
LEMMA TransferType ==
  ASSUME DbTypeOK, NEW c \in CacheStoreRec, NEW op \in TransferOp, Applicable(c, op)
  PROVE /\ processTransfer(c, op) \in CacheStoreRec
        /\ processTransfer(c, op).number = c.number
PROOF
<1>1. op.addr \in Addr /\ op.type = "transfer" /\ op.owner \in Owner
  BY DEF TransferOp
<1>2. getEntity(c, op.addr) \in EntityRec /\ entityID(c, op.addr) \in ID
  BY <1>1, ReadTypes DEF Applicable
<1>3. [getEntity(c, op.addr) EXCEPT !.owner = op.owner] \in EntityRec
  BY <1>1, <1>2 DEF EntityRec
<1>4. \A rem, add : mutateBitmaps(c, rem, add, entityID(c, op.addr))
                      \in [Pair -> {Absent} \cup Bitmap]
  BY <1>2, MutateType
<1>. QED
  BY <1>1, <1>3, <1>4 DEF processTransfer, CacheStoreRec

\* The state behind EmptyRootHash is a state.
LEMMA EmptyTrieType == EmptyTrie \in Trie
PROOF
  BY BoundsAssumption DEF EmptyTrie, Trie, NoEntities

\* Commit computes a state from the block's caches.
LEMMA NewRootType ==
  ASSUME NEW c \in CacheStoreRec
  PROVE newRoot(c) \in Trie
PROOF
<1>1. flushEntities(c) \in [Addr -> {Absent} \cup EntityRec]
  BY DEF flushEntities, CacheStoreRec, Trie
<1>2. flushBitmaps(c, c.state.annot) \in [Pair -> {Absent} \cup Bitmap]
  BY DEF flushBitmaps, CacheStoreRec, Trie
<1> DEFINE t == [c.state EXCEPT !.code = flushEntities(c),
                                !.annot = flushBitmaps(c, c.state.annot)]
<1>3. t \in Trie
  BY <1>1, <1>2 DEF CacheStoreRec, Trie
<1>4. [EmptyTrie EXCEPT !.code = t.code] \in Trie
  BY <1>3, EmptyTrieType DEF Trie
<1>. QED
  BY <1>3, <1>4 DEF newRoot, Finalise

(***************************************************************************)
(* Type correctness.                                                       *)
(***************************************************************************)
AnyOp == CreateOp \cup UpdateOp \cup DeleteOp \cup ExtendOp \cup TransferOp \cup ExpireOp

\* The contract's effect of an operation it allows is a contract view again.
LEMMA ContractEffectType ==
  ASSUME pending \in ContractView, NEW op \in AnyOp, ContractAllows(op),
         NEW n \in Number
  PROVE ContractEffect(op, n) \in ContractView
PROOF
<1>1. op.addr \in Addr
  BY DEF AnyOp, CreateOp, UpdateOp, DeleteOp, ExtendOp, TransferOp, ExpireOp
<1>2. pending.ents \in [Addr -> {Absent} \cup EntityRec] /\ pending.minted \subseteq Addr
  BY DEF ContractView
<1>3. ContractEntity(op, n) \in {Absent} \cup EntityRec
  <2>1. CASE op \in CreateOp
    BY <2>1 DEF ContractEntity, CreateOp, EntityRec
  <2>2. CASE op \in UpdateOp
    <3>1. pending.ents[op.addr] \in EntityRec /\ op.type = "update" /\ op.content \in Content
      BY <1>1, <1>2, <2>2 DEF ContractAllows, UpdateOp
    <3>. QED
      BY <3>1 DEF ContractEntity, EntityRec
  <2>3. CASE op \in ExtendOp
    <3>1. pending.ents[op.addr] \in EntityRec /\ op.type = "extend" /\ op.expiresAt \in Expiry
      BY <1>1, <1>2, <2>3 DEF ContractAllows, ExtendOp
    <3>. QED
      BY <3>1 DEF ContractEntity, EntityRec
  <2>4. CASE op \in TransferOp
    <3>1. pending.ents[op.addr] \in EntityRec /\ op.type = "transfer" /\ op.owner \in Owner
      BY <1>1, <1>2, <2>4 DEF ContractAllows, TransferOp
    <3>. QED
      BY <3>1 DEF ContractEntity, EntityRec
  <2>5. CASE op \in DeleteOp \cup ExpireOp
    BY <2>5 DEF ContractEntity, DeleteOp, ExpireOp
  <2>. QED
    BY <2>1, <2>2, <2>3, <2>4, <2>5 DEF AnyOp
<1>. QED
  BY <1>1, <1>2, <1>3 DEF ContractEffect, ContractView

\* New on an empty database starts well typed.
LEMMA InitType == Init => TypeInv
PROOF
<1> SUFFICES ASSUME Init PROVE TypeInv
  OBVIOUS
<1>1. DbTypeOK
  BY DEF Init, DbTypeOK, Bitmap
<1>2. EnvTypeOK
  BY StoreAssumption
     DEF Init, EnvTypeOK, Block, ContractView, AnyHash, NoEntities, Number
<1>3. head \in HeadRec
  BY EmptyTrieType, BoundsAssumption DEF Init, NoHead, HeadRec, AnyHash, Number
<1>4. ChainShape
  <2>1. [hash |-> BaseHash, view |-> [ents |-> NoEntities, minted |-> {}]] \in Block
    BY DEF Block, ContractView, AnyHash, NoEntities
  <2>2. canon[BaseNumber] # Absent
    BY <2>1, StoreAssumption DEF Init
  <2>3. BaseNumber \in Nat /\ tip = BaseNumber /\ call = Absent /\ cs = Absent
    BY StoreAssumption, BoundsAssumption DEF Init, Number
  <2>. QED
    BY <2>2, <2>3 DEF ChainShape
<1>. QED
  BY <1>1, <1>2, <1>3, <1>4 DEF Init, TypeInv, TypeOK

\* An operation its handler accepts keeps the types, when the handler does.
LEMMA ApplyOpType ==
  ASSUME TypeInv, NEW op \in AnyOp, NEW next \in CacheStoreRec, cs # Absent,
         next.number = cs.number, ApplyOp(op, next)
  PROVE TypeInv'
PROOF
<1>1. tip + 1 \in Number /\ tip \in Number
  BY BoundsAssumption DEF TypeInv, TypeOK, EnvTypeOK, ChainShape, Fits, Call, Number
<1>2. pending' \in ContractView
  BY <1>1, ContractEffectType DEF ApplyOp, TypeInv, TypeOK, EnvTypeOK
<1>3. DbTypeOK'
  BY DEF TypeInv, TypeOK, DbTypeOK, ApplyOp, dbVars
<1>4. EnvTypeOK'
  BY <1>2 DEF TypeInv, TypeOK, EnvTypeOK, ApplyOp
<1>5. ChainShape'
  BY HashAssumption DEF TypeInv, TypeOK, ChainShape, ApplyOp, Fits
<1>. QED
  BY <1>2, <1>3, <1>4, <1>5, HashAssumption, StoreAssumption
     DEF TypeInv, TypeOK, ApplyOp

\* CommitBlock: Commit writes well-typed entries and the chain grows by one.
LEMMA CommitType ==
  ASSUME TypeInv, CommitBlock
  PROVE TypeInv'
PROOF
<1>1. cs \in CacheStoreRec /\ call \in Call /\ pending \in ContractView
  BY DEF TypeInv, TypeOK, EnvTypeOK, CommitBlock
<1>2. newRoot(cs) \in Trie
  BY <1>1, NewRootType
<1>3. committedHead(cs) \in HeadRec
  BY <1>1, <1>2 DEF committedHead, HeadRec, CacheStoreRec, AnyHash
<1>4. /\ cs.number = tip + 1 /\ cs.number \in Number /\ cs.hash \in Hash
      /\ cs.parent \in AnyHash
  BY <1>1 DEF TypeInv, ChainShape, CommitBlock, CacheStoreRec
<1>5. DbTypeOK'
  <2>1. arkiv_annot' \in [Pair -> {Absent} \cup Bitmap]
    BY <1>1 DEF CommitBlock, Commit, flushBitmaps, CacheStoreRec, TypeInv, TypeOK, DbTypeOK
  <2>2. arkiv_bm' \subseteq Bitmap /\ arkiv_pairs' \subseteq Pair
    BY <1>1 DEF CommitBlock, Commit, dirtyPairs, CacheStoreRec, TypeInv, TypeOK, DbTypeOK
  <2>3. /\ arkiv_id' \in [ID -> {Absent} \cup Addr]
        /\ arkiv_addr' \in [Addr -> {Absent} \cup ID]
    BY <1>1 DEF CommitBlock, Commit, StagingGet, CacheStoreRec, TypeInv, TypeOK, DbTypeOK
  <2>4. /\ arkiv_root' \in [AnyHash -> {Absent} \cup Trie]
        /\ arkiv_parent' \in [AnyHash -> {Absent} \cup AnyHash]
        /\ arkiv_blknum' \in [Number -> {Absent} \cup Hash]
    BY <1>2, <1>4 DEF CommitBlock, Commit, TypeInv, TypeOK, DbTypeOK
  <2>5. arkiv_head' \in {Absent} \cup HeadRec
    BY <1>3 DEF CommitBlock, Commit
  <2>. QED
    BY <2>1, <2>2, <2>3, <2>4, <2>5 DEF DbTypeOK
<1>6. [hash |-> cs.hash, view |-> pending] \in Block
  BY <1>1, <1>4 DEF Block, AnyHash
<1>7. EnvTypeOK'
  <2>1. sealed + 1 \in 0..MaxSealed
    BY <1>1, StoreAssumption DEF TypeInv, TypeOK, EnvTypeOK, ChainShape, Fits, Call
  <2>. QED
    BY <1>4, <1>6, <2>1 DEF CommitBlock, TypeInv, TypeOK, EnvTypeOK
<1>8. call' \in {Absent} \cup Call
  BY <1>1, StoreAssumption DEF CommitBlock, Call
<1>9. ChainShape'
  <2>1. BaseNumber <= tip' /\ cs' = Absent
    BY <1>4, StoreAssumption, BoundsAssumption
       DEF CommitBlock, Commit, TypeInv, ChainShape, TypeOK, EnvTypeOK, Number
  <2>2. \A n \in BaseNumber..tip' : canon'[n] # Absent
    BY <1>4, <1>6, StoreAssumption, BoundsAssumption
       DEF CommitBlock, TypeInv, ChainShape, TypeOK, EnvTypeOK, Number
  <2>3. ASSUME call' # Absent PROVE Fits(tip, call.left)' 
    BY <1>1, <1>4, <2>3, StoreAssumption, BoundsAssumption
       DEF CommitBlock, TypeInv, ChainShape, TypeOK, EnvTypeOK, Number, Fits, Call
  <2>. QED
    BY <2>1, <2>2, <2>3 DEF ChainShape
<1>. QED
  BY <1>3, <1>5, <1>7, <1>8, <1>9 DEF TypeInv, TypeOK, CommitBlock, Commit

\* revertToAncestor: the entries it rewrites keep their types, and the chain
\* that is left has no holes.
LEMMA RevertType ==
  ASSUME TypeInv, NEW oldest \in Canonical, call = Absent, revertToAncestor(oldest),
         call' = Absent \/ (call' \in Call /\ Fits(oldest - 1, call'.left))
  PROVE TypeInv'
PROOF
<1>1. /\ oldest \in Number /\ oldest - 1 \in Number /\ tip \in Number
      /\ BaseNumber <= oldest - 1 /\ oldest <= tip /\ oldest \in BaseNumber..tip
  BY StoreAssumption, BoundsAssumption DEF Canonical, TypeInv, TypeOK, EnvTypeOK, Number
<1>2. canon[oldest] \in Block
  BY <1>1 DEF TypeInv, ChainShape, TypeOK, EnvTypeOK
<1>3. ancestorHash(oldest) \in AnyHash
  BY <1>2 DEF ancestorHash, revertToAncestor, Block, TypeInv, TypeOK, DbTypeOK
<1>4. ancestorRoot(oldest) \in Trie
  BY <1>3, EmptyTrieType DEF ancestorRoot, TypeInv, TypeOK, DbTypeOK
<1>5. head' \in HeadRec /\ arkiv_head' \in HeadRec
  BY <1>1, <1>3, <1>4 DEF revertToAncestor, HeadRec
<1>6. DbTypeOK'
  <2>1. arkiv_annot' \in [Pair -> {Absent} \cup Bitmap]
    BY <1>4 DEF revertToAncestor, repopulateAnnot, Trie, TypeInv, TypeOK, DbTypeOK
  <2>2. /\ arkiv_id' \in [ID -> {Absent} \cup Addr]
        /\ arkiv_addr' \in [Addr -> {Absent} \cup ID]
    BY DEF revertToAncestor, TypeInv, TypeOK, DbTypeOK
  <2>3. /\ arkiv_root' \in [AnyHash -> {Absent} \cup Trie]
        /\ arkiv_parent' \in [AnyHash -> {Absent} \cup AnyHash]
        /\ arkiv_blknum' \in [Number -> {Absent} \cup Hash]
    BY DEF revertToAncestor, TypeInv, TypeOK, DbTypeOK
  <2>. QED
    BY <1>5, <2>1, <2>2, <2>3 DEF DbTypeOK, revertToAncestor, TypeInv, TypeOK
<1>7. EnvTypeOK'
  BY <1>1 DEF revertToAncestor, TypeInv, TypeOK, EnvTypeOK
<1>8. ChainShape'
  <2>1. tip' = oldest - 1 /\ cs' = Absent /\ sealed' = sealed
    BY DEF revertToAncestor, TypeInv, TypeOK
  <2>2. \A n \in BaseNumber..tip' : n \in Number /\ n \notin oldest..tip /\ n \in BaseNumber..tip
    BY <1>1, <2>1, StoreAssumption, BoundsAssumption DEF Number
  <2>3. \A n \in BaseNumber..tip' : canon'[n] # Absent
    BY <2>2 DEF revertToAncestor, TypeInv, ChainShape
  <2>. QED
    BY <1>1, <2>1, <2>3 DEF ChainShape, Fits
<1>. QED
  BY <1>5, <1>6, <1>7, <1>8, StoreAssumption DEF TypeInv, TypeOK, revertToAncestor

\* Every step of a request, and a restart, keeps the types.
LEMMA NextType == TypeInv /\ [Next]_vars => TypeInv'
PROOF
<1> SUFFICES ASSUME TypeInv, [Next]_vars PROVE TypeInv'
  OBVIOUS
<1>1. ASSUME NEW k \in 1..MaxBatch, CommitChain(k) PROVE TypeInv'
  <2>1. call' \in Call
    BY <1>1 DEF CommitChain, Call, TypeInv, TypeOK, HeadRec
  <2>2. call'.left = k
    BY <1>1 DEF CommitChain
  <2>3. DbTypeOK' /\ EnvTypeOK'
    BY <1>1 DEF CommitChain, TypeInv, TypeOK, DbTypeOK, EnvTypeOK, dbVars, envVars
  <2>4. ChainShape'
    BY <1>1, <2>2 DEF CommitChain, TypeInv, ChainShape, Fits, envVars
  <2>. QED
    BY <1>1, <2>1, <2>3, <2>4, StoreAssumption DEF CommitChain, TypeInv, TypeOK, envVars
<1>2. ASSUME NEW h \in Hash, BeginBlock(h) PROVE TypeInv'
  <2>1. tip \in BaseNumber..tip /\ tip + 1 \in Number
    BY <1>2, StoreAssumption, BoundsAssumption
       DEF BeginBlock, TypeInv, TypeOK, EnvTypeOK, ChainShape, Fits, Call, Number
  <2>2. canon[tip] \in Block
    BY <2>1 DEF TypeInv, TypeOK, EnvTypeOK, ChainShape
  <2>3. initSystemAccount(head.root) \in Trie
    BY DEF initSystemAccount, TypeInv, TypeOK, HeadRec, Trie
  <2>4. cs' \in CacheStoreRec /\ cs'.number = tip + 1
    BY <1>2, <2>1, <2>2, <2>3
       DEF BeginBlock, newCacheStore, CacheStoreRec, Block
  <2>5. pending' \in ContractView
    BY <1>2, <2>2 DEF BeginBlock, Block
  <2>6. DbTypeOK' /\ EnvTypeOK'
    BY <1>2, <2>5 DEF BeginBlock, TypeInv, TypeOK, DbTypeOK, EnvTypeOK, dbVars
  <2>7. ChainShape'
    BY <1>2, <2>4 DEF BeginBlock, TypeInv, ChainShape, Fits
  <2>. QED
    BY <1>2, <2>4, <2>5, <2>6, <2>7, HashAssumption, StoreAssumption
       DEF BeginBlock, TypeInv, TypeOK
<1>3. ASSUME NEW op \in CreateOp, Create(op) PROVE TypeInv'
  <2>1. DbTypeOK /\ cs \in CacheStoreRec /\ cs # Absent
    BY <1>3 DEF Create, TypeInv, TypeOK
  <2>. QED
    BY <1>3, <2>1, CreateType, ApplyOpType DEF Create, AnyOp
<1>4. ASSUME NEW op \in UpdateOp, Update(op) PROVE TypeInv'
  <2>1. DbTypeOK /\ cs \in CacheStoreRec /\ cs # Absent /\ Applicable(cs, op)
    BY <1>4 DEF Update, ApplyOp, TypeInv, TypeOK
  <2>. QED
    BY <1>4, <2>1, UpdateType, ApplyOpType DEF Update, AnyOp
<1>5. ASSUME NEW op \in DeleteOp, Delete(op) PROVE TypeInv'
  <2>1. DbTypeOK /\ cs \in CacheStoreRec /\ cs # Absent /\ Applicable(cs, op)
    BY <1>5 DEF Delete, ApplyOp, TypeInv, TypeOK
  <2>. QED
    BY <1>5, <2>1, DeleteType, ApplyOpType DEF Delete, AnyOp
<1>6. ASSUME NEW op \in ExtendOp, Extend(op) PROVE TypeInv'
  <2>1. DbTypeOK /\ cs \in CacheStoreRec /\ cs # Absent /\ Applicable(cs, op)
    BY <1>6 DEF Extend, ApplyOp, TypeInv, TypeOK
  <2>. QED
    BY <1>6, <2>1, ExtendType, ApplyOpType DEF Extend, AnyOp
<1>7. ASSUME NEW op \in TransferOp, Transfer(op) PROVE TypeInv'
  <2>1. DbTypeOK /\ cs \in CacheStoreRec /\ cs # Absent /\ Applicable(cs, op)
    BY <1>7 DEF Transfer, ApplyOp, TypeInv, TypeOK
  <2>. QED
    BY <1>7, <2>1, TransferType, ApplyOpType DEF Transfer, AnyOp
<1>8. ASSUME NEW op \in ExpireOp, Expire(op) PROVE TypeInv'
  <2>1. DbTypeOK /\ cs \in CacheStoreRec /\ cs # Absent /\ Applicable(cs, op)
    BY <1>8 DEF Expire, ApplyOp, TypeInv, TypeOK
  <2>. QED
    BY <1>8, <2>1, DeleteType, ApplyOpType DEF Expire, AnyOp
<1>9. CASE CommitBlock
  BY <1>9, CommitType
<1>10. CASE AbortCall
  <2>1. DbTypeOK' /\ EnvTypeOK'
    BY <1>10 DEF AbortCall, Discard, TypeInv, TypeOK, DbTypeOK, EnvTypeOK, dbVars
  <2>2. ChainShape'
    BY <1>10 DEF AbortCall, Discard, TypeInv, ChainShape, Fits
  <2>. QED
    BY <1>10, <2>1, <2>2 DEF AbortCall, Discard, TypeInv, TypeOK
<1>11. ASSUME NEW oldest \in Canonical, Revert(oldest) PROVE TypeInv'
  BY <1>11, RevertType DEF Revert
<1>12. CASE RevertBlock
  BY <1>12, RevertType DEF RevertBlock, revertBlock
<1>13. ASSUME NEW oldest \in Canonical, NEW k \in 1..MaxBatch, Reorg(oldest, k)
       PROVE TypeInv'
  <2>1. call' \in Call /\ call'.left = k
    BY <1>13 DEF Reorg, Call, TypeInv, TypeOK, HeadRec
  <2>. QED
    BY <1>13, <2>1, RevertType DEF Reorg
<1>14. CASE Restart
  <2>1. DbTypeOK' /\ EnvTypeOK'
    BY <1>14 DEF Restart, TypeInv, TypeOK, DbTypeOK, EnvTypeOK, dbVars
  <2>2. NoHead \in HeadRec
    BY EmptyTrieType, BoundsAssumption DEF NoHead, HeadRec, AnyHash, Number
  <2>3. head' \in HeadRec
    BY <1>14, <2>2 DEF Restart, ReopenedHead, TypeInv, TypeOK, DbTypeOK
  <2>4. ChainShape'
    BY <1>14 DEF Restart, TypeInv, ChainShape, Fits
  <2>. QED
    BY <1>14, <2>1, <2>3, <2>4 DEF Restart, TypeInv, TypeOK
<1>15. CASE UNCHANGED vars
  BY <1>15 DEF vars, dbVars, envVars, TypeInv, TypeOK, DbTypeOK, EnvTypeOK, ChainShape, Fits
<1>. QED
  BY <1>1, <1>2, <1>3, <1>4, <1>5, <1>6, <1>7, <1>8, <1>9, <1>10, <1>11, <1>12,
     <1>13, <1>14, <1>15
     DEF Next, OpFails, IOFails

\* Every variable keeps its type through commits, reverts, reorgs, failed
\* blocks and restarts.
THEOREM TypeCorrect == Spec => []TypeOK
PROOF
<1>1. TypeInv => TypeOK
  BY DEF TypeInv
<1>. QED
  BY <1>1, InitType, NextType, PTL DEF Spec

(***************************************************************************)
(* The store follows the chain: its head is the tip, its block index is    *)
(* exactly the canonical chain, and the mutable bitmap pointers agree with *)
(* the trie, through every revert, reorg, failure and restart.             *)
(*                                                                         *)
(* The inductive invariant needs: hashes name blocks uniquely; arkiv_pairs *)
(* covers every pair any canonical state has a slot for, which is what     *)
(* lets repopulateAnnot find them all; and the block in progress builds on *)
(* the head.                                                               *)
(***************************************************************************)
HashesUnique ==
  /\ canon[BaseNumber].hash = BaseHash
  /\ \A n \in Canonical : canon[n].hash \in Hash
  /\ \A m, n \in Canonical : canon[m].hash = canon[n].hash => m = n

PairsCover ==
  \A n \in Canonical, p \in Pair : RootAt(n).annot[p] # Absent => p \in arkiv_pairs

BlockOnHead ==
  cs # Absent => /\ cs.state.nonce = 1
                 /\ cs.state.annot = head.root.annot
                 /\ cs.hash \in FreshHash
                 /\ cs.parent = canon[tip].hash

ChainInv ==
  /\ TypeInv
  /\ HashesUnique /\ PairsCover /\ BlockOnHead
  /\ HeadIsTip /\ BlockIndexIsChain /\ AnnotMirrorsTrie

\* New on an empty database: the empty head is the base of the chain.
LEMMA InitChain == Init => ChainInv
PROOF
<1> SUFFICES ASSUME Init PROVE ChainInv
  OBVIOUS
<1>1. TypeInv
  BY InitType
<1>2. Canonical = {} /\ BaseNumber \in Number /\ tip = BaseNumber
  BY StoreAssumption, BoundsAssumption DEF Init, Canonical, Number
<1>3. HashesUnique
  BY <1>2 DEF Init, HashesUnique
<1>4. PairsCover /\ BlockOnHead
  BY <1>2 DEF Init, PairsCover, BlockOnHead
<1>5. HeadIsTip
  BY <1>2, BoundsAssumption DEF Init, HeadIsTip, ReopenedHead, NoHead, RootAt, Number
<1>6. BlockIndexIsChain
  BY <1>2 DEF Init, BlockIndexIsChain
<1>7. AnnotMirrorsTrie
  BY DEF Init, AnnotMirrorsTrie, NoHead, EmptyTrie
<1>. QED
  BY <1>1, <1>3, <1>4, <1>5, <1>6, <1>7 DEF ChainInv

\* No handler touches the header of the block, the nonce or an annotation slot.
LEMMA HandlersKeepHeader ==
  ASSUME NEW c \in CacheStoreRec, NEW op
  PROVE \A d \in {processCreate(c, op), processUpdate(c, op), deleteEntity(c, op),
                  processExtend(c, op), processTransfer(c, op)} :
          /\ d.hash = c.hash /\ d.parent = c.parent
          /\ d.state.nonce = c.state.nonce /\ d.state.annot = c.state.annot
PROOF
<1>1. /\ processCreate(c, op).hash = c.hash
      /\ processCreate(c, op).parent = c.parent
      /\ processCreate(c, op).state.nonce = c.state.nonce
      /\ processCreate(c, op).state.annot = c.state.annot
  BY DEF processCreate, CacheStoreRec, Trie
<1>2. /\ deleteEntity(c, op).hash = c.hash
      /\ deleteEntity(c, op).parent = c.parent
      /\ deleteEntity(c, op).state.nonce = c.state.nonce
      /\ deleteEntity(c, op).state.annot = c.state.annot
  BY DEF deleteEntity, CacheStoreRec, Trie
<1>3. \A d \in {processUpdate(c, op), processExtend(c, op), processTransfer(c, op)} :
        d.hash = c.hash /\ d.parent = c.parent /\ d.state = c.state
  BY DEF processUpdate, processExtend, processTransfer, CacheStoreRec
<1>. QED
  BY <1>1, <1>2, <1>3

\* A step that leaves the database, the head and the chain alone can only
\* disturb the block in progress.
LEMMA SameStoreChain ==
  ASSUME ChainInv, TypeInv', BlockOnHead', UNCHANGED <<dbVars, head, canon, tip>>
  PROVE ChainInv'
PROOF
  BY DEF ChainInv, HashesUnique, PairsCover, HeadIsTip, BlockIndexIsChain,
         AnnotMirrorsTrie, ReopenedHead, RootAt, Canonical, dbVars

\* An operation keeps the block on the head.
LEMMA ApplyOpChain ==
  ASSUME ChainInv, TypeInv', NEW op, cs # Absent,
         NEW next \in {processCreate(cs, op), processUpdate(cs, op), deleteEntity(cs, op),
                       processExtend(cs, op), processTransfer(cs, op)},
         ApplyOp(op, next)
  PROVE ChainInv'
PROOF
<1>1. cs \in CacheStoreRec
  BY DEF ChainInv, TypeInv, TypeOK
<1>2. BlockOnHead'
  BY <1>1, HandlersKeepHeader
     DEF ApplyOp, ChainInv, BlockOnHead, FreshHash, Canonical
<1>. QED
  BY <1>2, SameStoreChain DEF ApplyOp

\* CommitBlock: one batch makes the block the tip, its root the head root and
\* the flushed pointers those of its trie.
LEMMA CommitBlockChain ==
  ASSUME ChainInv, TypeInv', CommitBlock
  PROVE ChainInv'
PROOF
<1>1. /\ cs \in CacheStoreRec /\ cs # Absent /\ cs' = Absent
      /\ cs.number = tip + 1 /\ cs.hash \in Hash
      /\ tip \in Nat /\ BaseNumber \in Nat /\ BaseNumber <= tip
  BY StoreAssumption, BoundsAssumption
     DEF CommitBlock, Commit, ChainInv, TypeInv, TypeOK, EnvTypeOK, ChainShape,
         CacheStoreRec, Number
<1> PICK new \in Nat : new = tip + 1
  BY <1>1
<1>2. tip' = new /\ Canonical' = Canonical \cup {new} /\ new \notin Canonical
  BY <1>1 DEF CommitBlock, Canonical
<1>3. /\ new \in Number /\ new # BaseNumber
      /\ tip \in Number \ {new} /\ BaseNumber \in Number
      /\ \A n \in Canonical : /\ n \in Number /\ n - 1 \in Number
                              /\ n # BaseNumber /\ n - 1 # new
                              /\ n - 1 \in BaseNumber..tip
  BY <1>1, StoreAssumption, BoundsAssumption
     DEF Canonical, CacheStoreRec, Number, ChainInv, TypeInv, TypeOK, EnvTypeOK
<1>4. /\ canon' = [canon EXCEPT ![new] = [hash |-> cs.hash, view |-> pending]]
      /\ canon \in [Number -> {Absent} \cup Block]
  BY <1>1 DEF CommitBlock, ChainInv, TypeInv, TypeOK, EnvTypeOK
<1>5. /\ canon'[new].hash = cs.hash
      /\ \A n \in Number \ {new} : canon'[n] = canon[n]
  BY <1>3, <1>4
<1>6. \A n \in Canonical : canon[n].hash # cs.hash
  BY <1>1 DEF ChainInv, BlockOnHead, FreshHash
<1>7. newRoot(cs).annot = flushBitmaps(cs, head.root.annot) /\ newRoot(cs) \in Trie
  <2> DEFINE t == [cs.state EXCEPT !.code = flushEntities(cs),
                                   !.annot = flushBitmaps(cs, cs.state.annot)]
  <2>1. cs.state \in Trie /\ cs.state.nonce = 1 /\ cs.state.annot = head.root.annot
    BY <1>1 DEF ChainInv, BlockOnHead, CacheStoreRec
  <2>2. t.nonce = 1 /\ t.annot = flushBitmaps(cs, head.root.annot)
    BY <2>1 DEF Trie
  <2>3. newRoot(cs) = t
    BY <2>2 DEF newRoot, Finalise
  <2>. QED
    BY <1>1, <2>2, <2>3, NewRootType
<1>8. HashesUnique'
  <2>1. canon'[BaseNumber].hash = BaseHash
    BY <1>3, <1>5 DEF ChainInv, HashesUnique
  <2>2. \A n \in Canonical : canon'[n] = canon[n]
    BY <1>2, <1>3, <1>5
  <2>3. \A n \in Canonical' : canon'[n].hash \in Hash
    BY <1>1, <1>2, <1>5, <2>2 DEF ChainInv, HashesUnique
  <2>4. \A m, n \in Canonical' : canon'[m].hash = canon'[n].hash => m = n
    BY <1>2, <1>5, <1>6, <2>2 DEF ChainInv, HashesUnique
  <2>. QED
    BY <2>1, <2>3, <2>4 DEF HashesUnique
<1>9. /\ arkiv_root' = [arkiv_root EXCEPT ![cs.hash] = newRoot(cs)]
      /\ arkiv_root \in [AnyHash -> {Absent} \cup Trie]
      /\ cs.hash \in AnyHash /\ \A n \in Canonical : canon[n].hash \in AnyHash
  BY <1>1 DEF CommitBlock, Commit, ChainInv, TypeInv, TypeOK, DbTypeOK, HashesUnique, AnyHash
<1>10. /\ RootAt(new)' = newRoot(cs)
       /\ \A n \in Canonical : RootAt(n)' = RootAt(n)
  <2>1. arkiv_root'[canon'[new].hash] = newRoot(cs)
    BY <1>5, <1>9
  <2>2. \A n \in Canonical : arkiv_root'[canon'[n].hash] = arkiv_root[canon[n].hash]
    BY <1>2, <1>3, <1>5, <1>6, <1>9
  <2>3. new # BaseNumber
    BY <1>1
  <2>. QED
    BY <1>3, <2>1, <2>2, <2>3 DEF RootAt
<1>11. AnnotMirrorsTrie'
  BY <1>7 DEF CommitBlock, Commit, committedHead, flushBitmaps, ChainInv, AnnotMirrorsTrie
<1>12. PairsCover'
  <2> SUFFICES ASSUME NEW n \in Canonical', NEW p \in Pair, RootAt(n)'.annot[p] # Absent
               PROVE p \in arkiv_pairs'
    BY DEF PairsCover
  <2>1. CASE n \in Canonical
    BY <1>10, <2>1 DEF ChainInv, PairsCover, CommitBlock, Commit
  <2>2. CASE n = new /\ cs.dirtyBitmaps[p] # Absent
    BY <2>2 DEF CommitBlock, Commit, dirtyPairs
  <2>3. CASE n = new /\ cs.dirtyBitmaps[p] = Absent
    <3>1. RootAt(tip).annot[p] # Absent
      BY <1>7, <1>10, <2>3 DEF flushBitmaps, ChainInv, HeadIsTip
    <3>2. tip \in Canonical
      BY <1>1, <3>1 DEF RootAt, EmptyTrie, Canonical
    <3>. QED
      BY <3>1, <3>2 DEF ChainInv, PairsCover, CommitBlock, Commit
  <2>. QED
    BY <1>2, <2>1, <2>2, <2>3
<1>13. HeadIsTip'
  <2>1. committedHead(cs) = [number |-> new, hash |-> cs.hash, root |-> newRoot(cs)]
    BY <1>1 DEF committedHead
  <2>2. head' = committedHead(cs) /\ arkiv_head' = committedHead(cs)
    BY DEF CommitBlock, Commit
  <2>3. committedHead(cs) # Absent
    BY <1>1, <1>7, HashAssumption DEF committedHead, HeadRec, CacheStoreRec, AnyHash
  <2>. QED
    BY <1>2, <1>5, <1>10, <2>1, <2>2, <2>3 DEF HeadIsTip, ReopenedHead
<1>14. BlockIndexIsChain'
  <2>1. \A n \in Number : arkiv_blknum'[n] = IF n \in Canonical' THEN canon'[n].hash ELSE Absent
    BY <1>1, <1>2, <1>3, <1>5
       DEF CommitBlock, Commit, ChainInv, BlockIndexIsChain, TypeInv, TypeOK, DbTypeOK
  <2>2. newRoot(cs) # Absent
    BY <1>7, AbsentAssumption
  <2>3. /\ arkiv_parent' = [arkiv_parent EXCEPT ![cs.hash] = canon[tip].hash]
        /\ arkiv_parent \in [AnyHash -> {Absent} \cup AnyHash]
    BY <1>1 DEF CommitBlock, Commit, ChainInv, BlockOnHead, TypeInv, TypeOK, DbTypeOK
  <2>4. \A n \in Canonical : /\ arkiv_root'[canon'[n].hash] # Absent
                             /\ arkiv_parent'[canon'[n].hash] = canon'[n - 1].hash
    BY <1>2, <1>3, <1>5, <1>6, <1>9, <2>3 DEF ChainInv, BlockIndexIsChain
  <2>5. /\ arkiv_root'[canon'[new].hash] # Absent
        /\ arkiv_parent'[canon'[new].hash] = canon'[new - 1].hash
    BY <1>1, <1>3, <1>5, <1>9, <2>2, <2>3
       DEF ChainInv, TypeInv, TypeOK, EnvTypeOK
  <2>6. \A h \in AnyHash \ {canon'[n].hash : n \in Canonical'} :
          arkiv_root'[h] = Absent /\ arkiv_parent'[h] = Absent
    <3> SUFFICES ASSUME NEW h \in AnyHash, \A n \in Canonical' : canon'[n].hash # h
                 PROVE arkiv_root'[h] = Absent /\ arkiv_parent'[h] = Absent
      OBVIOUS
    <3>1. h # cs.hash /\ \A n \in Canonical : canon[n].hash # h
      BY <1>2, <1>3, <1>5
    <3>2. arkiv_root[h] = Absent /\ arkiv_parent[h] = Absent
      BY <3>1 DEF ChainInv, BlockIndexIsChain
    <3>. QED
      BY <1>9, <2>3, <3>1, <3>2
  <2>. QED
    BY <1>2, <2>1, <2>4, <2>5, <2>6 DEF BlockIndexIsChain
<1>15. BlockOnHead'
  BY <1>1 DEF BlockOnHead
<1>. QED
  BY <1>8, <1>11, <1>12, <1>13, <1>14, <1>15 DEF ChainInv

\* The ancestor revertToAncestor looks up through the block index is the
\* canonical block below, and the missing root of the base block is read as
\* the empty state, which is what the store held there.
LEMMA AncestorIsBelow ==
  ASSUME ChainInv, NEW oldest \in Canonical
  PROVE /\ ancestorHash(oldest) = canon[oldest - 1].hash
        /\ ancestorRoot(oldest) = RootAt(oldest - 1)
PROOF
<1>1. /\ BaseNumber \in Nat /\ tip \in Nat /\ oldest \in Nat
      /\ oldest - 1 = BaseNumber \/ oldest - 1 \in Canonical
  BY StoreAssumption, BoundsAssumption
     DEF Canonical, ChainInv, TypeInv, TypeOK, EnvTypeOK, Number
<1>2. ancestorHash(oldest) = canon[oldest - 1].hash
  BY DEF ancestorHash, ChainInv, BlockIndexIsChain
<1>3. CASE oldest - 1 = BaseNumber
  <2>1. canon[oldest - 1].hash = BaseHash
    BY <1>3 DEF ChainInv, HashesUnique
  <2>2. \A n \in Canonical : canon[n].hash # BaseHash
    BY HashAssumption DEF ChainInv, HashesUnique
  <2>3. arkiv_root[BaseHash] = Absent
    BY <2>2 DEF ChainInv, BlockIndexIsChain, AnyHash
  <2>. QED
    BY <1>2, <1>3, <2>1, <2>3 DEF ancestorRoot, RootAt
<1>4. CASE oldest - 1 \in Canonical
  <2>1. oldest - 1 # BaseNumber
    BY <1>1, <1>4 DEF Canonical
  <2>2. arkiv_root[canon[oldest - 1].hash] # Absent
    BY <1>4 DEF ChainInv, BlockIndexIsChain
  <2>. QED
    BY <1>2, <2>1, <2>2 DEF ancestorRoot, RootAt
<1>. QED
  BY <1>1, <1>2, <1>3, <1>4

\* revertToAncestor: one batch takes the head, the index and the pointers
\* back to the block below the oldest reverted one.
LEMMA RevertChain ==
  ASSUME ChainInv, TypeInv', NEW oldest \in Canonical, call = Absent,
         revertToAncestor(oldest)
  PROVE ChainInv'
PROOF
<1> PICK anc \in Nat : anc = oldest - 1
  BY StoreAssumption, BoundsAssumption DEF Canonical, ChainInv, TypeInv, TypeOK, EnvTypeOK, Number
<1>1. /\ BaseNumber \in Nat /\ BaseNumber \in Number /\ tip \in Nat /\ tip \in Number
      /\ oldest = anc + 1 /\ BaseNumber <= anc /\ oldest <= tip
      /\ anc \in Number /\ tip' = anc /\ tip \in Canonical
  BY StoreAssumption, BoundsAssumption
     DEF Canonical, ChainInv, TypeInv, TypeOK, EnvTypeOK, Number, revertToAncestor
<1>2. /\ Canonical' = Canonical \ (oldest..tip)
      /\ anc = BaseNumber \/ anc \in Canonical'
      /\ \A n \in Canonical' : /\ n \in Number /\ n - 1 \in Number
                               /\ n \notin oldest..tip /\ n - 1 \notin oldest..tip
                               /\ n # BaseNumber
  BY <1>1, BoundsAssumption DEF Canonical, Number
<1>3. /\ \A n \in Canonical' : canon'[n] = canon[n] /\ canon'[n - 1] = canon[n - 1]
      /\ canon'[BaseNumber] = canon[BaseNumber] /\ canon'[anc] = canon[anc]
  <2>1. BaseNumber \notin oldest..tip /\ anc \notin oldest..tip
    BY <1>1
  <2>. QED
    BY <1>1, <1>2, <2>1 DEF revertToAncestor
<1>4. HashesUnique'
  BY <1>2, <1>3 DEF ChainInv, HashesUnique
<1>5. \A n \in Canonical' : /\ canon[n].hash \in AnyHash
                            /\ canon[n].hash \notin {canon[m].hash : m \in oldest..tip}
  <2>1. \A m \in oldest..tip : m \in Canonical
    BY <1>1 DEF Canonical
  <2>. QED
    BY <1>2, <2>1 DEF ChainInv, HashesUnique, AnyHash
<1>6. \A n \in Canonical' : RootAt(n)' = RootAt(n)
  BY <1>2, <1>3, <1>5 DEF RootAt, revertToAncestor, revertedBlocks
<1>7. /\ ancestorHash(oldest) = canon[anc].hash
      /\ ancestorRoot(oldest) = RootAt(anc)
  BY AncestorIsBelow
<1>8. RootAt(anc)' = RootAt(anc)
  BY <1>2, <1>6 DEF RootAt
<1>9. PairsCover'
  BY <1>2, <1>6 DEF ChainInv, PairsCover, revertToAncestor
<1>10. head' = [number |-> anc, hash |-> canon[anc].hash, root |-> RootAt(anc)]
       /\ arkiv_head' = head'
  BY <1>7 DEF revertToAncestor
<1>11. AnnotMirrorsTrie'
  <2> SUFFICES ASSUME NEW p \in Pair PROVE arkiv_annot'[p] = RootAt(anc).annot[p]
    BY <1>10 DEF AnnotMirrorsTrie
  <2>1. CASE p \in arkiv_pairs
    BY <1>7, <2>1 DEF revertToAncestor, repopulateAnnot
  <2>2. CASE p \notin arkiv_pairs
    <3>1. RootAt(tip).annot[p] = Absent
      BY <1>1, <2>2 DEF ChainInv, PairsCover
    <3>2. arkiv_annot[p] = Absent
      BY <3>1 DEF ChainInv, AnnotMirrorsTrie, HeadIsTip
    <3>3. RootAt(anc).annot[p] = Absent
      BY <1>2, <2>2 DEF ChainInv, PairsCover, RootAt, EmptyTrie
    <3>. QED
      BY <2>2, <3>2, <3>3 DEF revertToAncestor, repopulateAnnot
  <2>. QED
    BY <2>1, <2>2
<1>12. HeadIsTip'
  <2>1. head' # Absent
    BY HashAssumption DEF TypeInv, TypeOK
  <2>. QED
    BY <1>1, <1>3, <1>8, <1>10, <2>1 DEF HeadIsTip, ReopenedHead
<1>13. BlockIndexIsChain'
  <2>1. \A n \in Number : arkiv_blknum'[n] = IF n \in Canonical' THEN canon'[n].hash ELSE Absent
    BY <1>2, <1>3 DEF revertToAncestor, revertedBlocks, ChainInv, BlockIndexIsChain
  <2>2. \A n \in Canonical' : /\ arkiv_root'[canon'[n].hash] # Absent
                              /\ arkiv_parent'[canon'[n].hash] = canon'[n - 1].hash
    <3> SUFFICES ASSUME NEW n \in Canonical'
                 PROVE /\ arkiv_root'[canon'[n].hash] # Absent
                       /\ arkiv_parent'[canon'[n].hash] = canon'[n - 1].hash
      OBVIOUS
    <3>1. /\ arkiv_root'[canon[n].hash] = arkiv_root[canon[n].hash]
          /\ arkiv_parent'[canon[n].hash] = arkiv_parent[canon[n].hash]
      BY <1>5 DEF revertToAncestor, revertedBlocks
    <3>2. n \in Canonical
      BY <1>2
    <3>. QED
      BY <1>3, <3>1, <3>2 DEF ChainInv, BlockIndexIsChain
  <2>3. \A h \in AnyHash \ {canon'[n].hash : n \in Canonical'} :
          arkiv_root'[h] = Absent /\ arkiv_parent'[h] = Absent
    <3> SUFFICES ASSUME NEW h \in AnyHash, \A n \in Canonical' : canon'[n].hash # h
                 PROVE arkiv_root'[h] = Absent /\ arkiv_parent'[h] = Absent
      OBVIOUS
    <3>1. CASE h \in {canon[n].hash : n \in oldest..tip}
      BY <3>1 DEF revertToAncestor, revertedBlocks
    <3>2. CASE h \notin {canon[n].hash : n \in oldest..tip}
      <4>1. h \notin {canon[n].hash : n \in Canonical}
        BY <1>2, <1>3, <3>2
      <4>2. arkiv_root[h] = Absent /\ arkiv_parent[h] = Absent
        BY <4>1 DEF ChainInv, BlockIndexIsChain
      <4>. QED
        BY <4>2, <3>2 DEF revertToAncestor, revertedBlocks
    <3>. QED
      BY <3>1, <3>2
  <2>. QED
    BY <2>1, <2>2, <2>3 DEF BlockIndexIsChain
<1>14. BlockOnHead'
  BY DEF BlockOnHead, revertToAncestor, ChainInv, TypeInv, TypeOK
<1>. QED
  BY <1>4, <1>9, <1>11, <1>12, <1>13, <1>14 DEF ChainInv

\* Every step of a request, and a restart, keeps the invariant.
LEMMA NextChain == ChainInv /\ [Next]_vars => ChainInv'
PROOF
<1> SUFFICES ASSUME ChainInv, [Next]_vars PROVE ChainInv'
  OBVIOUS
<1>0. TypeInv'
  BY NextType DEF ChainInv
<1>1. ASSUME NEW k \in 1..MaxBatch, CommitChain(k) PROVE ChainInv'
  <2>1. BlockOnHead'
    BY <1>1 DEF CommitChain, envVars, ChainInv, BlockOnHead, FreshHash, Canonical
  <2>. QED
    BY <1>0, <1>1, <2>1, SameStoreChain DEF CommitChain, envVars
<1>2. ASSUME NEW h \in Hash, BeginBlock(h) PROVE ChainInv'
  <2>1. head.root \in Trie
    BY DEF ChainInv, TypeInv, TypeOK, HeadRec
  <2>2. /\ initSystemAccount(head.root).nonce = 1
        /\ initSystemAccount(head.root).annot = head.root.annot
    BY <2>1 DEF initSystemAccount, Trie
  <2>3. BlockOnHead'
    BY <1>2, <2>2 DEF BeginBlock, newCacheStore, BlockOnHead, FreshHash, Canonical
  <2>. QED
    BY <1>0, <1>2, <2>3, SameStoreChain DEF BeginBlock
<1>3. ASSUME NEW op \in CreateOp, Create(op) PROVE ChainInv'
  BY <1>0, <1>3, ApplyOpChain DEF Create
<1>4. ASSUME NEW op \in UpdateOp, Update(op) PROVE ChainInv'
  BY <1>0, <1>4, ApplyOpChain DEF Update
<1>5. ASSUME NEW op \in DeleteOp, Delete(op) PROVE ChainInv'
  BY <1>0, <1>5, ApplyOpChain DEF Delete
<1>6. ASSUME NEW op \in ExtendOp, Extend(op) PROVE ChainInv'
  BY <1>0, <1>6, ApplyOpChain DEF Extend
<1>7. ASSUME NEW op \in TransferOp, Transfer(op) PROVE ChainInv'
  BY <1>0, <1>7, ApplyOpChain DEF Transfer
<1>8. ASSUME NEW op \in ExpireOp, Expire(op) PROVE ChainInv'
  BY <1>0, <1>8, ApplyOpChain DEF Expire
<1>9. CASE CommitBlock
  BY <1>0, <1>9, CommitBlockChain
<1>10. CASE AbortCall
  <2>1. BlockOnHead'
    BY <1>10 DEF AbortCall, Discard, BlockOnHead
  <2>. QED
    BY <1>0, <1>10, <2>1, SameStoreChain DEF AbortCall, Discard
<1>11. ASSUME NEW oldest \in Canonical, Revert(oldest) PROVE ChainInv'
  BY <1>0, <1>11, RevertChain DEF Revert
<1>12. CASE RevertBlock
  BY <1>0, <1>12, RevertChain DEF RevertBlock, revertBlock
<1>13. ASSUME NEW oldest \in Canonical, NEW k \in 1..MaxBatch, Reorg(oldest, k)
       PROVE ChainInv'
  BY <1>0, <1>13, RevertChain DEF Reorg
<1>14. CASE Restart
  <2>1. head' = head
    BY <1>14 DEF Restart, ChainInv, HeadIsTip
  <2>2. BlockOnHead'
    BY <1>14 DEF Restart, BlockOnHead
  <2>. QED
    BY <1>0, <1>14, <2>1, <2>2, SameStoreChain DEF Restart
<1>15. CASE UNCHANGED vars
  <2>1. BlockOnHead'
    BY <1>15 DEF vars, envVars, ChainInv, BlockOnHead, FreshHash, Canonical
  <2>. QED
    BY <1>0, <1>15, <2>1, SameStoreChain DEF vars, envVars
<1>. QED
  BY <1>1, <1>2, <1>3, <1>4, <1>5, <1>6, <1>7, <1>8, <1>9, <1>10, <1>11, <1>12,
     <1>13, <1>14, <1>15
     DEF Next, OpFails, IOFails

\* The inductive invariant holds in every reachable state.
THEOREM ChainInvariant == Spec => []ChainInv
PROOF
  BY InitChain, NextChain, PTL DEF Spec

\* The head in memory and the head on disk are always the tip of the chain,
\* whatever commit, revert, failure or crash came before.
THEOREM HeadIsAlwaysTip == Spec => []HeadIsTip
PROOF
<1>1. ChainInv => HeadIsTip
  BY DEF ChainInv
<1>. QED
  BY <1>1, ChainInvariant, PTL

\* The block index is always exactly the canonical chain.
THEOREM BlockIndexAlwaysChain == Spec => []BlockIndexIsChain
PROOF
<1>1. ChainInv => BlockIndexIsChain
  BY DEF ChainInv
<1>. QED
  BY <1>1, ChainInvariant, PTL

\* The mutable bitmap pointers never drift from the trie at the head.
THEOREM AnnotAlwaysMirrorsTrie == Spec => []AnnotMirrorsTrie
PROOF
<1>1. ChainInv => AnnotMirrorsTrie
  BY DEF ChainInv
<1>. QED
  BY <1>1, ChainInvariant, PTL
=============================================================================
