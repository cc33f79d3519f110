--------------------------- MODULE HistoryProofs ----------------------------
(***************************************************************************)
(* What a reader of any canonical block gets is what the contract had      *)
(* there, and the whole write path implements EntityIndex: a stack of      *)
(* whole versions of the entity map.                                       *)
(***************************************************************************)
EXTENDS StoreProofs

(***************************************************************************)
(* What the steps do to the canonical states, stated once for every        *)
(* invariant that speaks of all of them.                                   *)
(***************************************************************************)
Versions == BaseNumber..tip

\* The steps by their effect: leave the store alone, open a block, apply an
\* operation, commit, revert.
Quiet ==
  /\ UNCHANGED <<dbVars, head, canon, tip>>
  /\ \/ cs' = Absent /\ pending' = Absent
     \/ UNCHANGED <<cs, pending>>

LEMMA StepKinds ==
  ASSUME ChainInv, [Next]_vars
  PROVE \/ Quiet
        \/ \E h \in Hash : BeginBlock(h)
        \/ \E op \in CreateOp : Create(op)
        \/ \E op \in UpdateOp : Update(op)
        \/ \E op \in DeleteOp \cup ExpireOp : Delete(op)
        \/ \E op \in ExtendOp : Extend(op)
        \/ \E op \in TransferOp : Transfer(op)
        \/ CommitBlock
        \/ \E oldest \in Canonical : call = Absent /\ revertToAncestor(oldest)
PROOF
<1>1. ASSUME NEW k \in 1..MaxBatch, CommitChain(k) PROVE Quiet
  BY <1>1 DEF CommitChain, Quiet, envVars
<1>2. CASE AbortCall
  <2>. Quiet
    BY <1>2 DEF AbortCall, Discard, Quiet
  <2>. QED
    OBVIOUS
<1>3. CASE Restart
  <2>. Quiet
    BY <1>3 DEF Restart, Quiet, ChainInv, HeadIsTip
  <2>. QED
    OBVIOUS
<1>4. CASE UNCHANGED vars
  <2>. Quiet
    BY <1>4 DEF vars, envVars, Quiet
  <2>. QED
    OBVIOUS
<1>5. ASSUME NEW op \in ExpireOp, Expire(op) PROVE Delete(op)
  BY <1>5 DEF Expire, Delete
<1>6. CASE RevertBlock
  BY <1>6 DEF RevertBlock, revertBlock
<1>7. ASSUME NEW oldest \in Canonical, Revert(oldest)
      PROVE call = Absent /\ revertToAncestor(oldest)
  BY <1>7 DEF Revert
<1>8. ASSUME NEW oldest \in Canonical, NEW k \in 1..MaxBatch, Reorg(oldest, k)
      PROVE call = Absent /\ revertToAncestor(oldest)
  BY <1>8 DEF Reorg
<1>9. CASE \E op \in AnyOp : OpFails(op)
  BY <1>2, <1>9 DEF OpFails
<1>10. CASE IOFails
  BY <1>2, <1>10 DEF IOFails
<1>. QED
  BY <1>1, <1>3, <1>4, <1>5, <1>6, <1>7, <1>8, <1>9, <1>10 DEF Next, AnyOp

\* BeginBlock opens an empty block on the state at the head.
LEMMA BeginEffect ==
  ASSUME TypeInv, NEW h \in Hash, BeginBlock(h)
  PROVE /\ cs' \in CacheStoreRec /\ cs = Absent /\ cs' # Absent
        /\ cs'.state = [head.root EXCEPT !.nonce = 1] /\ head.root \in Trie
        /\ \A i \in ID : cs'.id[i] = Absent
        /\ \A a \in Addr : cs'.addr[a] = Absent /\ cs'.dirtyEntities[a] = Absent
        /\ \A p \in Pair : cs'.dirtyBitmaps[p] = Absent
        /\ tip \in Versions /\ pending' = canon[tip].view
        /\ UNCHANGED <<dbVars, head, canon, tip>>
PROOF
<1>1. tip \in BaseNumber..tip /\ tip + 1 \in Number
  BY StoreAssumption, BoundsAssumption
     DEF BeginBlock, TypeInv, TypeOK, EnvTypeOK, ChainShape, Fits, Call, Number
<1>2. canon[tip] \in Block
  BY <1>1 DEF TypeInv, TypeOK, EnvTypeOK, ChainShape
<1>3. initSystemAccount(head.root) \in Trie /\ head.root \in Trie
  BY DEF initSystemAccount, TypeInv, TypeOK, HeadRec, Trie
<1>4. cs' \in CacheStoreRec
  BY <1>1, <1>2, <1>3 DEF BeginBlock, newCacheStore, CacheStoreRec, Block
<1>5. /\ cs'.state = [head.root EXCEPT !.nonce = 1]
      /\ \A i \in ID : cs'.id[i] = Absent
      /\ \A a \in Addr : cs'.addr[a] = Absent /\ cs'.dirtyEntities[a] = Absent
      /\ \A p \in Pair : cs'.dirtyBitmaps[p] = Absent
  BY DEF BeginBlock, newCacheStore, initSystemAccount
<1>. QED
  BY <1>1, <1>3, <1>4, <1>5, HashAssumption DEF BeginBlock, Versions

\* A step that leaves the database and the chain alone leaves every state.
LEMMA SameRoots ==
  ASSUME UNCHANGED <<dbVars, head, canon, tip>>
  PROVE Versions' = Versions /\ \A n \in Versions : RootAt(n)' = RootAt(n)
PROOF
  BY DEF Versions, RootAt, dbVars

\* The trie Commit computes, the system account being alive.
LEMMA NewRootFields ==
  ASSUME NEW c \in CacheStoreRec, c.state.nonce = 1
  PROVE /\ newRoot(c).code = flushEntities(c)
        /\ newRoot(c).annot = flushBitmaps(c, c.state.annot)
        /\ newRoot(c).ids = c.state.ids
        /\ newRoot(c).count = c.state.count
PROOF
<1> DEFINE t == [c.state EXCEPT !.code = flushEntities(c),
                                !.annot = flushBitmaps(c, c.state.annot)]
<1>1. /\ t.nonce = 1 /\ t.code = flushEntities(c) /\ t.ids = c.state.ids
      /\ t.annot = flushBitmaps(c, c.state.annot) /\ t.count = c.state.count
  BY DEF CacheStoreRec, Trie
<1>2. newRoot(c) = t
  BY <1>1 DEF newRoot, Finalise
<1>. QED
  BY <1>1, <1>2

\* CommitBlock adds one state and leaves the others.
LEMMA CommitEffect ==
  ASSUME ChainInv, CommitBlock
  PROVE /\ cs \in CacheStoreRec /\ cs.state.nonce = 1 /\ cs.number = tip + 1
        /\ tip' = tip + 1 /\ Versions' = Versions \cup {tip + 1} /\ tip + 1 \notin Versions
        /\ tip \in Versions /\ tip + 1 \in Number
        /\ RootAt(tip)' = newRoot(cs) /\ head'.root = newRoot(cs)
        /\ canon'[tip + 1] = [hash |-> cs.hash, view |-> pending]
        /\ \A n \in Versions : RootAt(n)' = RootAt(n) /\ canon'[n] = canon[n]
PROOF
<1>1. /\ cs \in CacheStoreRec /\ cs.number = tip + 1 /\ cs.state.nonce = 1
      /\ cs.hash \in Hash /\ cs.hash \in FreshHash /\ cs.hash \in AnyHash
      /\ tip \in Nat /\ BaseNumber \in Nat /\ BaseNumber <= tip /\ tip + 1 \in Number
  BY StoreAssumption, BoundsAssumption
     DEF CommitBlock, ChainInv, TypeInv, TypeOK, EnvTypeOK, ChainShape, BlockOnHead,
         CacheStoreRec, Number, AnyHash
<1>2. /\ tip' = tip + 1 /\ Versions' = Versions \cup {tip + 1} /\ tip + 1 \notin Versions
      /\ tip \in Versions /\ tip + 1 # BaseNumber
  BY <1>1 DEF CommitBlock, Versions
<1>3. /\ canon'[tip + 1] = [hash |-> cs.hash, view |-> pending]
      /\ \A n \in Versions : canon'[n] = canon[n]
  <2>1. /\ canon' = [canon EXCEPT ![tip + 1] = [hash |-> cs.hash, view |-> pending]]
        /\ canon \in [Number -> {Absent} \cup Block]
    BY <1>1 DEF CommitBlock, ChainInv, TypeInv, TypeOK, EnvTypeOK
  <2>2. \A n \in Versions : n \in Number /\ n # tip + 1
    BY <1>1, BoundsAssumption DEF Versions, Number
  <2>. QED
    BY <1>1, <2>1, <2>2
<1>4. /\ arkiv_root' = [arkiv_root EXCEPT ![cs.hash] = newRoot(cs)]
      /\ arkiv_root \in [AnyHash -> {Absent} \cup Trie]
  BY DEF CommitBlock, Commit, ChainInv, TypeInv, TypeOK, DbTypeOK
<1>5. RootAt(tip)' = newRoot(cs)
  <2>1. arkiv_root'[canon'[tip + 1].hash] = newRoot(cs)
    BY <1>1, <1>3, <1>4
  <2>. QED
    BY <1>2, <2>1 DEF RootAt
<1>6. \A n \in Versions : RootAt(n)' = RootAt(n)
  <2>1. \A n \in Versions \ {BaseNumber} : n \in Canonical
    BY <1>1 DEF Versions, Canonical
  <2>2. \A n \in Canonical : canon[n].hash # cs.hash
    BY <1>1 DEF FreshHash
  <2>3. \A n \in Versions \ {BaseNumber} : arkiv_root'[canon'[n].hash] = arkiv_root[canon[n].hash]
    <3> TAKE n \in Versions \ {BaseNumber}
    <3>1. canon[n].hash \in AnyHash /\ canon[n].hash # cs.hash
      BY <2>1, <2>2 DEF ChainInv, HashesUnique, AnyHash
    <3>. QED
      BY <1>3, <1>4, <3>1
  <2>. QED
    BY <2>3 DEF RootAt
<1>7. head'.root = newRoot(cs)
  BY DEF CommitBlock, committedHead
<1>. QED
  BY <1>1, <1>2, <1>3, <1>5, <1>6, <1>7

\* revertToAncestor drops the states from the oldest reverted block on.
LEMMA RevertEffect ==
  ASSUME ChainInv, NEW oldest \in Canonical, call = Absent, revertToAncestor(oldest)
  PROVE /\ tip' = oldest - 1 /\ tip' \in Versions' /\ tip' \in Versions
        /\ tip \in Versions /\ Versions' \subseteq Versions
        /\ Versions' = BaseNumber..(oldest - 1) /\ oldest <= tip
        /\ ancestorRoot(oldest) = RootAt(oldest - 1) /\ head'.root = RootAt(oldest - 1)
        /\ \A n \in Versions' : RootAt(n)' = RootAt(n) /\ canon'[n] = canon[n]
        /\ cs = Absent /\ cs' = Absent /\ pending' = Absent
PROOF
<1>1. /\ tip \in Nat /\ BaseNumber \in Nat /\ oldest \in Nat /\ BaseNumber < oldest
      /\ oldest <= tip /\ tip \in Number /\ tip' = oldest - 1
  BY StoreAssumption, BoundsAssumption
     DEF Canonical, ChainInv, TypeInv, TypeOK, EnvTypeOK, Number, revertToAncestor
<1>2. /\ tip' \in Versions' /\ tip' \in Versions /\ tip \in Versions
      /\ Versions' \subseteq Versions /\ Versions' = BaseNumber..(oldest - 1)
  BY <1>1 DEF Versions
<1>3. ancestorRoot(oldest) = RootAt(oldest - 1)
  BY AncestorIsBelow
<1>4. \A n \in Versions' : canon'[n] = canon[n]
  <2>1. \A n \in Versions' : n \in Number /\ n \notin oldest..tip
    BY <1>1, BoundsAssumption DEF Versions, Number
  <2>. QED
    BY <2>1 DEF revertToAncestor
<1>5. \A n \in Versions' : RootAt(n)' = RootAt(n)
  <2> SUFFICES ASSUME NEW n \in Versions', n # BaseNumber
               PROVE arkiv_root'[canon'[n].hash] = arkiv_root[canon[n].hash]
    BY DEF RootAt
  <2>1. n \in Canonical /\ n \notin oldest..tip /\ \A m \in oldest..tip : m \in Canonical
    BY <1>1 DEF Versions, Canonical
  <2>2. canon[n].hash \in AnyHash /\ canon[n].hash \notin {canon[m].hash : m \in oldest..tip}
    BY <2>1 DEF ChainInv, HashesUnique, AnyHash
  <2>. QED
    BY <1>4, <2>2 DEF revertToAncestor, revertedBlocks
<1>6. cs = Absent /\ cs' = Absent /\ pending' = Absent
  BY DEF revertToAncestor, ChainInv, TypeInv, TypeOK
<1>7. head'.root = RootAt(oldest - 1)
  BY <1>3 DEF revertToAncestor
<1>. QED
  BY <1>1, <1>2, <1>3, <1>4, <1>5, <1>6, <1>7

(***************************************************************************)
(* The entities.                                                           *)
(***************************************************************************)
\* The inductive invariant: every canonical state holds the contract's
\* entities at its block, and the caches of the block in progress hold the
\* contract's entities so far.
ViewsMatch == \A n \in Versions : RootAt(n).code = canon[n].view.ents

DraftMatches == cs # Absent => \A a \in Addr : getEntity(cs, a) = pending.ents[a]

HistoryInv == ChainInv /\ ViewsMatch /\ DraftMatches

\* What a handler leaves as the entity of an address.
LEMMA HandlerEntity ==
  ASSUME DbTypeOK, NEW c \in CacheStoreRec, NEW a \in Addr
  PROVE /\ \A op \in CreateOp :
             getEntity(processCreate(c, op), a) =
               IF a = op.addr THEN newEntity(c, op) ELSE getEntity(c, a)
        /\ \A op \in UpdateOp : Applicable(c, op) =>
             getEntity(processUpdate(c, op), a) =
               IF a = op.addr THEN updatedEntity(c, op) ELSE getEntity(c, a)
        /\ \A op \in DeleteOp \cup ExpireOp :
             getEntity(deleteEntity(c, op), a) =
               IF a = op.addr THEN Absent ELSE getEntity(c, a)
        /\ \A op \in ExtendOp : Applicable(c, op) =>
             getEntity(processExtend(c, op), a) =
               IF a = op.addr THEN [getEntity(c, a) EXCEPT !.expiresAt = op.expiresAt]
                              ELSE getEntity(c, a)
        /\ \A op \in TransferOp : Applicable(c, op) =>
             getEntity(processTransfer(c, op), a) =
               IF a = op.addr THEN [getEntity(c, a) EXCEPT !.owner = op.owner]
                              ELSE getEntity(c, a)
PROOF
<1>1. ASSUME NEW op \in CreateOp
      PROVE getEntity(processCreate(c, op), a) =
              IF a = op.addr THEN newEntity(c, op) ELSE getEntity(c, a)
  <2>1. newEntity(c, op) \in EntityRec
    BY DEF CacheStoreRec, CreateOp, newEntity, EntityRec
  <2>2. /\ processCreate(c, op).dirtyEntities =
             [c.dirtyEntities EXCEPT ![op.addr] = newEntity(c, op)]
        /\ processCreate(c, op).state.code = [c.state.code EXCEPT ![op.addr] = Absent]
    BY DEF processCreate, CacheStoreRec, Trie
  <2>3. /\ c.dirtyEntities \in [Addr -> {Absent} \cup EntityRec]
        /\ c.state.code \in [Addr -> {Absent} \cup EntityRec]
    BY DEF CacheStoreRec, Trie
  <2>. QED
    BY <2>1, <2>2, <2>3, AbsentAssumption DEF getEntity
<1>2. ASSUME NEW op \in DeleteOp \cup ExpireOp
      PROVE getEntity(deleteEntity(c, op), a) =
              IF a = op.addr THEN Absent ELSE getEntity(c, a)
  <2>2. /\ deleteEntity(c, op).dirtyEntities = [c.dirtyEntities EXCEPT ![op.addr] = Absent]
        /\ deleteEntity(c, op).state.code = [c.state.code EXCEPT ![op.addr] = Absent]
    BY DEF deleteEntity, CacheStoreRec, Trie
  <2>3. /\ c.dirtyEntities \in [Addr -> {Absent} \cup EntityRec]
        /\ c.state.code \in [Addr -> {Absent} \cup EntityRec]
    BY DEF CacheStoreRec, Trie
  <2>. QED
    BY <2>2, <2>3 DEF getEntity
<1> DEFINE Edited(d, b, e) == /\ d.dirtyEntities = [c.dirtyEntities EXCEPT ![b] = e]
                              /\ d.state = c.state
<1>3. ASSUME NEW d, NEW b \in Addr, NEW e \in EntityRec, Edited(d, b, e)
      PROVE getEntity(d, a) = IF a = b THEN e ELSE getEntity(c, a)
  <2>1. c.dirtyEntities \in [Addr -> {Absent} \cup EntityRec]
    BY DEF CacheStoreRec
  <2>. QED
    BY <1>3, <2>1, AbsentAssumption DEF getEntity
<1>4. ASSUME NEW op \in UpdateOp, Applicable(c, op)
      PROVE getEntity(processUpdate(c, op), a) =
              IF a = op.addr THEN updatedEntity(c, op) ELSE getEntity(c, a)
  <2>1. op.addr \in Addr /\ op.type = "update" /\ op.content \in Content
    BY DEF UpdateOp
  <2>2. getEntity(c, op.addr) \in EntityRec
    BY <1>4, <2>1, ReadTypes DEF Applicable
  <2>3. updatedEntity(c, op) \in EntityRec
    BY <2>1, <2>2 DEF updatedEntity, EntityRec, CacheStoreRec
  <2>4. Edited(processUpdate(c, op), op.addr, updatedEntity(c, op))
    BY DEF processUpdate, CacheStoreRec
  <2>. QED
    BY <1>3, <2>1, <2>3, <2>4
<1>5. ASSUME NEW op \in ExtendOp, Applicable(c, op)
      PROVE getEntity(processExtend(c, op), a) =
              IF a = op.addr THEN [getEntity(c, a) EXCEPT !.expiresAt = op.expiresAt]
                             ELSE getEntity(c, a)
  <2>1. op.addr \in Addr /\ op.type = "extend" /\ op.expiresAt \in Expiry
    BY DEF ExtendOp
  <2>2. getEntity(c, op.addr) \in EntityRec
    BY <1>5, <2>1, ReadTypes DEF Applicable
  <2>3. [getEntity(c, op.addr) EXCEPT !.expiresAt = op.expiresAt] \in EntityRec
    BY <2>1, <2>2 DEF EntityRec
  <2>4. Edited(processExtend(c, op), op.addr,
               [getEntity(c, op.addr) EXCEPT !.expiresAt = op.expiresAt])
    BY DEF processExtend, CacheStoreRec
  <2>. QED
    BY <1>3, <2>1, <2>3, <2>4
<1>6. ASSUME NEW op \in TransferOp, Applicable(c, op)
      PROVE getEntity(processTransfer(c, op), a) =
              IF a = op.addr THEN [getEntity(c, a) EXCEPT !.owner = op.owner]
                             ELSE getEntity(c, a)
  <2>1. op.addr \in Addr /\ op.type = "transfer" /\ op.owner \in Owner
    BY DEF TransferOp
  <2>2. getEntity(c, op.addr) \in EntityRec
    BY <1>6, <2>1, ReadTypes DEF Applicable
  <2>3. [getEntity(c, op.addr) EXCEPT !.owner = op.owner] \in EntityRec
    BY <2>1, <2>2 DEF EntityRec
  <2>4. Edited(processTransfer(c, op), op.addr,
               [getEntity(c, op.addr) EXCEPT !.owner = op.owner])
    BY DEF processTransfer, CacheStoreRec
  <2>. QED
    BY <1>3, <2>1, <2>3, <2>4
<1>. QED
  BY <1>1, <1>2, <1>4, <1>5, <1>6

\* An operation changes one entity of the draft, to what its handler makes of
\* it, and the contract changes the same entity.
LEMMA ContractEffectEnts ==
  ASSUME TypeInv, cs # Absent, NEW op \in AnyOp, NEW a \in Addr
  PROVE ContractEffect(op, tip + 1).ents[a] =
          IF a = op.addr THEN ContractEntity(op, tip + 1) ELSE pending.ents[a]
PROOF
<1>1. pending.ents \in [Addr -> {Absent} \cup EntityRec]
  BY DEF TypeInv, TypeOK, EnvTypeOK, ContractView
<1>. QED
  BY <1>1 DEF ContractEffect

\* Each handler agrees with the contract about the entity it changes.
LEMMA HandlersAgree ==
  ASSUME TypeInv, cs # Absent, DraftMatches
  PROVE /\ \A op \in CreateOp : newEntity(cs, op) = ContractEntity(op, tip + 1)
        /\ \A op \in UpdateOp : updatedEntity(cs, op) = ContractEntity(op, tip + 1)
        /\ \A op \in DeleteOp \cup ExpireOp : Absent = ContractEntity(op, tip + 1)
        /\ \A op \in ExtendOp : [getEntity(cs, op.addr) EXCEPT !.expiresAt = op.expiresAt]
                                  = ContractEntity(op, tip + 1)
        /\ \A op \in TransferOp : [getEntity(cs, op.addr) EXCEPT !.owner = op.owner]
                                    = ContractEntity(op, tip + 1)
PROOF
<1>1. cs.number = tip + 1
  BY DEF TypeInv, ChainShape
<1>2. \A op \in CreateOp : newEntity(cs, op) = ContractEntity(op, tip + 1)
  BY <1>1 DEF newEntity, ContractEntity, CreateOp
<1>3. \A op \in UpdateOp : updatedEntity(cs, op) = ContractEntity(op, tip + 1)
  BY <1>1 DEF updatedEntity, ContractEntity, UpdateOp, DraftMatches
<1>4. \A op \in DeleteOp \cup ExpireOp : Absent = ContractEntity(op, tip + 1)
  BY DEF ContractEntity, DeleteOp, ExpireOp
<1>5. \A op \in ExtendOp : [getEntity(cs, op.addr) EXCEPT !.expiresAt = op.expiresAt]
                             = ContractEntity(op, tip + 1)
  BY DEF ContractEntity, ExtendOp, DraftMatches
<1>6. \A op \in TransferOp : [getEntity(cs, op.addr) EXCEPT !.owner = op.owner]
                               = ContractEntity(op, tip + 1)
  BY DEF ContractEntity, TransferOp, DraftMatches
<1>. QED
  BY <1>2, <1>3, <1>4, <1>5, <1>6

\* The draft after an accepted operation, entity by entity.
LEMMA OpChangesDraft ==
  ASSUME TypeInv, DraftMatches,
         \/ \E op \in CreateOp : Create(op)
         \/ \E op \in UpdateOp : Update(op)
         \/ \E op \in DeleteOp \cup ExpireOp : Delete(op)
         \/ \E op \in ExtendOp : Extend(op)
         \/ \E op \in TransferOp : Transfer(op)
  PROVE /\ cs # Absent /\ cs' # Absent /\ UNCHANGED <<dbVars, head, canon, tip>>
        /\ \E op \in AnyOp :
             /\ ContractAllows(op) /\ pending' = ContractEffect(op, tip + 1)
             /\ \A a \in Addr :
                  getEntity(cs', a) = IF a = op.addr THEN ContractEntity(op, tip + 1)
                                                     ELSE getEntity(cs, a)
PROOF
<1>0. cs # Absent /\ cs \in CacheStoreRec /\ DbTypeOK
  BY DEF Create, Update, Delete, Extend, Transfer, TypeInv, TypeOK
<1> DEFINE Effect(op, next) ==
      \A a \in Addr : getEntity(next, a) = IF a = op.addr THEN ContractEntity(op, tip + 1)
                                                          ELSE getEntity(cs, a)
<1>1. ASSUME NEW op \in AnyOp, NEW next \in CacheStoreRec, Effect(op, next),
             ApplyOp(op, next)
      PROVE /\ cs # Absent /\ cs' # Absent /\ UNCHANGED <<dbVars, head, canon, tip>>
            /\ \E op1 \in AnyOp :
                 /\ ContractAllows(op1) /\ pending' = ContractEffect(op1, tip + 1)
                 /\ \A a \in Addr :
                      getEntity(cs', a) = IF a = op1.addr THEN ContractEntity(op1, tip + 1)
                                                          ELSE getEntity(cs, a)
  <2>1. /\ cs # Absent /\ cs' # Absent /\ UNCHANGED <<dbVars, head, canon, tip>>
        /\ ContractAllows(op) /\ pending' = ContractEffect(op, tip + 1) /\ cs' = next
    BY <1>1, HashAssumption DEF ApplyOp
  <2>2. \A a \in Addr : getEntity(cs', a) = IF a = op.addr THEN ContractEntity(op, tip + 1)
                                                           ELSE getEntity(cs, a)
    BY <1>1, <2>1
  <2>. QED
    BY <2>1, <2>2
<1>2. CASE \E op \in CreateOp : Create(op)
  <2> PICK op \in CreateOp : Create(op)
    BY <1>2
  <2>1. processCreate(cs, op) \in CacheStoreRec
    BY <1>0, CreateType DEF Create
  <2>2. Effect(op, processCreate(cs, op))
    BY <1>0, HandlerEntity, HandlersAgree
  <2>. QED
    BY <1>1, <2>1, <2>2 DEF Create, AnyOp
<1>3. CASE \E op \in UpdateOp : Update(op)
  <2> PICK op \in UpdateOp : Update(op)
    BY <1>3
  <2>0. Applicable(cs, op)
    BY DEF Update, ApplyOp
  <2>1. processUpdate(cs, op) \in CacheStoreRec
    BY <1>0, <2>0, UpdateType
  <2>2. Effect(op, processUpdate(cs, op))
    BY <1>0, <2>0, HandlerEntity, HandlersAgree
  <2>. QED
    BY <1>1, <2>1, <2>2 DEF Update, AnyOp
<1>4. CASE \E op \in DeleteOp \cup ExpireOp : Delete(op)
  <2> PICK op \in DeleteOp \cup ExpireOp : Delete(op)
    BY <1>4
  <2>1. deleteEntity(cs, op) \in CacheStoreRec
    BY <1>0, DeleteType DEF Delete, ApplyOp
  <2>2. Effect(op, deleteEntity(cs, op))
    BY <1>0, HandlerEntity, HandlersAgree
  <2>. QED
    BY <1>1, <2>1, <2>2 DEF Delete, AnyOp
<1>5. CASE \E op \in ExtendOp : Extend(op)
  <2> PICK op \in ExtendOp : Extend(op)
    BY <1>5
  <2>0. Applicable(cs, op)
    BY DEF Extend, ApplyOp
  <2>1. processExtend(cs, op) \in CacheStoreRec
    BY <1>0, <2>0, ExtendType
  <2>2. Effect(op, processExtend(cs, op))
    BY <1>0, <2>0, HandlerEntity, HandlersAgree
  <2>. QED
    BY <1>1, <2>1, <2>2 DEF Extend, AnyOp
<1>6. CASE \E op \in TransferOp : Transfer(op)
  <2> PICK op \in TransferOp : Transfer(op)
    BY <1>6
  <2>0. Applicable(cs, op)
    BY DEF Transfer, ApplyOp
  <2>1. processTransfer(cs, op) \in CacheStoreRec
    BY <1>0, <2>0, TransferType
  <2>2. Effect(op, processTransfer(cs, op))
    BY <1>0, <2>0, HandlerEntity, HandlersAgree
  <2>. QED
    BY <1>1, <2>1, <2>2 DEF Transfer, AnyOp
<1>. QED
  BY <1>2, <1>3, <1>4, <1>5, <1>6

\* New on an empty database: the base state has no entities.
LEMMA InitHistory == Init => HistoryInv
PROOF
<1> SUFFICES ASSUME Init PROVE HistoryInv
  OBVIOUS
<1>1. ChainInv
  BY InitChain
<1>2. Versions = {BaseNumber} /\ BaseNumber \in Number
  BY StoreAssumption, BoundsAssumption DEF Init, Versions, Number
<1>3. ViewsMatch
  BY <1>2 DEF ViewsMatch, Init, RootAt, EmptyTrie
<1>. QED
  BY <1>1, <1>3 DEF HistoryInv, DraftMatches, Init

\* Every step keeps the canonical states and the draft at the contract's
\* entities.
LEMMA NextHistory == HistoryInv /\ [Next]_vars => HistoryInv'
PROOF
<1> SUFFICES ASSUME HistoryInv, [Next]_vars PROVE HistoryInv'
  OBVIOUS
<1>0. ChainInv /\ ChainInv' /\ TypeInv /\ ViewsMatch /\ DraftMatches
  BY NextChain DEF HistoryInv, ChainInv
<1>1. ASSUME UNCHANGED <<dbVars, head, canon, tip>> PROVE ViewsMatch'
  BY <1>0, <1>1, SameRoots DEF ViewsMatch
<1>2. CASE Quiet
  <2>1. DraftMatches'
    BY <1>0, <1>2 DEF DraftMatches, Quiet, getEntity
  <2>. QED
    BY <1>0, <1>1, <1>2, <2>1 DEF HistoryInv, Quiet
<1>3. ASSUME NEW h \in Hash, BeginBlock(h) PROVE HistoryInv'
  <2>1. tip \in Versions
    BY <1>0, StoreAssumption, BoundsAssumption
       DEF Versions, ChainInv, TypeInv, ChainShape, TypeOK, EnvTypeOK, Number
  <2>2. head.root.code = canon[tip].view.ents /\ head.root \in Trie
    BY <1>0, <2>1 DEF ViewsMatch, ChainInv, HeadIsTip, TypeInv, TypeOK, HeadRec
  <2>3. \A a \in Addr : getEntity(cs', a) = head.root.code[a]
    BY <1>3, <2>2 DEF BeginBlock, newCacheStore, initSystemAccount, getEntity, Trie
  <2>4. DraftMatches'
    BY <1>3, <2>2, <2>3 DEF DraftMatches, BeginBlock, getEntity
  <2>. QED
    BY <1>0, <1>1, <1>3, <2>4 DEF HistoryInv, BeginBlock
<1>4. CASE \/ \E op \in CreateOp : Create(op)
           \/ \E op \in UpdateOp : Update(op)
           \/ \E op \in DeleteOp \cup ExpireOp : Delete(op)
           \/ \E op \in ExtendOp : Extend(op)
           \/ \E op \in TransferOp : Transfer(op)
  <2>1. cs # Absent /\ UNCHANGED <<dbVars, head, canon, tip>>
    BY <1>0, <1>4, OpChangesDraft
  <2>2. PICK op \in AnyOp :
          /\ pending' = ContractEffect(op, tip + 1)
          /\ \A a \in Addr :
               getEntity(cs', a) = IF a = op.addr THEN ContractEntity(op, tip + 1)
                                                  ELSE getEntity(cs, a)
    BY <1>0, <1>4, OpChangesDraft
  <2>3. \A a \in Addr : getEntity(cs', a) = pending'.ents[a]
    BY <1>0, <2>1, <2>2, ContractEffectEnts DEF DraftMatches
  <2>4. DraftMatches'
    BY <2>3 DEF DraftMatches, getEntity
  <2>. QED
    BY <1>0, <1>1, <2>1, <2>4 DEF HistoryInv
<1>5. CASE CommitBlock
  <2>1. newRoot(cs).code = flushEntities(cs)
    BY <1>0, <1>5, CommitEffect, NewRootFields
  <2>2. pending.ents \in [Addr -> {Absent} \cup EntityRec]
    BY <1>0, <1>5 DEF CommitBlock, TypeInv, TypeOK, EnvTypeOK, ContractView
  <2>3. \A a \in Addr : flushEntities(cs)[a] = pending.ents[a]
    BY <1>0, <1>5 DEF flushEntities, getEntity, DraftMatches, CommitBlock
  <2>4. flushEntities(cs) = pending.ents
    BY <2>2, <2>3 DEF flushEntities
  <2>5. canon'[tip + 1].view = pending
    BY <1>0, <1>5, CommitEffect
  <2>6. ViewsMatch'
    <3> SUFFICES ASSUME NEW n \in Versions' PROVE RootAt(n)'.code = canon'[n].view.ents
      BY DEF ViewsMatch
    <3>1. CASE n \in Versions
      BY <1>0, <1>5, <3>1, CommitEffect DEF ViewsMatch
    <3>2. CASE n = tip + 1
      <4>1. RootAt(n)' = newRoot(cs)
        BY <1>0, <1>5, <3>2, CommitEffect DEF RootAt
      <4>. QED
        BY <2>1, <2>4, <2>5, <3>2, <4>1
    <3>. QED
      BY <1>0, <1>5, <3>1, <3>2, CommitEffect
  <2>7. DraftMatches'
    BY <1>5 DEF CommitBlock, Commit, DraftMatches
  <2>. QED
    BY <1>0, <2>6, <2>7 DEF HistoryInv
<1>6. ASSUME NEW oldest \in Canonical, call = Absent, revertToAncestor(oldest)
      PROVE HistoryInv'
  <2>1. ViewsMatch'
    BY <1>0, <1>6, RevertEffect DEF ViewsMatch
  <2>2. DraftMatches'
    BY <1>0, <1>6, RevertEffect DEF DraftMatches
  <2>. QED
    BY <1>0, <2>1, <2>2 DEF HistoryInv
<1>. QED
  BY <1>0, <1>2, <1>3, <1>4, <1>5, <1>6, StepKinds

\* The inductive invariant holds in every reachable state.
LEMMA HistoryInvariant == Spec => []HistoryInv
PROOF
  BY InitHistory, NextHistory, PTL DEF Spec

\* What a reader finds at a readable number.
LEMMA ReadableState ==
  ASSUME ChainInv, NEW n \in Readable
  PROVE LET m == IF n = 0 THEN tip ELSE n
        IN m \in Versions /\ openStateAt(n) = RootAt(m) /\ openStateAt(n) \in Trie
PROOF
<1>1. /\ tip \in Nat /\ BaseNumber \in Nat /\ BaseNumber <= tip /\ tip \in Versions
      /\ \A m \in Canonical : m \in Versions /\ m # 0 /\ m # BaseNumber /\ m \in Number
  BY StoreAssumption, BoundsAssumption
     DEF ChainInv, TypeInv, ChainShape, TypeOK, EnvTypeOK, Number, Versions, Canonical
<1>2. CASE n = 0
  BY <1>1, <1>2 DEF openStateAt, ChainInv, HeadIsTip, TypeInv, TypeOK, HeadRec
<1>3. CASE n \in Canonical
  <2>1. /\ arkiv_blknum[n] = canon[n].hash /\ arkiv_root[canon[n].hash] # Absent
        /\ canon[n].hash \in AnyHash /\ canon[n].hash # Absent
    BY <1>1, <1>3, HashAssumption DEF ChainInv, BlockIndexIsChain, HashesUnique, AnyHash
  <2>2. openStateAt(n) = RootAt(n) /\ openStateAt(n) \in Trie
    BY <1>1, <1>3, <2>1 DEF openStateAt, RootAt, ChainInv, TypeInv, TypeOK, DbTypeOK
  <2>. QED
    BY <1>1, <1>3, <2>2
<1>. QED
  BY <1>2, <1>3 DEF Readable

\* In a state of the invariant, readers get what the contract had.
LEMMA FaithfulReads == HistoryInv => HistoryFaithful
PROOF
<1> SUFFICES ASSUME HistoryInv, NEW n \in Readable
             PROVE /\ openStateAt(n) # Absent
                   /\ \A a \in Addr : GetEntity(n, a) = Entities(n)[a]
  BY DEF HistoryFaithful
<1>1. ChainInv /\ ViewsMatch
  BY DEF HistoryInv
<1> DEFINE m == IF n = 0 THEN tip ELSE n
<1>2. m \in Versions /\ openStateAt(n) = RootAt(m) /\ openStateAt(n) \in Trie
  BY <1>1, ReadableState
<1>3. RootAt(m).code = canon[m].view.ents
  BY <1>1, <1>2 DEF ViewsMatch
<1>. QED
  BY <1>2, <1>3, AbsentAssumption DEF GetEntity, Entities

\* At the head and at every canonical block number a reader gets exactly the
\* entities the contract had after that block, whatever was committed,
\* reverted, failed or lost to a crash since.
THEOREM HistoryAlwaysFaithful == Spec => []HistoryFaithful
PROOF
  BY FaithfulReads, HistoryInvariant, PTL

(***************************************************************************)
(* The store implements EntityIndex.                                       *)
(***************************************************************************)
\* The refinement mapping.
sealedVersions == [n \in Number |-> sealedVersion(n)]
topVersion == IF arkiv_head = Absent THEN BaseNumber ELSE arkiv_head.number
draftVersion == IF cs = Absent THEN Absent ELSE [a \in Addr |-> getEntity(cs, a)]

\* The stored head carries the number of the tip even when everything the
\* store was given has been reverted.
HeadNumber == arkiv_head # Absent => arkiv_head.number = tip

IndexInv == HistoryInv /\ HeadNumber

LEMMA IndexInvariant == Spec => []IndexInv
PROOF
<1>1. Init => IndexInv
  BY InitHistory DEF IndexInv, HeadNumber, Init
<1>2. IndexInv /\ [Next]_vars => IndexInv'
  <2> SUFFICES ASSUME IndexInv, [Next]_vars PROVE HeadNumber'
    BY NextHistory DEF IndexInv
  <2>0. HistoryInv /\ ChainInv /\ TypeInv /\ DraftMatches /\ HeadNumber
    BY DEF IndexInv, HistoryInv, ChainInv
  <2>1. CASE UNCHANGED <<arkiv_head, tip>>
    BY <2>0, <2>1 DEF HeadNumber
  <2>2. CASE CommitBlock
    BY <2>2 DEF HeadNumber, CommitBlock, Commit, committedHead
  <2>3. CASE \E oldest \in Canonical : call = Absent /\ revertToAncestor(oldest)
    BY <2>3 DEF HeadNumber, revertToAncestor
  <2>4. CASE Quiet \/ \E h \in Hash : BeginBlock(h)
    BY <2>1, <2>4 DEF Quiet, BeginBlock, dbVars
  <2>. QED
    BY <2>0, <2>1, <2>2, <2>3, <2>4, StepKinds, OpChangesDraft DEF dbVars
<1>. QED
  BY <1>1, <1>2, PTL DEF Spec

\* The mapped state: one version per canonical block, the tip on top.
StackMapped ==
  /\ topVersion = tip
  /\ sealedVersions = [n \in Number |-> IF n \in Versions THEN RootAt(n).code ELSE Absent]
  /\ \A n \in Versions : n \in Number

LEMMA MappedState == IndexInv => StackMapped
PROOF
<1> SUFFICES ASSUME IndexInv PROVE StackMapped
  OBVIOUS
<1>0. ChainInv
  BY DEF IndexInv, HistoryInv
<1>1. /\ tip \in Nat /\ tip \in Number /\ BaseNumber \in Nat /\ BaseNumber <= tip
      /\ BaseNumber \in Versions
      /\ \A n \in Number : n \in Versions /\ n # BaseNumber <=> n \in Canonical
      /\ \A n \in Versions : n \in Number
  BY <1>0, StoreAssumption, BoundsAssumption
     DEF ChainInv, TypeInv, ChainShape, TypeOK, EnvTypeOK, Number, Versions, Canonical
<1>2. topVersion = tip
  <2>1. CASE arkiv_head # Absent
    BY <2>1 DEF topVersion, IndexInv, HeadNumber
  <2>2. CASE arkiv_head = Absent
    <3>1. ASSUME tip > BaseNumber PROVE FALSE
      <4>1. canon[tip].hash = ZeroHash
        BY <1>0, <2>2, <3>1 DEF ChainInv, HeadIsTip, ReopenedHead, NoHead
      <4>2. tip \in Canonical
        BY <1>1, <3>1 DEF Canonical
      <4>. QED
        BY <1>0, <4>1, <4>2, HashAssumption DEF ChainInv, HashesUnique
    <3>. QED
      BY <1>1, <2>2, <3>1 DEF topVersion
  <2>. QED
    BY <2>1, <2>2
<1>3. \A n \in Number : sealedVersion(n) = IF n \in Versions THEN RootAt(n).code ELSE Absent
  <2> SUFFICES ASSUME NEW n \in Number
               PROVE sealedVersion(n) = IF n \in Versions THEN RootAt(n).code ELSE Absent
    OBVIOUS
  <2>1. CASE n = BaseNumber
    BY <1>1, <2>1 DEF sealedVersion, RootAt, EmptyTrie
  <2>2. CASE n # BaseNumber /\ n \in Versions
    <3>1. arkiv_blknum[n] = canon[n].hash /\ canon[n].hash \in Hash
      BY <1>0, <1>1, <2>2 DEF ChainInv, BlockIndexIsChain, HashesUnique
    <3>. QED
      BY <2>2, <3>1, HashAssumption DEF sealedVersion, RootAt, AnyHash
  <2>3. CASE n # BaseNumber /\ n \notin Versions
    BY <1>0, <1>1, <2>3 DEF sealedVersion, ChainInv, BlockIndexIsChain
  <2>. QED
    BY <2>1, <2>2, <2>3
<1>. QED
  BY <1>1, <1>2, <1>3 DEF StackMapped, sealedVersions

\* The draft is a map of entities.
LEMMA DraftType ==
  ASSUME TypeInv, cs # Absent
  PROVE draftVersion \in [Addr -> {Absent} \cup EntityRec] /\ draftVersion # Absent
PROOF
<1>1. cs \in CacheStoreRec /\ DbTypeOK
  BY DEF TypeInv, TypeOK
<1>2. \A a \in Addr : getEntity(cs, a) \in {Absent} \cup EntityRec
  BY <1>1, ReadTypes
<1>3. draftVersion \in [Addr -> {Absent} \cup EntityRec]
  BY <1>2 DEF draftVersion
<1>. QED
  BY <1>3, AbsentAssumption

\* Every step of the store is a step of EntityIndex, or leaves it alone.
LEMMA IndexStep ==
  ASSUME IndexInv, IndexInv', [Next]_vars
  PROVE [Index!Next]_(Index!vars)
PROOF
<1>0. HistoryInv /\ ChainInv /\ TypeInv /\ DraftMatches /\ StackMapped /\ StackMapped'
  <2>1. StackMapped'
    BY MappedState, PTL
  <2>. QED
    BY <2>1, MappedState DEF IndexInv, HistoryInv, ChainInv
<1> DEFINE same == sealedVersions' = sealedVersions /\ topVersion' = topVersion
<1>1. ASSUME UNCHANGED <<dbVars, head, canon, tip>> PROVE same
  <2>1. \A n : sealedVersion(n)' = sealedVersion(n)
    BY <1>1 DEF sealedVersion, dbVars
  <2>. QED
    BY <1>1, <2>1 DEF sealedVersions, topVersion, dbVars
<1>2. CASE Quiet
  <2>1. same
    BY <1>1, <1>2 DEF Quiet
  <2>2. CASE cs' = Absent
    <3>1. draftVersion' = Absent
      BY <2>2 DEF draftVersion
    <3>2. Index!Drop
      BY <2>1, <3>1 DEF Index!Drop, sealedVersions, topVersion, draftVersion
    <3>. QED
      BY <3>2 DEF Index!Next
  <2>3. CASE cs' = cs
    <3>1. draftVersion' = draftVersion
      BY <2>3 DEF draftVersion, getEntity
    <3>. QED
      BY <2>1, <3>1 DEF Index!vars, sealedVersions, topVersion, draftVersion
  <2>. QED
    BY <1>2, <2>2, <2>3 DEF Quiet
<1>3. ASSUME NEW h \in Hash, BeginBlock(h) PROVE Index!Open
  <2>1. same
    BY <1>1, <1>3 DEF BeginBlock
  <2>2. cs = Absent /\ cs' # Absent
    BY <1>0, <1>3, BeginEffect, HashAssumption DEF BeginBlock
  <2>3. tip \in Versions /\ tip \in Number
    BY <1>0, StoreAssumption, BoundsAssumption
       DEF Versions, ChainInv, TypeInv, ChainShape, TypeOK, EnvTypeOK, Number
  <2>4. sealedVersions[topVersion] = head.root.code
    BY <1>0, <2>3 DEF StackMapped, ChainInv, HeadIsTip
  <2>5. head.root \in Trie
    BY <1>0 DEF TypeInv, TypeOK, HeadRec
  <2>6. \A a \in Addr : getEntity(cs', a) = head.root.code[a]
    BY <1>3, <2>5 DEF BeginBlock, newCacheStore, initSystemAccount, getEntity, Trie
  <2>7. draftVersion' = [a \in Addr |-> head.root.code[a]]
    BY <2>2, <2>6 DEF draftVersion, getEntity
  <2>8. draftVersion' = sealedVersions[topVersion] /\ draftVersion = Absent
    BY <2>2, <2>4, <2>5, <2>7 DEF draftVersion, Trie
  <2>. QED
    BY <2>1, <2>8 DEF Index!Open, sealedVersions, topVersion, draftVersion
<1>4. CASE \/ \E op \in CreateOp : Create(op)
           \/ \E op \in UpdateOp : Update(op)
           \/ \E op \in DeleteOp \cup ExpireOp : Delete(op)
           \/ \E op \in ExtendOp : Extend(op)
           \/ \E op \in TransferOp : Transfer(op)
  <2>1. cs # Absent /\ cs' # Absent /\ same
    BY <1>0, <1>1, <1>4, OpChangesDraft
  <2>2. PICK op \in AnyOp :
          \A a \in Addr :
            getEntity(cs', a) = IF a = op.addr THEN ContractEntity(op, tip + 1)
                                               ELSE getEntity(cs, a)
    BY <1>0, <1>4, OpChangesDraft
  <2>3. op.addr \in Addr
    BY DEF AnyOp, CreateOp, UpdateOp, DeleteOp, ExtendOp, TransferOp, ExpireOp
  <2>4. draftVersion \in [Addr -> {Absent} \cup EntityRec] /\ draftVersion # Absent
    BY <1>0, <2>1, DraftType
  <2>5. ContractEntity(op, tip + 1) \in {Absent} \cup EntityRec
    <3>1. TypeInv' /\ cs' \in CacheStoreRec /\ DbTypeOK'
      BY <2>1 DEF IndexInv, HistoryInv, ChainInv, TypeInv, TypeOK
    <3>2. getEntity(cs', op.addr) \in {Absent} \cup EntityRec
      BY <1>0, <2>3, <3>1, ReadTypes DEF TypeInv, TypeOK
    <3>. QED
      BY <2>2, <2>3, <3>2
  <2>6. draftVersion' = [draftVersion EXCEPT ![op.addr] = ContractEntity(op, tip + 1)]
    <3>1. draftVersion' = [a \in Addr |-> getEntity(cs', a)]
      BY <2>1 DEF draftVersion, getEntity
    <3>2. \A a \in Addr : draftVersion[a] = getEntity(cs, a)
      BY <2>1 DEF draftVersion
    <3> DEFINE v == ContractEntity(op, tip + 1)
    <3>3. \A a \in Addr : draftVersion'[a] = IF a = op.addr THEN v ELSE draftVersion[a]
      BY <2>2, <3>1, <3>2
    <3> HIDE DEF v
    <3>4. draftVersion' = [draftVersion EXCEPT ![op.addr] = v]
      BY <2>3, <2>4, <3>1, <3>3
    <3>. QED
      BY <3>4 DEF v
  <2>7. Index!Change(op.addr, ContractEntity(op, tip + 1))
    BY <2>1, <2>4, <2>6 DEF Index!Change, sealedVersions, topVersion, draftVersion
  <2>. QED
    BY <2>3, <2>5, <2>7 DEF Index!Next
<1>5. CASE CommitBlock
  <2>1. cs # Absent /\ cs' = Absent
    BY <1>5 DEF CommitBlock, Commit
  <2>2. draftVersion # Absent /\ draftVersion' = Absent
    BY <1>0, <2>1, DraftType DEF draftVersion
  <2>3. /\ topVersion = tip /\ topVersion' = tip + 1
        /\ sealedVersions = [n \in Number |-> IF n \in Versions THEN RootAt(n).code ELSE Absent]
        /\ sealedVersions' =
             [n \in Number |-> IF n \in Versions' THEN RootAt(n)'.code ELSE Absent]
    <3>1. tip' = tip + 1
      BY <1>0, <1>5, CommitEffect
    <3>. QED
      BY <1>0, <3>1 DEF StackMapped
  <2>4. RootAt(tip)'.code = draftVersion
    <3>1. newRoot(cs).code = flushEntities(cs) /\ RootAt(tip)' = newRoot(cs)
      BY <1>0, <1>5, CommitEffect, NewRootFields
    <3>2. flushEntities(cs) = draftVersion
      BY <2>1 DEF flushEntities, draftVersion, getEntity
    <3>. QED
      BY <3>1, <3>2
  <2>5. sealedVersions' = [sealedVersions EXCEPT ![tip + 1] = draftVersion]
    <3>1. \A n \in Versions : RootAt(n)' = RootAt(n)
      BY <1>0, <1>5, CommitEffect
    <3>2. /\ Versions' = Versions \cup {tip + 1} /\ tip + 1 \notin Versions
          /\ tip + 1 \in Number /\ tip' = tip + 1
      BY <1>0, <1>5, CommitEffect
    <3>3. \A n \in Number : n = tip + 1 => RootAt(n)'.code = draftVersion
      BY <2>4, <3>2 DEF RootAt
    <3>. QED
      BY <2>3, <3>1, <3>2, <3>3
  <2>6. Index!Seal
    BY <2>2, <2>3, <2>5 DEF Index!Seal, sealedVersions, topVersion, draftVersion
  <2>. QED
    BY <2>6 DEF Index!Next
<1>6. ASSUME NEW oldest \in Canonical, call = Absent, revertToAncestor(oldest)
      PROVE Index!Next
  <2>1. draftVersion = Absent /\ draftVersion' = Absent
    BY <1>0, <1>6, RevertEffect DEF draftVersion
  <2>2. /\ topVersion = tip /\ topVersion' = oldest - 1
        /\ sealedVersions = [n \in Number |-> IF n \in Versions THEN RootAt(n).code ELSE Absent]
        /\ sealedVersions' =
             [n \in Number |-> IF n \in Versions' THEN RootAt(n)'.code ELSE Absent]
    <3>1. tip' = oldest - 1
      BY <1>0, <1>6, RevertEffect
    <3>. QED
      BY <1>0, <3>1 DEF StackMapped
  <2>3. /\ \A n \in Versions' : RootAt(n)' = RootAt(n)
        /\ Versions' = BaseNumber..(oldest - 1) /\ oldest - 1 \in Versions
    BY <1>0, <1>6, RevertEffect
  <2>4. sealedVersions' = [n \in Number |-> IF n > oldest - 1 THEN Absent ELSE sealedVersions[n]]
    <3>1. \A n \in Number : n \in Versions' <=> n \in Versions /\ ~(n > oldest - 1)
      <4>1. oldest \in Nat /\ tip \in Nat /\ BaseNumber \in Nat /\ Number \subseteq Nat
        BY <1>0, StoreAssumption, BoundsAssumption
           DEF Canonical, TypeInv, TypeOK, EnvTypeOK, Number
      <4>2. oldest <= tip /\ tip' = oldest - 1
        BY <1>0, <1>6, RevertEffect
      <4> TAKE n \in Number
      <4>3. n \in Nat
        BY <4>1
      <4>. QED
        BY <4>1, <4>2, <4>3 DEF Versions
    <3>. QED
      BY <2>2, <2>3, <3>1
  <2>5. Index!Truncate(oldest - 1)
    BY <2>1, <2>2, <2>4 DEF Index!Truncate, sealedVersions, topVersion, draftVersion
  <2>6. oldest - 1 \in BaseNumber..topVersion
    BY <2>2, <2>3 DEF Versions
  <2>. QED
    BY <2>5, <2>6 DEF Index!Next, topVersion
<1>. QED
  BY <1>0, <1>2, <1>3, <1>4, <1>5, <1>6, StepKinds DEF Index!Next

\* The write path, block by block and entity by entity, with its reverts,
\* reorgs, failures and crashes, implements EntityIndex.
THEOREM IndexRefinement == Spec => ImplementsIndex
PROOF
<1>1. Init => Index!Init
  BY BoundsAssumption, StoreAssumption, HashAssumption
     DEF Init, Index!Init, sealedVersion, NoEntities
<1>2. IndexInv /\ IndexInv' /\ [Next]_vars => [Index!Next]_(Index!vars)
  BY IndexStep
<1>. QED
  BY <1>1, <1>2, IndexInvariant, PTL DEF Spec, ImplementsIndex, Index!Spec
=============================================================================
