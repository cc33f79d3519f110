----------------------------- MODULE ArkivStore -----------------------------
(***************************************************************************)
(* The Store (store/store.go, revert.go, query.go) driven by the chain     *)
(* ingest API (chain/server.go): blocks are committed, reverted and        *)
(* reorganised by one client, the ExEx, while the process may crash and    *)
(* reopen its database at any step.                                        *)
(*                                                                         *)
(* The environment is the EntityRegistry contract and the ExEx: canon is   *)
(* the chain the ExEx has told the store about, with the contract's view   *)
(* of the entities after every block.  The ExEx continues from the head    *)
(* the store really has; the contract mints every key once per chain and   *)
(* lets only live entities be changed.                                     *)
(***************************************************************************)
EXTENDS CacheStore

CONSTANTS
  BaseNumber,  \* the block before the first one delivered
  MaxBatch,    \* bound: blocks in one request
  MaxSealed    \* bound: blocks committed over a whole run

VARIABLES
  head,     \* headNumber, headHash and headRoot of the open Store
  call,     \* the request being served, or Absent
  canon,    \* environment: number -> block of the canonical chain
  tip,      \* environment: number of the last canonical block
  pending,  \* environment: the contract's view inside the block in progress
  sealed    \* bound: blocks committed so far

envVars == <<canon, tip, pending, sealed>>
vars == <<dbVars, cs, head, call, envVars>>

ContractView == [ents : [Addr -> {Absent} \cup EntityRec], minted : SUBSET Addr]
Block == [hash : AnyHash, view : ContractView]
Call == [method : {"commitChain", "reorg"}, left : 1..MaxBatch, from : AnyHash]

Canonical == BaseNumber + 1 .. tip
RootAt(n) == IF n = BaseNumber THEN EmptyTrie ELSE arkiv_root[canon[n].hash]

(***************************************************************************)
(* New: the head is restored from the database, or is the empty state.     *)
(***************************************************************************)
NoHead == [number |-> 0, hash |-> ZeroHash, root |-> EmptyTrie]
ReopenedHead == IF arkiv_head = Absent THEN NoHead ELSE arkiv_head

Init ==
  /\ arkiv_annot = [p \in Pair |-> Absent] /\ arkiv_bm = {} /\ arkiv_pairs = {}
  /\ arkiv_id = [i \in ID |-> Absent] /\ arkiv_addr = [a \in Addr |-> Absent]
  /\ arkiv_root = [h \in AnyHash |-> Absent]
  /\ arkiv_parent = [h \in AnyHash |-> Absent]
  /\ arkiv_blknum = [n \in Number |-> Absent]
  /\ arkiv_head = Absent
  /\ cs = Absent /\ head = NoHead /\ call = Absent
  /\ canon = [n \in Number |->
                IF n = BaseNumber
                THEN [hash |-> BaseHash, view |-> [ents |-> NoEntities, minted |-> {}]]
                ELSE Absent]
  /\ tip = BaseNumber /\ pending = Absent /\ sealed = 0

(***************************************************************************)
(* Processing the blocks of a request.                                     *)
(***************************************************************************)
Fits(from, k) == from + k <= MaxNumber /\ sealed + k <= MaxSealed

CommitChain(k) ==
  /\ call = Absent /\ Fits(tip, k)
  /\ call' = [method |-> "commitChain", left |-> k, from |-> head.hash]
  /\ UNCHANGED <<dbVars, cs, head, envVars>>

FreshHash == Hash \ {canon[n].hash : n \in Canonical}

BeginBlock(h) ==
  /\ call # Absent /\ cs = Absent
  /\ h \in FreshHash
  /\ cs' = newCacheStore(head.root, tip + 1, h, canon[tip].hash)
  /\ pending' = canon[tip].view
  /\ UNCHANGED <<dbVars, head, call, canon, tip, sealed>>

\* The contract accepts an operation: a new key, or a live entity.
ContractAllows(op) ==
  IF op.type = "create" THEN op.addr \notin pending.minted
                        ELSE pending.ents[op.addr] # Absent

\* The contract's own effect of an operation on an entity.
ContractEntity(op, n) ==
  LET old == pending.ents[op.addr]
  IN CASE op.type = "create" ->
            [owner |-> op.owner, creator |-> op.sender, expiresAt |-> op.expiresAt,
             createdAt |-> n, lastModified |-> n, content |-> op.content, key |-> op.addr]
       [] op.type = "update" -> [old EXCEPT !.content = op.content, !.lastModified = n]
       [] op.type = "extend" -> [old EXCEPT !.expiresAt = op.expiresAt]
       [] op.type = "transfer" -> [old EXCEPT !.owner = op.owner]
       [] OTHER -> Absent

ContractEffect(op, n) ==
  [ents |-> [pending.ents EXCEPT ![op.addr] = ContractEntity(op, n)],
   minted |-> pending.minted \cup {op.addr}]

\* ApplyOp on an operation its handler accepts, leaving the CacheStore next.
ApplyOp(op, next) ==
  /\ cs # Absent
  /\ ContractAllows(op) /\ Applicable(cs, op)
  /\ cs' = next
  /\ pending' = ContractEffect(op, tip + 1)
  /\ UNCHANGED <<dbVars, head, call, canon, tip, sealed>>

Create(op) == cs # Absent /\ cs.state.count < MaxId /\ ApplyOp(op, processCreate(cs, op))
Update(op) == cs # Absent /\ ApplyOp(op, processUpdate(cs, op))
Delete(op) == cs # Absent /\ ApplyOp(op, deleteEntity(cs, op))
Extend(op) == cs # Absent /\ ApplyOp(op, processExtend(cs, op))
Transfer(op) == cs # Absent /\ ApplyOp(op, processTransfer(cs, op))
Expire(op) == cs # Absent /\ ApplyOp(op, deleteEntity(cs, op))

CommitBlock ==
  /\ cs # Absent
  /\ Commit(cs)
  /\ head' = committedHead(cs)
  /\ canon' = [canon EXCEPT ![cs.number] = [hash |-> cs.hash, view |-> pending]]
  /\ tip' = cs.number
  /\ pending' = Absent
  /\ sealed' = sealed + 1
  /\ call' = IF call.left = 1 THEN Absent ELSE [call EXCEPT !.left = @ - 1]

\* Mutant: the error return forgets to discard the block.
AbortCall_KeepsBlock ==
  call' = Absent /\ UNCHANGED <<dbVars, cs, head, envVars>>

\* Mutant: the failed block is tried again, and the request goes on.
AbortCall_Retries ==
  Discard /\ pending' = Absent /\ UNCHANGED <<call, head, canon, tip, sealed>>

\* processBlock returns an error: the block is discarded and the request
\* ends; the blocks it committed before stay.
AbortCall ==
  /\ Discard
  /\ call' = Absent /\ pending' = Absent
  /\ UNCHANGED <<head, canon, tip, sealed>>

\* A handler rejects an operation the contract accepted.
OpFails(op) ==
  cs # Absent /\ ContractAllows(op) /\ ~Applicable(cs, op) /\ AbortCall

\* Opening the state, encoding a blob or writing the batch fails.
IOFails == call # Absent /\ AbortCall

(***************************************************************************)
(* Reverting the canonical blocks from number `oldest` up to the tip.      *)
(***************************************************************************)
\* Mutant: pointers of pairs unknown at the ancestor are left in place.
repopulateAnnot_KeepsNew(t) ==
  [p \in Pair |-> IF p \in arkiv_pairs /\ t.annot[p] # Absent
                  THEN t.annot[p] ELSE arkiv_annot[p]]

repopulateAnnot(t) ==
  [p \in Pair |-> IF p \in arkiv_pairs THEN t.annot[p] ELSE arkiv_annot[p]]

\* Mutant: the ID maps are not cleaned up.
OrphanIDs_None(t) == {}

\* The entries of arkiv_id whose slot is zero at the ancestor.
OrphanIDs(t) == {i \in ID : arkiv_id[i] # Absent /\ t.ids[i] = Absent}

ancestorHash(oldest) == arkiv_parent[canon[oldest].hash]
\* Mutant: the root of the oldest reverted block instead of its parent's.
ancestorRoot_Reverted(oldest) == arkiv_root[canon[oldest].hash]

ancestorRoot(oldest) ==
  IF arkiv_root[ancestorHash(oldest)] = Absent THEN EmptyTrie
                                               ELSE arkiv_root[ancestorHash(oldest)]

\* Mutant: the index entries of the oldest reverted block stay.
revertedBlocks_OffByOne(oldest) == oldest + 1 .. tip

revertedBlocks(oldest) == oldest..tip

revertToAncestor(oldest) ==
  LET root == ancestorRoot(oldest)
      gone == {canon[n].hash : n \in revertedBlocks(oldest)}
      newHead == [number |-> oldest - 1, hash |-> ancestorHash(oldest), root |-> root]
  IN /\ ancestorHash(oldest) # Absent
     /\ arkiv_annot' = repopulateAnnot(root)
     /\ arkiv_id' = [i \in ID |-> IF i \in OrphanIDs(root) THEN Absent ELSE arkiv_id[i]]
     /\ arkiv_addr' = [a \in Addr |-> IF a \in {arkiv_id[i] : i \in OrphanIDs(root)}
                                      THEN Absent ELSE arkiv_addr[a]]
     /\ arkiv_root' = [h \in AnyHash |-> IF h \in gone THEN Absent ELSE arkiv_root[h]]
     /\ arkiv_parent' = [h \in AnyHash |-> IF h \in gone THEN Absent ELSE arkiv_parent[h]]
     /\ arkiv_blknum' =
          [n \in Number |-> IF n \in revertedBlocks(oldest) THEN Absent ELSE arkiv_blknum[n]]
     /\ arkiv_head' = newHead
     /\ head' = newHead
     /\ canon' = [n \in Number |-> IF n \in oldest..tip THEN Absent ELSE canon[n]]
     /\ tip' = oldest - 1
     /\ UNCHANGED <<arkiv_bm, arkiv_pairs, cs, pending, sealed>>

\* revertBlock repeats revertToAncestor for a single block, the head.
revertBlock == revertToAncestor(tip)

Revert(oldest) == call = Absent /\ revertToAncestor(oldest) /\ UNCHANGED call

RevertBlock == call = Absent /\ tip \in Canonical /\ revertBlock /\ UNCHANGED call

\* The revert is one batch; every new block then is one more.
Reorg(oldest, k) ==
  /\ call = Absent /\ Fits(oldest - 1, k)
  /\ revertToAncestor(oldest)
  /\ call' = [method |-> "reorg", left |-> k, from |-> head.hash]

(***************************************************************************)
(* The process dies at any point and New reopens the database.             *)
(***************************************************************************)
Restart ==
  /\ cs' = Absent /\ call' = Absent /\ pending' = Absent
  /\ head' = ReopenedHead
  /\ UNCHANGED <<dbVars, canon, tip, sealed>>

Next ==
  \/ \E k \in 1..MaxBatch : CommitChain(k)
  \/ \E h \in Hash : BeginBlock(h)
  \/ \E op \in CreateOp : Create(op)
  \/ \E op \in UpdateOp : Update(op)
  \/ \E op \in DeleteOp : Delete(op)
  \/ \E op \in ExtendOp : Extend(op)
  \/ \E op \in TransferOp : Transfer(op)
  \/ \E op \in ExpireOp : Expire(op)
  \/ CommitBlock
  \/ \E op \in CreateOp \cup UpdateOp \cup DeleteOp \cup ExtendOp \cup TransferOp
                \cup ExpireOp : OpFails(op)
  \/ IOFails
  \/ \E oldest \in Canonical : Revert(oldest)
  \/ RevertBlock
  \/ \E oldest \in Canonical, k \in 1..MaxBatch : Reorg(oldest, k)
  \/ Restart

Spec == Init /\ [][Next]_vars

\* A block has finitely many operations and the handler's goroutine keeps
\* running: a block that can be opened is, and an open block comes to its end.
FairSpec == Spec /\ WF_vars(\E h \in Hash : BeginBlock(h)) /\ WF_vars(CommitBlock)

ASSUME StoreAssumption ==
  /\ BaseNumber \in Number /\ MaxBatch \in Nat /\ MaxSealed \in Nat
  /\ Absent \notin Block /\ Absent \notin ContractView /\ Absent \notin Call
=============================================================================
