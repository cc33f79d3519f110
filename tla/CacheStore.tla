----------------------------- MODULE CacheStore -----------------------------
(***************************************************************************)
(* The write path of one block (store/staging.go, ops.go, bitmap.go,       *)
(* system.go).  A CacheStore buffers everything a block changes: the trie  *)
(* goes through stateDB, the ID maps through stagingDB, entities and       *)
(* bitmaps through two dirty caches.  Commit flushes the caches and writes *)
(* all of it to the database in one batch; Discard forgets it.             *)
(*                                                                         *)
(* One variable per key prefix of the database (store/keys.go), plus cs,   *)
(* the CacheStore of the block in progress.                                *)
(***************************************************************************)
EXTENDS Entity

CONSTANTS
  Hash,      \* block hashes
  BaseHash,  \* parent hash of the first block ever delivered
  ZeroHash   \* common.Hash{}

VARIABLES
  arkiv_annot,   \* pair -> hash of its latest bitmap
  arkiv_bm,      \* the bitmap blobs, content addressed
  arkiv_pairs,   \* every pair ever indexed
  arkiv_id,      \* entity ID -> address
  arkiv_addr,    \* address -> entity ID
  arkiv_root,    \* block hash -> state root
  arkiv_parent,  \* block hash -> parent hash
  arkiv_blknum,  \* block number -> block hash
  arkiv_head,    \* the canonical head: number, hash and state root
  cs             \* the CacheStore of the block in progress, or Absent

dbVars == <<arkiv_annot, arkiv_bm, arkiv_pairs, arkiv_id, arkiv_addr,
            arkiv_root, arkiv_parent, arkiv_blknum, arkiv_head>>

AnyHash == Hash \cup {BaseHash, ZeroHash}

\* encodeHead and decodeHead: the 72 bytes are the triple.
HeadRec == [number : Number, hash : AnyHash, root : Trie]

CacheStoreRec ==
  [number : Number, hash : Hash, parent : AnyHash, state : Trie,
   id : [ID -> {Absent} \cup Addr], addr : [Addr -> {Absent} \cup ID],
   dirtyEntities : [Addr -> {Absent} \cup EntityRec],
   dirtyBitmaps : [Pair -> {Absent} \cup Bitmap]]

(***************************************************************************)
(* The operations of a block (types/types.go).                             *)
(***************************************************************************)
CreateOp == [type : {"create"}, addr : Addr, owner : Owner, sender : Sender,
             expiresAt : Expiry, content : Content]
UpdateOp == [type : {"update"}, addr : Addr, content : Content]
DeleteOp == [type : {"delete"}, addr : Addr]
ExtendOp == [type : {"extend"}, addr : Addr, expiresAt : Expiry]
TransferOp == [type : {"transfer"}, addr : Addr, owner : Owner]
ExpireOp == [type : {"expire"}, addr : Addr]

(***************************************************************************)
(* Opening the block.                                                      *)
(***************************************************************************)
\* Mutant: the account is created without a nonce.
initSystemAccount_NoNonce(t) == t

initSystemAccount(t) == [t EXCEPT !.nonce = 1]

newCacheStore(root, n, h, parent) ==
  [number |-> n, hash |-> h, parent |-> parent, state |-> initSystemAccount(root),
   id |-> [i \in ID |-> Absent], addr |-> [a \in Addr |-> Absent],
   dirtyEntities |-> [a \in Addr |-> Absent],
   dirtyBitmaps |-> [p \in Pair |-> Absent]]

(***************************************************************************)
(* Reads see the staged value first, then the database (StagingDB.Get).    *)
(***************************************************************************)
StagingGet(staging, real, k) == IF staging[k] # Absent THEN staging[k] ELSE real[k]

getEntity(c, a) ==
  IF c.dirtyEntities[a] # Absent THEN c.dirtyEntities[a] ELSE c.state.code[a]

entityID(c, a) == StagingGet(c.addr, arkiv_addr, a)

\* The first touch of a pair loads its latest bitmap, or starts an empty one.
loadBitmap(c, p) ==
  IF c.dirtyBitmaps[p] # Absent THEN c.dirtyBitmaps[p]
  ELSE IF arkiv_annot[p] # Absent THEN arkiv_annot[p] ELSE {}

\* The load fails when the pointer's blob is missing.
Loadable(c, P) ==
  \A p \in P : c.dirtyBitmaps[p] = Absent /\ arkiv_annot[p] # Absent
                 => arkiv_annot[p] \in arkiv_bm

\* bitmapRemove over the pairs in rem, then bitmapAdd over the pairs in add.
mutateBitmaps(c, rem, add, i) ==
  [p \in Pair |->
     CASE p \in add -> loadBitmap(c, p) \cup {i}
       [] p \in rem \ add -> loadBitmap(c, p) \ {i}
       [] OTHER -> c.dirtyBitmaps[p]]

(***************************************************************************)
(* The handlers: the pairs each one loads, and the CacheStore it leaves.   *)
(***************************************************************************)
newEntity(c, op) ==
  [owner |-> op.owner, creator |-> op.sender, expiresAt |-> op.expiresAt,
   createdAt |-> c.number, lastModified |-> c.number, content |-> op.content,
   key |-> op.addr]

\* Mutant: the lowest free ID is assigned instead of the next one.
processCreate_ReusesID(c, op) ==
  LET i == CHOOSE i \in ID : c.state.ids[i] = Absent
                              /\ \A j \in 1..(i - 1) : c.state.ids[j] # Absent
      e == newEntity(c, op)
  IN [c EXCEPT !.state = [@ EXCEPT !.count = @ + 1, !.ids[i] = op.addr],
               !.id[i] = op.addr,
               !.addr[op.addr] = i,
               !.dirtyEntities[op.addr] = e,
               !.dirtyBitmaps = mutateBitmaps(c, {}, allAnnotations(e), i)]

processCreate(c, op) ==
  LET i == c.state.count + 1
      e == newEntity(c, op)
  IN [c EXCEPT !.state = [@ EXCEPT !.count = i, !.ids[i] = op.addr,
                                   !.code[op.addr] = Absent],
               !.id[i] = op.addr,
               !.addr[op.addr] = i,
               !.dirtyEntities[op.addr] = e,
               !.dirtyBitmaps = mutateBitmaps(c, {}, allAnnotations(e), i)]

updatedEntity(c, op) ==
  [getEntity(c, op.addr) EXCEPT !.content = op.content, !.lastModified = c.number]

\* Mutant: the pairs the update drops stay indexed.
processUpdate_KeepsPairs(c, op) ==
  [c EXCEPT !.dirtyEntities[op.addr] = updatedEntity(c, op),
            !.dirtyBitmaps = mutateBitmaps(c, {}, allAnnotations(updatedEntity(c, op)),
                                           entityID(c, op.addr))]

processUpdate(c, op) ==
  LET old == allAnnotations(getEntity(c, op.addr))
      new == allAnnotations(updatedEntity(c, op))
  IN [c EXCEPT !.dirtyEntities[op.addr] = updatedEntity(c, op),
               !.dirtyBitmaps =
                   mutateBitmaps(c, old \ new, new \ old, entityID(c, op.addr))]

\* Mutant: the dirty entity survives and is flushed at Commit.
deleteEntity_KeepsDirty(c, op) ==
  LET i == entityID(c, op.addr)
  IN [c EXCEPT !.state = [@ EXCEPT !.ids[i] = Absent, !.code[op.addr] = Absent],
               !.dirtyBitmaps =
                   mutateBitmaps(c, allAnnotations(getEntity(c, op.addr)), {}, i)]

deleteEntity(c, op) ==
  LET i == entityID(c, op.addr)
  IN [c EXCEPT !.state = [@ EXCEPT !.ids[i] = Absent, !.code[op.addr] = Absent],
               !.dirtyEntities[op.addr] = Absent,
               !.dirtyBitmaps =
                   mutateBitmaps(c, allAnnotations(getEntity(c, op.addr)), {}, i)]

processExtend(c, op) ==
  LET e == getEntity(c, op.addr)
  IN [c EXCEPT !.dirtyEntities[op.addr] = [e EXCEPT !.expiresAt = op.expiresAt],
               !.dirtyBitmaps =
                   mutateBitmaps(c, {<<"$expiration", e.expiresAt>>},
                                 {<<"$expiration", op.expiresAt>>},
                                 entityID(c, op.addr))]

processTransfer(c, op) ==
  LET e == getEntity(c, op.addr)
  IN [c EXCEPT !.dirtyEntities[op.addr] = [e EXCEPT !.owner = op.owner],
               !.dirtyBitmaps =
                   mutateBitmaps(c, {<<"$owner", e.owner>>}, {<<"$owner", op.owner>>},
                                 entityID(c, op.addr))]

\* The pairs whose bitmaps a handler loads.
Touched(c, op) ==
  LET e == getEntity(c, op.addr)
  IN CASE op.type = "create" -> allAnnotations(newEntity(c, op))
       [] op.type = "update" ->
            LET old == allAnnotations(e)
                new == allAnnotations(updatedEntity(c, op))
            IN (old \ new) \cup (new \ old)
       [] op.type = "extend" ->
            {<<"$expiration", e.expiresAt>>, <<"$expiration", op.expiresAt>>}
       [] op.type = "transfer" -> {<<"$owner", e.owner>>, <<"$owner", op.owner>>}
       [] OTHER -> allAnnotations(e)

(***************************************************************************)
(* Every handler but Create fails when the entity or its ID is not found;  *)
(* any handler fails when a bitmap it touches cannot be loaded.            *)
(***************************************************************************)
Applicable(c, op) ==
  /\ op.type # "create" => /\ getEntity(c, op.addr) # Absent
                           /\ entityID(c, op.addr) # Absent
  /\ Loadable(c, Touched(c, op))

(***************************************************************************)
(* Commit: flush the entities and the bitmaps, finalise the trie, and      *)
(* write everything in a single batch, the head pointer included.          *)
(***************************************************************************)
flushEntities(c) ==
  [a \in Addr |-> IF c.dirtyEntities[a] # Absent THEN c.dirtyEntities[a]
                                                 ELSE c.state.code[a]]

flushBitmaps(c, annot) ==
  [p \in Pair |-> IF c.dirtyBitmaps[p] # Absent THEN c.dirtyBitmaps[p] ELSE annot[p]]

\* stateDB.Commit deletes empty accounts: no nonce, no code (EIP-161).
Finalise(t) ==
  IF t.nonce = 0 THEN [EmptyTrie EXCEPT !.code = t.code] ELSE t

newRoot(c) ==
  Finalise([c.state EXCEPT !.code = flushEntities(c),
                           !.annot = flushBitmaps(c, c.state.annot)])

dirtyPairs(c) == {p \in Pair : c.dirtyBitmaps[p] # Absent}

\* Mutant: the head keeps the root the block was opened at.
committedHead_StaleRoot(c) == [number |-> c.number, hash |-> c.hash, root |-> c.state]

committedHead(c) == [number |-> c.number, hash |-> c.hash, root |-> newRoot(c)]

Commit(c) ==
  /\ arkiv_annot' = flushBitmaps(c, arkiv_annot)
  /\ arkiv_bm' = arkiv_bm \cup {c.dirtyBitmaps[p] : p \in dirtyPairs(c)}
  /\ arkiv_pairs' = arkiv_pairs \cup dirtyPairs(c)
  /\ arkiv_id' = [i \in ID |-> StagingGet(c.id, arkiv_id, i)]
  /\ arkiv_addr' = [a \in Addr |-> StagingGet(c.addr, arkiv_addr, a)]
  /\ arkiv_root' = [arkiv_root EXCEPT ![c.hash] = newRoot(c)]
  /\ arkiv_parent' = [arkiv_parent EXCEPT ![c.hash] = c.parent]
  /\ arkiv_blknum' = [arkiv_blknum EXCEPT ![c.number] = c.hash]
  /\ arkiv_head' = committedHead(c)
  /\ cs' = Absent

Discard == cs' = Absent /\ UNCHANGED dbVars

ASSUME HashAssumption ==
  /\ BaseHash \notin Hash /\ ZeroHash \notin Hash
  /\ Absent \notin AnyHash /\ Absent \notin HeadRec /\ Absent \notin CacheStoreRec
=============================================================================
