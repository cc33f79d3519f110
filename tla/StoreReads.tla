----------------------------- MODULE StoreReads -----------------------------
(***************************************************************************)
(* The read path of the Store (store/query.go) and the correctness of what *)
(* it answers, for the head and for every canonical block.                 *)
(***************************************************************************)
EXTENDS ArkivStore

(***************************************************************************)
(* Reads.  Block number 0 means the head; Absent is an error return.       *)
(***************************************************************************)
openStateAt(n) ==
  IF n = 0 THEN head.root
  ELSE IF arkiv_blknum[n] = Absent THEN Absent ELSE arkiv_root[arkiv_blknum[n]]

\* Mutant: the latest pointer instead of the slot in the block's trie.
ReadAnnotBitmap_Latest(n, p) == IF arkiv_annot[p] \in arkiv_bm THEN arkiv_annot[p] ELSE {}

\* A missing blob reads as an empty bitmap.
ReadAnnotBitmap(n, p) ==
  LET slot == openStateAt(n).annot[p]
  IN IF slot \in arkiv_bm THEN slot ELSE {}

AllEntities(n) == ReadAnnotBitmap(n, <<"$all", "true">>)

GetEntity(n, a) == openStateAt(n).code[a]

IDToAddress(i) == arkiv_id[i]

\* The numbers a query may be made at.
Readable == {0} \cup Canonical

\* The contract's entities at a readable number.
Entities(n) == canon[IF n = 0 THEN tip ELSE n].view.ents

(***************************************************************************)
(* Types.                                                                  *)
(***************************************************************************)
DbTypeOK ==
  /\ arkiv_annot \in [Pair -> {Absent} \cup Bitmap]
  /\ arkiv_bm \subseteq Bitmap
  /\ arkiv_pairs \subseteq Pair
  /\ arkiv_id \in [ID -> {Absent} \cup Addr]
  /\ arkiv_addr \in [Addr -> {Absent} \cup ID]
  /\ arkiv_root \in [AnyHash -> {Absent} \cup Trie]
  /\ arkiv_parent \in [AnyHash -> {Absent} \cup AnyHash]
  /\ arkiv_blknum \in [Number -> {Absent} \cup Hash]
  /\ arkiv_head \in {Absent} \cup HeadRec

EnvTypeOK ==
  /\ canon \in [Number -> {Absent} \cup Block]
  /\ tip \in Number
  /\ pending \in {Absent} \cup ContractView
  /\ sealed \in 0..MaxSealed

\* Every variable keeps its type, and a block is open only inside a request.
TypeOK ==
  /\ DbTypeOK
  /\ EnvTypeOK
  /\ cs \in {Absent} \cup CacheStoreRec
  /\ head \in HeadRec
  /\ call \in {Absent} \cup Call
  /\ (cs = Absent) = (pending = Absent)
  /\ call = Absent => cs = Absent

(***************************************************************************)
(* Safety.                                                                 *)
(***************************************************************************)
\* processBlock, revertBlock and revertToAncestor: whatever is committed,
\* reverted or lost to a crash, the head in memory is the tip of the chain,
\* and reopening the database would restore the same head.
HeadIsTip ==
  /\ head = ReopenedHead
  /\ head.root = RootAt(tip)
  /\ tip > BaseNumber => head.number = tip /\ head.hash = canon[tip].hash

\* Commit steps 5 and 6 and the deletes of a revert: the block index holds
\* exactly the canonical chain, linked block by block, and no trace of a
\* reverted block.
BlockIndexIsChain ==
  /\ \A n \in Number :
       arkiv_blknum[n] = IF n \in Canonical THEN canon[n].hash ELSE Absent
  /\ \A n \in Canonical : /\ arkiv_root[canon[n].hash] # Absent
                          /\ arkiv_parent[canon[n].hash] = canon[n - 1].hash
  /\ \A h \in AnyHash \ {canon[n].hash : n \in Canonical} :
       arkiv_root[h] = Absent /\ arkiv_parent[h] = Absent

\* flushBitmaps and repopulateAnnot: the mutable pointer of a pair, which the
\* write path and the range scans use, is the one the trie at the head commits
\* to, after every block, revert and restart.
AnnotMirrorsTrie == \A p \in Pair : arkiv_annot[p] = head.root.annot[p]

\* The write path, flushEntities and openStateAt: at the head and at every
\* canonical block number, the store returns exactly the entities the contract
\* had after that block, whatever was reverted above or below it since.
HistoryFaithful ==
  \A n \in Readable : /\ openStateAt(n) # Absent
                      /\ \A a \in Addr : GetEntity(n, a) = Entities(n)[a]

\* At block n the bitmap of a pair holds exactly the IDs of the live entities
\* that carry the pair, and every live entity has exactly one ID.
ExactAt(n) ==
  LET t == openStateAt(n)
      E == Entities(n)
  IN /\ \A p \in Pair : ReadAnnotBitmap(n, p) =
          {i \in ID : t.ids[i] # Absent /\ p \in allAnnotations(E[t.ids[i]])}
     /\ {t.ids[i] : i \in AllEntities(n)} = {a \in Addr : E[a] # Absent}
     /\ \A i, j \in AllEntities(n) : t.ids[i] = t.ids[j] => i = j

\* The handlers' bitmap updates: the bitmaps and IDs are exact at the head and
\* at every canonical block, whatever was reverted and issued again since.
IndexExact == \A n \in Readable : ExactAt(n)

\* The ID maps give the right answer for the entities of block n, or none.
ResolvesAt(n) ==
  /\ \A i \in AllEntities(n) :
       IDToAddress(i) \in {Absent, openStateAt(n).ids[i]}
  /\ \A a \in Addr : GetEntity(n, a) # Absent /\ arkiv_addr[a] # Absent
                       => openStateAt(n).ids[arkiv_addr[a]] = a

\* repopulateIDs and processCreate: IDs are reused after a revert, yet the ID
\* maps never resolve an ID, or an address, to the wrong entity of any
\* canonical block.
ResolveSound == \A n \in Readable : ResolvesAt(n)

\* processCreate writes both ID maps, repopulateIDs deletes from both, and a
\* delete leaves both: the two stay inverse to each other, and hold only IDs
\* the counter at the head has issued.
IDMapsAgree ==
  /\ \A i \in ID, a \in Addr : arkiv_id[i] = a <=> arkiv_addr[a] = i
  /\ \A i \in ID : arkiv_id[i] # Absent => i <= head.root.count

(***************************************************************************)
(* The store implements EntityIndex.  A version is found the way a query   *)
(* finds it, through the block index; the draft is what the handlers see.  *)
(***************************************************************************)
sealedVersion(n) ==
  IF n = BaseNumber THEN NoEntities
  ELSE IF arkiv_blknum[n] = Absent THEN Absent ELSE arkiv_root[arkiv_blknum[n]].code

Index == INSTANCE EntityIndex WITH
  Key <- Addr, Value <- EntityRec, Version <- Number, Base <- BaseNumber,
  Nothing <- Absent,
  versions <- [n \in Number |-> sealedVersion(n)],
  top <- IF arkiv_head = Absent THEN BaseNumber ELSE arkiv_head.number,
  draft <- IF cs = Absent THEN Absent ELSE [a \in Addr |-> getEntity(cs, a)]

\* The whole write path: blocks, reverts, reorgs, failures and crashes show a
\* reader nothing but a stack of whole versions.
ImplementsIndex == Index!Spec

(***************************************************************************)
(* The store also implements IndexedChain, which its readers see.          *)
(***************************************************************************)
\* ProcessBlock locks the store for one block, Reorg for its whole request.
WriteLock ==
  IF call # Absent /\ call.method = "reorg" THEN "reorg"
  ELSE IF cs # Absent THEN "block" ELSE "free"

indexedVersion(n) ==
  IF n # BaseNumber /\ arkiv_blknum[n] = Absent THEN Absent
  ELSE LET t == IF n = BaseNumber THEN EmptyTrie ELSE arkiv_root[arkiv_blknum[n]]
       IN [name |-> IF n = BaseNumber THEN BaseHash ELSE arkiv_blknum[n],
           ents |-> t.code, ids |-> t.ids, count |-> t.count,
           used |-> canon[n].view.minted]

Visible == INSTANCE IndexedChain WITH
  Key <- Addr, Value <- EntityRec, Name <- Hash, BaseName <- BaseHash,
  Version <- Number, Base <- BaseNumber, Id <- ID, Nothing <- Absent,
  chain <- [n \in Number |-> indexedVersion(n)],
  top <- IF arkiv_head = Absent THEN BaseNumber ELSE arkiv_head.number,
  idmap <- arkiv_id, lock <- WriteLock

\* Commit, revertToAncestor and the locking of the three requests: a reader
\* that looks at any moment, with or without the lock, sees a state of
\* IndexedChain, and never half a block or half a revert.
ImplementsVisible == Visible!ChainSpec

\* chain/server.go and the deferred unlocks of the Store: every request ends
\* and leaves the lock free, whatever block of it fails, and after a restart.
\* This is what the readers of QueryServer assume of a writer.
RequestEnds == (call # Absent) ~> (call = Absent /\ WriteLock = "free")

(***************************************************************************)
(* What the documentation says and the code does not do.                   *)
(***************************************************************************)
\* architecture.md, Delete: after a revert brings an entity back, its ID
\* entries are repopulated from the trie.  Every entity live at the head can
\* be resolved by ID and by address.
LiveResolvable ==
  \A i \in AllEntities(0) :
    arkiv_id[i] = head.root.ids[i] /\ arkiv_addr[head.root.ids[i]] = i

\* architecture.md, arkiv_commitChain: if any block fails, no state from that
\* call is committed.
CommitChainAllOrNothing ==
  [][call # Absent /\ call.method = "commitChain" /\ IOFails
       => head.hash = call.from]_vars
=============================================================================
