# Verification of the Arkiv storage service

TLA+ specifications of `arkiv-storage-service`: the daemon that receives blocks
of entity operations from a Reth ExEx, keeps the entities in a trie and an
inverted bitmap index in PebbleDB, and answers queries at the head and at any
earlier block.

- `PROJECT.json` maps every definition to the source lines it models and lists
  runs, mutants, findings, hazards and theorems.
- `tlc -workers 2 -config MCReorg.cfg MCArkivStore` checks a run,
  `tlapm StoreProofs.tla` checks the proofs of a module.

## 1. The system

| Part | State | Operations | Talks to |
|---|---|---|---|
| Chain ingest server (`chain/`) | none | `commitChain`, `revert`, `reorg` | calls the store; the only client is the ExEx |
| Store (`store/store.go`, `revert.go`) | head number, hash and root in memory; the database | `New`, `ProcessBlock`, `RevertBlock(s)`, `Reorg` | one `CacheStore` per block |
| CacheStore (`store/staging.go`, `ops.go`, `bitmap.go`, `system.go`) | the trie of the block, staged keys, dirty entities, dirty bitmaps | the six operations, `Commit`, `Discard` | the database, in one batch |
| Database (`store/keys.go`) | `arkiv_annot`, `arkiv_bm`, `arkiv_pairs`, `arkiv_id`, `arkiv_addr`, `arkiv_root`, `arkiv_parent`, `arkiv_blknum`, `arkiv_head`, trie nodes | atomic batches, reads, scans | |
| Read path (`store/query.go`) | none | lookups by pair, ID and address at a block; range and glob scans at the head | the head under a lock, the database without |
| Query language (`query/language.go`, `normalize.go`) | none | parse, push NOT down, disjunctive normal form | |
| Query evaluation (`query/evaluate.go`) | none | combine bitmaps | the read path |
| Query server (`query/server.go`) | none | `query` with pagination, `getEntityByAddress`, `getEntityCount` | evaluation, then ID by ID |
| Daemon, version, wire types | configuration | start two HTTP servers, JSON | |

What is hard about it:

- **Two kinds of state.** The trie is versioned by its root and reverts by
  itself. The bitmap pointers and the two ID maps are mutable and are not: a
  revert has to bring them back into line by scanning what it can find.
- **IDs are reused.** The counter is in the trie, so after a revert the new
  branch issues the IDs of the old one.
- **Several batches per request.** A block is one batch; a request is many. A
  crash or a failing block can stop in between.
- **Caches inside a block.** Operations of one block see each other through a
  staging database, a cache of entities and a cache of bitmaps.
- **Readers without the lock.** Scans, ID lookups and historical reads run
  while a reorg is between batches.

Per part, what makes it correct: the *write path* must leave the index exactly
equal to what the entities say (`IndexExact`); *blocks and reverts* must leave
the store on the canonical chain and nothing else (`HeadIsTip`,
`BlockIndexIsChain`, `AnnotMirrorsTrie`, `IDMapsAgree`); *reads* must return the
contract's entities at each block and resolve IDs to the right entity
(`HistoryFaithful`, `ResolveSound`); *ingest* must show whole blocks only
(`ImplementsIndex`, `ImplementsVisible`), end (`RequestEnds`) and survive a
repetition (`RepetitionHarmless`, `RevertHeals`); *normalisation* must keep the
meaning of a query (`NormalizeSound`, `NormalizeComplete`, `DoubleNegation`);
*evaluation* must agree with the entities (`TermExact`, `QueryExact`), and so must
each *scan* it rests on (`StringScanExact`, `NumericScanExact`, `GlobExact`); *pages*
must cover a result once, beside any writer, and end (`SessionExact`,
`NewestFirst`, `CursorIsLastItem`, `SessionEnds`). The hazards in `PROJECT.json`
give the lines.

## 2. The modules

| Module | Models |
|---|---|
| `Entity` | entities, annotation pairs, bitmaps, the trie with its system account |
| `CacheStore` | the database, one variable per key prefix; the block in progress; the six handlers, `Commit`, `Discard` |
| `ArkivStore` | head, requests, blocks, reverts, reorgs, failures, restarts; the contract and the ExEx as environment |
| `EntityIndex` | abstract: a stack of whole versions of the entity map, with a draft on top |
| `StoreReads` | lookups at a block, the properties, the refinements of `EntityIndex` and `IndexedChain` |
| `IndexedChain` | abstract: the versions, the ID map and the write lock that a reader can see |
| `Delivery` | the head block delivered again, one operation per step; `arkiv_getEntityCount` |
| `AnnotValues` | byte strings and their order, numbers as bytes, prefixes, globs |
| `AnnotScans` | the range, prefix and glob scans of the latest bitmap pointers |
| `QueryTerms` | the terms of a query, and what a term means for an entity |
| `QueryLanguage` | expressions of terms, negation, the normal form, and what a query means |
| `QueryNormalize` | a query read token by token, and the properties of its normal form |
| `TermEvaluate` | one term on the store: a scan or lookups, and NOT |
| `QueryEvaluate` | conjunctions and disjunctions of terms |
| `QueryServer` | `arkiv_query` step by step beside the writers of `IndexedChain`; pages |
| `MCArkivStore`, `MCDelivery`, `MCQueryNormalize`, `MCQueryEvaluate`, `MCQueryServer` | instances for TLC |
| `StoreProofs` | type correctness; the inductive invariant of the chain, and three safety theorems |
| `HistoryProofs` | every block is read back as the contract had it; refinement of `EntityIndex` |
| `IDProofs`, `IndexProofs` | the ID maps; the bitmaps and the resolution of IDs |
| `VisibleProofs` | refinement of `IndexedChain` |
| `DeliveryProofs` | a repeated block changes no entity, and a revert heals the index |
| `ScanProofs` | byte order, prefix successors, globs and numbers; the scans and the terms are exact |
| `SessionProofs` | the page loop; the answer of a session |

By `EXTENDS`: `Entity` <- `CacheStore` <- `ArkivStore` <- `StoreReads` <-
`StoreProofs` <- `HistoryProofs` <- `IDProofs` <- `IndexProofs`,
`VisibleProofs`; `StoreReads` <- `Delivery`; `Delivery` and `IndexProofs` <-
`DeliveryProofs`; `StoreReads` and `AnnotValues` <- `AnnotScans`; `AnnotValues` <- `QueryTerms` <-
`QueryLanguage` <- `QueryNormalize`; `AnnotScans` and `QueryTerms` <-
`TermEvaluate`; `TermEvaluate` and `QueryLanguage` <- `QueryEvaluate`;
`TermEvaluate` and `IndexProofs` <- `ScanProofs`;
`IndexedChain` <- `QueryServer` <- `SessionProofs`. `StoreReads` instantiates `EntityIndex` and `IndexedChain`.

The query server beside the whole store would be far out of TLC's reach. It runs
beside `IndexedChain` instead, and the store implements `IndexedChain`
(run `requests`, theorem `VisibleRefinement`): what a reader can observe of any
store, a session of `QueryServer` meets.

### State

`dbVars` holds one variable per key prefix. `arkiv_annot`, `arkiv_id`,
`arkiv_addr`, `arkiv_root`, `arkiv_parent` and `arkiv_blknum` are functions with
`Absent` for a missing key; `arkiv_bm` and `arkiv_pairs` are sets of keys. `head`
is the three head fields of `Store`; `cs` the `CacheStore` of the block in
progress; `call` the request being served. `canon`, `tip` and `pending` are the
environment's: the canonical chain, with the entities the contract had after
every block. The contract's effect is stated on its own (`ContractEntity`), and
the store never reads it: the properties compare the two.

Hashes are the values they are hashes of: a bitmap hash is the bitmap, a state
root is the state. This takes keccak256 to be injective. It does not assume that
a value can be found: reading a bitmap requires its blob in `arkiv_bm`. Trie
nodes are never deleted (HashScheme), so an old root is always readable.

An entity's payload, content type and attributes are one model value of
`Content`; `ContentPairs` gives the pairs `applyAttributes` and `$contentType`
index it under. `$contentType` is a built-in pair in the code; it sits with the
content here because the content determines it. Creator, transaction index and
operation index are one `Sender`.

### Actions

| Action | Code |
|---|---|
| `CommitChain(k)` | `handler.CommitChain` accepts k blocks |
| `BeginBlock(h)` | `processBlock` up to `initSystemAccount` |
| `Create` ... `Expire` | one turn of the operation loop: `applyOp`, the whole handler |
| `CommitBlock` | `Commit` (flush entities, flush bitmaps, trie, block index, head, one batch) and the three head assignments |
| `OpFails`, `IOFails` | an error return: `Discard`, and the request ends |
| `Revert(oldest)` | `RevertBlocks` with the blocks from the tip down to `oldest` |
| `RevertBlock` | `RevertBlock` of the tip |
| `Reorg(oldest, k)` | the revert batch of `Reorg`; its k blocks follow as `BeginBlock` ... `CommitBlock` |
| `Restart` | the process dies, `New` reopens the database |

A whole batch is one step, because PebbleDB applies a batch or nothing. The head
fields in memory change in the same step: nothing between the two can fail, readers of
the fields wait for the lock, and a crash in between loses only memory, which is
`CommitBlock` followed by `Restart`. The lock is no variable: the code defers the
unlock, so it is held exactly as long as the call runs, and `WriteLock` is derived from
`call` and `cs`. What `RequestEnds` shows is that the call ends. A block's
operations are separate steps, so a crash or a failure can come between any two.
`revertBlock` in the code repeats `revertToAncestor` for a list of one block, and
is modelled by it. `Reorg` with an empty list on either side is `CommitChain` or
`Revert`.

#### Queries

`QueryLanguage` follows the Go types: an expression is a sequence of
conjunctions, a conjunction a sequence of operands, an operand a term or an
expression in parentheses. The `invert` methods are kept as they are, one level at
a time; slices of conjunctions and terms become sets, since their order and
their repetition do not change a union or an intersection. `Means` is the
reference: the query as written, evaluated on one entity.

`AnnotValues` keeps the encoding: a number is `NumLen` big-endian bytes, strings
are ordered as Go and PebbleDB order bytes, and the wire values are trimmed or
truncated as `applyAttributes` does. `Matches` is the reference of `globMatch`:
the string can be cut into one piece per byte of the pattern.

| Action of `QueryServer` | Code |
|---|---|
| `Ask` | the request reaches `handler.Query` |
| `ReadHeadNumber` | `HeadNumber`, under the read lock |
| `ReadBlockHash`, `ReadTerm` | `openStateAt` (hash; root) and one `ReadAnnotBitmap`; at the head one step under the read lock |
| `ScanTerm` | a scan: the latest pointers, no lock |
| `ResolveID` | `IDToAddress`, no lock |
| `FetchEntity` | `fetchEntityData`, again through `openStateAt` |
| `FollowCursor`, `Finish` | the client asks for the next page, or has its answer |
| `Write`, `Restart` | a step of `IndexedChain`; the process dies |

A scan is one step: the PebbleDB iterator is a snapshot, and the bitmaps it
points to are immutable. The same holds for a state that has been opened: its root
is immutable. A query is a conjunction of terms here; a disjunction reads
more bitmaps in the same way. A term is one read; in the code IN opens the state once
per literal, and NOT once more for `$all` (`TermEvaluate` has these). As with two terms,
a write between two such reads can only be seen when the version the session reads
changes, and then `SessionExact` promises nothing.

`Delivery` records the operations of the block in progress and lets the head
block be processed once more, as a client does that lost the answer. `Redeliver`
opens the block on top of itself (`processBlock` compares neither its number nor
its parent with the head), `Reapply` applies the next operation, `Recommit` commits.
`Abandon` ends it earlier: an operation is rejected, the database fails, the process
dies. The write lock is held throughout, so no other request comes in between.

Environment assumptions. They are the ExEx's and the contract's side of the
interface, and no code in the repository enforces them: a request extends or
reverts the chain the store is on; a key is minted once per chain; only live
entities are changed; hashes are unique on a branch, but a block that was
reverted can come back with the same hash; requests are sent one at a time
(`Delivery` weakens this for the head block);
user attributes do not use the names of built-in annotations
(`ContentAssumption`); and no attribute name holds a NUL byte, which separates name and
value in the key (`architecture.md:680` leaves that to the application), so that a pair
is its key.

## 3. Runs

| Run | Checks | Result |
|---|---|---|
| `forward` | `TypeOK`, `HistoryFaithful`, `IndexExact` | holds |
| `reorg` | `HeadIsTip`, `BlockIndexIsChain`, `AnnotMirrorsTrie`, `HistoryFaithful`, `IndexExact`, `ResolveSound`, `IDMapsAgree`, `ImplementsIndex` | holds |
| `requests` | `ImplementsVisible`, `RequestEnds` | holds |
| `delivery` | `RepetitionHarmless`, `RevertHeals` | holds |
| `normalize` | `NormalizeSound`, `NormalizeComplete`, `DoubleNegation` | holds |
| `evaluate` | `StringScanExact`, `NumericScanExact`, `GlobExact`, `TermExact`, `QueryExact` | holds |
| `pages` | `SessionExact`, `NewestFirst`, `CursorIsLastItem` | holds |
| `session_ends` | `SessionEnds` | holds |
| `live_resolvable` | `LiveResolvable` | violated: finding 1 |
| `commitchain_atomic` | `CommitChainAllOrNothing` | violated: finding 2 |
| `historical_scan` | `HistoricalScanExact` | violated: finding 3 |
| `reorg_hidden` | `ReorgHidden` | violated: finding 4 |

**`forward`** is wide inside a block: two addresses, two owners, two contents
that share a pair and differ in another, two expirations, two blocks, any number
of operations per block. It reaches an update that keeps, drops and adds pairs,
operations on an entity created earlier in the same block, delete after update,
and a bitmap that two entities share.

**`reorg`** is long: two addresses, three hashes, five committed blocks over a
run, requests of up to two blocks, reverts of any depth, one owner and one
content. It reaches a second branch that reuses IDs of the first for another
address, a revert to the base block, a crash in every phase of a reorg, and a
reverted block that comes back. `BaseNumber = 1` tells the first block from block
number 0, which `openStateAt` reads as the head.

**`requests`** has the entities of `reorg` and three committed blocks: enough for a
request of two blocks that fails in either, for a reorg of two blocks, and for a
block that takes an ID a revert gave back.

**`delivery`** has two entities, blocks of up to two operations and three
committed blocks. `MaxId = 4` leaves room for two creates to be repeated.
Repetitions reach a block that is rejected as a whole (its update is of an
entity it then deleted), a create that gets a second ID, an extend that
changes nothing, and a failure or crash after any of the operations; and an entity with
two IDs in the repeated block while the block below it has another with one.

**`normalize`** reads every query with up to three terms and two parentheses, each
negated or not, over seven terms: both cases of an address, the four comparisons
and a glob. Entities have no value, one value on each side of the literal, or two
values of the compared attribute.

**`evaluate`** has bytes 0 to 3 and numbers of two bytes. Two blocks of operations
over two entities, with reverts and restarts, make the stores. The values of the
entities include 0, the largest number, one longer than a number, one with
trailing nulls and the empty string; one of the two contents lacks an attribute. Scans and terms are checked in every state,
inside a block too, since they take no lock. The scans have bounds and prefixes whose
last byte carries (`ScanBounds`), patterns that mix stars and question marks
(`ScanPatterns`) and numbers at both ends and on both sides of a carry
(`ScanNumbers`), over two string attributes, a number attribute and
`$createdAtBlock` (`ScanKeys`). The terms (`ShortTerms`) are the four comparisons with the ends of the
number range and their neighbours, and with strings that are equal to a value or a
prefix of one; the patterns, negated or not; and lookups of strings, the
empty one among them, of an owner and of two numbers at once, at every readable block. `TermAlwaysExact` proves the same
for all literals, so the run keeps to these. The queries (`SmallQueries`) nest NOT, AND
and OR around lookups and comparisons.

**`pages`** has three entities, pages of two results (the limit cuts a request for
three) and batches of up to three, so a batch is cut to the rest of a page, a batch
can skip IDs and be followed by another, and a result takes two pages. Entities have
two values and change them between the bitmap and the fetch; the constraint
`OneOther` bounds how many have the second one. Two blocks, two block hashes, and
reorgs bring the same number back with another hash or the same one.
**`session_ends`** has two entities and pages of one.

Bounds: `MaxNumber` (block numbers), `MaxSealed` (blocks committed in a run),
`MaxId`, `MaxBatch` (blocks in a request). They stop new requests and creates, and
nothing else. `MaxId = 2` with two addresses still lets an ID be issued to
either address, since reverts give IDs back.

Symmetry permutes addresses, owners, expirations and hashes, which no
definition orders: the store never compares an expiration with a block number. The
`reorg` run also has the property `ImplementsIndex`. It is a safety formula,
without fairness, for which symmetry is sound: a permutation of addresses or
hashes permutes the abstract state with it.

The runs `delivery`, `evaluate` and `pages` permute addresses (keys) and
hashes (names). `CHOOSE` in `QueryServer` and `IndexedChain` is only over numbers and
over versions with a given unique name, so it does not break the symmetry. The
runs with a liveness property use none.

Deadlock is checked in every run but `normalize`, where a query simply ends. In the
others `Restart` is always possible, so the absence of deadlock says nothing about
requests; see section 4.

### Findings

1. **A live entity without its ID entries.** `repopulateIDs` only deletes. Create
   A in block 1, delete it in block 2, add block 3. Reverting block 3 deletes
   A's entries, because A's slot is zero at block 2; reverting block 2 makes A
   live and does not write them back. A is in `$all`, queries skip it, and each
   later block that changes A fails. The documentation says the entries are
   repopulated from the trie.
2. **`commitChain` is not all or nothing** when a later block fails.
3. **Historical comparisons and globs read the head.** The terms drop the block
   number. The documentation describes a scan of `arkiv_pairs` with the slots of
   the block, which the code does not have.
4. **A reorg is visible.** A query at a block number takes no lock, and fails
   between the batches of a reorg.

`ResolveSound` is the counterpart of 1 that holds: an entry that is found is
never the wrong one. `SessionExact` is the counterpart of 4: an answer can only be
wrong if the block that was asked for, or the head, changed meanwhile.

Other places where code and comments differ, or which a caller may not expect.
They have no run of their own; the properties that hold say what is left.

- The first revert of finding 1 also removes the tombstone a query at block 1
  needs, which is still canonical: A is in the bitmap there and is skipped.
  `SessionExact` promises the entities whose ID resolves.
- A crash in a reorg leaves the revert applied, since the revert and each new
  block are batches of their own; `HeadIsTip` and `BlockIndexIsChain` hold there.
- A revert deletes root and parent entries; `keys.go:10` says they never are.
- A string of 8 bytes is read as a number by the numeric scan: nothing in the key
  tells the types apart. `TermExact` is about variables whose values have the type of
  the literal in all contents (`OneType`).
- The scans skip the empty string: `name ~ "*"` misses it, `NOT GLOB "*"` returns
  it, and `name = ""` finds it (`NonEmpty` in `TermExact`).
- The entity is fetched from a later head than its bitmap, so an answer can hold
  an entity that no longer matches.
- NOT over a comparison is the opposite comparison: an entity without the attribute
  is in neither result, and one with values on both sides is in both
  (`NormalizeSound` and `NormalizeComplete` state what holds).
- A page size of zero returns no cursor, so a listing ends at once.
- `$owner = 5` parses, and `Normalize` dereferences a missing string; address variables
  have strings only in `NormalizeTerm`.
- A repeated create gives the entity a second ID: `arkiv_query` returns it twice and
  `arkiv_getEntityCount` counts it twice until the block is reverted.
- `server.go:39-41` and `architecture.md:925` still say that `atBlock` reads the
  head; lookups do not.

## 4. Fairness and liveness

`Spec` of the store has no fairness: nothing obliges a client to send requests.
`FairSpec` adds weak fairness of `BeginBlock` and `CommitBlock`: the handler's
goroutine keeps running, and a block has finitely many operations. There is none for
failures and restarts, which may or may not come. Under it every request ends and
frees the lock (`RequestEnds`).

`QueryServer!FairSpec` assumes that much of a writer (weak fairness of
`WriterEnds`), weak fairness of the steps of a session that take no lock, and
strong fairness of the three that do. Strong fairness is what `sync.RWMutex` gives:
a writer that waits holds new readers off, but a reader that waits is let in
when the writer that holds the lock unlocks, before the next writer. Nothing
obliges a writer to come, and restarts are not needed for the session to end. The
client follows its cursors. Under it every session ends (`SessionEnds`): the
cursor falls strictly, although IDs are reissued and the bitmap is read anew for each
page.

## 5. Proofs

`TypeCorrect` (`StoreProofs`) proves `Spec => []TypeOK`. `TypeOK` is not
inductive: a commit writes `arkiv_blknum[tip + 1]`, which is in range only
because the request was admitted (`Fits`), and a revert reads `canon[oldest]`,
which is a block only because the chain has no holes. `TypeInv` adds
`ChainShape`, which says both. One lemma per handler says it maps a
`CacheStoreRec` to a `CacheStoreRec`; one lemma each covers `Commit`, a revert
and the contract.

`ChainInvariant` (`StoreProofs`) proves `Spec => []ChainInv`, and from it
`HeadIsAlwaysTip`, `BlockIndexAlwaysChain` and `AnnotAlwaysMirrorsTrie`. The
three properties need one another: a revert finds its ancestor through
`arkiv_parent`, so the head is right because the index is; the pointers mirror
the head's trie, so the head must be the tip. Beyond them the invariant has

- `HashesUnique`: a new block overwrites nobody's entries, and a revert deletes
  only the reverted ones;
- `PairsCover`: every pair with a slot in a canonical state is in
  `arkiv_pairs`. This is why scanning `arkiv_pairs` rewrites every stale pointer;
- `BlockOnHead`: the block in progress has the head's slots and keeps the nonce
  that saves the system account from being deleted as empty. No handler touches
  either (`HandlersKeepHeader`).

`AncestorIsBelow` is where the silent fallback to the empty state is shown right:
the only canonical parent without a root entry is the base block.

### What a reader finds

`HistoryAlwaysFaithful` (`HistoryProofs`) needs the block in progress as well as
the chain. `HistoryInv` adds to `ChainInv` that every canonical root holds the
contract's entities (`ViewsMatch`) and that what the handlers see through their
caches is the contract's view inside the block (`DraftMatches`). `HandlerEntity`
says what each handler leaves as the entity of an address; `CommitEffect` and
`RevertEffect` say what the two batches leave of the chain, and the modules
above use them.

`IndexRefinement` proves `Spec => ImplementsIndex` step by step. The version
stack that the mapping finds through the block index is one version per
canonical block (`MappedState`). That needs `HeadNumber`: after everything has been
reverted the stored head still carries the number of the tip.

### IDs and bitmaps

`IDInvariant` (`IDProofs`) is about the one thing in the store that is neither
versioned nor rebuilt. `IDMapsAgree` alone is not inductive: a create writes
both maps at a reused ID, and only the history of the branch says that neither
side is taken. `IDInv` therefore has

- the slots of every canonical state: issued, minted, one per live entity
  (`SlotsIssued`, `SlotsLive`), and the same ID for an address wherever it has
  one (`SlotsStable`);
- counters and minted addresses that grow along the chain (`ChainGrows`): IDs above
  the count of the ancestor are free after a revert *because* `OrphanIDs` removes
  every entry whose slot is zero there;
- the maps, inverse, issued, and never against a slot (`MapsInverse`,
  `MapsIssued`, `MapsMatchSlots`);
- the same for the IDs staged in the block in progress (`StagedNew`, `DraftSlots`).

It gives `IDMapsAlwaysAgree`, and `SlotOfID`: a handler that finds an ID through
`entityID` works on the right slot.

`BitmapInvariant` (`IndexProofs`) adds that bitmaps are exact at every canonical
state (`BitmapsExact`), that what a handler *loads* for a pair is exact in the
block in progress, dirty or not (`DraftExact`), and that blobs are kept
(`BlobsKept`), so that a pointer a revert brings back can be read. `MutateLoad`
is the fact about `mutateBitmaps` every handler's proof uses. It gives
`IndexAlwaysExact` and, with `IDInv`, `ResolveAlwaysSound`.

### Scans and terms

`ScanProofs` proves the three scan properties and `TermExact`, for every byte range,
every width of numbers and all bounds, patterns and literals. They have no invariant of
their own: `BitmapInv` says that the pointers mirror the trie of the head and that its
bitmaps are exact (`PointerExact`, `UnitedExact`), so what is left is which pointers a
scan meets, and which scan a term makes.

- *Strings.* `Less` is a strict total order (`LessIrreflexive`, `LessTransitive`,
  `LessTotal`), hence nothing in the range comes after the value that ends the loop
  (`ScanBetween`). The successor of a prefix is above exactly the strings that are
  below it or start with it (`SuccessorExact`), and a prefix of 0xFF only needs none
  (`NoSuccessorExact`).
- *Numbers.* `numericVal` is strictly monotone (`NumberOrder`), since dividing by
  falling powers of the base gives the number's leading bytes (`QuotientStep`), and
  each string of `NumLen` bytes is a number's (`NumberOfBytes`), so that the number
  the loop decodes is the one that was encoded (`UintExact`).
- *Globs.* The recursion of `globMatch` is solved by the positions from which the rest
  of the string can be cut into pieces for the rest of the pattern (`CutsSolve`), and
  by nothing else (`OneSolution`): `GlobMatches`. For a plain prefix and a star
  that is `HasPrefix` (`PrefixGlobMatches`), so both ways of `GlobExpr.Evaluate`
  agree.
- *Values.* The index has the bytes of an entity's annotations and no others
  (`AnnotationBytes`). A number on the wire counts modulo the width of an index value:
  cutting it to its low bytes is that modulus, however long it is (`LowBytes`,
  `WireNumber`). Literals of one type are told apart by their bytes (`LiteralBytes`).
- *Terms.* So a term asks for a set of byte strings (`Hits`), and its scan is the one
  for that set: `StringTerm`, and `NumberTerm`, where `<` and `>` move a bound by one
  and return nothing at 0 and at the largest number. A lookup reads the bitmaps
  of the pairs with the bytes of its literals (`LookupFinds`), at any readable block;
  NOT takes the rest of the entities of that block. `TermAlwaysExact` puts them
  together.

Where this needs induction, over the bytes of a string, a pattern or a number, the
proof takes the least counterexample instead (`LeastNumber`, from the library's
well-founded induction), which the provers can instantiate.

### Repeated blocks

`DeliverySpec` is `Spec` with repetitions, and most of what is proved above does not
survive them: a repeated create leaves a second ID in the slots, the maps and the
bitmaps. `DeliveryInvariant` (`DeliveryProofs`) finds what does. `DeliveryInv` keeps
`HistoryInv` whole and replaces `IDInv` and `BitmapInv` by

- `SentOK`: the operations a client sent determine the contract's entities. An
  operation writes some aspects of an entity (its origin, content, expiration,
  owner) as a whole and leaves the others alone; in the list that led to a set of
  entities, the *last* writer of each aspect can be read off them, and so can the
  last operation to create or remove an address (`LedTo`);
- `ReplayOK`: after the first *k* operations have been applied again, everything
  that no operation after *k* writes is as the tip has it (`Replayed`). At *k = 0*
  this holds because the block starts on the tip, at the end it says that every
  entity is as before. In between an entity can be gone or at an older value, which is
  why the statement is about the rest of the list. The two facts replace the
  induction over the list by one step per operation (`LedToStep`, `ReplayStep`);
- `Counted`: a counter covers every slot and map entry, repeated or not;
- `CleanSlots`, `CleanBitmaps`, `CleanMaps`: on the versions below every
  repeated block slots and bitmaps are exact, and the maps never contradict them.
  The hard step is `FreshKeepsClean`: the IDs a repetition stages are above the
  head's counter and belong to addresses that those versions had not minted
  (`FreshIDs`), so overwriting `arkiv_addr` hurts none of them;
- when no block is repeated, `BitmapInv`. `RevertClean` proves it anew after a revert that
  removes the last repeated block, from the clean versions alone: what `OrphanIDs`
  leaves in the maps is exactly what the ancestor's slots allow.

It gives `RepetitionAlwaysHarmless` and `RevertAlwaysHeals`: below the repeated
blocks the index is exact pair by pair, with one ID per live entity (`CleanExact`), and
the ID maps do not contradict it (`CleanResolves`). And it gives, through a bijection
between live IDs and live entities, that `arkiv_getEntityCount` counts right once
healed (`CountIsLive`).

### Readers beside writers

`VisibleRefinement` (`VisibleProofs`) proves `Spec => ImplementsVisible`. A commit is
the only hard step: the IDs staged in the block must be births `IndexedChain`
allows (`DraftBirths`), and the state Commit computes the version it makes of
them (`DraftVersion`). `DraftMinted` is the strengthening: a block has given
*every* ID up to its count to an address and minted no others. The lock is followed
through every end of a request: failure, restart, last block.

`SessionInvariant` (`SessionProofs`) is the invariant of the page loop and says nothing
of the chain, so it holds beside any writer: what is left of the iterator and the
batch is below every item so far and below the cursor (`Falling`, `Ahead`); page
and batch together fit the page; the ID being looked at is the largest of the
batch (`LastOfBatch`). The last conjunct is why the cursor, taken from the last ID
*looked at*, is the last item: a page that is full ended on an item.
`NewestBatch` proves what a batch cut from the reverse iterator is. From it follow
`AlwaysNewestFirst` and `CursorAlwaysLastItem`.

`ExactInvariant` is the invariant of the answer. `ChainOK` is
what versions and ID map owe each other (unique names, growing counts, and a live ID
resolves to its version's key or not at all). As long as the version the session
began on is still the one a read finds (`Observed`), each wanted ID is answered,
ahead of the session, or does not resolve (`Covers`, `Settled`), and while terms
are read the rest of the terms cuts what is left to the wanted IDs
(`Evaluating`). The step that needs an argument is a writer's: an ID of a live
version that does not resolve never resolves again while that version is read,
since blocks only give IDs above the count and truncations only delete. It gives
`SessionsAlwaysExact`, the whole of `arkiv_query`'s promise.

With `VisibleRefinement` the three results hold of sessions beside the real
store: it is a behaviour of `IndexedChain`.

### Assumptions

They are the `ASSUME`s of `Entity`, `CacheStore`, `ArkivStore`, `AnnotValues`,
`AnnotScans`, `QueryTerms`, `TermEvaluate` and `QueryServer`, and TLC evaluates them in
the runs of these modules: `Absent` is no value, among
them no map of entities (it stands for a nil pointer); the bounds are naturals;
the base and zero hashes are no block's; user attributes avoid built-in names;
`Id` is a finite set of naturals (64 bits), block numbers are naturals, `Nothing`
is no ID and no entity; numbers have at least one byte, the wildcards are two bytes,
bounds, patterns and the values of scanned variables are byte strings and numeric
bounds fit their width; wire values are byte strings, block numbers and expirations
fit the width of numbers, and a content has the pairs of its attributes
(`EncodingAssumption`); terms are typed as the parser builds them, and the literals
and indexed values of an address variable are in lower case, as `Normalize` and the hex
encoding leave them (`TermAssumption`); and a query is a non-empty sequence of terms, as the
grammar makes it. The inductive invariants `IDInv`, `BitmapInv`, `VisibleInv`,
`DeliveryInv`, `SafeSession` and `ExactInv` were first checked by TLC on the
instances of `reorg`, `delivery` and `pages`.

### Only model-checked

- Liveness, out of the prover's reach: `RequestEnds`, `SessionEnds`.
- `NormalizeSound`, `NormalizeComplete`, `DoubleNegation` and `QueryExact`: what
  `Normalize`, `Means` and `TermsOf` compute is defined by recursion over expressions
  (`RECURSIVE` operators, out of reach). The terms a normal form is made of are proved
  exact one by one (`TermAlwaysExact`); that the normal form means what the query
  means is checked.
- The four violations.

## 6. Not modelled

- The lexer and the parser: `participle` builds them from the grammar.
- The JSON codecs (`types.go`, `MarshalJSON`), the projection of an entity to the
  fields of `IncludeData` with its sorted attributes (`server.go:253-350`), hex and
  RLP encoding, logging, version headers: formatting.
- HTTP, configuration, flags and starting the two servers (`main.go`): I/O without
  state of its own.
- `arkiv_getEntityByAddress`: one read of `openStateAt`, the same as
  `FetchEntity`. It returns an error for a missing entity, where its comment says
  nil.
- Repetition of a request of several blocks, or of one that is not the head:
  the store would leave the chain, and its invariants are about the chain. The same
  holds for `RevertBlocks` with a list that is not the top of the chain.
- Attributes of type `entityKey`: strings once they are indexed.
- Disjunctions in `QueryServer`, and queries of several clients at once: sessions
  share no state.

## 7. What could come next

Requests of several blocks that are repeated, with a weaker chain than `canon`;
disjunctions in a session.
