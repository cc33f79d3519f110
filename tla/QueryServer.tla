---------------------------- MODULE QueryServer -----------------------------
(***************************************************************************)
(* arkiv_query (query/server.go) beside the writers of the store.  One     *)
(* client asks a query and follows the cursors until there is none.  The   *)
(* server reads step by step: the head number, every term of the query,    *)
(* then, ID by ID, the address and the entity.  Only reads of the head     *)
(* take the read lock; a read at a block number looks up the block's hash  *)
(* and then its root, and any write can come between the two.              *)
(***************************************************************************)
EXTENDS IndexedChain, Sequences, FiniteSets

CONSTANTS
  Query,       \* the queries: sequences of terms [scan, match], all of which
               \* must hold; match is the set of values a term selects
  PageSize,    \* page sizes a client asks for
  Limit,       \* queryResultCountLimit, 200 in the code
  BatchLimit   \* IDs resolved in one turn of the loop, 10 in the code

VARIABLE session  \* the query of the client, or Nothing

vars == <<chainVars, session>>

\* getResultsPerPage
ResultsPerPage(size) == IF size > Limit THEN Limit ELSE size

(***************************************************************************)
(* A session: the query and its options; pc; the terms left to read; the   *)
(* hash openStateAt has found; ids, what the iterator has left; the batch  *)
(* and the address being fetched; the items of this page and of the pages  *)
(* before; the last ID looked at.  seen belongs to the observer: the       *)
(* version the session began on, or Nothing once that is not the one a     *)
(* read would find.                                                        *)
(***************************************************************************)
NewSession(query, at, size) ==
  [query |-> query, at |-> at, size |-> ResultsPerPage(size), cursor |-> Nothing,
   pc |-> "start", todo |-> query, hash |-> Nothing, ids |-> Id, batch |-> {},
   addr |-> Nothing, last |-> Nothing, page |-> <<>>, got |-> {},
   seen |-> chain[IF at = 0 THEN top ELSE at]]

\* A client asks at the head or at a block that exists.
Ask(query, at, size) ==
  /\ session = Nothing
  /\ at \in {0} \cup Sealed
  /\ session' = NewSession(query, at, size)
  /\ UNCHANGED chainVars

At(pc) == session # Nothing /\ session.pc = pc

ReadLock == lock = "free"

\* HeadNumber, for the response, under the read lock.
ReadHeadNumber ==
  /\ At("start") /\ ReadLock
  /\ session' = [session EXCEPT !.pc = "term"]
  /\ UNCHANGED chainVars

(***************************************************************************)
(* The page: IDs are taken from the iterator in batches, newest first,     *)
(* until the page is full or the iterator empty.  A cursor is returned if  *)
(* the iterator has more.                                                  *)
(***************************************************************************)
\* Mutant: a batch is cut to the limit only.
BatchSize_Fixed(s) == BatchLimit

BatchSize(s) ==
  LET left == s.size - Len(s.page) IN IF left < BatchLimit THEN left ELSE BatchLimit

Newest(I, n) == {i \in I : Cardinality({j \in I : j > i}) < n}

NextBatch(s) ==
  IF s.ids # {} /\ Len(s.page) < s.size
  THEN LET batch == Newest(s.ids, BatchSize(s))
       IN [s EXCEPT !.pc = "resolve", !.batch = batch, !.ids = @ \ batch]
  ELSE [s EXCEPT !.pc = IF s.ids # {} /\ s.last # Nothing THEN "more" ELSE "done"]

\* The ID looked at is done with.
NextID(s) ==
  LET rest == [s EXCEPT !.batch = @ \ {s.last}, !.addr = Nothing, !.hash = Nothing]
  IN IF rest.batch # {} THEN [rest EXCEPT !.pc = "resolve"] ELSE NextBatch(rest)

(***************************************************************************)
(* openStateAt.  The head is read under the lock; a block number is        *)
(* resolved to a hash first, and the hash to a root.  A failure fails the  *)
(* query while it is evaluated, and skips the entity afterwards.           *)
(***************************************************************************)
OpenFails ==
  session' = IF session.pc = "term" THEN [session EXCEPT !.pc = "failed"] ELSE NextID(session)

ReadBlockHash ==
  /\ \/ At("term") /\ ~Head(session.todo).scan
     \/ At("fetch")
  /\ session.at # 0 /\ session.hash = Nothing
  /\ IF chain[session.at] = Nothing THEN OpenFails
     ELSE session' = [session EXCEPT !.hash = chain[session.at].name]
  /\ UNCHANGED chainVars

StateOpens == IF session.at = 0 THEN ReadLock ELSE session.hash # Nothing

\* Mutant: the head's root at any block number.
OpenedVersion_Head == chain[top]

\* The version behind the root that was found, or Nothing.
OpenedVersion ==
  IF session.at = 0 THEN chain[top]
  ELSE LET found == {n \in Sealed : chain[n].name = session.hash}
       IN IF found = {} THEN Nothing ELSE chain[CHOOSE n \in found : TRUE]

(***************************************************************************)
(* Evaluation: the bitmaps of the terms are intersected, then cut below    *)
(* the cursor.  A scan reads the latest pointers, without the lock.        *)
(***************************************************************************)
Bitmap(v, match) == {i \in Id : v.ids[i] # Nothing /\ v.ents[v.ids[i]] \in match}

\* Mutant: the cursor itself is on the next page again.
BelowCursor_Inclusive(s) ==
  IF s.cursor = Nothing THEN s.ids ELSE {i \in s.ids : i <= s.cursor}

\* Mutant: the range of the mask ends one ID too early.
BelowCursor_SkipsOne(s) ==
  IF s.cursor = Nothing THEN s.ids ELSE {i \in s.ids : i + 1 < s.cursor}

BelowCursor(s) == IF s.cursor = Nothing THEN s.ids ELSE {i \in s.ids : i < s.cursor}

TermRead(bm) ==
  LET read == [session EXCEPT !.ids = @ \cap bm, !.todo = Tail(@), !.hash = Nothing]
  IN session' = IF read.todo # <<>> THEN read
                ELSE NextBatch([read EXCEPT !.ids = BelowCursor(read)])

ReadTerm ==
  /\ At("term") /\ ~Head(session.todo).scan /\ StateOpens
  /\ IF OpenedVersion = Nothing THEN OpenFails
     ELSE TermRead(Bitmap(OpenedVersion, Head(session.todo).match))
  /\ UNCHANGED chainVars

ScanTerm ==
  /\ At("term") /\ Head(session.todo).scan
  /\ TermRead(Bitmap(chain[top], Head(session.todo).match))
  /\ UNCHANGED chainVars

(***************************************************************************)
(* IDToAddress, then fetchEntityData; what is not found is skipped.        *)
(***************************************************************************)
ResolveID ==
  /\ At("resolve")
  /\ LET i == CHOOSE i \in session.batch : \A j \in session.batch : j <= i
         looked == [session EXCEPT !.last = i]
     IN session' = IF idmap[i] = Nothing THEN NextID(looked)
                   ELSE [looked EXCEPT !.pc = "fetch", !.addr = idmap[i]]
  /\ UNCHANGED chainVars

FetchEntity ==
  /\ At("fetch") /\ StateOpens
  /\ IF OpenedVersion = Nothing THEN OpenFails
     ELSE LET e == OpenedVersion.ents[session.addr]
              item == [id |-> session.last, value |-> e]
          IN session' = NextID(IF e = Nothing THEN session
                               ELSE [session EXCEPT !.page = Append(@, item)])
  /\ UNCHANGED chainVars

(***************************************************************************)
(* The client.                                                             *)
(***************************************************************************)
Items(s) == {s.page[k] : k \in DOMAIN s.page}

FollowCursor ==
  /\ At("more")
  /\ session' = [session EXCEPT !.pc = "start", !.cursor = session.last, !.todo = session.query,
                   !.ids = Id, !.last = Nothing, !.page = <<>>, !.got = @ \cup Items(session)]
  /\ UNCHANGED chainVars

Finish ==
  /\ At("done") \/ At("failed")
  /\ session' = Nothing
  /\ UNCHANGED chainVars

(***************************************************************************)
(* The writers go on; a restart ends the session.                          *)
(***************************************************************************)
Watched ==
  IF session = Nothing THEN Nothing
  ELSE [session EXCEPT !.seen =
          IF chain'[IF session.at = 0 THEN top' ELSE session.at] = @ THEN @ ELSE Nothing]

Write == ChainNext /\ session' = Watched

Restart ==
  /\ lock' = "free" /\ session' = Nothing
  /\ UNCHANGED <<chain, top, idmap>>

Next ==
  \/ \E query \in Query, at \in {0} \cup Version, size \in PageSize : Ask(query, at, size)
  \/ ReadHeadNumber
  \/ ReadBlockHash
  \/ ReadTerm
  \/ ScanTerm
  \/ ResolveID
  \/ FetchEntity
  \/ FollowCursor
  \/ Finish
  \/ Write
  \/ Restart

ServerInit == Init /\ session = Nothing

Spec == ServerInit /\ [][Next]_vars

(***************************************************************************)
(* Fairness.  The server's goroutine keeps running and the client follows  *)
(* its cursors.  A writer ends its block, or its request, one way or the   *)
(* other, and a reader waiting for sync.RWMutex gets in before the next    *)
(* writer does: it cannot be passed by for ever.                           *)
(***************************************************************************)
WriterEnds == (Seal \/ Release) /\ session' = Watched

Fairness ==
  /\ WF_vars(WriterEnds)
  /\ WF_vars(ReadBlockHash) /\ WF_vars(ScanTerm) /\ WF_vars(ResolveID)
  /\ WF_vars(FollowCursor) /\ WF_vars(Finish)
  /\ SF_vars(ReadHeadNumber) /\ SF_vars(ReadTerm) /\ SF_vars(FetchEntity)

FairSpec == Spec /\ Fairness

(***************************************************************************)
(* Properties.                                                             *)
(***************************************************************************)
Wanted(s) == {i \in Id : \A k \in DOMAIN s.query : i \in Bitmap(s.seen, s.query[k].match)}

Answer(s) == s.got \cup Items(s)

\* handler.Query over all its pages: if the head did not change, or the block
\* asked for was not reverted, then whatever else was written between any two
\* reads, the session returned every matching entity whose ID resolves, as the
\* block has it, and nothing else.  Scans are exact at the head only.
SessionExact ==
  At("done") /\ session.seen # Nothing /\ session.size > 0
    /\ (session.at = 0 \/ \A k \in DOMAIN session.query : ~session.query[k].scan)
  => /\ \A item \in Answer(session) :
          /\ item.id \in Wanted(session)
          /\ item.value = session.seen.ents[session.seen.ids[item.id]]
     /\ \A i \in Wanted(session) :
          idmap[i] # Nothing => \E item \in Answer(session) : item.id = i

\* The cursor and the reverse iterator: over all pages, and however the store
\* changes between them, no ID comes twice and IDs only go down.
NewestFirst ==
  session # Nothing =>
    /\ \A k, m \in DOMAIN session.page : k < m => session.page[k].id > session.page[m].id
    /\ \A old \in session.got, new \in Items(session) : old.id > new.id

\* Options.Cursor and the page loop: a page never exceeds its size, and the
\* cursor is the ID of the last item on the page, although it is taken from the
\* last ID looked at and IDs may be skipped.
CursorIsLastItem ==
  session # Nothing =>
    /\ Len(session.page) <= session.size
    /\ session.pc = "more" => /\ session.page # <<>>
                              /\ session.last = session.page[Len(session.page)].id

\* Query and its pages: a session ends, with writers coming and going.
SessionEnds == (session # Nothing) ~> (session = Nothing)

(***************************************************************************)
(* What the documentation says and the code does not do.                   *)
(***************************************************************************)
\* store.go, Reorg: the write lock is held for the full duration, so no query
\* observes an intermediate state.  No query fails inside a reorg.
ReorgHidden ==
  [][lock = "reorg" /\ session # Nothing /\ session' # Nothing /\ session'.pc = "failed"
       => session.pc = "failed"]_vars

\* IDs are uint64 numbers and block numbers too; no ID and no blob is nil; a
\* query that parses has a term.
ASSUME ServerAssumption ==
  /\ BatchLimit \in Nat \ {0} /\ Limit \in Nat /\ PageSize \subseteq Nat
  /\ IsFiniteSet(Id) /\ Id \subseteq Nat /\ Version \subseteq Nat /\ Base \in Version
  /\ Nothing \notin Id \cup Value
  /\ \A query \in Query : query # <<>> /\ query \in Seq({query[k] : k \in DOMAIN query})
=============================================================================
