------------------------------ MODULE Delivery ------------------------------
(***************************************************************************)
(* A block that is delivered again.  chain/server.go ignores the context   *)
(* of a request and processBlock compares neither parent nor number with   *)
(* the head, so when an answer is lost and the client repeats its request, *)
(* the block that is already the head is processed once more on top of     *)
(* itself.                                                                 *)
(***************************************************************************)
EXTENDS StoreReads, Sequences, FiniteSets

CONSTANT MaxOps  \* bound: operations in a block

VARIABLES
  ops,       \* the operations of the block in progress
  request,   \* the operations of the last block committed, or Absent
  repeated,  \* the numbers of the canonical blocks processed more than once
  again,     \* the CacheStore of a repeated block in progress, or Absent
  done       \* how many operations of request have been applied to it

sentVars == <<ops, request, repeated>>
replayVars == <<again, done>>
deliveryVars == <<sentVars, replayVars>>

DeliveryInit ==
  /\ Init
  /\ ops = <<>> /\ request = Absent /\ repeated = {}
  /\ again = Absent /\ done = 0

Open ==
  /\ \E h \in Hash : BeginBlock(h)
  /\ ops' = <<>> /\ UNCHANGED <<request, repeated>>

Log(op) ==
  /\ Len(ops) < MaxOps
  /\ ops' = Append(ops, op) /\ UNCHANGED <<request, repeated>>

Operate ==
  \/ \E op \in CreateOp : Create(op) /\ Log(op)
  \/ \E op \in UpdateOp : Update(op) /\ Log(op)
  \/ \E op \in DeleteOp : Delete(op) /\ Log(op)
  \/ \E op \in ExtendOp : Extend(op) /\ Log(op)
  \/ \E op \in TransferOp : Transfer(op) /\ Log(op)
  \/ \E op \in ExpireOp : Expire(op) /\ Log(op)

Complete == CommitBlock /\ request' = ops /\ ops' = <<>> /\ UNCHANGED repeated

\* The client does not repeat a block it has reverted.
GoBack ==
  /\ \E oldest \in Canonical :
       Revert(oldest) \/ \E k \in 1..MaxBatch : Reorg(oldest, k)
  /\ request' = Absent
  /\ repeated' = {n \in repeated : n <= tip'}
  /\ UNCHANGED ops

Others ==
  /\ IOFails \/ Restart \/ \E k \in 1..MaxBatch : CommitChain(k)
  /\ ops' = <<>> /\ UNCHANGED <<request, repeated>>

(***************************************************************************)
(* The repeated request: processBlock opens the same block on top of       *)
(* itself, applies its operations one by one, and commits.                 *)
(***************************************************************************)
\* Every repeated create takes a new ID.
Redeliver ==
  /\ call = Absent /\ request # Absent
  /\ head.root.count + Len(request) <= MaxId
  /\ again' = newCacheStore(head.root, tip, canon[tip].hash, canon[tip - 1].hash)
  /\ done' = 0
  /\ UNCHANGED <<vars, sentVars>>

applyOp(c, op) ==
  CASE op.type = "create" -> processCreate(c, op)
    [] op.type = "update" -> processUpdate(c, op)
    [] op.type = "extend" -> processExtend(c, op)
    [] op.type = "transfer" -> processTransfer(c, op)
    [] OTHER -> deleteEntity(c, op)

Reapply ==
  /\ done < Len(request)
  /\ Applicable(again, request[done + 1])
  /\ again' = applyOp(again, request[done + 1]) /\ done' = done + 1
  /\ UNCHANGED <<vars, sentVars>>

Recommit ==
  /\ done = Len(request)
  /\ Commit(again) /\ head' = committedHead(again)
  /\ repeated' = repeated \cup {tip}
  /\ again' = Absent /\ done' = 0
  /\ UNCHANGED <<call, envVars, ops, request>>

\* An operation is rejected (its entity is gone), reading or writing the
\* database fails, or the process dies.
Abandon ==
  /\ Restart \/ UNCHANGED vars
  /\ again' = Absent /\ done' = 0
  /\ UNCHANGED sentVars

DeliveryNext ==
  \/ again = Absent /\ UNCHANGED replayVars
       /\ (Open \/ Operate \/ Complete \/ GoBack \/ Others)
  \/ again = Absent /\ Redeliver
  \/ again # Absent /\ (Reapply \/ Recommit \/ Abandon)

DeliverySpec == DeliveryInit /\ [][DeliveryNext]_<<vars, deliveryVars>>

\* Every repetition of a block is either rejected as a whole or changes no
\* entity: at every readable block the store returns the contract's entities,
\* and head and block index are the chain's, however often a block came.
RepetitionHarmless == HistoryFaithful /\ HeadIsTip /\ BlockIndexIsChain /\ AnnotMirrorsTrie

GetEntityCount == Cardinality(AllEntities(0))

Live == {a \in Addr : Entities(0)[a] # Absent}

\* processBlock of a block that is the head, and the reverts: a repeated create
\* gives its entity a second ID, which stays in the bitmaps and is counted.
\* At the blocks below the repeated ones every bitmap is still exact, every
\* live entity has one ID, and the ID maps do not contradict it, although a
\* repetition overwrites them; and once the repeated blocks have been reverted
\* this holds of the whole store, the two maps are inverse, and
\* arkiv_getEntityCount counts each live entity once.
RevertHeals ==
  /\ \A n \in Canonical : (\A m \in repeated : n < m) => ExactAt(n) /\ ResolvesAt(n)
  /\ repeated = {} => /\ IndexExact /\ ResolveSound /\ IDMapsAgree
                      /\ GetEntityCount = Cardinality(Live)
=============================================================================
