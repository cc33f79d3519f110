--------------------------- MODULE DeliveryProofs ---------------------------
(***************************************************************************)
(* A repeated block changes no entity, and reverting it leaves the store   *)
(* as if every block had come once, for every value of the constants.      *)
(***************************************************************************)
EXTENDS Delivery, IndexProofs, FiniteSetTheorems

(***************************************************************************)
(* What one operation writes.  An entity has four aspects, each written as *)
(* a whole by some kinds of operations and left alone by the others.       *)
(***************************************************************************)
Aspects == {"origin", "content", "expiry", "owner"}

Aspect(e, x) ==
  CASE x = "origin" -> <<e.creator, e.createdAt, e.key>>
    [] x = "content" -> <<e.content, e.lastModified>>
    [] x = "expiry" -> <<e.expiresAt>>
    [] OTHER -> <<e.owner>>

Writes(op, x) ==
  \/ op.type = "create"
  \/ op.type = "update" /\ x = "content"
  \/ op.type = "extend" /\ x = "expiry"
  \/ op.type = "transfer" /\ x = "owner"

Written(op, n, x) ==
  CASE x = "origin" -> <<op.sender, n, op.addr>>
    [] x = "content" -> <<op.content, n>>
    [] x = "expiry" -> <<op.expiresAt>>
    [] OTHER -> <<op.owner>>

Kills(op) == op.type \in {"delete", "expire"}

Decides(op) == op.type = "create" \/ Kills(op)

\* The entity that an operation of block n makes of an entity.
Effect(old, op, n) ==
  CASE op.type = "create" ->
         [owner |-> op.owner, creator |-> op.sender, expiresAt |-> op.expiresAt,
          createdAt |-> n, lastModified |-> n, content |-> op.content, key |-> op.addr]
    [] op.type = "update" -> [old EXCEPT !.content = op.content, !.lastModified = n]
    [] op.type = "extend" -> [old EXCEPT !.expiresAt = op.expiresAt]
    [] op.type = "transfer" -> [old EXCEPT !.owner = op.owner]
    [] OTHER -> Absent

(***************************************************************************)
(* A list of operations of block n that led to the entities E: the last    *)
(* one to decide whether an address is live, and the last one to write an  *)
(* aspect of a live entity, can be read off E.                             *)
(***************************************************************************)
Lives(list, E) ==
  \A j \in 1..Len(list) :
    /\ Decides(list[j])
    /\ \A l \in 1..Len(list) : l > j /\ list[l].addr = list[j].addr => ~Decides(list[l])
    => (E[list[j].addr] = Absent <=> Kills(list[j]))

Holds(list, E, n) ==
  \A j \in 1..Len(list), x \in Aspects :
    /\ Writes(list[j], x) /\ E[list[j].addr] # Absent
    /\ \A l \in 1..Len(list) : l > j /\ list[l].addr = list[j].addr => ~Writes(list[l], x)
    => Aspect(E[list[j].addr], x) = Written(list[j], n, x)

LedTo(list, E, n) == Lives(list, E) /\ Holds(list, E, n)

\* The first k operations have been applied to E once more, leaving c: what no
\* later operation writes is back at what E has.
Replayed(c, list, k, E) ==
  \A a \in Addr :
    /\ (\A l \in k + 1 .. Len(list) : list[l].addr = a => ~Decides(list[l]))
         => (getEntity(c, a) = Absent <=> E[a] = Absent)
    /\ \A x \in Aspects :
         /\ getEntity(c, a) # Absent /\ E[a] # Absent
         /\ \A l \in k + 1 .. Len(list) : list[l].addr = a => ~Writes(list[l], x)
         => Aspect(getEntity(c, a), x) = Aspect(E[a], x)

(***************************************************************************)
(* IDs.  The IDs a block stages are new, and so are their addresses to     *)
(* every version in which only the addresses of `old` have been minted.    *)
(***************************************************************************)
FreshIDs(c, old) ==
  /\ head.root.count <= c.state.count
  /\ \A i \in ID : c.id[i] # Absent => /\ head.root.count < i /\ i <= c.state.count
                                       /\ c.id[i] \notin old
  /\ \A i \in ID, a \in Addr : c.addr[a] = i => c.id[i] = a
  /\ \A i \in ID : c.state.ids[i] # Absent => i <= c.state.count

CreatesNew(list, old) ==
  \A j \in 1..Len(list) : list[j].type = "create" => list[j].addr \notin old

\* The versions below every repeated block.
Clean == {n \in Versions : \A m \in repeated : n < m}

(***************************************************************************)
(* The inductive invariant.                                                *)
(***************************************************************************)
\* The requests and the chain: what the client sent is what led to the
\* contract's entities.
SentOK ==
  /\ ops \in Seq(AnyOp)
  /\ cs # Absent => /\ LedTo(ops, pending.ents, tip + 1)
                    /\ CreatesNew(ops, minted(tip)) /\ minted(tip) \subseteq pending.minted
  /\ request # Absent => /\ request \in Seq(AnyOp) /\ tip \in Canonical
                         /\ LedTo(request, canon[tip].view.ents, tip)
                         /\ CreatesNew(request, minted(tip - 1))

\* The repeated block in progress is the tip's, on top of the tip.
ReplayOK ==
  again # Absent =>
    /\ again \in CacheStoreRec /\ call = Absent /\ request # Absent
    /\ again.number = tip /\ again.hash = canon[tip].hash
    /\ again.parent = canon[tip - 1].hash
    /\ again.state.nonce = 1 /\ again.state.annot = head.root.annot
    /\ done \in 0..Len(request) /\ again.state.count + (Len(request) - done) <= MaxId
    /\ Replayed(again, request, done, canon[tip].view.ents)
    /\ FreshIDs(again, minted(tip - 1))

\* The counter covers every slot and every ID of the maps, repeated or not.
Counted ==
  /\ \A n \in Versions, i \in ID : RootAt(n).ids[i] # Absent => i <= RootAt(n).count
  /\ \A i \in ID : arkiv_id[i] # Absent => i <= head.root.count
  /\ \A i \in ID, a \in Addr : arkiv_addr[a] = i => arkiv_id[i] = a
  /\ cs # Absent => FreshIDs(cs, minted(tip))

\* Below the repeated blocks slots and bitmaps are exact, and the maps agree
\* with them.
CleanSlots ==
  \A n \in Clean :
    /\ \A i \in ID : RootAt(n).ids[i] # Absent => RootAt(n).ids[i] \in minted(n)
    /\ \A a \in Addr : RootAt(n).code[a] # Absent <=> \E i \in ID : RootAt(n).ids[i] = a
    /\ \A m \in Clean, i, j \in ID :
         RootAt(m).ids[i] # Absent /\ RootAt(m).ids[i] = RootAt(n).ids[j] => i = j

CleanBitmaps ==
  \A n \in Clean, p \in Pair :
    /\ RootAt(n).annot[p] # Absent => RootAt(n).annot[p] \in arkiv_bm
    /\ bitmapAt(RootAt(n), p) = carriersAt(RootAt(n), p)

CleanMaps ==
  \A n \in Clean, i \in ID : arkiv_id[i] # Absent =>
    /\ \A j \in ID : RootAt(n).ids[j] # Absent => (arkiv_id[i] = RootAt(n).ids[j] <=> i = j)
    /\ arkiv_id[i] \in minted(n) => arkiv_addr[arkiv_id[i]] = i

CleanBelow == CleanSlots /\ CleanBitmaps /\ CleanMaps

DeliveryInv ==
  /\ HistoryInv /\ SentOK /\ ReplayOK
  /\ repeated \subseteq Canonical
  /\ ChainGrows /\ Counted /\ CleanBelow
  /\ repeated = {} => BitmapInv

(***************************************************************************)
(* What applyOp leaves.                                                    *)
(***************************************************************************)
\* applyOp is one of the six handlers.
LEMMA HandlerOfOp ==
  ASSUME NEW c, NEW op \in AnyOp
  PROVE \/ op \in CreateOp /\ op.type = "create" /\ applyOp(c, op) = processCreate(c, op)
        \/ op \in UpdateOp /\ op.type = "update" /\ applyOp(c, op) = processUpdate(c, op)
        \/ /\ op \in DeleteOp \cup ExpireOp /\ op.type \in {"delete", "expire"}
           /\ applyOp(c, op) = deleteEntity(c, op)
        \/ op \in ExtendOp /\ op.type = "extend" /\ applyOp(c, op) = processExtend(c, op)
        \/ /\ op \in TransferOp /\ op.type = "transfer"
           /\ applyOp(c, op) = processTransfer(c, op)
PROOF
  BY DEF AnyOp, CreateOp, UpdateOp, DeleteOp, ExpireOp, ExtendOp, TransferOp, applyOp

\* A handler makes a CacheStore of the same block, and leaves the system
\* account's nonce and bitmap slots to Commit.
LEMMA ReapplyHeader ==
  ASSUME DbTypeOK, NEW c \in CacheStoreRec, NEW op \in AnyOp, Applicable(c, op),
         op.type = "create" => c.state.count < MaxId
  PROVE /\ applyOp(c, op) \in CacheStoreRec /\ applyOp(c, op).number = c.number
        /\ applyOp(c, op).hash = c.hash /\ applyOp(c, op).parent = c.parent
        /\ applyOp(c, op).state.nonce = c.state.nonce
        /\ applyOp(c, op).state.annot = c.state.annot
PROOF
<1> DEFINE d == applyOp(c, op)
<1>1. d \in CacheStoreRec /\ d.number = c.number
  BY HandlerOfOp, CreateType, UpdateType, DeleteType, ExtendType, TransferType
<1>2. d \in {processCreate(c, op), processUpdate(c, op), deleteEntity(c, op),
             processExtend(c, op), processTransfer(c, op)}
  BY HandlerOfOp
<1>. QED
  BY <1>1, <1>2, HandlersKeepHeader

\* A handler changes the entity at its address the way Effect says, and no other.
LEMMA ReapplyEntity ==
  ASSUME DbTypeOK, NEW c \in CacheStoreRec, NEW op \in AnyOp, Applicable(c, op),
         NEW a \in Addr
  PROVE getEntity(applyOp(c, op), a) =
          IF a = op.addr THEN Effect(getEntity(c, a), op, c.number) ELSE getEntity(c, a)
PROOF
<1>1. CASE op \in CreateOp /\ op.type = "create" /\ applyOp(c, op) = processCreate(c, op)
  BY <1>1, HandlerEntity DEF Effect, newEntity
<1>2. CASE op \in UpdateOp /\ op.type = "update" /\ applyOp(c, op) = processUpdate(c, op)
  <2>1. getEntity(applyOp(c, op), a) =
          IF a = op.addr THEN updatedEntity(c, op) ELSE getEntity(c, a)
    BY <1>2, HandlerEntity
  <2>2. a = op.addr => updatedEntity(c, op) = Effect(getEntity(c, a), op, c.number)
    BY <1>2 DEF Effect, updatedEntity
  <2>. QED
    BY <2>1, <2>2
<1>3. CASE /\ op \in DeleteOp \cup ExpireOp /\ op.type \in {"delete", "expire"}
           /\ applyOp(c, op) = deleteEntity(c, op)
  BY <1>3, HandlerEntity DEF Effect
<1>4. CASE op \in ExtendOp /\ op.type = "extend" /\ applyOp(c, op) = processExtend(c, op)
  BY <1>4, HandlerEntity DEF Effect
<1>5. CASE /\ op \in TransferOp /\ op.type = "transfer"
           /\ applyOp(c, op) = processTransfer(c, op)
  BY <1>5, HandlerEntity DEF Effect
<1>. QED
  BY <1>1, <1>2, <1>3, <1>4, <1>5, HandlerOfOp

\* An operation writes its aspects and leaves the others alone.
LEMMA EffectAspects ==
  ASSUME NEW op \in AnyOp, NEW n \in Number, NEW old,
         op.type # "create" => old \in EntityRec
  PROVE /\ Effect(old, op, n) = Absent <=> Kills(op)
        /\ ~Kills(op) => Effect(old, op, n) \in EntityRec
        /\ ~Kills(op) => \A x \in Aspects :
             Aspect(Effect(old, op, n), x) =
               IF Writes(op, x) THEN Written(op, n, x) ELSE Aspect(old, x)
PROOF
<1> DEFINE e == Effect(old, op, n)
<1>1. CASE op \in CreateOp /\ op.type = "create"
  BY <1>1, AbsentAssumption
     DEF CreateOp, Effect, Kills, EntityRec, Aspects, Aspect, Writes, Written
<1>2. CASE op \in UpdateOp /\ op.type = "update"
  BY <1>2, AbsentAssumption
     DEF UpdateOp, Effect, Kills, EntityRec, Aspects, Aspect, Writes, Written
<1>3. CASE op.type \in {"delete", "expire"}
  BY <1>3 DEF Effect, Kills
<1>4. CASE op \in ExtendOp /\ op.type = "extend"
  BY <1>4, AbsentAssumption
     DEF ExtendOp, Effect, Kills, EntityRec, Aspects, Aspect, Writes, Written
<1>5. CASE op \in TransferOp /\ op.type = "transfer"
  BY <1>5, AbsentAssumption
     DEF TransferOp, Effect, Kills, EntityRec, Aspects, Aspect, Writes, Written
<1>. QED
  BY <1>1, <1>2, <1>3, <1>4, <1>5, HandlerOfOp

\* Entities that agree in every aspect are the same.
LEMMA SameAspects ==
  ASSUME NEW d \in EntityRec, NEW e \in EntityRec,
         \A x \in Aspects : Aspect(d, x) = Aspect(e, x)
  PROVE d = e
PROOF
<1>1. /\ <<d.creator, d.createdAt, d.key>> = <<e.creator, e.createdAt, e.key>>
      /\ <<d.content, d.lastModified>> = <<e.content, e.lastModified>>
      /\ <<d.expiresAt>> = <<e.expiresAt>> /\ <<d.owner>> = <<e.owner>>
  BY DEF Aspects, Aspect
<1>2. /\ d.creator = e.creator /\ d.createdAt = e.createdAt /\ d.key = e.key
      /\ d.content = e.content /\ d.lastModified = e.lastModified
      /\ d.expiresAt = e.expiresAt /\ d.owner = e.owner
  BY <1>1
<1>. QED
  BY <1>2 DEF EntityRec

(***************************************************************************)
(* The list of a block's operations and the entities it leads to.          *)
(***************************************************************************)
\* E after op, an operation of block n.
After(E, op, n) == [a \in Addr |-> IF a = op.addr THEN Effect(E[a], op, n) ELSE E[a]]

\* What LedTo says of the list, it says of the list with one operation more.
LEMMA LedToStep ==
  ASSUME NEW list \in Seq(AnyOp), NEW op \in AnyOp, NEW n \in Number,
         NEW E \in [Addr -> {Absent} \cup EntityRec], LedTo(list, E, n),
         op.type # "create" => E[op.addr] # Absent
  PROVE LedTo(Append(list, op), After(E, op, n), n)
PROOF
<1> DEFINE more == Append(list, op)
           F == After(E, op, n)
           k == Len(list) + 1
<1>1. /\ more \in Seq(AnyOp) /\ Len(more) = k /\ more[k] = op /\ Len(list) \in Nat
      /\ \A j \in 1..Len(list) : more[j] = list[j] /\ list[j] \in AnyOp
  OBVIOUS
<1>2. \A o \in AnyOp : o.addr \in Addr
  BY DEF AnyOp, CreateOp, UpdateOp, DeleteOp, ExpireOp, ExtendOp, TransferOp
<1>3. \A a \in Addr : F[a] = IF a = op.addr THEN Effect(E[a], op, n) ELSE E[a]
  BY DEF After
<1>4. /\ F[op.addr] = Absent <=> Kills(op)
      /\ ~Kills(op) => \A x \in Aspects :
           Aspect(F[op.addr], x) =
             IF Writes(op, x) THEN Written(op, n, x) ELSE Aspect(E[op.addr], x)
  <2>1. op.type # "create" => E[op.addr] \in EntityRec
    BY <1>2
  <2>. QED
    BY <1>2, <1>3, <2>1, EffectAspects
<1> HIDE DEF more, F, k
<1>5. ASSUME NEW j \in 1..Len(more), Decides(more[j]),
             \A l \in 1..Len(more) : l > j /\ more[l].addr = more[j].addr => ~Decides(more[l])
      PROVE F[more[j].addr] = Absent <=> Kills(more[j])
  <2>1. CASE j = k
    BY <1>1, <1>4, <2>1
  <2>2. CASE j # k
    <3>1. j \in 1..Len(list) /\ more[j] = list[j] /\ list[j].addr \in Addr /\ k > j
      BY <1>1, <1>2, <2>2 DEF k
    <3>2. \A l \in 1..Len(list) : l > j /\ list[l].addr = list[j].addr => ~Decides(list[l])
      BY <1>1, <1>5, <3>1 DEF k
    <3>3. E[list[j].addr] = Absent <=> Kills(list[j])
      BY <1>5, <3>1, <3>2 DEF LedTo, Lives
    <3>4. CASE op.addr = list[j].addr
      <4>1. ~Decides(op)
        BY <1>1, <1>5, <3>1, <3>4 DEF k
      <4>. QED
        BY <1>4, <3>1, <3>3, <3>4, <4>1 DEF Decides
    <3>. QED
      BY <1>3, <3>1, <3>3, <3>4
  <2>. QED
    BY <2>1, <2>2
<1>6. ASSUME NEW j \in 1..Len(more), NEW x \in Aspects,
             Writes(more[j], x), F[more[j].addr] # Absent,
             \A l \in 1..Len(more) : l > j /\ more[l].addr = more[j].addr
                                      => ~Writes(more[l], x)
      PROVE Aspect(F[more[j].addr], x) = Written(more[j], n, x)
  <2>1. CASE j = k
    BY <1>1, <1>4, <1>6, <2>1
  <2>2. CASE j # k
    <3>1. j \in 1..Len(list) /\ more[j] = list[j] /\ list[j].addr \in Addr /\ k > j
      BY <1>1, <1>2, <2>2 DEF k
    <3>2. \A l \in 1..Len(list) : l > j /\ list[l].addr = list[j].addr => ~Writes(list[l], x)
      BY <1>1, <1>6, <3>1 DEF k
    <3>3. E[list[j].addr] # Absent => Aspect(E[list[j].addr], x) = Written(list[j], n, x)
      BY <1>6, <3>1, <3>2 DEF LedTo, Holds
    <3>4. CASE op.addr = list[j].addr
      <4>1. ~Writes(op, x) /\ ~Kills(op)
        BY <1>1, <1>4, <1>6, <3>1, <3>4 DEF k
      <4>2. E[op.addr] # Absent
        BY <4>1 DEF Writes
      <4>. QED
        BY <1>4, <3>1, <3>3, <3>4, <4>1, <4>2
    <3>. QED
      BY <1>3, <1>6, <3>1, <3>3, <3>4
  <2>. QED
    BY <2>1, <2>2
<1>. QED
  BY <1>5, <1>6 DEF LedTo, Lives, Holds, more, F

\* One operation applied again.
LEMMA ReplayStep ==
  ASSUME DbTypeOK, NEW list \in Seq(AnyOp), NEW E \in [Addr -> {Absent} \cup EntityRec],
         NEW c \in CacheStoreRec, LedTo(list, E, c.number),
         NEW k \in Nat, k < Len(list), Replayed(c, list, k, E),
         Applicable(c, list[k + 1])
  PROVE Replayed(applyOp(c, list[k + 1]), list, k + 1, E)
PROOF
<1> DEFINE op == list[k + 1]
           n == c.number
           d == applyOp(c, op)
<1>1. /\ op \in AnyOp /\ Len(list) \in Nat /\ k + 1 \in 1..Len(list) /\ n \in Number
      /\ \A l \in 1..Len(list) : list[l] \in AnyOp
  BY DEF CacheStoreRec
<1>2. \A o \in AnyOp : o.addr \in Addr
  BY DEF AnyOp, CreateOp, UpdateOp, DeleteOp, ExpireOp, ExtendOp, TransferOp
<1>3. \A a \in Addr : getEntity(d, a) =
        IF a = op.addr THEN Effect(getEntity(c, a), op, n) ELSE getEntity(c, a)
  BY <1>1, ReapplyEntity
<1>4. op.type # "create" => getEntity(c, op.addr) \in EntityRec
  BY <1>1, <1>2, ReadTypes DEF Applicable
<1>5. /\ getEntity(d, op.addr) = Absent <=> Kills(op)
      /\ ~Kills(op) => \A x \in Aspects :
           Aspect(getEntity(d, op.addr), x) =
             IF Writes(op, x) THEN Written(op, n, x) ELSE Aspect(getEntity(c, op.addr), x)
  BY <1>1, <1>2, <1>3, <1>4, EffectAspects
<1>6. \A l \in k + 1 .. Len(list) : l = k + 1 \/ l \in (k + 1) + 1 .. Len(list)
  BY <1>1
<1> HIDE DEF d, n
<1> SUFFICES ASSUME NEW a \in Addr
             PROVE /\ (\A l \in (k + 1) + 1 .. Len(list) : list[l].addr = a => ~Decides(list[l]))
                        => (getEntity(d, a) = Absent <=> E[a] = Absent)
                   /\ \A x \in Aspects :
                        /\ getEntity(d, a) # Absent /\ E[a] # Absent
                        /\ \A l \in (k + 1) + 1 .. Len(list) : list[l].addr = a => ~Writes(list[l], x)
                        => Aspect(getEntity(d, a), x) = Aspect(E[a], x)
  BY DEF Replayed, d
<1>7. ASSUME \A l \in (k + 1) + 1 .. Len(list) : list[l].addr = a => ~Decides(list[l])
      PROVE getEntity(d, a) = Absent <=> E[a] = Absent
  <2>1. CASE op.addr = a /\ Decides(op)
    <3>1. \A l \in 1..Len(list) : l > k + 1 /\ list[l].addr = op.addr => ~Decides(list[l])
      BY <1>1, <1>7, <2>1
    <3>2. E[op.addr] = Absent <=> Kills(op)
      BY <1>1, <2>1, <3>1 DEF LedTo, Lives
    <3>. QED
      BY <1>5, <2>1, <3>2
  <2>2. CASE op.addr # a \/ ~Decides(op)
    <3>1. \A l \in k + 1 .. Len(list) : list[l].addr = a => ~Decides(list[l])
      BY <1>6, <1>7, <2>2
    <3>2. getEntity(c, a) = Absent <=> E[a] = Absent
      BY <3>1 DEF Replayed
    <3>3. CASE op.addr = a
      BY <1>4, <1>5, <2>2, <3>2, <3>3, AbsentAssumption DEF Decides
    <3>. QED
      BY <1>3, <3>2, <3>3
  <2>. QED
    BY <2>1, <2>2
<1>8. ASSUME NEW x \in Aspects, getEntity(d, a) # Absent, E[a] # Absent,
             \A l \in (k + 1) + 1 .. Len(list) : list[l].addr = a => ~Writes(list[l], x)
      PROVE Aspect(getEntity(d, a), x) = Aspect(E[a], x)
  <2>1. CASE op.addr = a /\ Writes(op, x)
    <3>1. \A l \in 1..Len(list) : l > k + 1 /\ list[l].addr = op.addr => ~Writes(list[l], x)
      BY <1>1, <1>8, <2>1
    <3>2. Aspect(E[op.addr], x) = Written(op, n, x)
      BY <1>1, <1>8, <2>1, <3>1 DEF LedTo, Holds, n
    <3>. QED
      BY <1>5, <1>8, <2>1, <3>2
  <2>2. CASE op.addr # a \/ ~Writes(op, x)
    <3>1. \A l \in k + 1 .. Len(list) : list[l].addr = a => ~Writes(list[l], x)
      BY <1>6, <1>8, <2>2
    <3>2. getEntity(c, a) # Absent => Aspect(getEntity(c, a), x) = Aspect(E[a], x)
      BY <1>8, <3>1 DEF Replayed
    <3>3. CASE op.addr = a
      <4>1. getEntity(c, a) # Absent /\ ~Kills(op)
        BY <1>4, <1>5, <1>8, <2>2, <3>3, AbsentAssumption DEF Writes
      <4>. QED
        BY <1>5, <2>2, <3>2, <3>3, <4>1
    <3>. QED
      BY <1>3, <1>8, <3>2, <3>3
  <2>. QED
    BY <2>1, <2>2
<1>. QED
  BY <1>7, <1>8

\* When all operations have been applied again, the entities are what they were.
LEMMA ReplayEnd ==
  ASSUME DbTypeOK, NEW list \in Seq(AnyOp), NEW E \in [Addr -> {Absent} \cup EntityRec],
         NEW c \in CacheStoreRec, Replayed(c, list, Len(list), E), NEW a \in Addr
  PROVE getEntity(c, a) = E[a]
PROOF
<1>1. Len(list) + 1 .. Len(list) = {} /\ Len(list) \in Nat
  OBVIOUS
<1>2. getEntity(c, a) = Absent <=> E[a] = Absent
  BY <1>1 DEF Replayed
<1>3. CASE E[a] # Absent
  <2>1. getEntity(c, a) \in EntityRec /\ E[a] \in EntityRec
    BY <1>2, <1>3, ReadTypes
  <2>2. \A x \in Aspects : Aspect(getEntity(c, a), x) = Aspect(E[a], x)
    BY <1>1, <1>2, <1>3 DEF Replayed
  <2>. QED
    BY <2>1, <2>2, SameAspects
<1>. QED
  BY <1>2, <1>3

(***************************************************************************)
(* The IDs a block stages.                                                 *)
(***************************************************************************)
\* A block that is just opened has staged none.
LEMMA OpenFresh ==
  ASSUME TypeInv, \A i \in ID : head.root.ids[i] # Absent => i <= head.root.count,
         NEW n, NEW h, NEW parent, NEW old
  PROVE FreshIDs(newCacheStore(head.root, n, h, parent), old)
PROOF
<1> DEFINE c == newCacheStore(head.root, n, h, parent)
<1>1. head.root \in Trie /\ head.root.count \in Nat
  BY IDTypes DEF TypeInv, TypeOK, HeadRec
<1>2. /\ c.state.count = head.root.count /\ c.state.ids = head.root.ids
      /\ \A i \in ID : c.id[i] = Absent
      /\ \A a \in Addr : c.addr[a] = Absent
  BY <1>1 DEF newCacheStore, initSystemAccount, Trie
<1>. QED
  BY <1>1, <1>2, AbsentAssumption DEF FreshIDs

\* processCreate takes the next ID; the other handlers stage none, and only
\* clear a slot.
LEMMA ReapplyFresh ==
  ASSUME TypeInv, NEW c \in CacheStoreRec, NEW op \in AnyOp, Applicable(c, op), NEW old,
         op.type = "create" => c.state.count < MaxId /\ op.addr \notin old,
         FreshIDs(c, old)
  PROVE FreshIDs(applyOp(c, op), old)
        /\ c.state.count \in Nat
        /\ applyOp(c, op).state.count \in Nat
        /\ applyOp(c, op).state.count <= c.state.count + 1
PROOF
<1> DEFINE d == applyOp(c, op)
<1>1. /\ c.id \in [ID -> {Absent} \cup Addr] /\ c.addr \in [Addr -> {Absent} \cup ID]
      /\ c.state \in Trie /\ c.state.count \in Nat /\ c.state.count <= MaxId
      /\ c.state.ids \in [ID -> {Absent} \cup Addr]
      /\ head.root.count \in Nat /\ DbTypeOK /\ MaxId \in Nat
      /\ \A i \in ID : i \in Nat /\ i <= MaxId
  BY IDTypes, BoundsAssumption DEF CacheStoreRec, Trie, ID
<1> HIDE DEF d
<1>2. CASE op \in CreateOp /\ op.type = "create" /\ d = processCreate(c, op)
  <2> DEFINE k == c.state.count + 1
             b == op.addr
  <2>1. /\ d.id = [c.id EXCEPT ![k] = b] /\ d.addr = [c.addr EXCEPT ![b] = k]
        /\ d.state.ids = [c.state.ids EXCEPT ![k] = b] /\ d.state.count = k
    <3>1. op.addr \in Addr /\ k \in ID
      BY <1>1, <1>2 DEF CreateOp, ID
    <3>. QED
      BY <1>1, <1>2, <3>1 DEF processCreate, CacheStoreRec, Trie
  <2>2. k \in ID /\ k \in Nat /\ b \in Addr /\ b # Absent /\ b \notin old
    BY <1>1, <1>2, AbsentAssumption DEF ID, CreateOp
  <2>3. head.root.count < k /\ c.state.count < k
    BY <1>1 DEF FreshIDs
  <2> HIDE DEF k, b
  <2>4. \A i \in ID : /\ d.id[i] = IF i = k THEN b ELSE c.id[i]
                      /\ d.state.ids[i] = IF i = k THEN b ELSE c.state.ids[i]
    BY <1>1, <2>1
  <2>5. \A a \in Addr : d.addr[a] = IF a = b THEN k ELSE c.addr[a]
    BY <1>1, <2>1
  <2>6. \A i \in ID : d.id[i] # Absent =>
          /\ head.root.count < i /\ i <= d.state.count /\ d.id[i] \notin old
    BY <1>1, <2>1, <2>2, <2>3, <2>4 DEF FreshIDs
  <2>7. \A i \in ID : d.state.ids[i] # Absent => i <= d.state.count
    <3>1. \A i \in ID : c.state.ids[i] # Absent => i <= k
      BY <1>1, <2>2, <2>3 DEF FreshIDs
    <3>. QED
      BY <1>1, <2>1, <2>2, <2>4, <3>1
  <2>8. ASSUME NEW i \in ID, NEW a \in Addr, d.addr[a] = i PROVE d.id[i] = a
    <3>1. CASE a = b
      BY <2>4, <2>5, <2>8, <3>1
    <3>2. CASE a # b
      <4>1. c.addr[a] = i /\ c.id[i] = a
        BY <2>5, <2>8, <3>2 DEF FreshIDs
      <4>2. i # k
        BY <1>1, <2>2, <2>3, <4>1, AbsentAssumption DEF FreshIDs
      <4>. QED
        BY <2>4, <4>1, <4>2
    <3>. QED
      BY <3>1, <3>2
  <2>9. head.root.count <= d.state.count
    BY <1>1, <2>1, <2>2, <2>3
  <2>10. d.state.count \in Nat /\ d.state.count <= c.state.count + 1
    BY <1>1, <2>1, <2>2 DEF k
  <2>. QED
    BY <1>1, <2>6, <2>7, <2>8, <2>9, <2>10 DEF FreshIDs, d
<1>3. CASE op \in DeleteOp \cup ExpireOp /\ op.type \in {"delete", "expire"}
           /\ d = deleteEntity(c, op)
  <2> DEFINE k == entityID(c, op.addr)
  <2>1. k \in ID
    BY <1>1, <1>3, ReadTypes DEF Applicable, DeleteOp, ExpireOp
  <2>2. /\ d.id = c.id /\ d.addr = c.addr /\ d.state.count = c.state.count
        /\ d.state.ids = [c.state.ids EXCEPT ![k] = Absent]
    BY <1>1, <1>3, <2>1 DEF deleteEntity, CacheStoreRec, Trie
  <2> HIDE DEF k
  <2>3. \A i \in ID : d.state.ids[i] # Absent => c.state.ids[i] # Absent
    BY <1>1, <2>2
  <2>. QED
    BY <1>1, <2>2, <2>3 DEF FreshIDs, d
<1>4. CASE d \in {processUpdate(c, op), processExtend(c, op), processTransfer(c, op)}
  <2>1. d.id = c.id /\ d.addr = c.addr /\ d.state = c.state
    BY <1>4 DEF processUpdate, processExtend, processTransfer, CacheStoreRec
  <2>. QED
    BY <1>1, <2>1 DEF FreshIDs, d
<1>. QED
  BY <1>2, <1>3, <1>4, HandlerOfOp DEF d

(***************************************************************************)
(* The repeated block is committed.                                        *)
(***************************************************************************)
\* While a block is repeated no other is in progress, and the tip is a block.
LEMMA ReplayState ==
  ASSUME HistoryInv, SentOK, ReplayOK, again # Absent
  PROVE /\ again \in CacheStoreRec /\ cs = Absent /\ pending = Absent /\ call = Absent
        /\ again.number = tip /\ again.hash = canon[tip].hash /\ canon[tip].hash \in Hash
        /\ again.parent = canon[tip - 1].hash /\ canon[tip - 1].hash \in AnyHash
        /\ again.state.nonce = 1 /\ again.state.annot = head.root.annot
        /\ request \in Seq(AnyOp) /\ Len(request) \in Nat
        /\ tip \in Canonical /\ tip \in Versions /\ tip \in Number /\ tip # BaseNumber
        /\ tip - 1 \in Versions /\ tip - 1 < tip /\ tip \in Nat
        /\ head.root = RootAt(tip) /\ RootAt(tip).code = canon[tip].view.ents
        /\ canon[tip] \in Block /\ canon[tip].view.ents \in [Addr -> {Absent} \cup EntityRec]
        /\ ChainInv /\ TypeInv /\ DbTypeOK
PROOF
<1>1. ChainInv /\ ViewsMatch /\ TypeInv /\ DbTypeOK
  BY DEF HistoryInv, ChainInv, TypeInv, TypeOK
<1>2. cs = Absent /\ pending = Absent /\ call = Absent
  BY <1>1 DEF ReplayOK, TypeInv, TypeOK
<1>3. tip \in Canonical /\ request \in Seq(AnyOp) /\ Len(request) \in Nat
  BY DEF ReplayOK, SentOK
<1>4. /\ tip \in Versions /\ tip \in Number /\ tip # BaseNumber /\ tip - 1 \in Versions
      /\ tip - 1 < tip /\ tip \in Nat /\ tip - 1 \in Number
  BY <1>1, <1>3, StoreAssumption, BoundsAssumption
     DEF TypeInv, TypeOK, EnvTypeOK, ChainShape, Canonical, Versions, Number
<1>5. canon[tip] \in Block /\ canon[tip - 1] \in Block /\ canon[tip].hash \in Hash
  BY <1>1, <1>3, <1>4 DEF TypeInv, TypeOK, EnvTypeOK, ChainShape, Versions, ChainInv,
                          HashesUnique
<1>6. /\ canon[tip - 1].hash \in AnyHash
      /\ canon[tip].view.ents \in [Addr -> {Absent} \cup EntityRec]
  BY <1>5 DEF Block, ContractView
<1>7. head.root = RootAt(tip) /\ RootAt(tip).code = canon[tip].view.ents
  BY <1>1, <1>4 DEF ChainInv, HeadIsTip, ViewsMatch
<1>. QED
  BY <1>1, <1>2, <1>3, <1>4, <1>5, <1>6, <1>7 DEF ReplayOK

\* The batch replaces the state of the tip by the one of the repeated block,
\* whose entities are the same, and touches no other version.
LEMMA RecommitEffect ==
  ASSUME HistoryInv, SentOK, ReplayOK, again # Absent, Recommit
  PROVE /\ Versions' = Versions /\ Canonical' = Canonical
        /\ RootAt(tip)' = newRoot(again) /\ head'.root = newRoot(again)
        /\ newRoot(again) \in Trie
        /\ newRoot(again).code = canon[tip].view.ents
        /\ newRoot(again).annot = flushBitmaps(again, head.root.annot)
        /\ newRoot(again).ids = again.state.ids
        /\ newRoot(again).count = again.state.count
        /\ \A n \in Versions : n # tip => RootAt(n)' = RootAt(n)
        /\ arkiv_root' = [arkiv_root EXCEPT ![canon[tip].hash] = newRoot(again)]
        /\ UNCHANGED <<canon, tip, call, pending, sealed, request, cs>>
        /\ cs' = Absent /\ again' = Absent
PROOF
<1>1. /\ again \in CacheStoreRec /\ cs = Absent /\ again.hash = canon[tip].hash
      /\ again.state.nonce = 1 /\ again.state.annot = head.root.annot
      /\ request \in Seq(AnyOp) /\ tip \in Canonical /\ tip # BaseNumber
      /\ canon[tip].hash \in Hash
      /\ canon[tip].view.ents \in [Addr -> {Absent} \cup EntityRec]
      /\ ChainInv /\ DbTypeOK
  BY ReplayState
<1>2. /\ UNCHANGED <<canon, tip, call, pending, sealed, request>> /\ cs' = Absent
      /\ arkiv_root' = [arkiv_root EXCEPT ![again.hash] = newRoot(again)]
      /\ head' = committedHead(again) /\ done = Len(request) /\ again' = Absent
  BY DEF Recommit, Commit, envVars
<1>3. Versions' = Versions /\ Canonical' = Canonical /\ head'.root = newRoot(again)
  BY <1>2 DEF Versions, Canonical, committedHead
<1>4. newRoot(again) \in Trie
  BY <1>1, NewRootType
<1>5. newRoot(again).code = canon[tip].view.ents
  <2>1. Replayed(again, request, Len(request), canon[tip].view.ents)
    BY <1>2 DEF ReplayOK
  <2>2. \A a \in Addr : getEntity(again, a) = canon[tip].view.ents[a]
    BY <1>1, <2>1, ReplayEnd
  <2>3. newRoot(again).code = [a \in Addr |-> getEntity(again, a)]
    BY <1>1, NewRootFields DEF flushEntities, getEntity
  <2>. QED
    BY <1>1, <2>2, <2>3
<1>6. arkiv_root \in [AnyHash -> {Absent} \cup Trie] /\ canon[tip].hash \in AnyHash
  BY <1>1 DEF DbTypeOK, AnyHash
<1>7. RootAt(tip)' = newRoot(again)
  BY <1>1, <1>2, <1>6 DEF RootAt
<1>8. ASSUME NEW n \in Versions, n # tip PROVE RootAt(n)' = RootAt(n)
  <2>1. CASE n = BaseNumber
    BY <2>1 DEF RootAt
  <2>2. CASE n # BaseNumber
    <3>1. n \in Canonical
      BY <1>1, <2>2, StoreAssumption, BoundsAssumption
         DEF Versions, Canonical, ChainInv, TypeInv, TypeOK, EnvTypeOK, Number
    <3>2. canon[n].hash \in AnyHash /\ canon[n].hash # canon[tip].hash
      BY <1>1, <1>8, <3>1 DEF ChainInv, HashesUnique, AnyHash
    <3>. QED
      BY <1>1, <1>2, <1>6, <3>2 DEF RootAt
  <2>. QED
    BY <2>1, <2>2
<1>. QED
  BY <1>1, <1>2, <1>3, <1>4, <1>5, <1>7, <1>8, NewRootFields

\* The repeated block keeps the types.
LEMMA RecommitType ==
  ASSUME HistoryInv, SentOK, ReplayOK, again # Absent, Recommit
  PROVE TypeInv'
PROOF
<1>1. /\ again \in CacheStoreRec /\ TypeInv /\ cs = Absent /\ newRoot(again) \in Trie
      /\ again.number \in Number /\ again.hash \in Hash /\ again.parent \in AnyHash
  BY ReplayState, RecommitEffect
<1>2. committedHead(again) \in HeadRec
  BY <1>1 DEF committedHead, HeadRec, AnyHash
<1>3. /\ Commit(again) /\ head' = committedHead(again) /\ cs' = Absent
      /\ UNCHANGED <<call, canon, tip, pending, sealed>>
  BY DEF Recommit, Commit, envVars
<1>4. DbTypeOK'
  <2>1. arkiv_annot' \in [Pair -> {Absent} \cup Bitmap]
    BY <1>1, <1>3 DEF Commit, flushBitmaps, CacheStoreRec, TypeInv, TypeOK, DbTypeOK
  <2>2. arkiv_bm' \subseteq Bitmap /\ arkiv_pairs' \subseteq Pair
    BY <1>1, <1>3 DEF Commit, dirtyPairs, CacheStoreRec, TypeInv, TypeOK, DbTypeOK
  <2>3. /\ arkiv_id' \in [ID -> {Absent} \cup Addr]
        /\ arkiv_addr' \in [Addr -> {Absent} \cup ID]
    BY <1>1, <1>3 DEF Commit, StagingGet, CacheStoreRec, TypeInv, TypeOK, DbTypeOK
  <2>4. /\ arkiv_root' \in [AnyHash -> {Absent} \cup Trie]
        /\ arkiv_parent' \in [AnyHash -> {Absent} \cup AnyHash]
        /\ arkiv_blknum' \in [Number -> {Absent} \cup Hash]
    BY <1>1, <1>3 DEF Commit, TypeInv, TypeOK, DbTypeOK
  <2>5. arkiv_head' \in {Absent} \cup HeadRec
    BY <1>2, <1>3 DEF Commit
  <2>. QED
    BY <2>1, <2>2, <2>3, <2>4, <2>5 DEF DbTypeOK
<1>5. EnvTypeOK' /\ ChainShape'
  BY <1>1, <1>3 DEF TypeInv, TypeOK, EnvTypeOK, ChainShape, Fits
<1>. QED
  BY <1>1, <1>2, <1>3, <1>4, <1>5 DEF TypeInv, TypeOK

\* The store still follows the chain, and a reader finds the same entities.
LEMMA RecommitHistory ==
  ASSUME HistoryInv, SentOK, ReplayOK, again # Absent, Recommit
  PROVE HistoryInv'
PROOF
<1> DEFINE t == newRoot(again)
           h == canon[tip].hash
<1>1. /\ again \in CacheStoreRec /\ cs' = Absent /\ ChainInv /\ DbTypeOK
      /\ again.number = tip /\ again.hash = h /\ h \in Hash /\ h \in AnyHash
      /\ again.parent = canon[tip - 1].hash /\ tip \in Number
      /\ tip \in Canonical /\ tip \in Versions /\ tip # BaseNumber /\ tip \in Nat
      /\ head.root = RootAt(tip)
  BY ReplayState, RecommitEffect DEF AnyHash
<1>2. /\ Versions' = Versions /\ Canonical' = Canonical /\ UNCHANGED <<canon, tip>>
      /\ RootAt(tip)' = t /\ t \in Trie
      /\ t.code = canon[tip].view.ents /\ t.annot = flushBitmaps(again, head.root.annot)
      /\ \A n \in Versions : n # tip => RootAt(n)' = RootAt(n)
      /\ arkiv_root' = [arkiv_root EXCEPT ![h] = t]
  BY RecommitEffect
<1>3. /\ arkiv_annot' = flushBitmaps(again, arkiv_annot)
      /\ arkiv_pairs' = arkiv_pairs \cup dirtyPairs(again)
      /\ arkiv_parent' = [arkiv_parent EXCEPT ![h] = again.parent]
      /\ arkiv_blknum' = [arkiv_blknum EXCEPT ![tip] = h]
      /\ arkiv_head' = [number |-> tip, hash |-> h, root |-> t] /\ head' = arkiv_head'
  BY <1>1 DEF Recommit, Commit, committedHead
<1> HIDE DEF t, h
<1>4. \A n \in Canonical : n \in Versions /\ n \in Number
  BY <1>1, StoreAssumption, BoundsAssumption
     DEF Versions, Canonical, ChainInv, TypeInv, TypeOK, EnvTypeOK, Number
<1>5. HashesUnique'
  BY <1>1, <1>2 DEF ChainInv, HashesUnique
<1>6. PairsCover'
  <2> SUFFICES ASSUME NEW n \in Canonical, NEW p \in Pair, RootAt(n)'.annot[p] # Absent
               PROVE p \in arkiv_pairs'
    BY <1>2 DEF PairsCover
  <2>1. CASE n # tip
    BY <1>1, <1>2, <1>3, <1>4, <2>1 DEF ChainInv, PairsCover
  <2>2. CASE n = tip
    <3>1. RootAt(n)' = t
      BY <1>2, <2>2
    <3>2. again.dirtyBitmaps[p] # Absent \/ RootAt(tip).annot[p] # Absent
      BY <1>1, <1>2, <3>1 DEF flushBitmaps
    <3>. QED
      BY <1>1, <1>3, <3>2 DEF dirtyPairs, ChainInv, PairsCover
  <2>. QED
    BY <2>1, <2>2
<1>7. HeadIsTip'
  <2>1. arkiv_head' # Absent
    BY <1>1, <1>2, <1>3, HashAssumption DEF HeadRec
  <2>. QED
    BY <1>2, <1>3, <2>1 DEF HeadIsTip, ReopenedHead, h
<1>8. BlockIndexIsChain'
  <2>1. /\ arkiv_blknum \in [Number -> {Absent} \cup Hash]
        /\ arkiv_parent \in [AnyHash -> {Absent} \cup AnyHash]
        /\ arkiv_root \in [AnyHash -> {Absent} \cup Trie] /\ t # Absent
        /\ \A n \in Canonical : canon[n].hash \in AnyHash
    BY <1>1, <1>2, AbsentAssumption DEF DbTypeOK, ChainInv, HashesUnique, AnyHash
  <2>2. \A n \in Number :
          arkiv_blknum'[n] = IF n \in Canonical' THEN canon'[n].hash ELSE Absent
    BY <1>1, <1>2, <1>3, <2>1 DEF ChainInv, BlockIndexIsChain, h
  <2>3. \A n \in Canonical' : /\ arkiv_root'[canon'[n].hash] # Absent
                              /\ arkiv_parent'[canon'[n].hash] = canon'[n - 1].hash
    BY <1>1, <1>2, <1>3, <2>1 DEF ChainInv, BlockIndexIsChain, HashesUnique, h
  <2>4. \A g \in AnyHash \ {canon'[n].hash : n \in Canonical'} :
          arkiv_root'[g] = Absent /\ arkiv_parent'[g] = Absent
    BY <1>1, <1>2, <1>3, <2>1 DEF ChainInv, BlockIndexIsChain, h
  <2>. QED
    BY <2>2, <2>3, <2>4 DEF BlockIndexIsChain
<1>9. AnnotMirrorsTrie'
  BY <1>1, <1>2, <1>3 DEF ChainInv, AnnotMirrorsTrie, flushBitmaps
<1>10. ViewsMatch'
  <2>1. \A n \in Versions : RootAt(n).code = canon[n].view.ents
    BY DEF HistoryInv, ViewsMatch
  <2>. QED
    BY <1>2, <2>1 DEF ViewsMatch
<1>11. BlockOnHead' /\ DraftMatches'
  BY <1>1 DEF BlockOnHead, DraftMatches
<1>. QED
  BY <1>5, <1>6, <1>7, <1>8, <1>9, <1>10, <1>11, RecommitType DEF HistoryInv, ChainInv

(***************************************************************************)
(* IDs and bitmaps, below the repeated blocks.                             *)
(***************************************************************************)
\* With no block repeated, the invariant of the index says all of it.
LEMMA ExactIsClean ==
  BitmapInv /\ repeated = {} => ChainGrows /\ Counted /\ CleanBelow
PROOF
<1> SUFFICES ASSUME BitmapInv, repeated = {}
             PROVE ChainGrows /\ Counted /\ CleanBelow
  OBVIOUS
<1>1. /\ IDInv /\ HistoryInv /\ ChainInv /\ TypeInv
      /\ SlotsIssued /\ SlotsLive /\ ChainGrows /\ SlotsStable
      /\ MapsInverse /\ MapsIssued /\ MapsMatchSlots /\ DraftIDs
      /\ BlobsKept /\ BitmapsExact
  BY DEF BitmapInv, IDInv, HistoryInv, ChainInv
<1>2. Clean = Versions
  BY DEF Clean
<1>3. CleanSlots
  BY <1>1, <1>2 DEF CleanSlots, SlotsIssued, SlotsLive, SlotsStable
<1>4. CleanBitmaps
  BY <1>1, <1>2 DEF CleanBitmaps, BlobsKept, BitmapsExact
<1>5. arkiv_id \in [ID -> {Absent} \cup Addr]
  BY <1>1, IDTypes
<1>6. CleanMaps
  <2>1. \A n \in Clean, i, j \in ID : arkiv_id[i] # Absent /\ RootAt(n).ids[j] # Absent
          => (arkiv_id[i] = RootAt(n).ids[j] <=> i = j)
    BY <1>1, <1>2 DEF MapsMatchSlots
  <2>2. \A i \in ID : arkiv_id[i] # Absent => arkiv_addr[arkiv_id[i]] = i
    BY <1>1, <1>5 DEF MapsInverse
  <2>. QED
    BY <2>1, <2>2 DEF CleanMaps
<1>7. ASSUME cs # Absent PROVE FreshIDs(cs, minted(tip))
  <2>1. StagedNew /\ DraftSlots
    BY <1>1, <1>7 DEF DraftIDs
  <2>2. /\ head.root.count \in Nat /\ cs.state.count \in Nat /\ ID \subseteq Nat
        /\ head.root.count <= cs.state.count
    BY <1>1, <1>7, <2>1, IDTypes DEF StagedNew
  <2>3. \A i \in ID : cs.id[i] # Absent => i <= cs.state.count
    BY <2>1 DEF StagedNew
  <2>4. \A i \in ID : cs.state.ids[i] # Absent => i <= head.root.count \/ cs.id[i] # Absent
    BY <2>1 DEF DraftSlots
  <2>5. \A i \in ID : cs.state.ids[i] # Absent => i <= cs.state.count
    BY <2>2, <2>3, <2>4
  <2>. QED
    BY <2>1, <2>5 DEF FreshIDs, StagedNew
<1>8. Counted
  BY <1>1, <1>7 DEF Counted, SlotsIssued, MapsIssued, MapsInverse
<1>. QED
  BY <1>1, <1>3, <1>4, <1>6, <1>8 DEF CleanBelow

\* The converse, when no block is in progress and the maps hold minted addresses.
MapsMinted == \A i \in ID : arkiv_id[i] # Absent => arkiv_id[i] \in minted(tip)

LEMMA CleanIsExact ==
  /\ HistoryInv /\ cs = Absent /\ repeated = {}
  /\ ChainGrows /\ Counted /\ CleanBelow /\ MapsMinted
  => BitmapInv
PROOF
<1> SUFFICES ASSUME HistoryInv, cs = Absent, repeated = {}, ChainGrows, Counted,
                    CleanBelow, MapsMinted
             PROVE BitmapInv
  OBVIOUS
<1>1. Clean = Versions /\ tip \in Versions /\ TypeInv
  BY TipVersion DEF Clean, HistoryInv
<1>2. CleanSlots /\ CleanBitmaps /\ CleanMaps
  BY DEF CleanBelow
<1>3. SlotsIssued
  BY <1>1, <1>2 DEF SlotsIssued, Counted, CleanSlots
<1>4. SlotsLive /\ SlotsStable
  BY <1>1, <1>2 DEF SlotsLive, SlotsStable, CleanSlots
<1>5. MapsIssued
  BY DEF MapsIssued, Counted, MapsMinted
<1>6. MapsMatchSlots
  BY <1>1, <1>2 DEF MapsMatchSlots, CleanMaps
<1>7. MapsInverse
  <2>1. \A i \in ID, a \in Addr : arkiv_addr[a] = i => arkiv_id[i] = a
    BY DEF Counted
  <2>2. \A i \in ID : arkiv_id[i] # Absent => arkiv_addr[arkiv_id[i]] = i
    BY <1>1, <1>2 DEF CleanMaps, MapsMinted
  <2>. QED
    BY <2>1, <2>2, AbsentAssumption DEF MapsInverse
<1>8. BlobsKept /\ BitmapsExact
  BY <1>1, <1>2 DEF BlobsKept, BitmapsExact, CleanBitmaps
<1>. QED
  BY <1>3, <1>4, <1>5, <1>6, <1>7, <1>8
     DEF BitmapInv, IDInv, DraftIDs, DraftExact

\* A step that leaves the database and the chain alone.
LEMMA SameStoreClean ==
  ASSUME ChainGrows, Counted, CleanBelow, UNCHANGED <<dbVars, head, canon, tip, repeated>>,
         cs' # Absent => FreshIDs(cs, minted(tip))'
  PROVE ChainGrows' /\ Counted' /\ CleanBelow'
PROOF
<1>1. Versions' = Versions /\ \A n \in Versions : RootAt(n)' = RootAt(n)
  BY SameRoots
<1>2. /\ Clean' = Clean /\ Clean \subseteq Versions /\ \A n \in Versions : minted(n)' = minted(n)
      /\ UNCHANGED <<arkiv_bm, arkiv_id, arkiv_addr, head>>
  BY <1>1 DEF Clean, minted, dbVars
<1>3. ChainGrows'
  BY <1>1, <1>2 DEF ChainGrows
<1>4. Counted'
  BY <1>1, <1>2 DEF Counted
<1>5. \A n \in Clean : n \in Clean' /\ RootAt(n)' = RootAt(n) /\ minted(n)' = minted(n)
  BY <1>1, <1>2
<1>6. CleanSlots'
  BY <1>2, <1>5 DEF CleanBelow, CleanSlots
<1>7. CleanBitmaps'
  BY <1>2, <1>5 DEF CleanBelow, CleanBitmaps, bitmapAt, carriersAt
<1>8. CleanMaps'
  BY <1>2, <1>5 DEF CleanBelow, CleanMaps
<1>. QED
  BY <1>3, <1>4, <1>6, <1>7, <1>8 DEF CleanBelow

\* What Commit makes of the ID maps when the staged IDs are fresh.
LEMMA FreshMaps ==
  ASSUME TypeInv, Counted, NEW c \in CacheStoreRec, NEW old, FreshIDs(c, old), Commit(c)
  PROVE /\ \A i \in ID : arkiv_id'[i] = IF c.id[i] # Absent THEN c.id[i] ELSE arkiv_id[i]
        /\ \A i \in ID : arkiv_id'[i] # Absent => i <= c.state.count
        /\ \A i \in ID, a \in Addr : arkiv_addr'[a] = i => arkiv_id'[i] = a
        /\ \A i \in ID, a \in old \cap Addr :
             arkiv_id'[i] = a => arkiv_id[i] = a /\ arkiv_addr'[a] = arkiv_addr[a]
PROOF
<1>1. /\ c.id \in [ID -> {Absent} \cup Addr] /\ c.addr \in [Addr -> {Absent} \cup ID]
      /\ c.state.count \in Nat /\ head.root.count \in Nat /\ ID \subseteq Nat
      /\ arkiv_id \in [ID -> {Absent} \cup Addr]
      /\ arkiv_addr \in [Addr -> {Absent} \cup ID]
  BY IDTypes DEF CacheStoreRec, Trie
<1>2. /\ \A i \in ID : arkiv_id'[i] = IF c.id[i] # Absent THEN c.id[i] ELSE arkiv_id[i]
      /\ \A a \in Addr : arkiv_addr'[a] = IF c.addr[a] # Absent THEN c.addr[a]
                                                                ELSE arkiv_addr[a]
  BY DEF Commit, StagingGet
<1>3. \A i \in ID : arkiv_id'[i] # Absent => i <= c.state.count
  <2>1. \A i \in ID : arkiv_id[i] # Absent => i <= head.root.count
    BY DEF Counted
  <2>. QED
    BY <1>1, <1>2, <2>1 DEF FreshIDs
<1>4. ASSUME NEW i \in ID, NEW a \in Addr, arkiv_addr'[a] = i PROVE arkiv_id'[i] = a
  <2>1. CASE c.addr[a] # Absent
    <3>1. c.addr[a] = i /\ c.id[i] = a
      BY <1>2, <1>4, <2>1 DEF FreshIDs
    <3>. QED
      BY <1>2, <3>1, AbsentAssumption
  <2>2. CASE c.addr[a] = Absent
    <3>1. arkiv_addr[a] = i /\ arkiv_id[i] = a
      BY <1>2, <1>4, <2>2 DEF Counted
    <3>2. i <= head.root.count
      BY <3>1, AbsentAssumption DEF Counted
    <3>3. c.id[i] = Absent
      BY <1>1, <3>2 DEF FreshIDs
    <3>. QED
      BY <1>2, <3>1, <3>3
  <2>. QED
    BY <2>1, <2>2
<1>5. ASSUME NEW i \in ID, NEW a \in old \cap Addr, arkiv_id'[i] = a
      PROVE arkiv_id[i] = a /\ arkiv_addr'[a] = arkiv_addr[a]
  <2>1. c.id[i] = Absent
    BY <1>2, <1>5 DEF FreshIDs
  <2>2. c.addr[a] = Absent
    <3>1. SUFFICES ASSUME c.addr[a] \in ID PROVE FALSE
      BY <1>1
    <3>2. c.id[c.addr[a]] = a
      BY <3>1 DEF FreshIDs
    <3>. QED
      BY <3>1, <3>2, AbsentAssumption DEF FreshIDs
  <2>. QED
    BY <1>2, <1>5, <2>1, <2>2
<1>. QED
  BY <1>2, <1>3, <1>4, <1>5

\* A block that only stages fresh IDs leaves the versions it does not touch
\* clean.
LEMMA FreshKeepsClean ==
  ASSUME HistoryInv, ChainGrows, Counted, CleanBelow,
         NEW c \in CacheStoreRec, NEW old, FreshIDs(c, old), Commit(c),
         Clean' \subseteq Clean,
         \A n \in Clean' : RootAt(n)' = RootAt(n) /\ canon'[n] = canon[n]
                            /\ minted(n) \subseteq old
  PROVE CleanBelow'
PROOF
<1>1. ChainInv /\ TypeInv /\ tip \in Versions /\ head.root = RootAt(tip)
  BY TipVersion DEF HistoryInv
<1>2. /\ \A n \in Clean' : n \in Clean /\ RootAt(n)' = RootAt(n) /\ minted(n)' = minted(n)
      /\ arkiv_bm \subseteq arkiv_bm'
  BY DEF minted, Commit
<1>3. CleanSlots'
  BY <1>2 DEF CleanBelow, CleanSlots
<1>4. CleanBitmaps'
  BY <1>2 DEF CleanBelow, CleanBitmaps, bitmapAt, carriersAt
<1>5. CleanMaps'
  <2>1. /\ \A i \in ID : arkiv_id'[i] = IF c.id[i] # Absent THEN c.id[i] ELSE arkiv_id[i]
        /\ \A i \in ID, a \in old \cap Addr :
             arkiv_id'[i] = a => arkiv_id[i] = a /\ arkiv_addr'[a] = arkiv_addr[a]
    BY <1>1, FreshMaps
  <2> SUFFICES ASSUME NEW n \in Clean', NEW i \in ID, arkiv_id'[i] # Absent
               PROVE /\ \A j \in ID : RootAt(n).ids[j] # Absent
                           => (arkiv_id'[i] = RootAt(n).ids[j] <=> i = j)
                     /\ arkiv_id'[i] \in minted(n) => arkiv_addr'[arkiv_id'[i]] = i
    BY <1>2 DEF CleanMaps
  <2>2. n \in Clean /\ n \in Versions /\ minted(n) \subseteq old
    BY DEF Clean
  <2>3. /\ RootAt(n).count \in Nat /\ head.root.count \in Nat /\ ID \subseteq Nat
        /\ RootAt(n).count <= head.root.count
    BY <1>1, <2>2, RootTypes, IDTypes DEF ChainGrows
  <2>4. CASE c.id[i] # Absent
    <3>1. arkiv_id'[i] \notin minted(n) /\ head.root.count < i
      BY <2>1, <2>2, <2>4 DEF FreshIDs
    <3>2. \A j \in ID : RootAt(n).ids[j] # Absent
            => RootAt(n).ids[j] \in minted(n) /\ j <= RootAt(n).count
      BY <2>2 DEF CleanBelow, CleanSlots, Counted
    <3>3. \A j \in ID : RootAt(n).ids[j] # Absent => i # j
      BY <2>3, <3>1, <3>2
    <3>. QED
      BY <3>1, <3>2, <3>3
  <2>5. CASE c.id[i] = Absent
    <3>1. arkiv_id'[i] = arkiv_id[i] /\ arkiv_id[i] # Absent
      BY <2>1, <2>5
    <3>2. \A j \in ID : RootAt(n).ids[j] # Absent
            => (arkiv_id[i] = RootAt(n).ids[j] <=> i = j)
      BY <2>2, <3>1 DEF CleanBelow, CleanMaps
    <3>3. ASSUME arkiv_id[i] \in minted(n) PROVE arkiv_addr'[arkiv_id'[i]] = i
      <4>1. arkiv_addr[arkiv_id[i]] = i
        BY <2>2, <3>1, <3>3 DEF CleanBelow, CleanMaps
      <4>2. arkiv_id[i] \in old \cap Addr
        BY <1>1, <2>2, <3>1, <3>3, IDTypes
      <4>. QED
        BY <2>1, <3>1, <4>1, <4>2
    <3>. QED
      BY <3>1, <3>2, <3>3
  <2>. QED
    BY <2>4, <2>5
<1>. QED
  BY <1>3, <1>4, <1>5 DEF CleanBelow

\* revertToAncestor drops from the maps the IDs its ancestor has no slot for:
\* what is clean stays clean, and if no repeated block is left, the index is
\* exact again.
LEMMA RevertClean ==
  ASSUME HistoryInv, HistoryInv', repeated \subseteq Canonical, ChainGrows, Counted, CleanBelow,
         NEW oldest \in Canonical, call = Absent, revertToAncestor(oldest),
         repeated' = {n \in repeated : n <= tip'}
  PROVE /\ ChainGrows' /\ Counted' /\ CleanBelow'
        /\ repeated' \subseteq Canonical'
        /\ repeated' = {} => BitmapInv'
PROOF
<1> DEFINE t == RootAt(oldest - 1)
<1>1. ChainInv /\ TypeInv /\ tip \in Versions /\ head.root = RootAt(tip)
  BY TipVersion DEF HistoryInv
<1>2. /\ tip' = oldest - 1 /\ tip' \in Versions' /\ Versions' \subseteq Versions
      /\ oldest - 1 \in Versions /\ Versions' = BaseNumber..(oldest - 1) /\ oldest <= tip
      /\ ancestorRoot(oldest) = t /\ head'.root = t
      /\ \A n \in Versions' : RootAt(n)' = RootAt(n) /\ canon'[n] = canon[n]
      /\ cs' = Absent
  BY <1>1, RevertEffect
<1>3. /\ arkiv_id \in [ID -> {Absent} \cup Addr] /\ arkiv_addr \in [Addr -> {Absent} \cup ID]
      /\ t.ids \in [ID -> {Absent} \cup Addr] /\ arkiv_bm' = arkiv_bm
      /\ oldest \in Nat /\ tip \in Nat /\ BaseNumber \in Nat
      /\ Canonical \subseteq Nat /\ Versions \subseteq Nat
  <2>1. arkiv_bm' = arkiv_bm
    BY DEF revertToAncestor
  <2>2. t.ids \in [ID -> {Absent} \cup Addr]
    BY <1>1, <1>2, RootTypes
  <2>3. BaseNumber \in Nat /\ tip \in Nat
    BY <1>1, StoreAssumption, BoundsAssumption DEF TypeInv, TypeOK, EnvTypeOK, Number
  <2>. QED
    BY <1>1, <2>1, <2>2, <2>3, IDTypes DEF Canonical, Versions
<1>4. /\ \A i \in ID : arkiv_id'[i] =
           IF arkiv_id[i] # Absent /\ t.ids[i] = Absent THEN Absent ELSE arkiv_id[i]
      /\ \A a \in Addr : arkiv_addr'[a] =
           IF \E i \in ID : arkiv_id[i] = a /\ t.ids[i] = Absent
           THEN Absent ELSE arkiv_addr[a]
  <2>1. /\ \A i \in ID : i \in OrphanIDs(t) <=> arkiv_id[i] # Absent /\ t.ids[i] = Absent
        /\ arkiv_id' = [i \in ID |-> IF i \in OrphanIDs(t) THEN Absent ELSE arkiv_id[i]]
        /\ arkiv_addr' = [a \in Addr |-> IF a \in {arkiv_id[i] : i \in OrphanIDs(t)}
                                         THEN Absent ELSE arkiv_addr[a]]
    BY <1>2 DEF OrphanIDs, revertToAncestor
  <2>2. \A a \in Addr : a \in {arkiv_id[i] : i \in OrphanIDs(t)}
                           <=> \E i \in ID : arkiv_id[i] = a /\ t.ids[i] = Absent
    BY <2>1, AbsentAssumption DEF OrphanIDs
  <2>. QED
    BY <2>1, <2>2
<1>5. \A n \in Clean' : n \in Clean /\ n \in Versions'
  <2>1. ASSUME NEW n \in Clean', NEW m \in repeated PROVE n < m
    <3>1. n \in Versions' /\ m \in Nat /\ n \in Nat
      BY <1>2, <1>3 DEF Clean
    <3>2. CASE m <= tip'
      BY <3>2 DEF Clean
    <3>3. CASE ~(m <= tip')
      BY <1>2, <1>3, <3>1, <3>3
    <3>. QED
      BY <3>2, <3>3
  <2>. QED
    BY <1>2, <2>1 DEF Clean
<1>6. repeated' \subseteq Canonical'
  <2>1. \A n \in repeated' : n \in Canonical /\ n <= oldest - 1
    BY <1>2
  <2>2. Canonical' = BaseNumber + 1 .. oldest - 1
    BY <1>2 DEF Canonical
  <2>3. \A n \in Canonical : n \in Nat /\ BaseNumber + 1 <= n
    BY <1>3 DEF Canonical
  <2>4. \A n \in repeated' : n \in BaseNumber + 1 .. oldest - 1
    BY <1>3, <2>1, <2>3
  <2>. QED
    BY <2>2, <2>4
<1> HIDE DEF t
<1>7. ChainGrows'
  BY <1>2 DEF ChainGrows, minted
<1>8. Counted'
  <2>1. \A n \in Versions', i \in ID : RootAt(n)'.ids[i] # Absent => i <= RootAt(n)'.count
    BY <1>2 DEF Counted
  <2>2. \A i \in ID : arkiv_id'[i] # Absent => i <= head'.root.count
    <3>1. \A i \in ID : t.ids[i] # Absent => i <= t.count
      BY <1>2 DEF Counted, t
    <3>. QED
      BY <1>2, <1>4, <3>1
  <2>3. ASSUME NEW i \in ID, NEW a \in Addr, arkiv_addr'[a] = i PROVE arkiv_id'[i] = a
    <3>1. i # Absent /\ arkiv_addr[a] = i
      BY <1>4, <2>3, AbsentAssumption
    <3>2. arkiv_id[i] = a
      BY <3>1 DEF Counted
    <3>3. t.ids[i] # Absent
      BY <1>4, <2>3, <3>1, <3>2
    <3>. QED
      BY <1>4, <3>2, <3>3
  <2>. QED
    BY <1>2, <2>1, <2>2, <2>3 DEF Counted
<1>9. \A n \in Clean' : n \in Clean /\ RootAt(n)' = RootAt(n) /\ minted(n)' = minted(n)
  BY <1>2, <1>5 DEF minted
<1>10. CleanMaps'
  <2> SUFFICES ASSUME NEW n \in Clean', NEW i \in ID, arkiv_id'[i] # Absent
               PROVE /\ \A j \in ID : RootAt(n).ids[j] # Absent
                           => (arkiv_id'[i] = RootAt(n).ids[j] <=> i = j)
                     /\ arkiv_id'[i] \in minted(n) => arkiv_addr'[arkiv_id'[i]] = i
    BY <1>9 DEF CleanMaps
  <2>1. n \in Clean /\ arkiv_id'[i] = arkiv_id[i] /\ arkiv_id[i] # Absent /\ t.ids[i] # Absent
    BY <1>4, <1>9
  <2>2. \A j \in ID : RootAt(n).ids[j] # Absent
          => (arkiv_id'[i] = RootAt(n).ids[j] <=> i = j)
    BY <2>1 DEF CleanBelow, CleanMaps
  <2>3. ASSUME arkiv_id[i] \in minted(n) PROVE arkiv_addr'[arkiv_id[i]] = i
    <3>1. \A j \in ID : arkiv_id[j] = arkiv_id[i] => arkiv_addr[arkiv_id[i]] = j
      BY <2>1, <2>3 DEF CleanBelow, CleanMaps
    <3>2. \A j \in ID : arkiv_id[j] = arkiv_id[i] => t.ids[j] # Absent
      BY <2>1, <3>1
    <3>. QED
      BY <1>3, <1>4, <2>1, <3>1, <3>2
  <2>. QED
    BY <2>1, <2>2, <2>3
<1>11. CleanBelow'
  <2>1. CleanSlots'
    BY <1>9 DEF CleanBelow, CleanSlots
  <2>2. CleanBitmaps'
    BY <1>3, <1>9 DEF CleanBelow, CleanBitmaps, bitmapAt, carriersAt
  <2>. QED
    BY <1>10, <2>1, <2>2 DEF CleanBelow
<1>12. ASSUME repeated' = {} PROVE BitmapInv'
  <2>1. tip' \in Clean' /\ tip' \in Clean
    BY <1>2, <1>5, <1>12 DEF Clean
  <2>2. MapsMinted'
    <3> SUFFICES ASSUME NEW i \in ID, arkiv_id'[i] # Absent
                 PROVE arkiv_id'[i] \in minted(tip)'
      BY DEF MapsMinted
    <3>1. arkiv_id'[i] = arkiv_id[i] /\ arkiv_id[i] # Absent /\ t.ids[i] # Absent
      BY <1>4
    <3>2. oldest - 1 \in Clean
      BY <1>2, <2>1
    <3>3. arkiv_id[i] = t.ids[i]
      BY <3>1, <3>2 DEF CleanBelow, CleanMaps, t
    <3>4. t.ids[i] \in minted(oldest - 1)
      BY <3>1, <3>2 DEF CleanBelow, CleanSlots, t
    <3>. QED
      BY <1>2, <3>1, <3>3, <3>4 DEF minted
  <2>3. (/\ HistoryInv /\ cs = Absent /\ repeated = {}
         /\ ChainGrows /\ Counted /\ CleanBelow /\ MapsMinted
         => BitmapInv)'
    BY CleanIsExact, PTL
  <2>. QED
    BY <1>2, <1>7, <1>8, <1>11, <1>12, <2>2, <2>3
<1>. QED
  BY <1>6, <1>7, <1>8, <1>11, <1>12

\* A block committed on top of the tip, repeated or not below.
LEMMA CompleteClean ==
  ASSUME HistoryInv, repeated \subseteq Canonical, ChainGrows, Counted, CleanBelow,
         cs # Absent => minted(tip) \subseteq pending.minted, repeated = {} => BitmapInv,
         CommitBlock, UNCHANGED repeated
  PROVE /\ ChainGrows' /\ Counted' /\ CleanBelow'
        /\ repeated' \subseteq Canonical'
        /\ repeated' = {} => BitmapInv'
PROOF
<1>1. /\ ChainInv /\ TypeInv /\ tip \in Versions /\ head.root = RootAt(tip)
      /\ cs # Absent /\ Commit(cs) /\ minted(tip) \subseteq pending.minted
  BY TipVersion DEF HistoryInv, CommitBlock
<1> PICK new \in Nat : new = tip + 1
  BY <1>1, RootTypes
<1>2. /\ cs \in CacheStoreRec /\ cs.state.nonce = 1
      /\ tip' = new /\ Versions' = Versions \cup {new} /\ new \notin Versions
      /\ RootAt(new)' = newRoot(cs) /\ head'.root = newRoot(cs)
      /\ canon'[new].view = pending
      /\ \A n \in Versions : RootAt(n)' = RootAt(n) /\ canon'[n] = canon[n]
      /\ cs' = Absent
  <2>1. tip' = new /\ RootAt(tip)' = newRoot(cs)
    BY <1>1, CommitEffect
  <2>2. RootAt(new)' = newRoot(cs)
    BY <2>1 DEF RootAt
  <2>. QED
    BY <1>1, <2>1, <2>2, CommitEffect DEF Commit
<1>3. newRoot(cs).ids = cs.state.ids /\ newRoot(cs).count = cs.state.count
  BY <1>2, NewRootFields
<1>4. FreshIDs(cs, minted(tip))
  BY <1>1 DEF Counted
<1>5. /\ head.root.count \in Nat /\ cs.state.count \in Nat /\ ID \subseteq Nat
      /\ head.root.count <= cs.state.count /\ tip \in Nat /\ BaseNumber \in Nat
      /\ \A n \in Versions : n \in Nat /\ n <= tip /\ RootAt(n).count \in Nat
  <2>1. BaseNumber \in Nat
    BY StoreAssumption DEF Number
  <2>. QED
    BY <1>1, <1>4, <2>1, IDTypes, RootTypes DEF FreshIDs
<1>6. ChainGrows'
  <2> SUFFICES ASSUME NEW m \in Versions', NEW n \in Versions', m <= n
               PROVE /\ RootAt(m)'.count <= RootAt(n)'.count
                     /\ canon'[m].view.minted \subseteq canon'[n].view.minted
    BY DEF ChainGrows, minted
  <2>1. CASE m \in Versions /\ n \in Versions
    BY <1>2, <2>1 DEF ChainGrows, minted
  <2>2. CASE m \in Versions /\ n = new
    <3>1. RootAt(m).count <= RootAt(tip).count /\ minted(m) \subseteq minted(tip)
      BY <1>1, <1>5, <2>2 DEF ChainGrows
    <3>2. RootAt(m)'.count <= cs.state.count
      <4>1. RootAt(m)' = RootAt(m) /\ RootAt(m).count \in Nat
        BY <1>2, <1>5, <2>2
      <4>2. RootAt(m).count <= head.root.count
        BY <1>1, <3>1
      <4>. QED
        BY <1>5, <4>1, <4>2
    <3>. QED
      BY <1>1, <1>2, <1>3, <2>2, <3>1, <3>2 DEF minted
  <2>3. CASE m = new /\ n = new
    BY <1>2, <1>3, <1>5, <2>3
  <2>4. ~(m = new /\ n \in Versions)
    BY <1>5
  <2>. QED
    BY <1>2, <2>1, <2>2, <2>3, <2>4
<1>7. Counted'
  <2>1. \A n \in Versions', i \in ID : RootAt(n)'.ids[i] # Absent => i <= RootAt(n)'.count
    BY <1>2, <1>3, <1>4 DEF Counted, FreshIDs
  <2>2. /\ \A i \in ID : arkiv_id'[i] # Absent => i <= cs.state.count
        /\ \A i \in ID, a \in Addr : arkiv_addr'[a] = i => arkiv_id'[i] = a
    BY <1>1, <1>2, <1>4, FreshMaps
  <2>. QED
    BY <1>2, <1>3, <2>1, <2>2 DEF Counted
<1>8. repeated' \subseteq Canonical'
  <2>1. Canonical' = BaseNumber + 1 .. new /\ Canonical = BaseNumber + 1 .. tip
    BY <1>2 DEF Canonical
  <2>. QED
    BY <1>5, <2>1
<1>9. CASE repeated = {}
  <2>1. BitmapInv' /\ repeated' = {}
    BY <1>9, NextBitmaps DEF Next
  <2>2. (BitmapInv /\ repeated = {} => ChainGrows /\ Counted /\ CleanBelow)'
    BY ExactIsClean, PTL
  <2>. QED
    BY <1>6, <1>7, <1>8, <2>1, <2>2
<1>10. CASE repeated # {}
  <2>1. PICK m \in repeated : m <= tip /\ m \in Nat
    <3>1. \A m \in Canonical : m <= tip /\ m \in Nat
      BY <1>5 DEF Canonical
    <3>. QED
      BY <1>10, <3>1
  <2>2. new \notin Clean'
    BY <1>5, <2>1 DEF Clean
  <2>3. Clean' \subseteq Clean
    BY <1>2, <2>2 DEF Clean
  <2>4. \A n \in Clean' : n \in Versions
    BY <2>3 DEF Clean
  <2>5. \A n \in Clean' : RootAt(n)' = RootAt(n) /\ canon'[n] = canon[n]
                          /\ minted(n) \subseteq minted(tip)
    BY <1>1, <1>2, <1>5, <2>4 DEF ChainGrows
  <2>6. CleanBelow'
    BY <1>1, <1>2, <1>4, <2>3, <2>5, FreshKeepsClean
  <2>. QED
    BY <1>6, <1>7, <1>8, <1>10, <2>6
<1>. QED
  BY <1>9, <1>10

\* The repeated block: its version and those above are no longer clean, and
\* there are none above.
LEMMA RecommitClean ==
  ASSUME HistoryInv, SentOK, ReplayOK, repeated \subseteq Canonical,
         ChainGrows, Counted, CleanBelow, again # Absent, Recommit
  PROVE /\ ChainGrows' /\ Counted' /\ CleanBelow'
        /\ repeated' \subseteq Canonical' /\ repeated' # {}
PROOF
<1>1. /\ ChainInv /\ TypeInv /\ tip \in Versions /\ head.root = RootAt(tip)
      /\ again \in CacheStoreRec /\ tip \in Canonical /\ tip - 1 \in Versions /\ tip \in Nat
  BY ReplayState
<1>2. /\ Versions' = Versions /\ Canonical' = Canonical /\ UNCHANGED <<canon, tip>>
      /\ RootAt(tip)' = newRoot(again) /\ head'.root = newRoot(again)
      /\ newRoot(again).ids = again.state.ids /\ newRoot(again).count = again.state.count
      /\ \A n \in Versions : n # tip => RootAt(n)' = RootAt(n)
      /\ cs' = Absent
  BY RecommitEffect
<1>3. Commit(again) /\ repeated' = repeated \cup {tip}
  BY DEF Recommit
<1>4. FreshIDs(again, minted(tip - 1))
  BY DEF ReplayOK
<1>5. /\ head.root.count \in Nat /\ again.state.count \in Nat
      /\ head.root.count <= again.state.count
      /\ \A n \in Versions : n \in Nat /\ n <= tip /\ RootAt(n).count \in Nat
  BY <1>1, <1>4, IDTypes, RootTypes DEF FreshIDs, CacheStoreRec, Trie
<1>6. ChainGrows'
  <2> SUFFICES ASSUME NEW m \in Versions, NEW n \in Versions, m <= n
               PROVE /\ RootAt(m)'.count <= RootAt(n)'.count
                     /\ canon'[m].view.minted \subseteq canon'[n].view.minted
    BY <1>2 DEF ChainGrows, minted
  <2>1. canon'[m].view.minted \subseteq canon'[n].view.minted
    BY <1>2 DEF ChainGrows, minted
  <2>2. CASE n # tip
    <3>1. m # tip
      BY <1>5, <2>2
    <3>. QED
      BY <1>2, <2>1, <2>2, <3>1 DEF ChainGrows
  <2>3. CASE n = tip /\ m # tip
    <3>1. RootAt(m).count <= head.root.count /\ RootAt(m)' = RootAt(m)
      BY <1>1, <1>2, <2>3 DEF ChainGrows
    <3>2. RootAt(n)'.count = again.state.count
      BY <1>2, <2>3
    <3>. QED
      BY <1>5, <2>1, <3>1, <3>2
  <2>4. CASE n = tip /\ m = tip
    <3>1. RootAt(n)' = newRoot(again) /\ RootAt(m)' = newRoot(again)
      BY <1>2, <2>4
    <3>. QED
      BY <1>2, <1>5, <2>1, <3>1
  <2>. QED
    BY <2>2, <2>3, <2>4
<1>7. Counted'
  <2>1. ASSUME NEW n \in Versions, NEW i \in ID, RootAt(n)'.ids[i] # Absent
        PROVE i <= RootAt(n)'.count
    <3>1. CASE n # tip
      BY <1>2, <2>1, <3>1 DEF Counted
    <3>2. CASE n = tip
      <4>1. RootAt(n)' = newRoot(again)
        BY <1>2, <3>2
      <4>. QED
        BY <1>2, <1>4, <2>1, <4>1 DEF FreshIDs
    <3>. QED
      BY <3>1, <3>2
  <2>2. /\ \A i \in ID : arkiv_id'[i] # Absent => i <= again.state.count
        /\ \A i \in ID, a \in Addr : arkiv_addr'[a] = i => arkiv_id'[i] = a
    BY <1>1, <1>3, <1>4, FreshMaps
  <2>. QED
    BY <1>2, <2>1, <2>2 DEF Counted
<1>8. Clean' \subseteq Clean /\ \A n \in Clean' : n \in Versions /\ n < tip
  BY <1>2, <1>3 DEF Clean
<1>9. \A n \in Clean' : RootAt(n)' = RootAt(n) /\ canon'[n] = canon[n]
                        /\ minted(n) \subseteq minted(tip - 1)
  <2> SUFFICES ASSUME NEW n \in Clean'
               PROVE RootAt(n)' = RootAt(n) /\ canon'[n] = canon[n]
                       /\ minted(n) \subseteq minted(tip - 1)
    OBVIOUS
  <2>1. n \in Versions /\ n < tip /\ n <= tip - 1 /\ n # tip
    <3>1. n \in Versions /\ n < tip /\ n \in Nat
      BY <1>5, <1>8
    <3>. QED
      BY <1>1, <3>1
  <2>. QED
    BY <1>1, <1>2, <2>1 DEF ChainGrows
<1>10. CleanBelow'
  BY <1>1, <1>3, <1>4, <1>8, <1>9, FreshKeepsClean
<1>. QED
  BY <1>1, <1>2, <1>3, <1>6, <1>7, <1>10

(***************************************************************************)
(* The steps.                                                              *)
(***************************************************************************)
\* Every step that does not commit a repeated block is one of the store's.
LEMMA StoreSteps ==
  ASSUME Open \/ Operate \/ Complete \/ GoBack \/ Others \/ Redeliver \/ Reapply \/ Abandon
  PROVE [Next]_vars
PROOF
<1>1. CASE Open
  BY <1>1 DEF Open, Next
<1>2. CASE Operate
  BY <1>2 DEF Operate, Next
<1>3. CASE Complete
  BY <1>3 DEF Complete, Next
<1>4. CASE GoBack
  <2>1. PICK oldest \in Canonical : Revert(oldest) \/ \E k \in 1..MaxBatch : Reorg(oldest, k)
    BY <1>4 DEF GoBack
  <2>. QED
    BY <2>1 DEF Next
<1>5. CASE Others
  BY <1>5 DEF Others, Next
<1>6. CASE Redeliver \/ Reapply \/ Abandon
  BY <1>6 DEF Redeliver, Reapply, Abandon, Next
<1>. QED
  BY <1>1, <1>2, <1>3, <1>4, <1>5, <1>6

\* An operation of the block in progress is applied and logged.
LEMMA OperateEffect ==
  ASSUME TypeInv, Operate
  PROVE \E op \in AnyOp :
          /\ cs # Absent /\ cs \in CacheStoreRec /\ ContractAllows(op) /\ Applicable(cs, op)
          /\ op.type = "create" => cs.state.count < MaxId
          /\ cs' = applyOp(cs, op) /\ pending' = ContractEffect(op, tip + 1)
          /\ ops' = Append(ops, op)
          /\ UNCHANGED <<dbVars, head, canon, tip, request, repeated>>
PROOF
<1>1. ASSUME NEW op \in CreateOp, Create(op), Log(op)
      PROVE /\ op \in AnyOp /\ op.type = "create" /\ cs.state.count < MaxId
            /\ ApplyOp(op, applyOp(cs, op))
  BY <1>1 DEF Create, CreateOp, AnyOp, applyOp
<1>2. ASSUME NEW op \in UpdateOp, Update(op), Log(op)
      PROVE op \in AnyOp /\ op.type # "create" /\ ApplyOp(op, applyOp(cs, op))
  BY <1>2 DEF Update, UpdateOp, AnyOp, applyOp
<1>3. ASSUME NEW op \in DeleteOp, Delete(op), Log(op)
      PROVE op \in AnyOp /\ op.type # "create" /\ ApplyOp(op, applyOp(cs, op))
  BY <1>3 DEF Delete, DeleteOp, AnyOp, applyOp
<1>4. ASSUME NEW op \in ExtendOp, Extend(op), Log(op)
      PROVE op \in AnyOp /\ op.type # "create" /\ ApplyOp(op, applyOp(cs, op))
  BY <1>4 DEF Extend, ExtendOp, AnyOp, applyOp
<1>5. ASSUME NEW op \in TransferOp, Transfer(op), Log(op)
      PROVE op \in AnyOp /\ op.type # "create" /\ ApplyOp(op, applyOp(cs, op))
  BY <1>5 DEF Transfer, TransferOp, AnyOp, applyOp
<1>6. ASSUME NEW op \in ExpireOp, Expire(op), Log(op)
      PROVE op \in AnyOp /\ op.type # "create" /\ ApplyOp(op, applyOp(cs, op))
  BY <1>6 DEF Expire, ExpireOp, AnyOp, applyOp
<1>7. PICK op \in AnyOp : /\ ApplyOp(op, applyOp(cs, op)) /\ Log(op)
                          /\ op.type = "create" => cs.state.count < MaxId
  BY <1>1, <1>2, <1>3, <1>4, <1>5, <1>6 DEF Operate
<1>8. /\ cs # Absent /\ ContractAllows(op) /\ Applicable(cs, op)
      /\ cs' = applyOp(cs, op) /\ pending' = ContractEffect(op, tip + 1)
      /\ UNCHANGED <<dbVars, head, canon, tip>>
  BY <1>7, Zenon DEF ApplyOp
<1>9. ops' = Append(ops, op) /\ UNCHANGED <<request, repeated>>
  BY <1>7 DEF Log
<1>10. cs \in CacheStoreRec
  BY <1>8 DEF TypeInv, TypeOK
<1>. QED
  BY <1>7, <1>8, <1>9, <1>10

\* The log keeps up with the contract.
LEMMA OperateSent ==
  ASSUME TypeInv, SentOK, Operate
  PROVE SentOK'
PROOF
<1>1. PICK op \in AnyOp :
        /\ cs # Absent /\ ContractAllows(op) /\ pending' = ContractEffect(op, tip + 1)
        /\ ops' = Append(ops, op) /\ UNCHANGED <<canon, tip, request>>
  BY OperateEffect
<1>2. /\ pending \in ContractView /\ tip + 1 \in Number /\ op.addr \in Addr
      /\ ops \in Seq(AnyOp) /\ LedTo(ops, pending.ents, tip + 1)
      /\ CreatesNew(ops, minted(tip)) /\ minted(tip) \subseteq pending.minted
  <2>1. cs \in CacheStoreRec /\ pending \in ContractView /\ tip + 1 = cs.number
    BY <1>1 DEF TypeInv, TypeOK, EnvTypeOK, ChainShape
  <2>2. op.addr \in Addr
    BY DEF AnyOp, CreateOp, UpdateOp, DeleteOp, ExtendOp, TransferOp, ExpireOp
  <2>. QED
    BY <1>1, <2>1, <2>2 DEF SentOK, CacheStoreRec
<1>3. pending.ents \in [Addr -> {Absent} \cup EntityRec]
  BY <1>2 DEF ContractView
<1>4. pending'.ents = After(pending.ents, op, tip + 1)
  <2>1. pending'.ents = [pending.ents EXCEPT ![op.addr] = ContractEntity(op, tip + 1)]
    BY <1>1 DEF ContractEffect
  <2>2. ContractEntity(op, tip + 1) = Effect(pending.ents[op.addr], op, tip + 1)
    BY DEF ContractEntity, Effect
  <2>. QED
    BY <1>2, <1>3, <2>1, <2>2 DEF After
<1>5. LedTo(ops', pending'.ents, tip + 1)
  <2>1. op.type # "create" => pending.ents[op.addr] # Absent
    BY <1>1 DEF ContractAllows
  <2>. QED
    BY <1>1, <1>2, <1>3, <1>4, <2>1, LedToStep
<1>6. ops' \in Seq(AnyOp) /\ CreatesNew(ops', minted(tip))
  <2>1. op.type = "create" => op.addr \notin minted(tip)
    BY <1>1, <1>2 DEF ContractAllows
  <2>2. /\ Append(ops, op) \in Seq(AnyOp) /\ Len(Append(ops, op)) = Len(ops) + 1
        /\ Len(ops) \in Nat /\ Append(ops, op)[Len(ops) + 1] = op
        /\ \A j \in 1..Len(ops) : Append(ops, op)[j] = ops[j]
    BY <1>2
  <2>. QED
    BY <1>1, <1>2, <2>1, <2>2 DEF CreatesNew
<1>7. minted(tip) \subseteq pending'.minted
  BY <1>1, <1>2 DEF ContractEffect
<1>8. minted(tip)' = minted(tip) /\ minted(tip - 1)' = minted(tip - 1) /\ Canonical' = Canonical
  BY <1>1 DEF minted, Canonical
<1>. QED
  BY <1>1, <1>5, <1>6, <1>7, <1>8 DEF SentOK

\* A block that is committed was sent as the operations that led to it.
LEMMA CompleteSent ==
  ASSUME ChainInv, SentOK, Complete
  PROVE SentOK'
PROOF
<1> PICK new \in Nat : new = tip + 1
  BY TipVersion, RootTypes
<1>1. /\ CommitBlock /\ request' = ops /\ ops' = <<>> /\ cs # Absent /\ cs' = Absent
  BY DEF Complete, CommitBlock, Commit
<1>2. /\ tip' = new /\ canon'[new].view = pending /\ canon'[tip] = canon[tip]
      /\ BaseNumber \in Nat /\ tip \in Nat /\ BaseNumber <= tip
  BY <1>1, CommitEffect, TipVersion, RootTypes, StoreAssumption
     DEF Number, TypeInv, ChainShape
<1>3. tip' \in Canonical' /\ tip' - 1 = tip
  BY <1>2 DEF Canonical
<1>4. minted(tip - 1)' = minted(tip)
  BY <1>2, <1>3 DEF minted
<1>5. canon'[tip'].view.ents = pending.ents
  BY <1>2
<1>6. ops' \in Seq(AnyOp)
  BY <1>1
<1>. QED
  BY <1>1, <1>2, <1>3, <1>4, <1>5, <1>6 DEF SentOK

\* A step after which no block is in progress and the request is the same.
LEMMA SameSent ==
  ASSUME SentOK, UNCHANGED <<canon, tip, request>>, cs' = Absent, ops' \in Seq(AnyOp)
  PROVE SentOK'
PROOF
<1>1. minted(tip - 1)' = minted(tip - 1) /\ Canonical' = Canonical
  BY DEF minted, Canonical
<1>. QED
  BY <1>1 DEF SentOK

\* The last block sent is opened on top of itself.
LEMMA RedeliverReplay ==
  ASSUME HistoryInv, SentOK, Counted, Redeliver
  PROVE ReplayOK'
PROOF
<1> DEFINE c == newCacheStore(head.root, tip, canon[tip].hash, canon[tip - 1].hash)
           E == canon[tip].view.ents
<1>1. /\ call = Absent /\ request # Absent /\ again' = c /\ done' = 0
      /\ head.root.count + Len(request) <= MaxId
      /\ UNCHANGED <<head, call, canon, tip, request, arkiv_addr>>
  BY DEF Redeliver, vars, envVars, sentVars, dbVars
<1>2. /\ ChainInv /\ TypeInv /\ tip \in Versions /\ head.root = RootAt(tip)
      /\ head.root \in Trie /\ head.root.count \in Nat /\ RootAt(tip).code = E
      /\ request \in Seq(AnyOp) /\ Len(request) \in Nat /\ tip \in Canonical
      /\ tip \in Number
  <2>1. ChainInv /\ ViewsMatch
    BY DEF HistoryInv
  <2>2. request \in Seq(AnyOp) /\ tip \in Canonical
    BY <1>1 DEF SentOK
  <2>. QED
    BY <2>1, <2>2, TipVersion, RootTypes DEF ViewsMatch
<1>3. canon[tip].hash \in Hash /\ canon[tip - 1].hash \in AnyHash
  <2>1. tip - 1 \in Versions /\ tip - 1 \in Number
    BY <1>2, StoreAssumption, BoundsAssumption
       DEF TypeInv, TypeOK, EnvTypeOK, ChainShape, Canonical, Versions, Number
  <2>2. canon[tip - 1] \in Block
    BY <1>2, <2>1 DEF TypeInv, TypeOK, EnvTypeOK, ChainShape, Versions
  <2>. QED
    BY <1>2, <2>2 DEF Block, ChainInv, HashesUnique
<1>4. initSystemAccount(head.root) \in Trie
  BY <1>2 DEF initSystemAccount, Trie
<1>5. c \in CacheStoreRec
  BY <1>2, <1>3, <1>4 DEF newCacheStore, CacheStoreRec
<1>6. /\ c.number = tip /\ c.hash = canon[tip].hash /\ c.parent = canon[tip - 1].hash
      /\ c.state.nonce = 1 /\ c.state.annot = head.root.annot
      /\ c.state.count = head.root.count
      /\ \A a \in Addr : getEntity(c, a) = E[a]
  BY <1>2 DEF newCacheStore, initSystemAccount, Trie, getEntity
<1> HIDE DEF c, E
<1>7. Replayed(c, request, 0, E)
  BY <1>6 DEF Replayed
<1>8. FreshIDs(c, minted(tip - 1))
  <2>1. \A i \in ID : head.root.ids[i] # Absent => i <= head.root.count
    BY <1>2 DEF Counted
  <2>. QED
    BY <1>2, <2>1, OpenFresh DEF c
<1>9. Replayed(again', request', done', canon'[tip'].view.ents)
  BY <1>1, <1>7 DEF E
<1>10. FreshIDs(again, minted(tip - 1))'
  BY <1>1, <1>8 DEF FreshIDs, minted
<1>11. done' \in 0..Len(request') /\ again'.state.count + (Len(request') - done') <= MaxId
  BY <1>1, <1>2, <1>6
<1>. QED
  BY <1>1, <1>5, <1>6, <1>9, <1>10, <1>11 DEF ReplayOK

\* One more operation is applied to it.
LEMMA ReapplyReplay ==
  ASSUME HistoryInv, SentOK, ReplayOK, again # Absent, Reapply
  PROVE ReplayOK'
PROOF
<1> DEFINE op == request[done + 1]
           d == applyOp(again, op)
           E == canon[tip].view.ents
<1>1. /\ again' = d /\ done' = done + 1 /\ done < Len(request) /\ Applicable(again, op)
      /\ UNCHANGED <<head, call, canon, tip, request>>
  BY DEF Reapply, vars, envVars, sentVars
<1>2. /\ again \in CacheStoreRec /\ request \in Seq(AnyOp) /\ Len(request) \in Nat
      /\ again.number = tip /\ E \in [Addr -> {Absent} \cup EntityRec]
      /\ TypeInv /\ DbTypeOK
  BY ReplayState
<1>3. /\ done \in 0..Len(request) /\ again.state.count + (Len(request) - done) <= MaxId
      /\ Replayed(again, request, done, E) /\ FreshIDs(again, minted(tip - 1))
      /\ LedTo(request, E, tip) /\ CreatesNew(request, minted(tip - 1))
      /\ call = Absent /\ request # Absent
  BY DEF ReplayOK, SentOK
<1>4. done \in Nat /\ done + 1 \in 1..Len(request) /\ op \in AnyOp
  BY <1>1, <1>2, <1>3
<1>5. /\ again.state.count \in Nat /\ MaxId \in Nat /\ again.state.count < MaxId
  <2>1. again.state.count \in Nat
    BY <1>2 DEF CacheStoreRec, Trie
  <2>. QED
    BY <1>1, <1>2, <1>3, <1>4, <2>1, BoundsAssumption
<1>6. op.type = "create" => op.addr \notin minted(tip - 1)
  BY <1>3, <1>4 DEF CreatesNew
<1>7. Replayed(d, request, done + 1, E)
  BY <1>1, <1>2, <1>3, <1>4, ReplayStep
<1>8. /\ FreshIDs(d, minted(tip - 1)) /\ d.state.count \in Nat
      /\ d.state.count <= again.state.count + 1
  BY <1>1, <1>2, <1>3, <1>4, <1>5, <1>6, ReapplyFresh
<1>9. /\ d \in CacheStoreRec /\ d.number = again.number /\ d.hash = again.hash
      /\ d.parent = again.parent /\ d.state.nonce = again.state.nonce
      /\ d.state.annot = again.state.annot
  BY <1>1, <1>2, <1>4, <1>5, ReapplyHeader
<1>10. done + 1 \in 0..Len(request) /\ d.state.count + (Len(request) - (done + 1)) <= MaxId
  <2> DEFINE x == d.state.count
             y == again.state.count
  <2>1. x \in Nat /\ y \in Nat /\ x <= y + 1 /\ y + (Len(request) - done) <= MaxId
    BY <1>3, <1>5, <1>8
  <2> HIDE DEF x, y
  <2>2. x + (Len(request) - (done + 1)) <= MaxId
    BY <1>2, <1>4, <1>5, <2>1
  <2>. QED
    BY <1>2, <1>4, <2>2 DEF x
<1> HIDE DEF d, E
<1>11. Replayed(again', request', done', canon'[tip'].view.ents)
  BY <1>1, <1>7 DEF E
<1>12. FreshIDs(again, minted(tip - 1))'
  BY <1>1, <1>8 DEF FreshIDs, minted
<1>13. done' \in 0..Len(request') /\ again'.state.count + (Len(request') - done') <= MaxId
  BY <1>1, <1>10
<1>14. /\ again' \in CacheStoreRec /\ call' = Absent /\ request' # Absent
       /\ again'.number = tip' /\ again'.hash = canon'[tip'].hash
       /\ again'.parent = canon'[tip' - 1].hash
       /\ again'.state.nonce = 1 /\ again'.state.annot = head'.root.annot
  BY <1>1, <1>3, <1>9 DEF ReplayOK
<1>. QED
  BY <1>11, <1>12, <1>13, <1>14 DEF ReplayOK

\* Nothing has been sent, so nothing has been repeated.
LEMMA InitDelivery == DeliveryInit => DeliveryInv
PROOF
<1> SUFFICES ASSUME DeliveryInit PROVE DeliveryInv
  OBVIOUS
<1>1. /\ Init /\ ops = <<>> /\ request = Absent /\ repeated = {} /\ again = Absent
      /\ cs = Absent
  BY DEF DeliveryInit, Init
<1>2. HistoryInv /\ BitmapInv
  BY <1>1, InitHistory, InitBitmaps
<1>3. SentOK
  BY <1>1 DEF SentOK
<1>4. ReplayOK
  BY <1>1 DEF ReplayOK
<1>. QED
  BY <1>1, <1>2, <1>3, <1>4, ExactIsClean DEF DeliveryInv

\* The invariant of the IDs when the store is left alone and the step is one
\* of the store's.
LEMMA QuietDelivery ==
  ASSUME DeliveryInv, [Next]_vars, UNCHANGED <<dbVars, head, canon, tip, repeated>>,
         cs' # Absent => FreshIDs(cs, minted(tip))',
         SentOK', ReplayOK'
  PROVE DeliveryInv'
PROOF
<1>1. HistoryInv' /\ (repeated' = {} => BitmapInv')
  BY NextHistory, NextBitmaps DEF DeliveryInv
<1>2. ChainGrows' /\ Counted' /\ CleanBelow'
  BY SameStoreClean DEF DeliveryInv
<1>3. repeated' \subseteq Canonical'
  BY DEF DeliveryInv, Canonical
<1>. QED
  BY <1>1, <1>2, <1>3 DEF DeliveryInv

\* The requests of the store while no block is repeated.
LEMMA SendDelivery ==
  ASSUME DeliveryInv, again = Absent, UNCHANGED replayVars,
         Open \/ Operate \/ Complete \/ GoBack \/ Others
  PROVE DeliveryInv'
PROOF
<1>1. /\ HistoryInv /\ ChainInv /\ TypeInv /\ SentOK /\ Counted /\ ReplayOK'
      /\ tip \in Versions /\ head.root = RootAt(tip) /\ ops \in Seq(AnyOp)
  BY TipVersion DEF DeliveryInv, HistoryInv, ReplayOK, replayVars, SentOK
<1>2. [Next]_vars
  BY StoreSteps
<1>3. HistoryInv'
  BY <1>1, <1>2, NextHistory
<1>4. CASE Open
  <2>1. PICK h \in Hash : BeginBlock(h)
    BY <1>4 DEF Open
  <2>2. /\ ops' = <<>> /\ UNCHANGED <<request, repeated, dbVars, head, canon, tip>>
        /\ cs' = newCacheStore(head.root, tip + 1, h, canon[tip].hash)
        /\ pending' = canon[tip].view
    BY <1>4, <2>1 DEF Open, BeginBlock
  <2>3. SentOK'
    <3>1. /\ minted(tip)' = minted(tip) /\ minted(tip - 1)' = minted(tip - 1)
          /\ Canonical' = Canonical /\ minted(tip) = pending'.minted
      BY <2>2 DEF minted, Canonical
    <3>2. ops' \in Seq(AnyOp) /\ 1..Len(ops') = {}
      BY <2>2
    <3>3. /\ LedTo(ops', pending'.ents, tip' + 1) /\ CreatesNew(ops', minted(tip)')
      BY <3>2 DEF LedTo, Lives, Holds, CreatesNew
    <3>. QED
      BY <1>1, <2>2, <3>1, <3>2, <3>3 DEF SentOK
  <2>4. FreshIDs(cs, minted(tip))'
    <3>1. \A i \in ID : head.root.ids[i] # Absent => i <= head.root.count
      BY <1>1 DEF Counted
    <3>2. FreshIDs(cs', minted(tip))
      BY <1>1, <2>2, <3>1, OpenFresh
    <3>. QED
      BY <2>2, <3>2 DEF FreshIDs, minted
  <2>. QED
    BY <1>1, <1>2, <2>2, <2>3, <2>4, QuietDelivery
<1>5. CASE Operate
  <2>1. SentOK'
    BY <1>1, <1>5, OperateSent
  <2>2. PICK op \in AnyOp :
          /\ cs # Absent /\ cs \in CacheStoreRec /\ ContractAllows(op) /\ Applicable(cs, op)
          /\ op.type = "create" => cs.state.count < MaxId
          /\ cs' = applyOp(cs, op)
          /\ UNCHANGED <<dbVars, head, canon, tip, repeated>>
    BY <1>1, <1>5, OperateEffect
  <2>3. op.type = "create" => op.addr \notin minted(tip)
    BY <1>1, <2>2 DEF ContractAllows, SentOK
  <2>4. FreshIDs(cs', minted(tip))
    BY <1>1, <2>2, <2>3, ReapplyFresh DEF Counted
  <2>5. FreshIDs(cs, minted(tip))'
    BY <2>2, <2>4 DEF FreshIDs, minted
  <2>. QED
    BY <1>1, <1>2, <2>1, <2>2, <2>5, QuietDelivery
<1>6. CASE Complete
  <2>1. CommitBlock /\ UNCHANGED repeated
    BY <1>6 DEF Complete
  <2>2. SentOK'
    BY <1>1, <1>6, CompleteSent
  <2>3. cs # Absent => minted(tip) \subseteq pending.minted
    BY <1>1 DEF SentOK
  <2>4. /\ ChainGrows' /\ Counted' /\ CleanBelow' /\ repeated' \subseteq Canonical'
        /\ repeated' = {} => BitmapInv'
    BY <2>1, <2>3, CompleteClean DEF DeliveryInv
  <2>. QED
    BY <1>1, <1>3, <2>2, <2>4 DEF DeliveryInv
<1>7. CASE GoBack
  <2>1. PICK oldest \in Canonical : call = Absent /\ revertToAncestor(oldest)
    BY <1>7 DEF GoBack, Revert, Reorg
  <2>2. request' = Absent /\ repeated' = {n \in repeated : n <= tip'} /\ UNCHANGED ops
    BY <1>7 DEF GoBack
  <2>3. cs' = Absent
    BY <1>1, <2>1, RevertEffect
  <2>4. SentOK'
    BY <1>1, <2>2, <2>3 DEF SentOK
  <2>5. /\ ChainGrows' /\ Counted' /\ CleanBelow' /\ repeated' \subseteq Canonical'
        /\ repeated' = {} => BitmapInv'
    BY <1>3, <2>1, <2>2, RevertClean DEF DeliveryInv
  <2>. QED
    BY <1>1, <1>3, <2>4, <2>5 DEF DeliveryInv
<1>8. CASE Others
  <2>1. UNCHANGED <<dbVars, head, canon, tip, request, repeated>> /\ cs' = Absent
    <3>1. CASE IOFails
      BY <1>8, <3>1 DEF Others, IOFails, AbortCall, Discard
    <3>2. CASE Restart
      BY <1>1, <1>8, <3>2 DEF Others, Restart, ChainInv, HeadIsTip
    <3>3. CASE \E k \in 1..MaxBatch : CommitChain(k)
      BY <1>1, <1>8, <3>3 DEF Others, CommitChain, envVars, TypeInv, TypeOK
    <3>. QED
      BY <1>8, <3>1, <3>2, <3>3 DEF Others
  <2>2. ops' \in Seq(AnyOp)
    BY <1>8 DEF Others
  <2>3. SentOK'
    BY <1>1, <2>1, <2>2, SameSent
  <2>. QED
    BY <1>1, <1>2, <2>1, <2>3, QuietDelivery
<1>. QED
  BY <1>4, <1>5, <1>6, <1>7, <1>8

\* Every step keeps the invariant.
LEMMA NextDelivery ==
  DeliveryInv /\ [DeliveryNext]_<<vars, deliveryVars>> => DeliveryInv'
PROOF
<1> SUFFICES ASSUME DeliveryInv, [DeliveryNext]_<<vars, deliveryVars>>
             PROVE DeliveryInv'
  OBVIOUS
<1>1. /\ HistoryInv /\ ChainInv /\ TypeInv /\ SentOK /\ ReplayOK /\ Counted
      /\ ops \in Seq(AnyOp)
  BY DEF DeliveryInv, HistoryInv, ChainInv, SentOK
<1>2. CASE again = Absent /\ UNCHANGED replayVars
             /\ (Open \/ Operate \/ Complete \/ GoBack \/ Others)
  BY <1>2, SendDelivery
<1>3. CASE again = Absent /\ Redeliver
  <2>1. /\ UNCHANGED <<dbVars, cs, head, canon, tip, ops, request, repeated>> /\ cs = Absent
    BY <1>1, <1>3 DEF Redeliver, vars, envVars, sentVars, TypeInv, TypeOK
  <2>2. SentOK'
    BY <1>1, <2>1, SameSent
  <2>3. ReplayOK'
    BY <1>1, <1>3, RedeliverReplay
  <2>4. [Next]_vars
    BY <1>3, StoreSteps
  <2>. QED
    BY <2>1, <2>2, <2>3, <2>4, QuietDelivery
<1>4. CASE again # Absent /\ Reapply
  <2>1. /\ UNCHANGED <<dbVars, cs, head, canon, tip, ops, request, repeated>> /\ cs = Absent
    BY <1>1, <1>4, ReplayState DEF Reapply, vars, envVars, sentVars
  <2>2. SentOK'
    BY <1>1, <2>1, SameSent
  <2>3. ReplayOK'
    BY <1>1, <1>4, ReapplyReplay
  <2>4. [Next]_vars
    BY <1>4, StoreSteps
  <2>. QED
    BY <2>1, <2>2, <2>3, <2>4, QuietDelivery
<1>5. CASE again # Absent /\ Recommit
  <2>1. /\ UNCHANGED <<canon, tip, request>> /\ cs' = Absent /\ again' = Absent
        /\ UNCHANGED ops
    BY <1>1, <1>5, RecommitEffect DEF Recommit
  <2>2. SentOK' /\ ReplayOK'
    BY <1>1, <2>1, SameSent DEF ReplayOK
  <2>3. HistoryInv'
    BY <1>1, <1>5, RecommitHistory
  <2>4. /\ ChainGrows' /\ Counted' /\ CleanBelow' /\ repeated' \subseteq Canonical'
        /\ repeated' # {}
    BY <1>1, <1>5, RecommitClean DEF DeliveryInv
  <2>. QED
    BY <2>2, <2>3, <2>4 DEF DeliveryInv
<1>6. CASE again # Absent /\ Abandon
  <2>1. /\ UNCHANGED <<dbVars, head, canon, tip, ops, request, repeated>> /\ cs' = Absent
        /\ again' = Absent
    BY <1>1, <1>6, ReplayState
       DEF Abandon, Restart, vars, envVars, sentVars, ChainInv, HeadIsTip
  <2>2. SentOK' /\ ReplayOK'
    BY <1>1, <2>1, SameSent DEF ReplayOK
  <2>3. [Next]_vars
    BY <1>6, StoreSteps
  <2>. QED
    BY <2>1, <2>2, <2>3, QuietDelivery
<1>7. CASE UNCHANGED <<vars, deliveryVars>>
  <2>1. UNCHANGED <<dbVars, cs, head, call, canon, tip, pending, ops, request, repeated, again, done>>
    BY <1>7 DEF vars, envVars, deliveryVars, sentVars, replayVars
  <2>2. SentOK'
    BY <1>1, <2>1 DEF SentOK, minted, Canonical
  <2>3. ReplayOK'
    BY <1>1, <2>1 DEF ReplayOK, minted, FreshIDs
  <2>4. cs' # Absent => FreshIDs(cs, minted(tip))'
    BY <1>1, <2>1 DEF Counted, FreshIDs, minted
  <2>5. [Next]_vars
    BY <1>7
  <2>. QED
    BY <2>1, <2>2, <2>3, <2>4, <2>5, QuietDelivery
<1>. QED
  BY <1>2, <1>3, <1>4, <1>5, <1>6, <1>7 DEF DeliveryNext

\* The invariant holds in every state, however often blocks are repeated.
THEOREM DeliveryInvariant == DeliverySpec => []DeliveryInv
PROOF
  BY InitDelivery, NextDelivery, PTL DEF DeliverySpec

\* A block that is processed again, on top of itself and any number of times,
\* changes no entity of any block a reader can ask for, nor the head or the
\* block index, whether the repetition is carried out, is rejected, or dies.
THEOREM RepetitionAlwaysHarmless == DeliverySpec => []RepetitionHarmless
PROOF
<1>1. DeliveryInv => RepetitionHarmless
  BY FaithfulReads DEF DeliveryInv, HistoryInv, ChainInv, RepetitionHarmless
<1>. QED
  BY <1>1, DeliveryInvariant, PTL

\* In a state where the index is exact, every live entity is counted once.
LEMMA CountIsLive ==
  ASSUME IndexExact, TypeInv
  PROVE GetEntityCount = Cardinality(Live)
PROOF
<1> DEFINE t == openStateAt(0)
           f == [i \in AllEntities(0) |-> t.ids[i]]
<1>1. 0 \in Readable /\ AllEntities(0) \subseteq ID
  BY DEF Readable, IndexExact, ExactAt, AllEntities, Pair, BuiltinPair
<1>2. /\ {t.ids[i] : i \in AllEntities(0)} = Live
      /\ \A i, j \in AllEntities(0) : t.ids[i] = t.ids[j] => i = j
  BY <1>1 DEF IndexExact, ExactAt, Live
<1>3. IsFiniteSet(AllEntities(0))
  <2>1. MaxId \in Nat /\ AllEntities(0) \in SUBSET Nat /\ \A i \in AllEntities(0) : i <= MaxId
    BY <1>1, BoundsAssumption DEF ID
  <2>. QED
    BY <2>1, FS_BoundedSetOfNaturals
<1> HIDE DEF t
<1>4. f \in Bijection(AllEntities(0), Live)
  <2>1. f \in [AllEntities(0) -> Live] /\ IsInjective(f)
    BY <1>2 DEF IsInjective
  <2>2. \A a \in Live : \E i \in AllEntities(0) : f[i] = a
    BY <1>2
  <2>. QED
    BY <2>1, <2>2 DEF Bijection, Injection, Surjection
<1>5. ExistsBijection(AllEntities(0), Live)
  BY <1>4 DEF ExistsBijection
<1>. QED
  BY <1>3, <1>5, FS_Bijection DEF GetEntityCount

\* What is read at a canonical block below the repeated ones.
LEMMA CleanReads ==
  ASSUME DeliveryInv, NEW n \in Canonical, \A m \in repeated : n < m
  PROVE /\ n \in Clean /\ openStateAt(n) = RootAt(n)
        /\ \A p \in Pair : ReadAnnotBitmap(n, p) = carriersAt(RootAt(n), p)
        /\ AllEntities(n) = {i \in ID : RootAt(n).ids[i] # Absent}
        /\ RootAt(n).code = Entities(n) /\ RootAt(n).ids \in [ID -> {Absent} \cup Addr]
PROOF
<1> DEFINE t == RootAt(n)
<1>1. ChainInv /\ TypeInv /\ ViewsMatch /\ CleanBitmaps
  BY DEF DeliveryInv, HistoryInv, ChainInv, CleanBelow
<1>2. n \in Readable /\ n # 0
  BY <1>1, StoreAssumption, BoundsAssumption
     DEF TypeInv, TypeOK, EnvTypeOK, Number, Canonical, Readable
<1>3. n \in Versions /\ openStateAt(n) = t /\ t \in Trie
  BY <1>1, <1>2, ReadableState
<1>4. n \in Clean
  BY <1>3 DEF Clean
<1>5. t.code = Entities(n) /\ t.ids \in [ID -> {Absent} \cup Addr]
  BY <1>1, <1>2, <1>3 DEF ViewsMatch, Entities, Trie
<1>6. Absent \notin arkiv_bm
  BY <1>1, AbsentAssumption DEF TypeInv, TypeOK, DbTypeOK
<1> HIDE DEF t
<1>7. \A p \in Pair : ReadAnnotBitmap(n, p) = carriersAt(t, p)
  <2> SUFFICES ASSUME NEW p \in Pair PROVE ReadAnnotBitmap(n, p) = carriersAt(t, p)
    OBVIOUS
  <2>1. /\ t.annot[p] # Absent => t.annot[p] \in arkiv_bm
        /\ bitmapAt(t, p) = carriersAt(t, p)
    BY <1>1, <1>4 DEF CleanBitmaps, t
  <2>2. ReadAnnotBitmap(n, p) = bitmapAt(t, p)
    BY <1>3, <1>6, <2>1 DEF ReadAnnotBitmap, bitmapAt
  <2>. QED
    BY <2>1, <2>2
<1>8. AllEntities(n) = {i \in ID : t.ids[i] # Absent}
  <2>1. <<"$all", "true">> \in Pair
    BY DEF Pair, BuiltinPair
  <2>2. carriersAt(t, <<"$all", "true">>) = {i \in ID : t.ids[i] # Absent}
    BY DEF carriersAt, allAnnotations, builtinAnnotations
  <2>. QED
    BY <1>7, <2>1, <2>2 DEF AllEntities
<1>. QED
  BY <1>3, <1>4, <1>5, <1>7, <1>8 DEF t

\* There the whole index is exact ...
LEMMA CleanExact ==
  ASSUME DeliveryInv, NEW n \in Canonical, \A m \in repeated : n < m
  PROVE ExactAt(n)
PROOF
<1> DEFINE t == RootAt(n)
<1>1. /\ n \in Clean /\ openStateAt(n) = t
      /\ \A p \in Pair : ReadAnnotBitmap(n, p) = carriersAt(t, p)
      /\ AllEntities(n) = {i \in ID : t.ids[i] # Absent}
      /\ t.code = Entities(n) /\ t.ids \in [ID -> {Absent} \cup Addr]
  BY CleanReads
<1>2. /\ \A a \in Addr : t.code[a] # Absent <=> \E i \in ID : t.ids[i] = a
      /\ \A i, j \in ID : t.ids[i] # Absent /\ t.ids[i] = t.ids[j] => i = j
  BY <1>1 DEF DeliveryInv, CleanBelow, CleanSlots
<1> HIDE DEF t
<1>3. \A p \in Pair : ReadAnnotBitmap(n, p) =
        {i \in ID : t.ids[i] # Absent /\ p \in allAnnotations(Entities(n)[t.ids[i]])}
  BY <1>1 DEF carriersAt
<1>4. {t.ids[i] : i \in AllEntities(n)} = {a \in Addr : Entities(n)[a] # Absent}
  <2>1. \A i \in AllEntities(n) : t.ids[i] \in Addr
    BY <1>1
  <2>2. \A a \in Addr : (\E i \in ID : t.ids[i] = a) <=> \E i \in AllEntities(n) : t.ids[i] = a
    BY <1>1, AbsentAssumption
  <2>. QED
    BY <1>1, <1>2, <2>1, <2>2
<1>5. \A i, j \in AllEntities(n) : t.ids[i] = t.ids[j] => i = j
  BY <1>1, <1>2
<1>. QED
  BY <1>1, <1>3, <1>4, <1>5 DEF ExactAt

\* ... and the ID maps, which repetitions overwrite, do not contradict it.
LEMMA CleanResolves ==
  ASSUME DeliveryInv, NEW n \in Canonical, \A m \in repeated : n < m
  PROVE ResolvesAt(n)
PROOF
<1> DEFINE t == RootAt(n)
<1>1. /\ n \in Clean /\ openStateAt(n) = t
      /\ AllEntities(n) = {i \in ID : t.ids[i] # Absent}
  BY CleanReads
<1>2. /\ \A a \in Addr : t.code[a] # Absent <=> \E i \in ID : t.ids[i] = a
      /\ \A i, j \in ID : arkiv_id[i] # Absent /\ t.ids[j] # Absent
                            => (arkiv_id[i] = t.ids[j] <=> i = j)
  BY <1>1 DEF DeliveryInv, CleanBelow, CleanSlots, CleanMaps
<1>3. arkiv_addr \in [Addr -> {Absent} \cup ID]
  BY DEF DeliveryInv, HistoryInv, ChainInv, TypeInv, TypeOK, DbTypeOK
<1>4. \A i \in ID, a \in Addr : arkiv_addr[a] = i => arkiv_id[i] = a
  BY DEF DeliveryInv, Counted
<1> HIDE DEF t
<1>5. \A i \in AllEntities(n) : IDToAddress(i) \in {Absent, t.ids[i]}
  BY <1>1, <1>2 DEF IDToAddress
<1>6. ASSUME NEW a \in Addr, GetEntity(n, a) # Absent, arkiv_addr[a] # Absent
      PROVE t.ids[arkiv_addr[a]] = a
  <2>1. t.code[a] # Absent /\ a # Absent
    BY <1>1, <1>6, AbsentAssumption DEF GetEntity
  <2>2. PICK i \in ID : t.ids[i] = a
    BY <1>2, <2>1
  <2>3. arkiv_addr[a] \in ID /\ arkiv_id[arkiv_addr[a]] = a
    BY <1>3, <1>4, <1>6
  <2>4. arkiv_addr[a] = i
    BY <1>2, <2>1, <2>2, <2>3
  <2>. QED
    BY <2>2, <2>4
<1>. QED
  BY <1>1, <1>5, <1>6 DEF ResolvesAt

\* However often blocks are repeated, at every block below them each bitmap is
\* exact, each live entity has one ID and the ID maps do not contradict it; once
\* every repeated block is reverted, this holds of the whole store, the maps
\* are inverse, and arkiv_getEntityCount counts each live entity once.
THEOREM RevertAlwaysHeals == DeliverySpec => []RevertHeals
PROOF
<1>1. ASSUME DeliveryInv, repeated = {}
      PROVE IndexExact /\ ResolveSound /\ IDMapsAgree /\ GetEntityCount = Cardinality(Live)
  <2>1. BitmapInv /\ IDInv /\ TypeInv
    BY <1>1 DEF DeliveryInv, BitmapInv, HistoryInv, ChainInv
  <2>2. IndexExact /\ ResolveSound /\ IDMapsAgree
    BY <2>1, ExactReads, SoundReads, AgreeingMaps
  <2>. QED
    BY <2>1, <2>2, CountIsLive
<1>2. DeliveryInv => RevertHeals
  BY <1>1, CleanExact, CleanResolves DEF RevertHeals
<1>. QED
  BY <1>2, DeliveryInvariant, PTL
=============================================================================
