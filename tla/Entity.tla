------------------------------- MODULE Entity -------------------------------
(***************************************************************************)
(* The data of the store: entities, the annotation pairs they are indexed  *)
(* under, roaring bitmaps, and the account trie with its system account    *)
(* (store/entity.go, store/ops.go, store/system.go).                       *)
(*                                                                         *)
(* A content hash is modelled by the content it is the hash of: a bitmap   *)
(* hash is the bitmap, a state root is the state.  keccak256 is taken to   *)
(* be injective; that a pre-image can be *found* is never assumed, it is   *)
(* membership in the blob store or in the set of persisted trie nodes.     *)
(***************************************************************************)
EXTENDS Naturals

CONSTANTS
  Addr,          \* entity addresses, EntityKey[:20] (stands for the key too)
  Owner,         \* owner addresses
  Sender,        \* transaction senders: creator, tx index and op index
  Content,       \* payload, content type and attributes of an entity
  ContentPairs,  \* the pairs a content is indexed under, by content
  Expiry,        \* expiration block numbers
  MaxNumber,     \* bound: largest block number
  MaxId,         \* bound: largest entity ID
  Absent         \* a missing key, a zero slot, a nil pointer

Number == 0..MaxNumber
ID == 1..MaxId

UserPair == UNION {ContentPairs[c] : c \in Content}

BuiltinPair ==
  {<<"$all", "true">>}
    \cup ({"$creator"} \X Sender)
    \cup ({"$createdAtBlock", "$lastModifiedAtBlock"} \X Number)
    \cup ({"$owner"} \X Owner)
    \cup ({"$key"} \X Addr)
    \cup ({"$expiration"} \X Expiry)

\* An annotation pair (key, val) of the inverted index.
Pair == BuiltinPair \cup UserPair

\* A roaring64 bitmap of entity IDs.
Bitmap == SUBSET ID

\* The entity blob kept as the code of the entity's account.
EntityRec ==
  [owner : Owner, creator : Sender, expiresAt : Expiry, createdAt : Number,
   lastModified : Number, content : Content, key : Addr]

builtinAnnotations(e) ==
  {<<"$all", "true">>, <<"$creator", e.creator>>,
   <<"$createdAtBlock", e.createdAt>>, <<"$lastModifiedAtBlock", e.lastModified>>,
   <<"$owner", e.owner>>, <<"$key", e.key>>, <<"$expiration", e.expiresAt>>}

\* The $contentType pair and the user attributes, as applyAttributes built them.
userAnnotations(e) == ContentPairs[e.content]

allAnnotations(e) == builtinAnnotations(e) \cup userAnnotations(e)

(***************************************************************************)
(* The account trie at one state root.  The system account holds the       *)
(* entity counter, one bitmap hash per pair and one address per live ID;   *)
(* an entity account holds the entity as its code.                         *)
(***************************************************************************)
Trie ==
  [nonce : {0, 1}, count : 0..MaxId, annot : [Pair -> {Absent} \cup Bitmap],
   ids : [ID -> {Absent} \cup Addr], code : [Addr -> {Absent} \cup EntityRec]]

NoEntities == [a \in Addr |-> Absent]

\* The state behind ethtypes.EmptyRootHash.
EmptyTrie ==
  [nonce |-> 0, count |-> 0, annot |-> [p \in Pair |-> Absent],
   ids |-> [i \in ID |-> Absent], code |-> NoEntities]

(***************************************************************************)
(* User attribute names do not start with "$" (the query language's        *)
(* AnnotationIdentRegex), so only $contentType is shared with built-ins.   *)
(***************************************************************************)
ASSUME ContentAssumption ==
  /\ \A c \in Content : \A p \in ContentPairs[c] :
       \A k \in {"$all", "$creator", "$createdAtBlock", "$lastModifiedAtBlock",
                 "$owner", "$key", "$expiration"} : p[1] # k

ASSUME BoundsAssumption == MaxNumber \in Nat /\ MaxId \in Nat

ASSUME AbsentAssumption ==
  /\ Absent \notin Addr /\ Absent \notin ID
  /\ \A b \in Bitmap : b # Absent
  /\ Absent \notin EntityRec /\ Absent \notin Trie
  /\ Absent \notin [Addr -> {Absent} \cup EntityRec]
=============================================================================
