---------------------------- MODULE IndexedChain ----------------------------
(***************************************************************************)
(* What the readers of the store can see of its writers, without           *)
(* operations, caches or bitmaps: a stack of indexed versions, one per     *)
(* block, the map from IDs to keys beside it, and the write lock.          *)
(*                                                                         *)
(* A block is sealed in one step under the lock.  ProcessBlock holds the   *)
(* lock for one block, Reorg from its truncation to its last block.  The   *)
(* map from IDs to keys is not versioned: a truncation only deletes from   *)
(* it, and IDs above the count of the version below are issued again.      *)
(***************************************************************************)
EXTENDS Naturals

CONSTANTS
  Key,       \* entity addresses
  Value,     \* entity blobs
  Name,      \* block hashes
  BaseName,  \* hash of the block before the first one
  Version,   \* block numbers
  Base,      \* the number before the first block
  Id,        \* entity IDs, from 1 on
  Nothing    \* no entity, no key, no version

VARIABLES
  chain,  \* number -> the version of that block
  top,    \* number of the latest version
  idmap,  \* ID -> key
  lock    \* "free", "block" or "reorg"

chainVars == <<chain, top, idmap, lock>>

Sealed == Base + 1 .. top

\* A version: the block's hash, its entities, the IDs of the live ones, the
\* number of IDs issued and the keys ever used on this branch.
EmptyVersion ==
  [name |-> BaseName, ents |-> [k \in Key |-> Nothing], ids |-> [i \in Id |-> Nothing],
   count |-> 0, used |-> {}]

Init ==
  /\ chain = [n \in Version |-> IF n = Base THEN EmptyVersion ELSE Nothing]
  /\ top = Base
  /\ idmap = [i \in Id |-> Nothing]
  /\ lock = "free"

(***************************************************************************)
(* A block: new keys get the next IDs, some entities go, the others take   *)
(* any value.                                                              *)
(***************************************************************************)
\* The new keys of a block by the IDs they get, in order.
Births(v) ==
  UNION {{b \in [v.count + 1 .. n -> Key \ v.used] : \A i, j \in DOMAIN b : b[i] = b[j] => i = j}
           : n \in {v.count} \cup {i \in Id : i > v.count}}

IssuedBy(v, born, i) == IF i \in DOMAIN born THEN born[i] ELSE v.ids[i]

\* The version a block makes of v, where `gone` are the IDs deleted in it.
NextVersion(v, name, born, gone, vals) ==
  LET ids == [i \in Id |-> IF i \in gone THEN Nothing ELSE IssuedBy(v, born, i)]
  IN [name |-> name, ids |-> ids,
      ents |-> [k \in Key |-> IF \E i \in Id : ids[i] = k THEN vals[k] ELSE Nothing],
      count |-> IF DOMAIN born = {} THEN v.count
                ELSE CHOOSE i \in DOMAIN born : \A j \in DOMAIN born : j <= i,
      used |-> v.used \cup {born[i] : i \in DOMAIN born}]

Seal ==
  /\ lock # "free" /\ top + 1 \in Version
  /\ top' = top + 1
  /\ lock' \in IF lock = "block" THEN {"free"} ELSE {"free", "reorg"}
  /\ \E born \in Births(chain[top]) :
       LET issued == {i \in Id : IssuedBy(chain[top], born, i) # Nothing}
       IN /\ idmap' = [i \in Id |-> IF i \in DOMAIN born THEN born[i] ELSE idmap[i]]
          /\ \E gone \in SUBSET issued, name \in Name \ {chain[n].name : n \in Sealed} :
             \E vals \in [{IssuedBy(chain[top], born, i) : i \in issued \ gone} -> Value] :
               chain' = [chain EXCEPT ![top + 1] =
                           NextVersion(chain[top], name, born, gone, vals)]

(***************************************************************************)
(* The lock, and going back.                                               *)
(***************************************************************************)
Acquire ==
  /\ lock = "free"
  /\ lock' = "block"
  /\ UNCHANGED <<chain, top, idmap>>

\* The block fails or the process restarts.
Release ==
  /\ lock # "free"
  /\ lock' = "free"
  /\ UNCHANGED <<chain, top, idmap>>

Truncate(n, held) ==
  /\ lock = "free"
  /\ chain' = [m \in Version |-> IF m > n THEN Nothing ELSE chain[m]]
  /\ top' = n
  /\ idmap' = [i \in Id |-> IF chain[n].ids[i] = Nothing THEN Nothing ELSE idmap[i]]
  /\ lock' = held

ChainNext ==
  \/ Acquire
  \/ Seal
  \/ Release
  \/ \E n \in Base .. top, held \in {"free", "reorg"} : n < top /\ Truncate(n, held)

ChainSpec == Init /\ [][ChainNext]_chainVars
=============================================================================
