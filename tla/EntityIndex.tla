----------------------------- MODULE EntityIndex ----------------------------
(***************************************************************************)
(* What the store promises, without tries, bitmaps, caches or batches: a   *)
(* stack of versions of the entity map, one per block.  A block is drafted *)
(* on top of the latest version, one entity changing at a time, and is     *)
(* either sealed as a whole or dropped as a whole.  Versions below the top *)
(* never change; truncating the stack brings an earlier one back exactly.  *)
(***************************************************************************)
EXTENDS Naturals

CONSTANTS
  Key,       \* entity addresses
  Value,     \* entity blobs
  Version,   \* version numbers
  Base,      \* the version before the first block
  Nothing    \* no entity, no version, no draft

VARIABLES
  versions,  \* number -> entity map of every sealed version
  top,       \* number of the latest version
  draft      \* the entity map of the block being built, or Nothing

vars == <<versions, top, draft>>

EntityMap == [Key -> {Nothing} \cup Value]

Init ==
  /\ versions = [n \in Version |-> IF n = Base THEN [k \in Key |-> Nothing] ELSE Nothing]
  /\ top = Base
  /\ draft = Nothing

Open ==
  /\ draft = Nothing
  /\ draft' = versions[top]
  /\ UNCHANGED <<versions, top>>

Change(k, v) ==
  /\ draft # Nothing
  /\ draft' = [draft EXCEPT ![k] = v]
  /\ UNCHANGED <<versions, top>>

Seal ==
  /\ draft # Nothing
  /\ versions' = [versions EXCEPT ![top + 1] = draft]
  /\ top' = top + 1
  /\ draft' = Nothing

Drop ==
  /\ draft' = Nothing
  /\ UNCHANGED <<versions, top>>

Truncate(n) ==
  /\ draft = Nothing
  /\ versions' = [m \in Version |-> IF m > n THEN Nothing ELSE versions[m]]
  /\ top' = n
  /\ UNCHANGED draft

Next ==
  \/ Open
  \/ \E k \in Key, v \in {Nothing} \cup Value : Change(k, v)
  \/ Seal
  \/ Drop
  \/ \E n \in Base..top : Truncate(n)

Spec == Init /\ [][Next]_vars
=============================================================================
