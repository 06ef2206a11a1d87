---------------------------- MODULE HandleTable ----------------------------
(***************************************************************************)
(* What a DataArray promises its users: a bounded set of live handles, no   *)
(* two for one slot, whose number the pool knows. A new item gets a slot    *)
(* that is not in use; an item keeps its handle until it is freed; a saved  *)
(* pool comes back with the handles it had.                                 *)
(***************************************************************************)
EXTENDS Integers, FiniteSets

CONSTANTS Slots, Keys

VARIABLES
  live,   \* the handles of the items alive
  size,   \* how many the pool says there are
  kept    \* the live handles of the saved pool

vars == <<live, size, kept>>

Handle == [key : Keys, index : Slots]

Init ==
  /\ live = {}
  /\ size = 0
  /\ kept = {}

Issue ==
  \E h \in Handle :
    /\ \A g \in live : g.index # h.index
    /\ live' = live \union {h}
    /\ size' = Cardinality(live')
    /\ UNCHANGED kept

Release ==
  \E h \in live :
    /\ live' = live \ {h}
    /\ size' = Cardinality(live')
    /\ UNCHANGED kept

Clear == live' = {} /\ size' = 0 /\ UNCHANGED kept

Keep == kept' = live /\ UNCHANGED <<live, size>>

Restore ==
  /\ live' = kept
  /\ size' = Cardinality(kept)
  /\ UNCHANGED kept

Next == Issue \/ Release \/ Clear \/ Keep \/ Restore

Spec == Init /\ [][Next]_vars
=============================================================================
