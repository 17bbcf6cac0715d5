--------------------------- MODULE NormBlockWindow ---------------------------
(***************************************************************************)
(* Abstract specification of what a NormBlockBuffer promises its caller   *)
(* (spec 3, 4.4 and testable property 3): the caller inserts blocks while *)
(* their ids stay within a span of RangeMax and removes blocks it finds,  *)
(* and at every point Find succeeds for exactly the blocks inserted and   *)
(* not yet removed.                                                       *)
(***************************************************************************)
EXTENDS Integers, FiniteSets

CONSTANTS IdBits, RangeMax, MaxBlocks

VARIABLES
  live,      \* the blocks inserted and not yet removed
  found      \* the ids a Find call succeeds for

LOCAL Id == INSTANCE NormBlockId

Init == live = {} /\ found = {}

Insert(id) ==
  /\ id \notin live
  /\ Cardinality(live) < MaxBlocks
  /\ Id!Span(live \cup {id}) <= RangeMax
  /\ live'  = live \cup {id}
  /\ found' = live'

Remove(id) ==
  /\ id \in found
  /\ live'  = live \ {id}
  /\ found' = live'

Next == \E id \in Id!Ids : Insert(id) \/ Remove(id)

Spec == Init /\ [][Next]_<<live, found>>
=============================================================================
