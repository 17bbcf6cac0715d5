---------------------- MODULE NormBlockBufferLifecycle ----------------------
(***************************************************************************)
(* NormBlockBuffer::Destroy (src/common/normSegment.cpp, lines 711-727), *)
(* called by the destructor and by a second Init, after any sequence of  *)
(* Insert and Remove calls.  Destroy means to Remove and delete every    *)
(* block still in the buffer ("buffer not empty!?") before it frees the  *)
(* table; the table itself is then gone and the buffer takes no calls.   *)
(***************************************************************************)
EXTENDS NormBlockBuffer

VARIABLES
  destroyed,   \* Destroy has run: table is NULL
  deleted      \* ghost: the blocks Destroy's cleanup loop removed and deleted

lifeVars == <<vars, destroyed, deleted>>

(* The blocks the loop "while ((block = Find(range_lo))) { Remove(block); *)
(* delete block; }" deletes when it starts with range r: Find succeeds  *)
(* on range_lo while the buffer holds blocks, and each Remove reseeks    *)
(* range_lo, so the loop takes every held block; with r = 0 Find fails   *)
(* at once.                                                              *)
DestroyDrain(r) == IF r = 0 THEN {} ELSE held

LifeInit ==
  /\ Init
  /\ destroyed = FALSE
  /\ deleted   = {}

(* Destroy (lines 711-727): range_max = range = 0 comes first, then the  *)
(* cleanup loop, then the table is freed.                                *)
Destroy ==
  /\ ~hung /\ ~destroyed
  /\ deleted'   = DestroyDrain(0)
  /\ range'     = 0
  /\ table'     = [b \in Buckets |-> <<>>]
  /\ destroyed' = TRUE
  /\ UNCHANGED <<range_lo, range_hi, held, hung>>

LifeNext ==
  \/ ~destroyed /\ Next /\ UNCHANGED <<destroyed, deleted>>
  \/ Destroy

LifeSpec == LifeInit /\ [][LifeNext]_lifeVars

-----------------------------------------------------------------------------
(* Spec 3 (a Block must be empty before destruction) and the intent of   *)
(* Destroy's loop: a buffer destroyed while it still holds blocks        *)
(* removes and deletes each of them, so no block is left linked to a     *)
(* table that no longer exists.                                          *)
DestroyReleasesBlocks == destroyed => held \subseteq deleted
=============================================================================
