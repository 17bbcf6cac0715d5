------------------------------ MODULE NormPools ------------------------------
(***************************************************************************)
(* NormSegmentPool (src/common/normSegment.cpp 5-94) composed with the    *)
(* segment tables of the blocks that borrow its segments (NormBlock Init, *)
(* EmptyToPool, IsEmpty: 108-173) and the NormBlockPool the blocks come   *)
(* from (630-676).                                                        *)
(*                                                                         *)
(* NormSegmentPool::Put and NormBlockPool::Get / Put are inline in         *)
(* normSegment.h, outside src/, and are modelled from spec 4.1 and 3: Put  *)
(* pushes onto the free list, the block pool is a stack of blocks.  The   *)
(* caller (NormObject) is modelled from the data flow of spec 2: it takes *)
(* a block, fills empty slots with segments from the pool, and retires    *)
(* the block by EmptyToPool followed by putting it back.  Segment         *)
(* contents and sizes are not modelled.                                   *)
(***************************************************************************)
EXTENDS Integers, Sequences, FiniteSets

LOCAL SX == INSTANCE SequencesExt
LOCAL FS == INSTANCE FiniteSetsExt
LOCAL Fn == INSTANCE Functions

CONSTANTS
  Segs,         \* the buffers NormSegmentPool::Init allocates (count of them)
  Blocks,       \* the blocks NormBlockPool::Init allocates (numBlocks)
  TotalSize,    \* totalSize: slots in each block's segment_table
  MaxOverruns,  \* bound on the overruns counter in the model
  NULL

ASSUME /\ TotalSize \in 1 .. 4 /\ MaxOverruns \in 1 .. 4
       /\ NULL \notin Segs

VARIABLES
  seg_list, seg_count, seg_total, peak_usage, overruns, overrun_flag,
  block_list,     \* NormBlockPool head and next links, top first
  segment_table,  \* block -> slot -> segment or NULL
  max_usage       \* ghost: the largest seg_total - seg_count seen so far

vars == <<seg_list, seg_count, seg_total, peak_usage, overruns,
          overrun_flag, block_list, segment_table, max_usage>>

Slots == 0 .. TotalSize - 1

\* NormSegmentPool::Put: push onto the free list.
Put(list, seg) == <<seg>> \o list

\* The blocks the caller holds: not on the pool's stack.
InUse == Blocks \ SX!ToSet(block_list)

(* NormBlock::IsEmpty (lines 167-173). *)
IsEmpty(b) == \A i \in Slots : segment_table[b][i] = NULL

\* Segments currently held by blocks.
Held == {segment_table[b][i] : b \in Blocks, i \in Slots} \ {NULL}

\* Mutation of PeakAfter: usage taken before the decrement.
PeakAfterStale(newCount) ==
  IF seg_total - seg_count > peak_usage THEN seg_total - seg_count ELSE peak_usage

(* peak_usage after a successful Get leaves newCount segments free       *)
(* (lines 78-79).                                                        *)
PeakAfter(newCount) ==
  IF seg_total - newCount > peak_usage THEN seg_total - newCount ELSE peak_usage

-----------------------------------------------------------------------------
(* NormBlock::Init(totalSize) (105-131) on a new block: a segment_table *)
(* of totalSize slots, memset to NULL.                                   *)
NewSegmentTable == [i \in Slots |-> NULL]

(* NormBlockPool::Init (640-666) on an empty pool: each new block is      *)
(* Init'ed and pushed on head.  When an allocation or Init fails, Destroy *)
(* deletes the blocks pushed so far and Init returns false; the caller   *)
(* cannot use that pool (spec 6, AllocationFailure), so no run starts    *)
(* from it.                                                              *)
BlockPoolInit == block_list = SX!SetToSeq(Blocks)

(* NormSegmentPool::Init (17-51) on a fresh pool: every allocation        *)
(* succeeds and the pool holds all segments, or one fails and Destroy     *)
(* leaves it empty.  Then the block pool, its blocks' tables all NULL.   *)
PoolInit ==
  /\ \/ /\ seg_list  = SX!SetToSeq(Segs)
        /\ seg_count = Cardinality(Segs) /\ seg_total = Cardinality(Segs)
     \/ /\ seg_list  = <<>>
        /\ seg_count = 0 /\ seg_total = 0
  /\ peak_usage    = 0
  /\ overruns      = 0
  /\ overrun_flag  = FALSE
  /\ BlockPoolInit
  /\ segment_table = [b \in Blocks |-> NewSegmentTable]
  /\ max_usage     = 0

(* NormBlockPool::Get: pop a block for the caller.                        *)
GetBlock ==
  /\ block_list # <<>>
  /\ block_list' = Tail(block_list)
  /\ UNCHANGED <<seg_list, seg_count, seg_total, peak_usage, overruns,
                 overrun_flag, segment_table>>

\* Mutation of Get: seg_count decremented also when the pool is empty.
GetCountAlways(b, i) ==
  /\ b \in InUse
  /\ segment_table[b][i] = NULL
  /\ seg_count' = seg_count - 1
  /\ IF seg_list # <<>>
     THEN /\ seg_list'      = Tail(seg_list)
          /\ overrun_flag'  = FALSE
          /\ peak_usage'    = PeakAfter(seg_count - 1)
          /\ segment_table' = [segment_table EXCEPT ![b][i] = Head(seg_list)]
          /\ UNCHANGED overruns
     ELSE /\ ~overrun_flag
          /\ overruns < MaxOverruns
          /\ overruns'     = overruns + 1
          /\ overrun_flag' = TRUE
          /\ UNCHANGED <<seg_list, peak_usage, segment_table>>
  /\ UNCHANGED <<seg_total, block_list>>

\* Mutation of Get: a successful Get leaves overrun_flag set.
GetKeepsFlag(b, i) ==
  /\ b \in InUse
  /\ segment_table[b][i] = NULL
  /\ IF seg_list # <<>>
     THEN /\ seg_list'      = Tail(seg_list)
          /\ seg_count'     = seg_count - 1
          /\ peak_usage'    = PeakAfter(seg_count - 1)
          /\ segment_table' = [segment_table EXCEPT ![b][i] = Head(seg_list)]
          /\ UNCHANGED <<overruns, overrun_flag>>
     ELSE /\ ~overrun_flag
          /\ overruns < MaxOverruns
          /\ overruns'     = overruns + 1
          /\ overrun_flag' = TRUE
          /\ UNCHANGED <<seg_list, seg_count, peak_usage, segment_table>>
  /\ UNCHANGED <<seg_total, block_list>>

(* NormSegmentPool::Get (69-92) for an empty slot i of block b.  Success  *)
(* pops LIFO, ends an overrun episode and updates peak_usage; failure     *)
(* counts a new episode once.                                             *)
Get(b, i) ==
  /\ b \in InUse
  /\ segment_table[b][i] = NULL
  /\ IF seg_list # <<>>
     THEN /\ seg_list'      = Tail(seg_list)
          /\ seg_count'     = seg_count - 1
          /\ overrun_flag'  = FALSE
          /\ peak_usage'    = PeakAfter(seg_count - 1)
          /\ segment_table' = [segment_table EXCEPT ![b][i] = Head(seg_list)]
          /\ UNCHANGED overruns
     ELSE /\ ~overrun_flag
          /\ overruns < MaxOverruns
          /\ overruns'     = overruns + 1
          /\ overrun_flag' = TRUE
          /\ UNCHANGED <<seg_list, seg_count, peak_usage, segment_table>>
  /\ UNCHANGED <<seg_total, block_list>>

\* Mutation of EmptyToPool: the slots are not set back to NULL.
EmptyToPoolKeepSlots(b) ==
  LET t    == segment_table[b]
      full == {i \in Slots : t[i] # NULL}
  IN  /\ b \in InUse
      /\ full # {}
      /\ seg_list'  = SX!FoldLeft(LAMBDA acc, i :
                                   IF t[i] # NULL THEN Put(acc, t[i]) ELSE acc,
                                 seg_list, [k \in 1 .. TotalSize |-> k - 1])
      /\ seg_count' = seg_count + Cardinality(full)
      /\ UNCHANGED <<segment_table, seg_total, peak_usage, overruns,
                     overrun_flag, block_list>>

(* NormBlock::EmptyToPool (154-165): Put every held segment, slot 0       *)
(* first, and clear its slot.                                             *)
EmptyToPool(b) ==
  LET t    == segment_table[b]
      full == {i \in Slots : t[i] # NULL}
  IN  /\ b \in InUse
      /\ full # {}
      /\ seg_list'  = SX!FoldLeft(LAMBDA acc, i :
                                   IF t[i] # NULL THEN Put(acc, t[i]) ELSE acc,
                                 seg_list, [k \in 1 .. TotalSize |-> k - 1])
      /\ seg_count' = seg_count + Cardinality(full)
      /\ segment_table' = [segment_table EXCEPT ![b] = [i \in Slots |-> NULL]]
      /\ UNCHANGED <<seg_total, peak_usage, overruns, overrun_flag, block_list>>

(* NormSegmentPool::Destroy (53-67) as Init calls it when seg_list is   *)
(* not NULL: ASSERT(seg_count == seg_total), free the list, zero counts. *)
DestroyFreeList == seg_count = seg_total

(* NormSegmentPool::Init(count) (17-51) on a pool in use, which spec 4.1 *)
(* allows once every segment is back (Destroy's precondition).  The      *)
(* statistics restart; overrun_flag is left as it was.  The new buffers  *)
(* are count of Segs, or an allocation fails and Destroy empties the     *)
(* pool again.                                                           *)
SegmentPoolInit(count) ==
  /\ Held = {}
  /\ seg_list # <<>> => DestroyFreeList
  /\ peak_usage' = 0
  /\ overruns'   = 0
  /\ \/ \E S \in SUBSET Segs :
          /\ Cardinality(S) = count
          /\ seg_list'  = SX!SetToSeq(S)
          /\ seg_count' = count /\ seg_total' = count
     \/ /\ count > 0
        /\ seg_list' = <<>> /\ seg_count' = 0 /\ seg_total' = 0
  /\ UNCHANGED <<overrun_flag, block_list, segment_table>>

(* NormBlockPool::Put of a retired block; it must be empty (spec 7).     *)
PutBlock(b) ==
  /\ b \in InUse
  /\ IsEmpty(b)
  /\ block_list' = <<b>> \o block_list
  /\ UNCHANGED <<seg_list, seg_count, seg_total, peak_usage, overruns,
                 overrun_flag, segment_table>>

PoolNext ==
  \/ /\ \/ GetBlock
        \/ \E b \in Blocks : \/ \E i \in Slots : Get(b, i)
                             \/ EmptyToPool(b)
                             \/ PutBlock(b)
     /\ max_usage' = FS!Max({max_usage, seg_total' - seg_count'})
  \/ /\ \E count \in 0 .. Cardinality(Segs) : SegmentPoolInit(count)
     /\ max_usage' = 0

PoolSpec == PoolInit /\ [][PoolNext]_vars

-----------------------------------------------------------------------------
PoolTypeOK ==
  /\ seg_list \in Seq(Segs) /\ seg_count \in Nat /\ seg_total \in Nat
  /\ peak_usage \in Nat /\ overruns \in 0 .. MaxOverruns
  /\ overrun_flag \in BOOLEAN /\ block_list \in Seq(Blocks)
  /\ segment_table \in [Blocks -> [Slots -> Segs \cup {NULL}]]

(* Spec 3 and 8.1: across Get, EmptyToPool and the block pool, every     *)
(* segment is in exactly one place: once on the free list (whose length  *)
(* seg_count tracks) or in one slot of one block, and seg_count plus the *)
(* segments out is seg_total.  A slot not cleared after its Put, or a    *)
(* Put of a segment twice, puts a segment in two places and lets two     *)
(* blocks write the same buffer.                                         *)
SegmentsConserved ==
  LET slotsFull == {<<b, i>> \in Blocks \X Slots : segment_table[b][i] # NULL}
  IN  /\ seg_count = Len(seg_list)
      /\ Fn!IsInjective(seg_list)
      /\ SX!ToSet(seg_list) \cap Held = {}
      /\ Cardinality(slotsFull) = Cardinality(Held)
      /\ seg_count + Cardinality(Held) = seg_total

(* Spec 4.1 and 8.2: peak_usage is the largest number of segments that   *)
(* were out of the pool at any point of the run (Get updates it, Put     *)
(* never lowers it).                                                     *)
PeakIsMaxUsage == peak_usage = max_usage

\* The segments block b's table holds.
LentTo(b) == {segment_table[b][i] : i \in Slots} \ {NULL}

Alloc == INSTANCE NormSegmentAllocation
           WITH Borrowers <- Blocks, free <- SX!ToSet(seg_list),
                lent <- [b \in Blocks |-> LentTo(b)],
                episodes <- overruns, exhausted <- overrun_flag

(* Spec 4.1 and scenario 1, as NormSegmentAllocation states them: the    *)
(* free list, the block tables and the overrun counter and flag together *)
(* behave as an allocator that hands each free segment to one block,     *)
(* takes back exactly what EmptyToPool returns, and counts one overrun   *)
(* per exhaustion episode, the flag cleared by the next successful Get   *)
(* and kept across re-Init (lines 17-92, 154-165).                       *)
PoolRefinement == Alloc!Spec
=============================================================================
