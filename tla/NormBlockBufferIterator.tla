----------------------- MODULE NormBlockBufferIterator -----------------------
(***************************************************************************)
(* NormBlockBuffer::Iterator (src/common/normSegment.cpp, lines 927-989) *)
(* composed with the buffer it walks.  The caller may construct an        *)
(* iterator, call GetNextBlock until it returns NULL, and Insert or       *)
(* Remove blocks at any point in between.                                 *)
(***************************************************************************)
EXTENDS NormBlockBuffer

VARIABLES
  it_reset,    \* Iterator.reset: the next call starts from range_lo
  it_index,    \* Iterator.index: id of the block returned last
  it_out,      \* ghost: the blocks returned since construction, in order,
               \* while the buffer is unchanged
  it_done,     \* ghost: GetNextBlock has returned NULL
  it_dirty,    \* ghost: the buffer changed since construction
  it_ret       \* ghost: what the last GetNextBlock returned

itVars  == <<it_reset, it_index, it_out, it_done, it_dirty, it_ret>>
allVars == <<vars, itVars>>

\* Mutation of NextAfter: the scan always ends at range_hi's bucket.
NextAfterEndAtHi(index) ==
  ScanUp(table, index, index, 0, range_hi, Masked(range_hi), 0)

(* The next block after index (lines 949-983).  The scan is the ascending *)
(* reseek of Remove, started from the id index itself (i = index) and     *)
(* ending at the bucket of range_hi when that is within hash_mask steps.  *)
NextAfter(index) ==
  ScanUp(table, index, index, 0, range_hi,
         IF U32(range_hi - index) <= HashMask THEN Masked(range_hi)
                                              ELSE Masked(index), 0)

\* Mutation of Active: range_hi itself counted as having a successor.
ActiveThroughHi(index) ==
  range # 0 /\ ~IdGt(index, range_hi) /\ ~IdLt(index, range_lo)

(* The test of lines 949-951: the last block returned lies in             *)
(* [range_lo, range_hi), so a later one may follow it.                   *)
Active(index) == range # 0 /\ IdLt(index, range_hi) /\ ~IdLt(index, range_lo)

-----------------------------------------------------------------------------
IterInit ==
  /\ Init
  /\ it_reset = TRUE
  /\ it_index = 0
  /\ it_out   = <<>>
  /\ it_done  = FALSE
  /\ it_dirty = FALSE
  /\ it_ret   = NoBlock

(* The Iterator constructor (lines 927-930).                              *)
NewIterator ==
  /\ ~hung
  /\ it_reset' = TRUE
  /\ it_out'   = <<>>
  /\ it_done'  = FALSE
  /\ it_dirty' = FALSE
  /\ it_ret'   = NoBlock
  /\ UNCHANGED <<vars, it_index>>

(* GetNextBlock (lines 932-989).  NULL ends the iteration.                *)
GetNextBlock ==
  LET scan   == NextAfter(it_index)
      active == Active(it_index)
      result == CASE it_reset /\ range # 0 -> Find(range_lo)
                  [] it_reset              -> NoBlock
                  [] active                -> IF scan.hung THEN NoBlock
                                              ELSE Find(scan.id)
                  [] OTHER                 -> NoBlock
  IN  /\ ~hung /\ ~it_done
      /\ it_reset' = (it_reset /\ range = 0)
      /\ it_index' = CASE it_reset /\ range # 0 -> range_lo
                       [] ~it_reset /\ active    -> scan.id
                       [] OTHER                  -> it_index
      /\ hung'     = (~it_reset /\ active /\ scan.hung)
      /\ it_out'   = IF result = NoBlock \/ it_dirty THEN it_out
                     ELSE Append(it_out, result)
      /\ it_ret'   = result
      /\ it_done'  = (result = NoBlock)
      /\ UNCHANGED <<table, range_lo, range_hi, range, held, it_dirty>>

(* A buffer update between two GetNextBlock calls.  The ghost record of  *)
(* what the iteration returned is only kept for iterations over a buffer  *)
(* nobody changes.                                                        *)
Mutate ==
  /\ Next
  /\ it_dirty' = TRUE
  /\ it_out'   = <<>>
  /\ UNCHANGED <<it_reset, it_index, it_done, it_ret>>

IterNext == NewIterator \/ GetNextBlock \/ Mutate

IterSpec == IterInit /\ [][IterNext]_allVars

-----------------------------------------------------------------------------
\* The held blocks in ascending id order.
Ascending == SX!SetToSortSeq(held, IdLt)

(* Spec 4.4 and scenario 6: walking a buffer nobody changes returns its   *)
(* blocks one by one in ascending id order, skipping the gaps between     *)
(* them, never twice, and returns NULL only after the last one.  The      *)
(* fallback nextId of the scan is what bridges gaps wider than the table. *)
IteratorInOrder ==
  ~it_dirty =>
    /\ SX!IsPrefix(it_out, Ascending)
    /\ it_done => it_out = Ascending

\* What spec 4.4 says a call after the first returns: the least live id
\* strictly greater than index, and NULL once index >= range_hi.
SpecNextAfter(index) ==
  LET above == {h \in held : IdGt(h, index)}
  IN  IF range = 0 \/ ~IdLt(index, range_hi) \/ above = {} THEN NoBlock
      ELSE CHOOSE h \in above : \A g \in above : ~IdLt(g, h)

(* Spec 4.4 for a walk interleaved with Insert and Remove of other        *)
(* blocks: as long as the block at index is still in the buffer, every   *)
(* GetNextBlock after the first returns the least live id above index,   *)
(* whatever was inserted or removed since the last call, including ids   *)
(* in gaps wider than the table and a new range_hi (lines 949-983).      *)
IterFindsNextLive ==
  [][GetNextBlock /\ ~it_reset /\ it_index \in held =>
       it_ret' = SpecNextAfter(it_index)]_allVars

(* Spec 4.4: every GetNextBlock after the first returns the next live    *)
(* block above index, even when the caller removed the block at index    *)
(* in between, as the drain of spec 7 does.                              *)
IterFindsNext ==
  [][GetNextBlock /\ ~it_reset => it_ret' = SpecNextAfter(it_index)]_allVars
=============================================================================
