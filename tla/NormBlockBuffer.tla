--------------------------- MODULE NormBlockBuffer ---------------------------
(***************************************************************************)
(* NormBlockBuffer (src/common/normSegment.cpp, lines 678-925): a hash    *)
(* table of intrusive chains mapping a block id to its block, plus the    *)
(* occupied id range [range_lo, range_hi] of width range.                 *)
(*                                                                         *)
(* A block is represented by its id: the buffer never looks at anything   *)
(* else of it.  A chain is the sequence of ids linked through Block.next. *)
(* The caller's view is the ghost variable held: the blocks it inserted   *)
(* and has not yet removed (it can hold at most MaxBlocks, its pool size).*)
(***************************************************************************)
EXTENDS NormBlockId, Sequences, FiniteSets, Bitwise

SX == INSTANCE SequencesExt

CONSTANTS
  RangeMax,    \* rangeMax argument of NormBlockBuffer::Init
  TableSize,   \* tableSize argument of NormBlockBuffer::Init
  MaxBlocks    \* blocks the caller owns (the size of its NormBlockPool)

ASSUME /\ RangeMax \in 1 .. (IdSpace \div 2 - 1)
       /\ TableSize \in 1 .. 64
       /\ MaxBlocks \in 1 .. 8

VARIABLES
  table,       \* bucket -> chain of ids, in link order
  range_lo,    \* smallest live id (meaningful while range # 0)
  range_hi,    \* largest live id (meaningful while range # 0)
  range,       \* range_hi - range_lo + 1, or 0 when empty
  held,        \* ghost: ids the caller inserted and has not removed
  hung         \* a Remove call is spinning in its reseek loop forever

vars == <<table, range_lo, range_hi, range, held, hung>>

NoBlock == -1    \* a NULL NormBlock*

\* Mutation of TableLen: the requested tableSize used as it is.
TableLenAsGiven == TableSize

(* Init (lines 691-705): a tableSize that is not a multiple of 8 becomes  *)
(* (tableSize >> 3) + 1 buckets, and hash_mask = tableSize - 1.           *)
TableLen == IF TableSize % 8 # 0 THEN TableSize \div 8 + 1 ELSE TableSize
HashMask == TableLen - 1
Buckets  == 0 .. HashMask

\* (UINT32)x & hash_mask for any integer x; only the low 8 bits matter.
Masked(x) == (x % 256) & HashMask

\* A reseek loop that has neither found its target nor reached endex after
\* this many steps cycles through buckets until the 32-bit id wraps.
ScanBound == RangeMax + TableLen

InChain(c, id) == \E k \in 1 .. Len(c) : c[k] = id

\* Mutation of Find: range_lo itself treated as outside the range.
FindAboveLo(id) ==
  IF /\ range # 0
     /\ IdGt(id, range_lo) /\ ~IdGt(id, range_hi)
     /\ InChain(table[Masked(id)], id)
  THEN id ELSE NoBlock

(* Find (lines 729-744). *)
Find(id) ==
  IF /\ range # 0
     /\ ~IdLt(id, range_lo) /\ ~IdGt(id, range_hi)
     /\ InChain(table[Masked(id)], id)
  THEN id ELSE NoBlock

\* Mutation of CanInsert: a span of exactly range_max reported as too wide.
CanInsertStrict(id) ==
  \/ range = 0
  \/ IdLt(id, range_lo) /\ U32(range_lo - id + range) < RangeMax
  \/ IdGt(id, range_hi) /\ U32(id - range_hi + range) < RangeMax
  \/ ~IdLt(id, range_lo) /\ ~IdGt(id, range_hi)

(* CanInsert (lines 747-774): whether Insert would keep the span within  *)
(* range_max, computed by its own copy of Insert's range arithmetic.     *)
CanInsert(id) ==
  \/ range = 0
  \/ IdLt(id, range_lo) /\ U32(range_lo - id + range) <= RangeMax
  \/ IdGt(id, range_hi) /\ U32(id - range_hi + range) <= RangeMax
  \/ ~IdLt(id, range_lo) /\ ~IdGt(id, range_hi)

(* The chain walk of Insert (lines 799-814): the block goes in front of   *)
(* the first entry whose id is not less than its own.                     *)
ChainInsert(c, id) ==
  LET k == SX!SelectInSeq(c, LAMBDA e : ~IdLt(e, id))
  IN  SX!InsertAt(c, IF k = 0 THEN Len(c) + 1 ELSE k, id)

(* The ascending reseek of Remove (lines 844-874) over the table tbl the  *)
(* block base has already been unlinked from.  Each step moves to the next *)
(* bucket, probes it for id base + offset and, while walking the chain,   *)
(* keeps the smallest id above base as the fallback nextId.               *)
RECURSIVE ScanUp(_, _, _, _, _, _, _)
ScanUp(tbl, base, i, offset, nextId, endex, steps) ==
  LET j      == Masked(i + 1)
      off    == offset + 1
      target == U32(base + off)
      k      == SX!SelectInSeq(tbl[j], LAMBDA e : e = target)
      walked == IF k = 0 THEN tbl[j] ELSE SubSeq(tbl[j], 1, k - 1)
      nid    == SX!FoldLeft(LAMBDA acc, e :
                           IF IdGt(e, base) /\ IdLt(e, acc) THEN e ELSE acc,
                         nextId, walked)
  IN  IF k # 0 THEN [hung |-> FALSE, id |-> target]
      ELSE IF j = endex THEN [hung |-> FALSE, id |-> nid]
      ELSE IF steps >= ScanBound THEN [hung |-> TRUE, id |-> nid]
      ELSE ScanUp(tbl, base, j, off, nid, endex, steps + 1)

(* The descending reseek of Remove (lines 880-911), symmetric to ScanUp:  *)
(* it probes base - offset and keeps the largest id below base.           *)
RECURSIVE ScanDown(_, _, _, _, _, _, _)
ScanDown(tbl, base, i, offset, prevId, endex, steps) ==
  LET j      == Masked(i - 1)
      off    == offset + 1
      target == U32(base - off)
      k      == SX!SelectInSeq(tbl[j], LAMBDA e : e = target)
      walked == IF k = 0 THEN tbl[j] ELSE SubSeq(tbl[j], 1, k - 1)
      pid    == SX!FoldLeft(LAMBDA acc, e :
                           IF IdLt(e, base) /\ IdGt(e, acc) THEN e ELSE acc,
                         prevId, walked)
  IN  IF k # 0 THEN [hung |-> FALSE, id |-> target]
      ELSE IF j = endex THEN [hung |-> FALSE, id |-> pid]
      ELSE IF steps >= ScanBound THEN [hung |-> TRUE, id |-> pid]
      ELSE ScanDown(tbl, base, j, off, pid, endex, steps + 1)

-----------------------------------------------------------------------------
(* The constructor and Init (lines 678-709): an empty table; range_lo and *)
(* range_hi are never initialised and are only read once range # 0.      *)
Init ==
  /\ table    = [b \in Buckets |-> <<>>]
  /\ range    = 0
  /\ range_lo \in Ids
  /\ range_hi \in Ids
  /\ held     = {}
  /\ hung     = FALSE

\* Mutation of Insert: the range_max check of lines 786 and 793 dropped.
InsertNoRangeCheck(id) ==
  LET lo == IF range = 0 THEN id ELSE range_lo
      hi == IF range = 0 THEN id ELSE range_hi
      r  == IF range = 0 THEN 1 ELSE range
      newRange == CASE IdLt(id, lo) -> U32(lo - id + r)
                    [] IdGt(id, hi) -> U32(id - hi + r)
                    [] OTHER        -> r
  IN  /\ ~hung
      /\ id \notin held
      /\ Cardinality(held) < MaxBlocks
      /\ range_lo' = IF IdLt(id, lo) THEN id ELSE lo
      /\ range_hi' = IF IdGt(id, hi) THEN id ELSE hi
      /\ range'    = newRange
      /\ table'    = [table EXCEPT ![Masked(id)] = ChainInsert(@, id)]
      /\ held'     = held \cup {id}
      /\ UNCHANGED hung

(* Insert (lines 777-816).  A call whose new span would exceed range_max  *)
(* returns false and changes nothing, so only accepted calls are steps.   *)
(* The caller inserts a block it holds, with an id not already present    *)
(* (the ASSERT of line 812).                                              *)
Insert(id) ==
  LET lo == IF range = 0 THEN id ELSE range_lo
      hi == IF range = 0 THEN id ELSE range_hi
      r  == IF range = 0 THEN 1 ELSE range
      newRange == CASE IdLt(id, lo) -> U32(lo - id + r)
                    [] IdGt(id, hi) -> U32(id - hi + r)
                    [] OTHER        -> r
  IN  /\ ~hung
      /\ id \notin held
      /\ Cardinality(held) < MaxBlocks
      /\ newRange <= RangeMax
      /\ range_lo' = IF IdLt(id, lo) THEN id ELSE lo
      /\ range_hi' = IF IdGt(id, hi) THEN id ELSE hi
      /\ range'    = newRange
      /\ table'    = [table EXCEPT ![Masked(id)] = ChainInsert(@, id)]
      /\ held'     = held \cup {id}
      /\ UNCHANGED hung

\* Mutation of RangeAfterRemove: only an empty range stays empty.
RangeAfterRemoveOffByOne(lo, hi, reseek) ==
  CASE range < 1 -> 0
    [] reseek    -> U32(hi - lo + 1)
    [] OTHER     -> range

(* The range after a successful Remove (lines 874, 909, 913-915): 0 when *)
(* the last block went, recomputed after a reseek, otherwise unchanged.  *)
RangeAfterRemove(lo, hi, reseek) ==
  CASE range <= 1 -> 0
    [] reseek     -> U32(hi - lo + 1)
    [] OTHER      -> range

(* Remove (lines 818-925) of a block the caller holds.  When the block    *)
(* cannot be found (range 0, id outside the range, or not in its chain)   *)
(* the call returns false and changes nothing: no step.  Removing         *)
(* range_lo or range_hi reseeks the new extreme.                          *)
Remove(id) ==
  LET index == Masked(id)
      tbl   == [table EXCEPT ![index] = SX!RemoveFirst(@, id)]
      up    == ScanUp(tbl, id, index, 0, range_hi,
                      IF range <= HashMask THEN Masked(index + range - 1)
                                           ELSE index, 0)
      down  == ScanDown(tbl, id, index, 0, range_lo,
                        IF range <= HashMask THEN Masked(index - range + 1)
                                             ELSE index, 0)
      scan  == IF id = range_lo THEN up ELSE down
      lo    == IF range > 1 /\ id = range_lo THEN up.id ELSE range_lo
      hi    == IF range > 1 /\ id # range_lo /\ id = range_hi
               THEN down.id ELSE range_hi
      reseek == range > 1 /\ (id = range_lo \/ id = range_hi)
  IN  /\ ~hung
      /\ id \in held
      /\ Find(id) = id
      /\ table' = tbl
      /\ IF reseek /\ scan.hung
         THEN /\ hung' = TRUE
              /\ UNCHANGED <<range_lo, range_hi, range, held>>
         ELSE /\ range_lo' = lo
              /\ range_hi' = hi
              /\ range'    = RangeAfterRemove(lo, hi, reseek)
              /\ held'     = held \ {id}
              /\ UNCHANGED hung

Next == \E id \in Ids : Insert(id) \/ Remove(id)

Spec == Init /\ [][Next]_vars

-----------------------------------------------------------------------------
TypeOK ==
  /\ table \in [Buckets -> Seq(Ids)]
  /\ range_lo \in Ids /\ range_hi \in Ids
  /\ range \in 0 .. RangeMax
  /\ held \in SUBSET Ids
  /\ hung \in BOOLEAN

(* The ids a Find call succeeds for: the buffer's abstract contents.      *)
Findable == {id \in Ids : Find(id) = id}

(* Spec 3 and testable property 3: once Insert and Remove have returned,  *)
(* range is 0 exactly when no block is held, and otherwise range_lo and   *)
(* range_hi are live blocks that bound every held block, and range is the *)
(* width between them.  A reseek in Remove that stops short, overshoots or *)
(* falls back on a stale nextId breaks it.                                *)
RangeTight ==
  /\ (range = 0) <=> (held = {})
  /\ range # 0 =>
       /\ range_lo \in held /\ range_hi \in held
       /\ \A id \in held : ~IdLt(id, range_lo) /\ ~IdGt(id, range_hi)
       /\ range = U32(range_hi - range_lo + 1)

(* Remove never spins forever in its reseek loop (lines 853-870, 890-907). *)
RemoveReturns == ~hung

(* Spec 4.4 and 7 (RangeOverflow): the caller asks CanInsert before it  *)
(* takes a block from the pool and calls Insert, evicting old blocks     *)
(* when told no.  In every reachable buffer, for every id the caller     *)
(* could insert, CanInsert answers yes exactly when Insert would accept. *)
(* A disagreement either leaves a block that Insert rejects in the       *)
(* caller's hands or evicts blocks for nothing.                          *)
CanInsertAgrees ==
  ~hung /\ Cardinality(held) < MaxBlocks =>
    \A id \in Ids \ held : CanInsert(id) <=> ENABLED Insert(id)

(* The buffer implements NormBlockWindow: every accepted Insert makes its *)
(* block findable and every Remove makes exactly its block unfindable,   *)
(* leaving Find true for exactly the blocks the caller holds.            *)
Window == INSTANCE NormBlockWindow WITH live <- held, found <- Findable

WindowRefinement == Window!Spec
=============================================================================
