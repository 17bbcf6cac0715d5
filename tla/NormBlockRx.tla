----------------------------- MODULE NormBlockRx -----------------------------
(***************************************************************************)
(* A NormBlock at a receiver (src/common/normSegment.cpp): the pending    *)
(* mask of symbols still missing, the repair mask, erasure_count, and the *)
(* NACK content built from them by IsRepairPending (lines 175-211) and    *)
(* AppendRepairRequest (468-628).                                         *)
(*                                                                         *)
(* The receiver's other steps live in NormObject / normSegment.h, outside *)
(* src/, and are modelled from the spec: the block starts with every      *)
(* symbol pending and every data symbol erased, a symbol arriving clears  *)
(* its pending bit (and one erasure for a data symbol), and once numData  *)
(* symbols are in the FEC decoder completes the block.  Between repair    *)
(* checks the caller may mark symbols in repair_mask (NACK suppression)   *)
(* or clear it.                                                           *)
(***************************************************************************)
EXTENDS Integers, FiniteSets, Sequences, NormRepairRequest

CONSTANTS
  NumData,     \* numData of this block (fewer than the maximum for a short block)
  NumParity,   \* numParity passed to IsRepairPending / AppendRepairRequest
  BlockSize,   \* Block.size, the symbol count the block was Init'ed with
  XCopy(_, _)  \* the meaning of ProtoBitmask::XCopy (see NormBitMask)

ASSUME /\ NumData \in 1 .. 8 /\ NumParity \in 0 .. 8
       /\ BlockSize \in NumData + NumParity .. 10

VARIABLES
  pending,        \* pending_mask: symbols not yet received
  repair,         \* repair_mask
  erasure_count,  \* data symbols not yet received
  rp_result,      \* what the last IsRepairPending call returned
  nack            \* the repair requests the last AppendRepairRequest built

vars == <<pending, repair, erasure_count, rp_result, nack>>

Symbols  == 0 .. BlockSize - 1
BlockIds == 0 .. NumData + NumParity - 1   \* the symbols the sender has

\* Enough symbols are in for the FEC decoder to rebuild the block.
Decoded == Cardinality(BlockIds \ pending) >= NumData

(* IsRepairPending, lines 184-196: Set the first numParity pending ids,  *)
(* walking with GetFirstPending / GetNextPending (an index past the mask  *)
(* is ignored by Set).                                                    *)
RECURSIVE CoverFirst(_, _, _)
CoverFirst(S, nextId, i) ==
  IF i = 0 THEN {}
  ELSE ({nextId} \cap Symbols) \cup CoverFirst(S, NextSet(S, nextId + 1).id, i - 1)

ParityCover ==
  IF erasure_count > NumParity
  THEN IF NumParity > 0
       THEN CoverFirst(pending, NextSet(pending, 0).id, NumParity)
       ELSE IF BlockSize > NumData THEN NumData .. BlockSize - 1 ELSE {}
  ELSE (0 .. NumData - 1) \cup
       (NumData + erasure_count .. NumData + NumParity - 1)

(* AppendRepairRequest, lines 476-496: skip numParity pending ids.        *)
\* Mutation of SkipPending: the loop runs once less ("while (--i)").
RECURSIVE SkipPendingOneLess(_, _, _)
SkipPendingOneLess(S, nextId, i) ==
  IF i <= 1 THEN nextId
  ELSE SkipPendingOneLess(S, NextSet(S, nextId + 1).id, i - 1)

RECURSIVE SkipPending(_, _, _)
SkipPending(S, nextId, i) ==
  IF i = 0 THEN nextId ELSE SkipPending(S, NextSet(S, nextId + 1).id, i - 1)

(* The message AppendRepairRequest builds for pending mask P and erasure *)
(* count e (lines 476-557): its window is chosen by the erasure/parity   *)
(* policy, then the pending ids in it are walked.                        *)
RequestFor(P, e) ==
  LET explicit == e > NumParity
      start    == IF explicit
                  THEN SkipPending(P, NextSet(P, 0).id, NumParity)
                  ELSE NextSet(P, NumData).id
      endId    == IF explicit THEN NumData + NumParity ELSE NumData + e
  IN  RepairWalk(P, start, endId, WalkStart)

RequestMsg == RequestFor(pending, erasure_count)

-----------------------------------------------------------------------------
\* Mutation of Init: every bit of the allocated mask marked pending, also
\* the ones past numData + numParity of a short block.
InitWholeMask ==
  /\ pending       = Symbols
  /\ repair        = {}
  /\ erasure_count = NumData
  /\ rp_result     = FALSE
  /\ nack          = <<>>

Init ==
  /\ pending       = BlockIds
  /\ repair        = {}
  /\ erasure_count = NumData
  /\ rp_result     = FALSE
  /\ nack          = <<>>

(* A symbol of the block arrives.                                         *)
Receive(s) ==
  /\ ~Decoded
  /\ s \in pending
  /\ pending'       = pending \ {s}
  /\ erasure_count' = IF s < NumData THEN erasure_count - 1 ELSE erasure_count
  /\ UNCHANGED <<repair, rp_result, nack>>

(* The caller marks a symbol in repair_mask, e.g. one another receiver's *)
(* NACK already asked for.                                                *)
SuppressRepair(s) ==
  /\ ~Decoded
  /\ s \notin repair
  /\ repair' = repair \cup {s}
  /\ UNCHANGED <<pending, erasure_count, rp_result, nack>>

ClearRepairs ==
  /\ ~Decoded
  /\ repair # {}
  /\ repair' = {}
  /\ UNCHANGED <<pending, erasure_count, rp_result, nack>>

(* IsRepairPending (lines 177-211).                                       *)
IsRepairPending ==
  LET r == XCopy(repair \cup ParityCover, pending)
  IN  /\ ~Decoded
      /\ repair'    = r
      /\ rp_result' = (r # {})
      /\ UNCHANGED <<pending, erasure_count, nack>>

(* AppendRepairRequest (lines 469-628).                                   *)
AppendRepairRequest ==
  /\ ~Decoded
  /\ nack' = RequestMsg
  /\ UNCHANGED <<pending, repair, erasure_count, rp_result>>

Next ==
  \/ \E s \in Symbols : Receive(s) \/ SuppressRepair(s)
  \/ ClearRepairs
  \/ IsRepairPending
  \/ AppendRepairRequest

Spec == Init /\ [][Next]_vars

-----------------------------------------------------------------------------
TypeOK ==
  /\ pending \subseteq BlockIds /\ repair \subseteq Symbols
  /\ erasure_count \in 0 .. NumData
  /\ rp_result \in BOOLEAN
  /\ nack \in Seq([form : Forms, entries : Seq(Seq(Symbols))])

(* Spec 4.2.6: the symbols the requested parity will stand for.  With    *)
(* more erasures than parity, the numParity lowest pending ids (or, when *)
(* there is no parity, the whole parity region); otherwise all data and  *)
(* the parity beyond the erasure count.                                  *)
PolicyCovered ==
  IF erasure_count > NumParity
  THEN IF NumParity > 0
       THEN {s \in pending : Cardinality({t \in pending : t < s}) < NumParity}
       ELSE NumData .. BlockSize - 1
  ELSE (0 .. NumData - 1) \cup
       (NumData + erasure_count .. NumData + NumParity - 1)

(* Spec 4.2.6-4.2.7, 8.8 and the round trip of 8: the NACK that          *)
(* AppendRepairRequest builds for a block not yet decoded names exactly  *)
(* the pending symbols that IsRepairPending leaves to explicit request,  *)
(* each maximal run of them once, runs of 1-2 ids as ITEMS and longer    *)
(* ones as a RANGES entry, with a new request only when the form changes.*)
(* The two functions choose their window by separate code; a receiver    *)
(* that asks for ids it has, or fails to ask for ones it needs, stalls   *)
(* or wastes repair.                                                     *)
NackEncodesRepairNeed ==
  ~Decoded => RequestMsg = Encode(pending \ PolicyCovered)

=============================================================================
