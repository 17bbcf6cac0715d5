----------------------------- MODULE NormBlockTx -----------------------------
(***************************************************************************)
(* A NormBlock at the sender (src/common/normSegment.cpp): the symbols    *)
(* pending transmission, the repair staged by NACKs, and the fresh-parity *)
(* bookkeeping parity_offset / parity_count.  The operations are TxReset  *)
(* (214-253), ActivateRepairs (255-267), TxUpdate (272-330),              *)
(* HandleSegmentRequest (332-391) and AppendRepairAdv (394-466).          *)
(*                                                                         *)
(* From the spec (the code is in normSegment.h / NormObject, not src/):   *)
(* the block starts its first transmission with all data and autoParity   *)
(* parity pending, parity_offset = autoParity and parity_count = 0, and   *)
(* Transmit sends one pending symbol and clears its bit.                  *)
(*                                                                         *)
(* Not modelled: segment contents, so TxReset's zeroing of parity buffers *)
(* and its erasure_count = 0 when ParityReady is false (lines 231-248),   *)
(* which nothing here reads, and the increasedRepair results.             *)
(***************************************************************************)
EXTENDS Integers, FiniteSets, Sequences, NormRepairRequest

CONSTANTS
  NumData,      \* numData passed by the caller
  NumParity,    \* numParity passed by the caller
  AutoParity,   \* autoParity: parity sent proactively with the data
  MaxErasures   \* largest erasureCount a NACK carries in the model

ASSUME /\ NumData \in 1 .. 8 /\ NumParity \in 0 .. 8
       /\ AutoParity \in 0 .. NumParity
       /\ MaxErasures \in 1 .. NumData + NumParity

VARIABLES
  pending,        \* pending_mask: symbols to (re)transmit
  repair,         \* repair_mask: repair staged by HandleSegmentRequest
  parity_offset,
  parity_count,
  in_repair,      \* the IN_REPAIR flag
  sent,           \* ghost: parity symbols transmitted so far
  adv             \* the repair requests the last AppendRepairAdv built

vars == <<pending, repair, parity_offset, parity_count, in_repair, sent, adv>>

Size    == NumData + NumParity     \* Block.size (NormBlockPool totalSize)
Symbols == 0 .. Size - 1
Parity  == NumData .. Size - 1

U16(x) == x % 65536

\* SetBits(start, n) on a mask of Size bits.
Bits(start, n) == (start .. start + n - 1) \cap Symbols

\* Mutation of IngestAt: the remaining fresh parity is marked but
\* parity_count is not raised to parityAvailable.
IngestFreshNotCounted(M, off, cnt, nextId, lastId, erasureCount) ==
  IF nextId < NumData
  THEN [mask |-> M \cup (nextId .. lastId),
        offset |-> NumParity, count |-> NumParity]
  ELSE
    LET parityAvailable == U16(NumParity - off)
        fresh == cnt < parityAvailable
        start == IF fresh THEN nextId + parityAvailable ELSE nextId
    IN  IF erasureCount <= parityAvailable
        THEN IF erasureCount > cnt
             THEN [mask   |-> M \cup Bits(NumData + off + cnt, erasureCount - cnt),
                   offset |-> off, count |-> erasureCount]
             ELSE [mask |-> M, offset |-> off, count |-> cnt]
        ELSE [mask   |-> (IF fresh
                          THEN M \cup Bits(NumData + off + cnt, parityAvailable - cnt)
                          ELSE M) \cup (start .. lastId),
              offset |-> off,
              count  |-> cnt]

\* Mutation of IngestAt: the explicit repair loop of a parity request
\* stops before lastId ("while (nextId < lastId)").
IngestExplicitShort(M, off, cnt, nextId, lastId, erasureCount) ==
  IF nextId < NumData
  THEN [mask |-> M \cup (nextId .. lastId),
        offset |-> NumParity, count |-> NumParity]
  ELSE
    LET parityAvailable == U16(NumParity - off)
        fresh == cnt < parityAvailable
        start == IF fresh THEN nextId + parityAvailable ELSE nextId
    IN  IF erasureCount <= parityAvailable
        THEN IF erasureCount > cnt
             THEN [mask   |-> M \cup Bits(NumData + off + cnt, erasureCount - cnt),
                   offset |-> off, count |-> erasureCount]
             ELSE [mask |-> M, offset |-> off, count |-> cnt]
        ELSE [mask   |-> (IF fresh
                          THEN M \cup Bits(NumData + off + cnt, parityAvailable - cnt)
                          ELSE M) \cup (start .. lastId - 1),
              offset |-> off,
              count  |-> IF fresh THEN parityAvailable ELSE cnt]

(* The NACK ingestion shared by TxUpdate and HandleSegmentRequest,        *)
(* applied to mask M with parity_offset off and parity_count cnt: an      *)
(* explicit data request commits all parity, a parity request first marks *)
(* fresh parity and, when there is not enough, marks the rest of the      *)
(* requested ids explicitly.                                              *)
IngestAt(M, off, cnt, nextId, lastId, erasureCount) ==
  IF nextId < NumData
  THEN [mask |-> M \cup (nextId .. lastId),
        offset |-> NumParity, count |-> NumParity]
  ELSE
    LET parityAvailable == U16(NumParity - off)
        fresh == cnt < parityAvailable
        start == IF fresh THEN nextId + parityAvailable ELSE nextId
    IN  IF erasureCount <= parityAvailable
        THEN IF erasureCount > cnt
             THEN [mask   |-> M \cup Bits(NumData + off + cnt, erasureCount - cnt),
                   offset |-> off, count |-> erasureCount]
             ELSE [mask |-> M, offset |-> off, count |-> cnt]
        ELSE [mask   |-> (IF fresh
                          THEN M \cup Bits(NumData + off + cnt, parityAvailable - cnt)
                          ELSE M) \cup (start .. lastId),
              offset |-> off,
              count  |-> IF fresh THEN parityAvailable ELSE cnt]

\* One call on the block's current parity bookkeeping.
Ingest(M, nextId, lastId, erasureCount) ==
  IngestAt(M, parity_offset, parity_count, nextId, lastId, erasureCount)

\* The transmission pattern TxReset installs (lines 220-221, 227-228).
ResetPattern(M) ==
  (M \cup (0 .. NumData + AutoParity - 1)) \ (NumData + AutoParity .. Size - 1)

-----------------------------------------------------------------------------
Init ==
  /\ pending       = 0 .. NumData + AutoParity - 1
  /\ repair        = {}
  /\ parity_offset = AutoParity
  /\ parity_count  = 0
  /\ in_repair     = FALSE
  /\ sent          = {}
  /\ adv           = <<>>

(* The sender transmits a pending symbol.                                 *)
Transmit(s) ==
  /\ s \in pending
  /\ pending' = pending \ {s}
  /\ sent'    = sent \cup ({s} \cap Parity)
  /\ UNCHANGED <<repair, parity_offset, parity_count, in_repair, adv>>

\* Mutation of TxReset: parity_offset set to the absolute index of the
\* first fresh parity symbol instead of its index in the parity region.
TxResetAbsoluteOffset ==
  LET changed == (ResetPattern(repair) \ pending) \cup
                 (pending \ ResetPattern(repair))
  IN  /\ repair' = {}
      /\ IF changed # {}
         THEN /\ pending'       = ResetPattern(pending)
              /\ parity_offset' = NumData + AutoParity
              /\ parity_count'  = NumParity
              /\ in_repair'     = TRUE
         ELSE UNCHANGED <<pending, parity_offset, parity_count, in_repair>>
      /\ UNCHANGED <<sent, adv>>

\* Mutation of TxReset: the fresh pattern is not installed in pending_mask.
TxResetKeepPending ==
  LET changed == (ResetPattern(repair) \ pending) \cup
                 (pending \ ResetPattern(repair))
  IN  /\ repair' = {}
      /\ IF changed # {}
         THEN /\ parity_offset' = AutoParity
              /\ parity_count'  = NumParity
              /\ in_repair'     = TRUE
              /\ UNCHANGED pending
         ELSE UNCHANGED <<pending, parity_offset, parity_count, in_repair>>
      /\ UNCHANGED <<sent, adv>>

(* TxReset (lines 214-253).  repair_mask is overwritten with the pattern  *)
(* XOR pending_mask whatever the outcome; a change resets the cycle.      *)
TxReset ==
  LET changed == (ResetPattern(repair) \ pending) \cup
                 (pending \ ResetPattern(repair))
  IN  /\ repair' = {}
      /\ IF changed # {}
         THEN /\ pending'       = ResetPattern(pending)
              /\ parity_offset' = AutoParity
              /\ parity_count'  = NumParity
              /\ in_repair'     = TRUE
         ELSE UNCHANGED <<pending, parity_offset, parity_count, in_repair>>
      /\ UNCHANGED <<sent, adv>>

(* ActivateRepairs (lines 255-267); with nothing staged it returns false. *)
ActivateRepairs ==
  /\ repair # {}
  /\ pending' = pending \cup repair
  /\ repair'  = {}
  /\ UNCHANGED <<parity_offset, parity_count, in_repair, sent, adv>>

(* TxUpdate (lines 272-330): a NACK in the holdoff window goes straight   *)
(* into pending_mask.                                                     *)
TxUpdate(nextId, lastId, erasureCount) ==
  LET r == Ingest(pending, nextId, lastId, erasureCount)
  IN  /\ pending'       = r.mask
      /\ parity_offset' = r.offset
      /\ parity_count'  = r.count
      /\ UNCHANGED <<repair, in_repair, sent, adv>>

(* HandleSegmentRequest (lines 332-391): the same, staged in repair_mask. *)
HandleSegmentRequest(nextId, lastId, erasureCount) ==
  LET r == Ingest(repair, nextId, lastId, erasureCount)
  IN  /\ repair'        = r.mask
      /\ parity_offset' = r.offset
      /\ parity_count'  = r.count
      /\ UNCHANGED <<pending, in_repair, sent, adv>>

\* Mutation of AppendRepairAdv: the walk stops one symbol short.
AppendRepairAdvShort ==
  LET first == NextSet(repair, 0)
  IN  /\ adv' = IF first.ok THEN RepairWalk(repair, first.id, Size - 1, WalkStart)
                ELSE <<>>
      /\ UNCHANGED <<pending, repair, parity_offset, parity_count, in_repair, sent>>

(* AppendRepairAdv (lines 394-466): advertise repair_mask from its first  *)
(* set bit to the end of the block.                                       *)
AppendRepairAdv ==
  LET first == NextSet(repair, 0)
  IN  /\ adv' = IF first.ok THEN RepairWalk(repair, first.id, Size, WalkStart)
                ELSE <<>>
      /\ UNCHANGED <<pending, repair, parity_offset, parity_count, in_repair, sent>>

\* The NACK contents a call can carry: an id range within the block and an
\* erasure count.
Nacks == {r \in Symbols \X Symbols \X (1 .. MaxErasures) : r[1] <= r[2]}

Next ==
  \/ \E s \in Symbols : Transmit(s)
  \/ TxReset
  \/ ActivateRepairs
  \/ \E r \in Nacks : TxUpdate(r[1], r[2], r[3]) \/ HandleSegmentRequest(r[1], r[2], r[3])
  \/ AppendRepairAdv

Spec == Init /\ [][Next]_vars

-----------------------------------------------------------------------------
TxTypeOK ==
  /\ pending \subseteq Symbols /\ repair \subseteq Symbols
  /\ parity_offset \in 0 .. NumParity /\ parity_count \in 0 .. NumParity
  /\ in_repair \in BOOLEAN /\ sent \subseteq Parity
  /\ adv \in Seq([form : Forms, entries : Seq(Seq(Symbols))])

(* Spec 3 (parity_offset, parity_count) and 4.2.3: the parity beyond the  *)
(* committed run [offset, offset + count) is fresh, i.e. no receiver has  *)
(* seen it, so a later parity NACK can be answered with it.  The         *)
(* bookkeeping of TxUpdate / HandleSegmentRequest, TxReset and Transmit  *)
(* together must keep every parity symbol the sender has transmitted     *)
(* below that boundary; otherwise a NACK is answered with parity the      *)
(* receiver already holds and the repair is wasted.                       *)
FreshParityUnsent ==
  \A p \in sent : p < NumData + parity_offset + parity_count

(* Spec 4.2.7 and 8.8: the repair advertisement AppendRepairAdv builds   *)
(* names exactly the symbols staged in repair_mask, each maximal run      *)
(* once, runs of 1-2 as ITEMS and longer runs as RANGES.                  *)
AdvEncodesRepairMask ==
  [][AppendRepairAdv => adv' = Encode(repair)]_vars

(* Spec 4.2.2 step 3 and scenario 2: a TxReset that finds the pattern    *)
(* already pending reports no change and leaves both masks as they were, *)
(* so repair staged by HandleSegmentRequest survives it.                  *)
StagedRepairKept ==
  [][TxReset /\ pending = ResetPattern(pending) => UNCHANGED repair]_vars
=============================================================================
