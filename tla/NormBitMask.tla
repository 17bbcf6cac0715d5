----------------------------- MODULE NormBitMask -----------------------------
(***************************************************************************)
(* The bit mask collaborator of NormBlock (ProtoBitmask, not in src/),    *)
(* spec 4.2.1.  A mask is the set of the indices of its set bits.  Set,   *)
(* Unset, SetBits, UnsetBits, Clear, Add and Xor are set union,           *)
(* difference and symmetric difference and are written inline; the       *)
(* operators here are the ones whose meaning needs a decision.            *)
(***************************************************************************)
EXTENDS Integers

(* GetFirstPending / GetNextPending / GetNextRepair: the first set bit at *)
(* or after i.  When there is none the call returns false and leaves the  *)
(* index as it was.                                                       *)
NextSet(S, i) ==
  LET A == {j \in S : j >= i}
  IN  IF A = {} THEN [ok |-> FALSE, id |-> i]
      ELSE [ok |-> TRUE, id |-> CHOOSE j \in A : \A k \in A : j <= k]

(* self.XCopy(other) as NormBlock::IsRepairPending uses it, by the comment *)
(* of normSegment.cpp line 208 "repair_mask = pending_mask - repair_mask": *)
(* self := other AND NOT self.                                            *)
XCopyDifference(self, other) == other \ self
=============================================================================
