----------------------------- MODULE NormBlockId -----------------------------
(***************************************************************************)
(* NormBlockId: a wrapping sequence number compared by signed distance    *)
(* (spec section 3 and 9, "Wrap-around BlockId arithmetic").  The class   *)
(* lives in normSegment.h / normMessage.h, which are not part of src/, so  *)
(* these operators are modelled from the spec.                             *)
(*                                                                         *)
(* The code uses 32-bit ids and UINT32 arithmetic.  The model scales both  *)
(* to IdBits bits, so that the ids wrap inside a small model.  A hash      *)
(* index only ever looks at the low bits of an id, which the scaling keeps.*)
(***************************************************************************)
EXTENDS Integers

CONSTANT IdBits          \* width of a block id in the model (32 in the code)

ASSUME IdBits \in 2..8

IdSpace == 2^IdBits
Ids     == 0 .. IdSpace - 1

\* UINT32 / NormBlockId arithmetic: everything is taken modulo the id space.
U32(x) == x % IdSpace

\* Signed distance a - b of two sequence numbers, in [-IdSpace/2, IdSpace/2).
Diff(a, b) ==
  LET d == U32(a - b) IN IF d >= IdSpace \div 2 THEN d - IdSpace ELSE d

IdLt(a, b) == Diff(a, b) < 0
IdGt(a, b) == Diff(a, b) > 0

\* The id span (hi - lo + 1) that a set of ids occupies, 0 for no ids.
\* Meaningful for sets lying within half of the id space.
Span(S) ==
  IF S = {} THEN 0
  ELSE 1 + CHOOSE d \in 0 .. IdSpace - 1 :
              /\ \E a, b \in S : Diff(a, b) = d
              /\ \A a, b \in S : Diff(a, b) <= d
=============================================================================
