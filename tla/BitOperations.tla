--------------------------- MODULE BitOperations ---------------------------
(***************************************************************************)
(* The operators of UBitInt and BitInt that work bit by bit (core/inc/     *)
(* emdevif/core/utils/bit_int).  Their <<= and >>= are declared const and  *)
(* do not compile.                                                         *)
(***************************************************************************)
EXTENDS BitIntegers, Bitwise

\* operators between any number on the left and a UBitInt on the right
UAnd(lhs, v) == OverflowCast(Real(lhs) & v)
UOr(lhs, v) == OverflowCast(Real(lhs) | v)
UXor(lhs, v) == OverflowCast(Real(lhs) ^^ v)

UAndAssign(v, other) == UMake(UAnd(v, UMake(other)))
UOrAssign(v, other) == UMake(UOr(v, UMake(other)))
UXorAssign(v, other) == UMake(UXor(v, UMake(other)))

\* ... and a BitInt on the right, whose sign fills the bits up to SignedType's.
SAnd(lhs, v) == SignedReal(Real(lhs) & Real(TransToSigned(v)))
SOr(lhs, v) == SignedReal(Real(lhs) | Real(TransToSigned(v)))
SXor(lhs, v) == SignedReal(Real(lhs) ^^ Real(TransToSigned(v)))

SAndAssign(v, other) == SMake(SAnd(TransToSigned(v), SMake(other)))
SOrAssign(v, other) == SMake(SOr(TransToSigned(v), SMake(other)))
SXorAssign(v, other) == SMake(SXor(TransToSigned(v), SMake(other)))
=============================================================================
