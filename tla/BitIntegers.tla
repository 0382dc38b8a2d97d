---------------------------- MODULE BitIntegers ----------------------------
(***************************************************************************)
(* The integers of a given number of bits, UBitInt<bits> and BitInt<bits>  *)
(* (core/inc/emdevif/core/utils/bit_int).  Both keep their value in the    *)
(* smallest unsigned type with room for it, RealType, of RealBits bits;    *)
(* BitInt computes in the signed type of that size.  An operator yields a  *)
(* number of one of these types and not a UBitInt or BitInt: UBitInt's are *)
(* cut to bits, BitInt's are not, until they are assigned.  A method that  *)
(* assigns value is the operator that gives its new value.                 *)
(* C++ computes in int with what is narrower than int.  A signed result    *)
(* that does not fit the type it is computed in is undefined behaviour,    *)
(* and so are the operators here: Undefined.                               *)
(***************************************************************************)
EXTENDS Integers

CONSTANTS Bits,     \* the template argument
          RealBits, \* the bits of RealType and SignedType
          IntBits,  \* the bits of int
          Undefined \* the result of a computation whose behaviour is undefined

ASSUME BitsAssumption ==
  /\ RealBits \in Nat /\ IntBits \in Nat
  /\ Bits \in 1 .. RealBits
  /\ IntBits <= RealBits \/ 2 * RealBits <= IntBits
  /\ Undefined \notin Int

Promoted == RealBits < IntBits

\* What fits the signed type that C++ computes in.
Fits(n) ==
  LET half == 2^((IF Promoted THEN IntBits ELSE RealBits) - 1)
  IN  -half <= n /\ n < half

Real(n) == n % 2^RealBits

SignedReal(n) ==
  IF Real(n) < 2^(RealBits - 1) THEN Real(n) ELSE Real(n) - 2^RealBits

\* C++ division, which rounds towards zero, and its remainder.
Quotient(a, b) ==
  LET abs(n) == IF n < 0 THEN -n ELSE n
      q == abs(a) \div abs(b)
  IN  IF (a < 0) = (b < 0) THEN q ELSE -q

Remainder(a, b) == a - b * Quotient(a, b)

-----------------------------------------------------------------------------
(* UBitInt                                                                 *)

OverflowCast(v) == IF Bits = RealBits THEN v ELSE v % 2^Bits

UMax == IF Bits = RealBits THEN 2^RealBits - 1 ELSE Real(2^Bits) - 1
UMin == 0

\* Construction and assignment from any number.
UMake(n) == IF n = Undefined THEN Undefined ELSE OverflowCast(Real(n))

UNot(v) == OverflowCast(Real(-v - 1))
UIsZero(v) == OverflowCast(v) = 0

UNegate(v) == OverflowCast(Real(-v))

\* operators between any number on the left and a UBitInt on the right
UAdd(lhs, v) == OverflowCast(Real(Real(lhs) + v))
USubtract(lhs, v) == OverflowCast(Real(Real(lhs) - v))
UMultiply(lhs, v) ==
  LET product == Real(lhs) * v
  IN  IF Promoted /\ ~Fits(product) THEN Undefined ELSE OverflowCast(Real(product))
UDivide(lhs, v) == OverflowCast(Real(lhs) \div v)
UModulo(lhs, v) == OverflowCast(Real(lhs) % v)

UShiftLeft(v, shift) == OverflowCast(Real(v * 2^shift))
UShiftRight(v, shift) == OverflowCast(v \div 2^shift)

UEquals(lhs, v) == Real(lhs) = v
ULess(lhs, v) == Real(lhs) < v

\* *this = *this op other, where other is first made a UBitInt
UAddAssign(v, other) == UMake(UAdd(v, UMake(other)))
USubtractAssign(v, other) == UMake(USubtract(v, UMake(other)))
UMultiplyAssign(v, other) == UMake(UMultiply(v, UMake(other)))
UDivideAssign(v, other) == UMake(UDivide(v, UMake(other)))
UModuloAssign(v, other) == UMake(UModulo(v, UMake(other)))

UIncrement(v) == UAddAssign(v, 1)
UDecrement(v) == USubtractAssign(v, 1)

-----------------------------------------------------------------------------
(* BitInt                                                                  *)

TruncateToReal(n) ==
  IF Bits = RealBits THEN Real(SignedReal(n)) ELSE Real(SignedReal(n)) % 2^Bits

\* Faulty form of TransToSigned: the number is shifted back as an unsigned.
TransToSignedLogical(v) ==
  LET shift == RealBits - Bits
  IN  IF Bits = RealBits THEN SignedReal(v) ELSE SignedReal(Real(v * 2^shift) \div 2^shift)

\* The bits are moved to the top and back again, with the sign.
TransToSigned(v) ==
  LET shift == RealBits - Bits
  IN  IF Bits = RealBits THEN SignedReal(v) ELSE SignedReal(v * 2^shift) \div 2^shift

BitsSetValue(n) == SignedReal(2^n - 1)
SMax == BitsSetValue(Bits - 1)
SMin == SignedReal(-2^(Bits - 1))

SMake(n) == IF n = Undefined THEN Undefined ELSE TruncateToReal(n)

\* n computed, then made a SignedType.
Computed(n) == IF Fits(n) THEN SignedReal(n) ELSE Undefined

SNot(v) == SignedReal(-TransToSigned(v) - 1)
SIsZero(v) == TransToSigned(v) = 0
SNegate(v) == Computed(-TransToSigned(v))

SAdd(lhs, v) == Computed(SignedReal(lhs) + TransToSigned(v))
SSubtract(lhs, v) == Computed(SignedReal(lhs) - TransToSigned(v))
SMultiply(lhs, v) == Computed(SignedReal(lhs) * TransToSigned(v))
SDivide(lhs, v) == Computed(Quotient(SignedReal(lhs), TransToSigned(v)))
SModulo(lhs, v) ==
  IF SDivide(lhs, v) = Undefined THEN Undefined
  ELSE SignedReal(Remainder(SignedReal(lhs), TransToSigned(v)))

SShiftLeft(v, shift) == SignedReal(TransToSigned(v) * 2^shift)

SShiftRight(v, shift) == TransToSigned(v) \div 2^shift

SEquals(lhs, v) == SignedReal(lhs) = TransToSigned(v)

SAddAssign(v, other) == SMake(SAdd(TransToSigned(v), SMake(other)))
SMultiplyAssign(v, other) == SMake(SMultiply(TransToSigned(v), SMake(other)))

\* The divisor is cast to SignedType first.
SDivideAssign(v, other) ==
  SMake(SDivide(TransToSigned(v), SMake(SignedReal(other))))
SModuloAssign(v, other) ==
  SMake(SModulo(TransToSigned(v), SMake(SignedReal(other))))

SIncrement(v) == SAddAssign(v, 1)
=============================================================================
