------------------------------ MODULE Counters ------------------------------
(***************************************************************************)
(* The numbers of the program that wrap around, each walked by a client    *)
(* with the operators its class offers: a RingUnsigned cursor, a UBitInt,  *)
(* a BitInt, and the last time point of a Duration.  position is the       *)
(* unbounded number the client thinks of.  The client leaves out what has  *)
(* undefined behaviour: a division by zero, a signed result that does not  *)
(* fit the type it is computed in.                                         *)
(***************************************************************************)
EXTENDS RingUnsigned, BitOperations, ClockTime, FiniteSetsExt

CONSTANT MaxPosition   \* bound on how far the client walks from zero

VARIABLES kind,     \* the class of the number
          value,    \* value_, value or last_time_point_
          position, \* the number the client thinks of (history variable)
          off       \* how far a ring index is off that (history variable)

vars == <<kind, value, position, off>>

Kinds == {"ring", "unsigned", "signed", "time"}
Reachable == -MaxPosition .. MaxPosition
Operands == -SizeMax .. SizeMax - 1
Small == -3 .. 3

\* What a number of each class is worth when it stands for n.
Worth(n) ==
  CASE kind = "ring" -> n % MaxNum
    [] kind = "unsigned" -> n % 2^Bits
    [] kind = "signed" -> ((n + 2^(Bits - 1)) % 2^Bits) - 2^(Bits - 1)
    [] kind = "time" -> n % ClockMax

\* What the object holds, read as a number.
Read == IF kind = "signed" THEN TransToSigned(value) ELSE value

Init == kind \in Kinds /\ value = 0 /\ position = 0 /\ off = 0

\* The number becomes v, which stands for n, but for what it is off then.
Slip(v, n, by) ==
  /\ v # Undefined
  /\ n \in Reachable
  /\ value' = v /\ position' = n /\ off' = by
  /\ UNCHANGED kind

Step(v, n) == Slip(v, n, off)

Assign(n) ==
  \/ kind = "ring" /\ n >= 0 /\ Slip(Make(n), n, 0)
  \/ kind = "unsigned" /\ Step(UMake(n), n)
  \/ kind = "signed" /\ Step(SMake(n), n)

PreIncrement ==
  \/ kind = "ring" /\ Step(Increment(value), position + 1)
  \/ kind = "unsigned" /\ Step(UIncrement(value), position + 1)
  \/ kind = "signed" /\ Step(SIncrement(value), position + 1)

\* BitInt's operator-- and -= do not compile.
PreDecrement ==
  \/ kind = "ring" /\ Step(Decrement(value), position - 1)
  \/ kind = "unsigned" /\ Step(UDecrement(value), position - 1)

\* RingUnsigned's postfix operator-- puts the old value back.
PostDecrement ==
  kind = "ring" /\ Slip(value, position - 1, (off + 1) % MaxNum)

\* A sum that does not fit std::size_t loses as many as that has values.
Lost(rhs) == IF value + rhs < SizeMax THEN 0 ELSE SizeMax

Advance(rhs) ==
  \/ /\ kind = "ring" /\ rhs >= 0
     /\ Slip(AddAssign(value, rhs), position + rhs, (off - Lost(rhs)) % MaxNum)
  \/ kind = "unsigned" /\ Step(UAddAssign(value, rhs), position + rhs)
  \/ kind = "signed" /\ Step(SAddAssign(value, rhs), position + rhs)

Retreat(rhs) ==
  kind = "unsigned" /\ Step(USubtractAssign(value, rhs), position - rhs)

\* x = -x, x = ~x, x = n - x
Reflect(n) ==
  \/ kind = "unsigned" /\ Step(UMake(UNegate(value)), -position)
  \/ kind = "signed" /\ Step(SMake(SNegate(value)), -position)
  \/ kind = "unsigned" /\ Step(UMake(UNot(value)), -position - 1)
  \/ kind = "signed" /\ Step(SMake(SNot(value)), -position - 1)
  \/ kind = "unsigned" /\ Step(UMake(USubtract(n, value)), n - position)
  \/ kind = "signed" /\ Step(SMake(SSubtract(n, value)), n - position)

Scale(rhs) ==
  \/ kind = "unsigned" /\ Step(UMultiplyAssign(value, rhs), position * rhs)
  \/ kind = "signed" /\ Step(SMultiplyAssign(value, rhs), position * rhs)

\* x = x << shift
ShiftUp(shift) ==
  \/ kind = "unsigned" /\ Step(UMake(UShiftLeft(value, shift)), position * 2^shift)
  \/ kind = "signed" /\ Step(SMake(SShiftLeft(value, shift)), position * 2^shift)

\* x /= rhs, x %= rhs and x = x >> shift work on what the number is worth; the
\* client goes on from there.  The divisor must not be zero.
Divide(rhs) ==
  \/ /\ kind = "unsigned" /\ UMake(rhs) # 0
     /\ Step(UDivideAssign(value, rhs), Worth(position) \div Worth(rhs))
  \/ /\ kind = "signed" /\ rhs # 0
     /\ Step(SDivideAssign(value, rhs), Quotient(Worth(position), rhs))

Modulo(rhs) ==
  \/ /\ kind = "unsigned" /\ UMake(rhs) # 0
     /\ Step(UModuloAssign(value, rhs), Worth(position) % Worth(rhs))
  \/ /\ kind = "signed" /\ rhs # 0
     /\ Step(SModuloAssign(value, rhs), Remainder(Worth(position), rhs))

\* x &= n, x |= n, x ^= n: the client combines the two sets of bits.
BitsOf(n) == {i \in 0 .. Bits - 1 : (n \div 2^i) % 2 = 1}
FromBits(S) == FoldSet(LAMBDA i, sum : 2^i + sum, 0, S)

Combine(n) ==
  LET mine == BitsOf(position)
      both == FromBits(mine \cap BitsOf(n))
      either == FromBits(mine \cup BitsOf(n))
  IN  \/ kind = "unsigned" /\ Step(UAndAssign(value, n), both)
      \/ kind = "unsigned" /\ Step(UOrAssign(value, n), either)
      \/ kind = "unsigned" /\ Step(UXorAssign(value, n), either - both)
      \/ kind = "signed" /\ Step(SAndAssign(value, n), both)
      \/ kind = "signed" /\ Step(SOrAssign(value, n), either)
      \/ kind = "signed" /\ Step(SXorAssign(value, n), either - both)

ShiftDown(shift) ==
  \/ kind = "unsigned" /\ Step(UMake(UShiftRight(value, shift)), Worth(position) \div 2^shift)
  \/ kind = "signed" /\ Step(SMake(SShiftRight(value, shift)), Worth(position) \div 2^shift)

\* Timeline::update() and the getters of Duration, time having passed.
Pass(time) ==
  kind = "time" /\ time >= 0 /\ Step(Clock(position + time), position + time)

Next ==
  \/ PreIncrement \/ PreDecrement \/ PostDecrement
  \/ \E n \in Reachable : Assign(n)
  \/ \E rhs \in Operands : Advance(rhs) \/ Retreat(rhs) \/ Pass(rhs)
  \/ \E n \in Small : Reflect(n) \/ Scale(n) \/ Divide(n) \/ Modulo(n)
  \/ \E n \in -2^Bits .. 2^Bits - 1 : Combine(n)
  \/ \E shift \in 0 .. RealBits - 1 : ShiftUp(shift) \/ ShiftDown(shift)

Spec == Init /\ [][Next]_vars
-----------------------------------------------------------------------------
\* The number is worth what the client thinks, but for the wrap-around of its
\* class, however it got there: by the operators in any order, past either end
\* and back, with operands of either sign and products that overflow the type
\* it is stored in (RingUnsigned, UBitInt and BitInt).  An index of a ring is
\* off that by one for every postfix decrement since it was last assigned, and
\* by SizeMax for every sum that did not fit std::size_t: by this much, and by
\* nothing else (ring_buffer.hpp:77, :91).
ResidueInv ==
  kind \in Kinds =>
    /\ Read = Worth(position + off)
    /\ kind = "signed" => value \in 0 .. 2^Bits - 1

\* RingUnsigned's operator- is the clockwise distance: walking lhs - rhs steps
\* from rhs with += ends at lhs, and no shorter walk does.
RingDistance ==
  \A lhs \in Values :
    LET distance == Minus(lhs, value)
    IN  /\ AddAssign(value, distance) = lhs
        /\ \A shorter \in 0 .. distance - 1 : AddAssign(value, shorter) # lhs

\* Whatever the clock reads and whether or not it wraps in between, a Duration
\* is the time that passed, and a pause in the unit of the clock lasts as long
\* as asked; one in milliseconds does exactly if that is less than a turn of
\* the clock (timeline.hpp:107).
TimePasses ==
  \A time \in 0 .. ClockMax - 1 :
    /\ MicroDuration(Clock(position + time), value) = time
    /\ MilliDuration(Clock(position + time), value) = time \div PerMilli
    /\ \A delay \in 0 .. ClockMax - 1 :
         PauseGoesOn(Clock(position + time), value, delay) <=> time < delay

MilliPausesLast ==
  \A delay \in 0 .. ClockMax - 1 :
    delay * PerMilli < ClockMax
      <=> \A time \in 0 .. ClockMax - 1 :
            PauseGoesOn(Clock(position + time), value, MilliDelay(delay))
              <=> time < delay * PerMilli

\* delayUntil() tells a time to come from one gone by, and sleeps exactly until
\* the former, for all times less than half a turn of the clock away.
TellsFutureFromPast ==
  \A time \in -(ClockMax \div 2) .. ClockMax \div 2 - 1 :
    DelayUntil(Clock(position + time), value) = IF time > 0 THEN time ELSE Invalid

\* Equality and order of a UBitInt or BitInt with a number in its range are
\* those of the numbers.
Compares ==
  /\ kind = "unsigned" => \A n \in UMin .. UMax :
       /\ UEquals(n, value) <=> n = Worth(position)
       /\ ULess(n, value) <=> n < Worth(position)
       /\ UIsZero(value) <=> Worth(position) = 0
  /\ kind = "signed" => \A n \in SMin .. SMax :
       /\ SEquals(n, value) <=> n = Worth(position)
       /\ SIsZero(value) <=> Worth(position) = 0

\* The distance of two points of a number that wraps is the way from one to
\* the other, wherever on the circle they are: RingUnsigned's operator-, the
\* durations and pauses of the timeline, Thread::delayUntil(), and equality
\* and order of the bit integers.
DistanceInv ==
  /\ kind = "ring" => RingDistance
  /\ kind = "time" => TimePasses /\ MilliPausesLast /\ TellsFutureFromPast
  /\ Compares
=============================================================================
