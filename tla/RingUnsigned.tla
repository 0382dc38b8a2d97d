---------------------------- MODULE RingUnsigned ----------------------------
(***************************************************************************)
(* The index type of the ring buffer: RingUnsigned<ValueType, max_num> of  *)
(* core/inc/emdevif/core/data_container/ring_buffer.hpp.  The value is     *)
(* stored in a std::size_t, so every sum is first reduced modulo SizeMax,  *)
(* the number of values of std::size_t, and only then modulo MaxNum.       *)
(* A method that assigns value_ is the operator that gives its new value.  *)
(***************************************************************************)
EXTENDS Integers

CONSTANTS MaxNum,   \* the template argument max_num
          SizeMax   \* 2^w for a std::size_t of w bits

\* An object, and so an array's length, takes at most half of the values of
\* std::size_t: pointer differences inside it are signed.
ASSUME MaxNumAssumption ==
  /\ MaxNum \in Nat \ {0}
  /\ SizeMax \in Nat
  /\ 2 * MaxNum <= SizeMax

Values == 0 .. MaxNum - 1

\* std::size_t arithmetic.
Wrap(n) == n % SizeMax

\* explicit RingUnsigned(init_value)
Make(initValue) == initValue % MaxNum

\* operator++
Increment(value) == Wrap(value + 1) % MaxNum

\* operator--, prefix
Decrement(value) == IF value = 0 THEN MaxNum - 1 ELSE value - 1

\* operator+=
AddAssign(value, rhs) == Wrap(value + rhs) % MaxNum

\* operator-: the clockwise distance from rhs to lhs
Minus(lhs, rhs) ==
  IF lhs >= rhs THEN Make(lhs - rhs) ELSE Make(MaxNum - (rhs - lhs))
=============================================================================
