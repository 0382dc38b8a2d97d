----------------------------- MODULE RingBuffer -----------------------------
(***************************************************************************)
(* RingBuffer<Type, item_size> of                                          *)
(* core/inc/emdevif/core/data_container/ring_buffer.hpp as a data type: a  *)
(* ring is a record of the four members, and each method is the operator   *)
(* that gives the ring it leaves behind.  Modules that own a ring keep it  *)
(* in a variable and apply these operators to it.                          *)
(***************************************************************************)
EXTENDS Integers, Sequences

CONSTANTS ItemSize,   \* the template argument item_size
          SizeMax,    \* 2^w for a std::size_t of w bits
          Type,       \* the values a slot may be given
          Unset       \* what a slot holds before its first assignment

ASSUME RingAssumption ==
  /\ ItemSize \in Nat \ {0}
  /\ SizeMax \in Nat
  /\ 2 * ItemSize <= SizeMax

Index == INSTANCE RingUnsigned WITH MaxNum <- ItemSize

Slots == 0 .. ItemSize - 1

Rings == [buffer : [Slots -> Type \cup {Unset}],
          head   : Slots,          \* the slot the next push writes
          tail   : Slots,          \* the slot the next pop reads
          count  : 0 .. ItemSize]

IsEmpty(r) == r.count = 0
IsFull(r) == r.count = ItemSize
RemainSlots(r) == ItemSize - r.count

Ring(buffer, head, tail, count) ==
  [buffer |-> buffer, head |-> head, tail |-> tail, count |-> count]

NewRing == Ring([i \in Slots |-> Unset], 0, 0, 0)

\* The slots are left as they are.
Cleared(r) == Ring(r.buffer, 0, 0, 0)

-----------------------------------------------------------------------------
\* Writing

\* *nextSlot() = value: in a full ring this is the slot of the oldest item.
NextSlotWritten(r, value) ==
  Ring([r.buffer EXCEPT ![r.head] = value], r.head, r.tail, r.count)

\* Faulty forms of the step over a slot: no test for a full ring, and a
\* tail that does not give way.
TakeSlotUnchecked(r) ==
  Ring(r.buffer, Index!Increment(r.head), r.tail, r.count + 1)

TakeSlotKeepingTail(r) ==
  Ring(r.buffer, Index!Increment(r.head), r.tail,
       IF IsFull(r) THEN r.count ELSE r.count + 1)

\* Move head over one more slot: the tail gives way in a full ring.
TakeSlot(r) ==
  IF IsFull(r)
  THEN Ring(r.buffer, Index!Increment(r.head), Index!Increment(r.tail), r.count)
  ELSE Ring(r.buffer, Index!Increment(r.head), r.tail, r.count + 1)

\* push(item)
Pushed(r, item) == TakeSlot(NextSlotWritten(r, item))

\* Faulty form of the copy: its second piece starts at items[0] again.
CopiedInRestarting(r, items) ==
  LET lastRemainSlots == ItemSize - r.head
  IN  [i \in Slots |->
         IF i - r.head \in 0 .. Len(items) - 1 THEN items[i - r.head + 1]
         ELSE IF i + lastRemainSlots < Len(items) THEN items[i + 1]
                                                  ELSE r.buffer[i]]

\* Copy items into the slots from head on, in two pieces when they pass the
\* end of the array: the first ItemSize - head of them, then the rest from 0.
CopiedIn(r, items) ==
  LET lastRemainSlots == ItemSize - r.head
  IN  [i \in Slots |->
         IF i - r.head \in 0 .. Len(items) - 1 THEN items[i - r.head + 1]
         ELSE IF i + lastRemainSlots < Len(items)
              THEN items[i + lastRemainSlots + 1]
              ELSE r.buffer[i]]

\* push(span) of a trivially copyable Type when the items fit: memcpy.
PushedCopy(r, items) ==
  Ring(CopiedIn(r, items), Index!AddAssign(r.head, Len(items)), r.tail,
       r.count + Len(items))

\* useNextSlot()
NextSlotUsed(r) == TakeSlot(r)

\* havePushed(slots)
HavePushed(r, slots) ==
  LET n == IF slots > RemainSlots(r) THEN RemainSlots(r) ELSE slots
  IN  Ring(r.buffer, Index!AddAssign(r.head, n), r.tail, r.count + n)

-----------------------------------------------------------------------------
\* Reading

\* peek(), peekRef()
Peek(r) == r.buffer[r.tail]

\* pop(): no test for an empty ring, and count_ is a std::size_t.
Popped(r) ==
  Ring(r.buffer, r.head, Index!Increment(r.tail), Index!Wrap(r.count - 1))

\* peek(span) of n items: memcpy from tail on, in two pieces at the end.
PeekCopy(r, n) ==
  LET lastRemainSlots == ItemSize - r.tail
  IN  [k \in 1 .. n |-> IF k <= lastRemainSlots
                        THEN r.buffer[r.tail + k - 1]
                        ELSE r.buffer[k - lastRemainSlots - 1]]

\* pop(span) of a trivially copyable Type when the ring has n items.
PoppedCopy(r, n) ==
  Ring(r.buffer, r.head, Index!AddAssign(r.tail, n), r.count - n)

\* discard(slots)
Discarded(r, slots) ==
  LET n == IF slots > r.count THEN r.count ELSE slots
  IN  Ring(r.buffer, r.head, Index!AddAssign(r.tail, n), r.count - n)

-----------------------------------------------------------------------------
\* The items a ring holds, oldest first.
Contents(r) == [k \in 1 .. r.count |-> r.buffer[(r.tail + k - 1) % ItemSize]]

\* The head is count slots ahead of the tail.
Aligned(r) == r.head = (r.tail + r.count) % ItemSize
=============================================================================
