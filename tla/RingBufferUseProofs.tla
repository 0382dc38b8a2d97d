------------------------- MODULE RingBufferUseProofs ------------------------
(***************************************************************************)
(* For every ring size and element type, and for spans of any length: a    *)
(* RingBuffer that one thread uses by the rules keeps its members in range *)
(* and its head count slots ahead of its tail.  First what the operators   *)
(* of RingBuffer return, then the calls.                                   *)
(***************************************************************************)
EXTENDS RingBufferUse, SequenceTheorems, TLAPS

-----------------------------------------------------------------------------
(* The operators.                                                          *)

\* A ring that a sequence of calls can have left behind.
Sound(r) == r \in Rings /\ Aligned(r)

\* RingUnsigned::operator++ steps to the next slot, or from the last to 0.
LEMMA IncrementFact ==
  ASSUME NEW v \in Slots
  PROVE  /\ Index!Increment(v) \in Slots
         /\ Index!Increment(v) = (v + 1) % ItemSize
BY RingAssumption DEF Index!Increment, Index!Wrap, Slots

\* RingUnsigned::operator+= of at most a whole turn does not overflow
\* std::size_t and stays in range.
LEMMA AddAssignFact ==
  ASSUME NEW v \in Slots, NEW n \in 0 .. ItemSize
  PROVE  /\ Index!AddAssign(v, n) \in Slots
         /\ Index!AddAssign(v, n) = (v + n) % ItemSize
BY RingAssumption DEF Index!AddAssign, Index!Wrap, Slots

\* A number has one remainder.
LEMMA ModUnique ==
  ASSUME NEW n \in Nat \ {0}, NEW q \in Int, NEW d \in 0 .. n - 1
  PROVE  (q * n + d) % n = d
OBVIOUS

\* Sums reduced at each step or once at the end are the same slot.
LEMMA ModAdd ==
  ASSUME NEW n \in Nat \ {0}, NEW x \in Nat, NEW y \in Nat
  PROVE  ((x % n) + y) % n = (x + y) % n
<1> DEFINE q == x \div n
           d == x % n
           p == (d + y) \div n
           e == (d + y) % n
<1>1. q \in Int /\ d \in 0 .. n - 1 /\ x = q * n + d
  OBVIOUS
<1>2. p \in Int /\ e \in 0 .. n - 1 /\ d + y = p * n + e
  BY <1>1
<1> HIDE DEF q, d, p, e
<1>3. x + y = (q + p) * n + e /\ q + p \in Int
  BY <1>1, <1>2
<1>4. ((q + p) * n + e) % n = e
  BY <1>2, <1>3, ModUnique
<1> QED
  BY <1>3, <1>4 DEF d, e

\* A position in the first turn is its own slot, and one turn later the same.
LEMMA ModTurn ==
  ASSUME NEW s \in Slots
  PROVE  s % ItemSize = s /\ (s + ItemSize) % ItemSize = s
BY RingAssumption DEF Slots

\* The members of a ring, and what they make of it.
LEMMA Members ==
  ASSUME NEW r \in Rings
  PROVE  /\ r.buffer \in [Slots -> Type \cup {Unset}]
         /\ r.head \in Slots /\ r.tail \in Slots
         /\ r.count \in 0 .. ItemSize
BY DEF Rings

\* Members in their ranges make a ring, and a sound one if head agrees.
LEMMA FromMembers ==
  ASSUME NEW b \in [Slots -> Type \cup {Unset}],
         NEW h \in Slots, NEW t \in Slots, NEW c \in 0 .. ItemSize
  PROVE  /\ Ring(b, h, t, c) \in Rings
         /\ h = (t + c) % ItemSize => Sound(Ring(b, h, t, c))
BY DEF Sound, Rings, Aligned, Ring

\* The constructor leaves a sound ring.
LEMMA NewRingFact == Sound(NewRing)
<1>1. 0 \in Slots /\ 0 \in 0 .. ItemSize /\ (0 + 0) % ItemSize = 0
  BY RingAssumption, ModTurn DEF Slots
<1> QED
  BY <1>1, FromMembers DEF NewRing

\* clear() leaves an empty ring, whatever was in it.
LEMMA ClearedFact ==
  ASSUME NEW r \in Rings
  PROVE  Sound(Cleared(r)) /\ IsEmpty(Cleared(r))
<1>1. 0 \in Slots /\ 0 \in 0 .. ItemSize /\ (0 + 0) % ItemSize = 0
  BY RingAssumption, ModTurn DEF Slots
<1>2. Sound(Cleared(r))
  BY <1>1, Members, FromMembers DEF Cleared
<1> QED
  BY <1>2 DEF IsEmpty, Cleared, Ring

\* A value written through nextSlot() moves no index.
LEMMA NextSlotWrittenFact ==
  ASSUME NEW r, Sound(r), NEW v \in Type
  PROVE  /\ Sound(NextSlotWritten(r, v))
         /\ NextSlotWritten(r, v).head = r.head
         /\ NextSlotWritten(r, v).tail = r.tail
         /\ NextSlotWritten(r, v).count = r.count
BY Members, FromMembers DEF NextSlotWritten, Ring, Sound, Aligned

\* useNextSlot(): the ring gains one item, or loses its oldest if it is full.
LEMMA TakeSlotFact ==
  ASSUME NEW r, Sound(r)
  PROVE  /\ Sound(TakeSlot(r))
         /\ TakeSlot(r).count = IF IsFull(r) THEN ItemSize ELSE r.count + 1
<1> DEFINE h == Index!Increment(r.head)
           t == Index!Increment(r.tail)
<1>1. r \in Rings /\ r.head = (r.tail + r.count) % ItemSize
  BY DEF Sound, Aligned
<1>2. /\ h \in Slots /\ h = (r.head + 1) % ItemSize
      /\ t \in Slots /\ t = (r.tail + 1) % ItemSize
  BY <1>1, Members, IncrementFact
<1> HIDE DEF h, t
<1>3. CASE IsFull(r)
  <2>1. h = (t + r.count) % ItemSize
    BY <1>1, <1>2, <1>3, ModTurn, Members DEF IsFull
  <2>2. TakeSlot(r) = Ring(r.buffer, h, t, r.count)
    BY <1>3 DEF TakeSlot, h, t
  <2> QED
    BY <1>1, <1>2, <1>3, <2>1, <2>2, Members, FromMembers DEF Ring, IsFull
<1>4. CASE ~IsFull(r)
  <2>1. r.count + 1 \in 0 .. ItemSize
    BY <1>1, <1>4, Members, RingAssumption DEF IsFull
  <2>2. h = (r.tail + (r.count + 1)) % ItemSize
    <3>1. r.tail + r.count \in Nat /\ r.tail \in Nat /\ r.count \in Nat
      BY <1>1, Members, RingAssumption DEF Slots
    <3>2. h = ((r.tail + r.count) + 1) % ItemSize
      BY <1>1, <1>2, <3>1, ModAdd, RingAssumption
    <3> QED
      BY <3>1, <3>2
  <2>3. TakeSlot(r) = Ring(r.buffer, h, r.tail, r.count + 1)
    BY <1>4 DEF TakeSlot, h
  <2> QED
    BY <1>1, <1>2, <1>4, <2>1, <2>2, <2>3, Members, FromMembers DEF Ring
<1> QED
  BY <1>3, <1>4

\* push(item)
LEMMA PushedFact ==
  ASSUME NEW r, Sound(r), NEW v \in Type
  PROVE  Sound(Pushed(r, v))
BY NextSlotWrittenFact, TakeSlotFact DEF Pushed

\* head moved over n slots that were free: push(span), havePushed().
LEMMA GrownFact ==
  ASSUME NEW r, Sound(r), NEW n \in 0 .. RemainSlots(r),
         NEW b \in [Slots -> Type \cup {Unset}]
  PROVE  Sound(Ring(b, Index!AddAssign(r.head, n), r.tail, r.count + n))
<1>1. /\ r.tail \in Slots /\ r.tail \in Nat /\ r.count \in Nat /\ n \in Nat
      /\ n \in 0 .. ItemSize /\ r.count + n \in 0 .. ItemSize
      /\ r.head \in Slots /\ r.head = (r.tail + r.count) % ItemSize
  BY Members, RingAssumption DEF Sound, Aligned, RemainSlots, Slots
<1>2. /\ Index!AddAssign(r.head, n) \in Slots
      /\ Index!AddAssign(r.head, n) = (r.head + n) % ItemSize
  BY <1>1, AddAssignFact
<1>3. (r.head + n) % ItemSize = ((r.tail + r.count) + n) % ItemSize
  BY <1>1, ModAdd, RingAssumption
<1>4. (r.tail + r.count) + n = r.tail + (r.count + n)
  BY <1>1
<1> QED
  BY <1>1, <1>2, <1>3, <1>4, FromMembers

\* tail moved over n items of the ring: pop(span), discard(), pop().
LEMMA ShrunkFact ==
  ASSUME NEW r, Sound(r), NEW n \in 0 .. r.count
  PROVE  Sound(Ring(r.buffer, r.head, Index!AddAssign(r.tail, n), r.count - n))
<1>1. /\ r.buffer \in [Slots -> Type \cup {Unset}]
      /\ r.tail \in Slots /\ r.tail \in Nat /\ r.count \in Nat /\ n \in Nat
      /\ n \in 0 .. ItemSize /\ r.count - n \in 0 .. ItemSize
      /\ r.head \in Slots /\ r.head = (r.tail + r.count) % ItemSize
  BY Members, RingAssumption DEF Sound, Aligned, Slots
<1>2. /\ Index!AddAssign(r.tail, n) \in Slots
      /\ Index!AddAssign(r.tail, n) = (r.tail + n) % ItemSize
  BY <1>1, AddAssignFact
<1>3. (((r.tail + n) % ItemSize) + (r.count - n)) % ItemSize
        = ((r.tail + n) + (r.count - n)) % ItemSize
  <2>1. r.tail + n \in Nat /\ r.count - n \in Nat
    BY <1>1
  <2> QED
    BY <2>1, ModAdd, RingAssumption
<1>4. (r.tail + n) + (r.count - n) = r.tail + r.count
  BY <1>1
<1> QED
  BY <1>1, <1>2, <1>3, <1>4, FromMembers

\* push(span) by memcpy: the two pieces stay inside the array.
LEMMA CopiedInFact ==
  ASSUME NEW r \in Rings, NEW items \in Seq(Type)
  PROVE  CopiedIn(r, items) \in [Slots -> Type \cup {Unset}]
<1> SUFFICES ASSUME NEW i \in Slots
             PROVE  CopiedIn(r, items)[i] \in Type \cup {Unset}
  BY DEF CopiedIn
<1>1. /\ r.head \in Slots /\ r.buffer[i] \in Type \cup {Unset}
      /\ Len(items) \in Nat
      /\ \A k \in 1 .. Len(items) : items[k] \in Type
  BY Members
<1>2. CASE i - r.head \in 0 .. Len(items) - 1
  BY <1>1, <1>2, RingAssumption DEF CopiedIn, Slots
<1>3. CASE /\ i - r.head \notin 0 .. Len(items) - 1
           /\ i + (ItemSize - r.head) < Len(items)
  <2>1. i + (ItemSize - r.head) + 1 \in 1 .. Len(items)
    BY <1>1, <1>3, RingAssumption DEF Slots
  <2>2. CopiedIn(r, items)[i] = items[i + (ItemSize - r.head) + 1]
    BY <1>3 DEF CopiedIn
  <2> QED
    BY <1>1, <2>1, <2>2
<1>4. CASE /\ i - r.head \notin 0 .. Len(items) - 1
           /\ ~(i + (ItemSize - r.head) < Len(items))
  BY <1>1, <1>4 DEF CopiedIn
<1> QED
  BY <1>2, <1>3, <1>4

\* push(span) by memcpy, of items that fit.
LEMMA PushedCopyFact ==
  ASSUME NEW r, Sound(r), NEW items \in Seq(Type),
         Len(items) <= RemainSlots(r)
  PROVE  Sound(PushedCopy(r, items))
<1>1. Len(items) \in 0 .. RemainSlots(r)
  BY Members, RingAssumption DEF Sound, RemainSlots
<1>2. CopiedIn(r, items) \in [Slots -> Type \cup {Unset}]
  BY CopiedInFact DEF Sound
<1> QED
  BY <1>1, <1>2, GrownFact DEF PushedCopy

\* havePushed(): never more than there is room for.
LEMMA HavePushedFact ==
  ASSUME NEW r, Sound(r), NEW slots \in Nat
  PROVE  Sound(HavePushed(r, slots))
<1> DEFINE n == IF slots > RemainSlots(r) THEN RemainSlots(r) ELSE slots
<1>1. n \in 0 .. RemainSlots(r) /\ r.buffer \in [Slots -> Type \cup {Unset}]
  BY Members, RingAssumption DEF Sound, RemainSlots
<1>2. HavePushed(r, slots)
        = Ring(r.buffer, Index!AddAssign(r.head, n), r.tail, r.count + n)
  BY DEF HavePushed
<1> HIDE DEF n
<1> QED
  BY <1>1, <1>2, GrownFact

\* pop(): not on an empty ring, where --count_ would wrap.
LEMMA PoppedFact ==
  ASSUME NEW r, Sound(r), ~IsEmpty(r)
  PROVE  Sound(Popped(r)) /\ Popped(r).count = r.count - 1
<1>1. /\ 1 \in 0 .. r.count /\ r.tail \in Slots
      /\ Index!Wrap(r.count - 1) = r.count - 1
  BY Members, RingAssumption DEF Sound, IsEmpty, Index!Wrap
<1>2. Index!Increment(r.tail) = Index!AddAssign(r.tail, 1)
  BY DEF Index!Increment, Index!AddAssign
<1> QED
  BY <1>1, <1>2, ShrunkFact DEF Popped, Ring

\* pop(span) by memcpy, of items the ring has.
LEMMA PoppedCopyFact ==
  ASSUME NEW r, Sound(r), NEW n \in 0 .. r.count
  PROVE  Sound(PoppedCopy(r, n))
BY ShrunkFact DEF PoppedCopy

\* discard(): never more than there is, so always legal.
LEMMA DiscardedFact ==
  ASSUME NEW r, Sound(r), NEW slots \in Nat
  PROVE  /\ Sound(Discarded(r, slots))
         /\ Discarded(r, slots).count
              = r.count - (IF slots > r.count THEN r.count ELSE slots)
<1> DEFINE n == IF slots > r.count THEN r.count ELSE slots
<1>1. n \in 0 .. r.count
  BY Members, RingAssumption DEF Sound
<1>2. Discarded(r, slots)
        = Ring(r.buffer, r.head, Index!AddAssign(r.tail, n), r.count - n)
  BY DEF Discarded
<1> HIDE DEF n
<1> QED
  BY <1>1, <1>2, ShrunkFact DEF Ring, n

\* peek() reads a slot of the array.
LEMMA PeekFact ==
  ASSUME NEW r \in Rings
  PROVE  Peek(r) \in Type \cup {Unset}
BY Members DEF Peek

\* peek(span) reads in two pieces, both inside the array.
LEMMA PeekCopyFact ==
  ASSUME NEW r \in Rings, NEW n \in 0 .. r.count
  PROVE  PeekCopy(r, n) \in Seq(Type \cup {Unset})
<1>1. /\ r.tail \in Slots /\ r.count \in 0 .. ItemSize
      /\ \A i \in Slots : r.buffer[i] \in Type \cup {Unset}
  BY Members
<1>2. ASSUME NEW k \in 1 .. n
      PROVE  PeekCopy(r, n)[k] \in Type \cup {Unset}
  <2>1. CASE k <= ItemSize - r.tail
    BY <1>1, <2>1, RingAssumption DEF PeekCopy, Slots
  <2>2. CASE ~(k <= ItemSize - r.tail)
    BY <1>1, <2>2, RingAssumption DEF PeekCopy, Slots
  <2> QED
    BY <2>1, <2>2
<1> QED
  BY <1>1, <1>2, RingAssumption DEF PeekCopy

-----------------------------------------------------------------------------
(* What the methods do to the items, oldest first.                         *)

Items == Seq(Type \cup {Unset})

\* The slot d places behind another.
LEMMA SlotBehind ==
  ASSUME NEW s \in Slots, NEW d \in 0 .. ItemSize
  PROVE  /\ (s + d) % ItemSize \in Slots
         /\ (s + d) % ItemSize = IF s + d < ItemSize THEN s + d ELSE s + d - ItemSize
<1>1. s \in Nat /\ d \in Nat /\ ItemSize \in Nat \ {0} /\ s < ItemSize /\ d <= ItemSize
  BY RingAssumption DEF Slots
<1>2. CASE s + d < ItemSize
  <2>1. s + d \in Slots
    BY <1>1, <1>2 DEF Slots
  <2> QED
    BY <1>2, <2>1, ModTurn
<1>3. CASE ~(s + d < ItemSize)
  <2> DEFINE e == s + d - ItemSize
  <2>1. e \in Slots /\ s + d = e + ItemSize
    BY <1>1, <1>3 DEF Slots
  <2> HIDE DEF e
  <2>2. (s + d) % ItemSize = e
    BY <2>1, ModTurn
  <2> QED
    BY <1>3, <2>1, <2>2 DEF e
<1> QED
  BY <1>2, <1>3

\* The slot of the k-th oldest item.
LEMMA ContentsFact ==
  ASSUME NEW r \in Rings
  PROVE  /\ Contents(r) \in Items /\ Len(Contents(r)) = r.count
         /\ \A k \in 1 .. r.count :
              Contents(r)[k] = r.buffer[IF r.tail + k - 1 < ItemSize
                                        THEN r.tail + k - 1
                                        ELSE r.tail + k - 1 - ItemSize]
<1>1. /\ r.tail \in Slots /\ r.count \in Nat /\ r.count <= ItemSize
      /\ \A i \in Slots : r.buffer[i] \in Type \cup {Unset}
      /\ ItemSize \in Nat \ {0} /\ r.tail \in Nat
  BY Members, RingAssumption DEF Slots
<1>2. ASSUME NEW k \in 1 .. r.count
      PROVE  /\ (r.tail + k - 1) % ItemSize \in Slots
             /\ (r.tail + k - 1) % ItemSize =
                  IF r.tail + k - 1 < ItemSize THEN r.tail + k - 1
                                               ELSE r.tail + k - 1 - ItemSize
  <2>1. k - 1 \in 0 .. ItemSize /\ r.tail + (k - 1) = r.tail + k - 1
    BY <1>1
  <2> QED
    BY <1>1, <2>1, SlotBehind
<1>3. \A k \in 1 .. r.count : Contents(r)[k] \in Type \cup {Unset}
  BY <1>1, <1>2 DEF Contents
<1>4. Contents(r) \in Items /\ Len(Contents(r)) = r.count
  <2>1. Contents(r) \in [1 .. r.count -> Type \cup {Unset}]
    BY <1>3 DEF Contents
  <2> QED
    BY <1>1, <2>1 DEF Items
<1> QED
  BY <1>2, <1>4 DEF Contents

\* peek() gives the oldest item.
LEMMA PeekedOldest ==
  ASSUME NEW r \in Rings, ~IsEmpty(r)
  PROVE  <<Peek(r)>> = SubSeq(Contents(r), 1, 1)
<1>1. /\ r.tail \in Nat /\ r.tail < ItemSize
      /\ r.count \in Nat /\ 1 <= r.count /\ ItemSize \in Nat
  BY Members, RingAssumption DEF IsEmpty, Slots
<1>2. Contents(r)[1] = Peek(r)
  BY <1>1, ContentsFact DEF Peek
<1>3. Contents(r) \in Items /\ Len(Contents(r)) = r.count
  BY ContentsFact
<1> QED
  BY <1>1, <1>2, <1>3 DEF Items

\* peek(span) gives the n oldest items, in both of its pieces.
LEMMA PeekedCopy ==
  ASSUME NEW r \in Rings, NEW n \in 0 .. r.count
  PROVE  PeekCopy(r, n) = SubSeq(Contents(r), 1, n)
<1>1. /\ r.tail \in Nat /\ r.tail < ItemSize /\ n \in Nat /\ n <= r.count
      /\ r.count \in Nat /\ r.count <= ItemSize /\ ItemSize \in Nat
  BY Members, RingAssumption DEF Slots
<1>2. Contents(r) \in Items /\ Len(Contents(r)) = r.count
  BY ContentsFact
<1>3. ASSUME NEW k \in 1 .. n
      PROVE  PeekCopy(r, n)[k] = Contents(r)[k]
  <2>1. k \in Int /\ 1 <= k /\ k <= n /\ k \in 1 .. r.count
    BY <1>1
  <2>2. CASE k <= ItemSize - r.tail
    <3>1. r.tail + k - 1 < ItemSize
      BY <1>1, <2>1, <2>2
    <3>2. Contents(r)[k] = r.buffer[r.tail + k - 1]
      BY <2>1, <3>1, ContentsFact
    <3> QED
      BY <2>2, <3>2 DEF PeekCopy
  <2>3. CASE ~(k <= ItemSize - r.tail)
    <3>1. /\ ~(r.tail + k - 1 < ItemSize)
          /\ k - (ItemSize - r.tail) - 1 = r.tail + k - 1 - ItemSize
      BY <1>1, <2>1, <2>3
    <3>2. Contents(r)[k] = r.buffer[r.tail + k - 1 - ItemSize]
      BY <2>1, <3>1, ContentsFact
    <3> QED
      BY <2>3, <3>1, <3>2 DEF PeekCopy
  <2> QED
    BY <2>2, <2>3
<1>4. PeekCopy(r, n) \in Items /\ Len(PeekCopy(r, n)) = n
  BY <1>1, PeekCopyFact DEF PeekCopy, Items
<1>5. SubSeq(Contents(r), 1, n) \in Items /\ Len(SubSeq(Contents(r), 1, n)) = n
  BY <1>1, <1>2 DEF Items
<1>6. \A k \in 1 .. n : SubSeq(Contents(r), 1, n)[k] = Contents(r)[k]
  BY <1>1, <1>2 DEF Items
<1> QED
  BY <1>3, <1>4, <1>5, <1>6, SeqEqual DEF Items

\* tail moved over n items: the n oldest are gone.
LEMMA ShrunkContents ==
  ASSUME NEW r, Sound(r), NEW n \in 0 .. r.count
  PROVE  Contents(Ring(r.buffer, r.head, Index!AddAssign(r.tail, n), r.count - n))
           = SubSeq(Contents(r), n + 1, r.count)
<1> DEFINE t == Index!AddAssign(r.tail, n)
           q == Ring(r.buffer, r.head, t, r.count - n)
<1>1. /\ r \in Rings /\ r.tail \in Slots
      /\ r.tail \in Nat /\ r.tail < ItemSize /\ n \in Nat /\ n <= r.count
      /\ r.count \in Nat /\ r.count <= ItemSize /\ ItemSize \in Nat
      /\ n \in 0 .. ItemSize
  BY Members, RingAssumption DEF Slots, Sound
<1>2. /\ t \in Slots /\ t \in Nat
      /\ t = IF r.tail + n < ItemSize THEN r.tail + n ELSE r.tail + n - ItemSize
  <2>1. t \in Slots /\ t = (r.tail + n) % ItemSize
    BY <1>1, AddAssignFact
  <2>2. t \in Nat
    BY <2>1 DEF Slots
  <2> HIDE DEF t
  <2> QED
    BY <1>1, <2>1, <2>2, SlotBehind
<1>3. q \in Rings /\ q.tail = t /\ q.count = r.count - n /\ q.buffer = r.buffer
  BY <1>1, ShrunkFact DEF Ring, Sound
<1> HIDE DEF t, q
<1>4. Contents(r) \in Items /\ Len(Contents(r)) = r.count
  BY <1>1, ContentsFact
<1>5. Contents(q) \in Items /\ Len(Contents(q)) = r.count - n
  BY <1>3, ContentsFact
<1>6. ASSUME NEW k \in 1 .. r.count - n
      PROVE  Contents(q)[k] = Contents(r)[n + k]
  <2>1. k \in 1 .. q.count /\ n + k \in 1 .. r.count /\ k \in Nat
    BY <1>1, <1>3
  <2>2. (IF t + k - 1 < ItemSize THEN t + k - 1 ELSE t + k - 1 - ItemSize)
          = IF r.tail + (n + k) - 1 < ItemSize THEN r.tail + (n + k) - 1
                                               ELSE r.tail + (n + k) - 1 - ItemSize
    BY <1>1, <1>2, <2>1
  <2>3. Contents(q)[k] = r.buffer[IF t + k - 1 < ItemSize THEN t + k - 1
                                                          ELSE t + k - 1 - ItemSize]
    BY <1>3, <2>1, ContentsFact
  <2> QED
    BY <1>1, <2>1, <2>2, <2>3, ContentsFact
<1>7. /\ SubSeq(Contents(r), n + 1, r.count) \in Items
      /\ Len(SubSeq(Contents(r), n + 1, r.count)) = r.count - n
      /\ \A k \in 1 .. r.count - n :
           SubSeq(Contents(r), n + 1, r.count)[k] = Contents(r)[n + k]
  BY <1>1, <1>4 DEF Items
<1>8. Contents(q) = SubSeq(Contents(r), n + 1, r.count)
  BY <1>5, <1>6, <1>7, SeqEqual DEF Items
<1> QED
  BY <1>8 DEF q, t

\* The methods that take items out.
LEMMA TakenOut ==
  ASSUME NEW r, Sound(r)
  PROVE  /\ Contents(Cleared(r)) = <<>>
         /\ ~IsEmpty(r) => Contents(Popped(r)) = SubSeq(Contents(r), 2, r.count)
         /\ \A n \in 0 .. r.count :
              Contents(PoppedCopy(r, n)) = SubSeq(Contents(r), n + 1, r.count)
         /\ \A slots \in Nat :
              Contents(Discarded(r, slots)) = SubSeq(Contents(r), slots + 1, r.count)
<1>1. r \in Rings /\ r.tail \in Slots /\ r.count \in Nat /\ ItemSize \in Nat \ {0}
      /\ r.count <= ItemSize
  BY Members, RingAssumption DEF Sound
<1>2. Contents(Cleared(r)) = <<>>
  BY DEF Contents, Cleared, Ring
<1>3. ASSUME ~IsEmpty(r)
      PROVE  Contents(Popped(r)) = SubSeq(Contents(r), 2, r.count)
  <2>1. 1 \in 0 .. r.count /\ 1 \in 0 .. ItemSize /\ 1 + 1 = 2
    BY <1>1, <1>3 DEF IsEmpty
  <2>2. Index!Increment(r.tail) = Index!AddAssign(r.tail, 1)
    BY <1>1, <2>1, IncrementFact, AddAssignFact
  <2>3. Popped(r).count = r.count - 1
    BY <1>3, PoppedFact
  <2>4. Popped(r) = Ring(r.buffer, r.head, Index!AddAssign(r.tail, 1), r.count - 1)
    BY <2>2, <2>3 DEF Popped, Ring
  <2> QED
    BY <2>1, <2>4, ShrunkContents
<1>4. \A n \in 0 .. r.count :
        Contents(PoppedCopy(r, n)) = SubSeq(Contents(r), n + 1, r.count)
  BY ShrunkContents DEF PoppedCopy
<1>5. ASSUME NEW slots \in Nat
      PROVE  Contents(Discarded(r, slots)) = SubSeq(Contents(r), slots + 1, r.count)
  <2> DEFINE n == IF slots > r.count THEN r.count ELSE slots
  <2>1. n \in 0 .. r.count
    BY <1>1
  <2>2. Discarded(r, slots)
          = Ring(r.buffer, r.head, Index!AddAssign(r.tail, n), r.count - n)
    BY DEF Discarded
  <2>3. Contents(r) \in Items /\ Len(Contents(r)) = r.count
    BY <1>1, ContentsFact DEF Sound
  <2>4. SubSeq(Contents(r), n + 1, r.count) = SubSeq(Contents(r), slots + 1, r.count)
    <3>1. CASE slots > r.count
      <4>1. /\ SubSeq(Contents(r), r.count + 1, r.count) = <<>>
            /\ SubSeq(Contents(r), slots + 1, r.count) = <<>>
        BY <1>1, <2>3, <3>1 DEF Items
      <4> QED
        BY <3>1, <4>1
    <3> QED
      BY <1>1, <3>1
  <2> HIDE DEF n
  <2> QED
    BY <2>1, <2>2, <2>4, ShrunkContents
<1> QED
  BY <1>2, <1>3, <1>4, <1>5

\* The items stand in the slots from head on.
Staying(b, h, items) ==
  \A k \in 1 .. Len(items) :
    b[IF h + k - 1 < ItemSize THEN h + k - 1 ELSE h + k - 1 - ItemSize] = items[k]

\* The slots of the items a ring holds are the same in two arrays.
Undisturbed(r, b) ==
  \A k \in 1 .. r.count :
    LET i == IF r.tail + k - 1 < ItemSize THEN r.tail + k - 1
                                          ELSE r.tail + k - 1 - ItemSize
    IN b[i] = r.buffer[i]

\* head moved over free slots in which items stand: the ring has them too.
LEMMA GrownContents ==
  ASSUME NEW r, Sound(r), NEW b \in [Slots -> Type \cup {Unset}],
         NEW items \in Items, Len(items) <= RemainSlots(r),
         Staying(b, r.head, items), Undisturbed(r, b)
  PROVE  Contents(Ring(b, Index!AddAssign(r.head, Len(items)), r.tail,
                       r.count + Len(items))) = Contents(r) \o items
<1> DEFINE n == Len(items)
           q == Ring(b, Index!AddAssign(r.head, n), r.tail, r.count + n)
<1>1. /\ r \in Rings /\ r.tail \in Slots
      /\ r.tail \in Nat /\ r.tail < ItemSize /\ n \in Nat
      /\ r.count \in Nat /\ r.count + n <= ItemSize /\ ItemSize \in Nat
      /\ r.count \in 0 .. ItemSize /\ n \in 0 .. RemainSlots(r)
  BY Members, RingAssumption DEF Slots, Sound, RemainSlots, Items
<1>2. r.head \in Nat /\ r.head = IF r.tail + r.count < ItemSize
                                 THEN r.tail + r.count ELSE r.tail + r.count - ItemSize
  <2>1. r.head \in Slots /\ r.head = (r.tail + r.count) % ItemSize
    BY <1>1, Members DEF Sound, Aligned
  <2>2. r.head \in Nat
    BY <2>1 DEF Slots
  <2> QED
    BY <1>1, <2>1, <2>2, SlotBehind
<1> HIDE DEF n
<1>3. q \in Rings /\ q.tail = r.tail /\ q.count = r.count + n /\ q.buffer = b
  BY <1>1, GrownFact DEF Ring, Sound
<1> HIDE DEF q
<1>4. Contents(r) \in Items /\ Len(Contents(r)) = r.count
  BY <1>1, ContentsFact
<1>5. Contents(q) \in Items /\ Len(Contents(q)) = r.count + n
  BY <1>3, ContentsFact
<1>6. /\ Contents(r) \o items \in Items
      /\ Len(Contents(r) \o items) = r.count + n
      /\ \A k \in 1 .. r.count + n :
           (Contents(r) \o items)[k] = IF k <= r.count THEN Contents(r)[k]
                                                       ELSE items[k - r.count]
  <2>1. Len(items) = n /\ items \in Items
    BY DEF n
  <2>2. /\ Contents(r) \o items \in Items
        /\ Len(Contents(r) \o items) = Len(Contents(r)) + Len(items)
        /\ \A k \in 1 .. Len(Contents(r)) + Len(items) :
             (Contents(r) \o items)[k] = IF k <= Len(Contents(r)) THEN Contents(r)[k]
                                         ELSE items[k - Len(Contents(r))]
    BY <1>4, <2>1, ConcatProperties DEF Items
  <2> QED
    BY <1>4, <2>1, <2>2
<1>7. ASSUME NEW k \in 1 .. r.count + n
      PROVE  Contents(q)[k] = (Contents(r) \o items)[k]
  <2>1. Contents(q)[k] = b[IF r.tail + k - 1 < ItemSize THEN r.tail + k - 1
                                                      ELSE r.tail + k - 1 - ItemSize]
    BY <1>3, ContentsFact
  <2>2. CASE k <= r.count
    <3>1. k \in 1 .. r.count
      BY <1>1, <2>2
    <3> QED
      BY <1>1, <1>6, <2>1, <2>2, <3>1, ContentsFact DEF Undisturbed
  <2>3. CASE ~(k <= r.count)
    <3> DEFINE j == k - r.count
    <3>1. j \in 1 .. n /\ j \in Nat /\ k = r.count + j
      BY <1>1, <2>3
    <3> HIDE DEF j
    <3>2. items[j] = b[IF r.head + j - 1 < ItemSize THEN r.head + j - 1
                                                    ELSE r.head + j - 1 - ItemSize]
      BY <3>1 DEF Staying, n
    <3>3. Contents(q)[k] = items[j]
      <4>1. r.count + j <= ItemSize /\ 1 <= j
        BY <1>1, <3>1
      <4>2. CASE r.tail + k - 1 < ItemSize
        <5>1. r.tail + k - 1 = r.head + j - 1
          BY ONLY <1>1, <1>2, <3>1, <4>1, <4>2
        <5> QED
          BY ONLY <2>1, <3>2, <4>2, <5>1
      <4>3. CASE ~(r.tail + k - 1 < ItemSize) /\ r.tail + r.count < ItemSize
        <5>1. r.tail + k - 1 = r.head + j - 1
          BY ONLY <1>1, <1>2, <3>1, <4>1, <4>3
        <5> QED
          BY ONLY <1>1, <1>2, <2>1, <3>1, <3>2, <4>3, <5>1
      <4>4. CASE ~(r.tail + r.count < ItemSize)
        <5>1. r.head = r.tail + r.count - ItemSize
          BY <1>2, <4>4
        <5>2. r.tail + k - 1 - ItemSize = r.head + j - 1
          BY ONLY <1>1, <1>2, <3>1, <4>1, <5>1
        <5>3. ~(r.tail + k - 1 < ItemSize) /\ r.head + j - 1 < ItemSize
          BY ONLY <1>1, <1>2, <3>1, <4>1, <4>4, <5>1
        <5> QED
          BY ONLY <2>1, <3>2, <5>2, <5>3
      <4> QED
        BY <4>2, <4>3, <4>4
    <3> QED
      BY <1>6, <2>3, <3>3 DEF j
  <2> QED
    BY <2>2, <2>3
<1>8. Contents(q) = Contents(r) \o items
  BY <1>5, <1>6, <1>7, SeqEqual DEF Items
<1> QED
  BY <1>8 DEF q, n

\* What stands in nextSlot() when useNextSlot() is called becomes the newest
\* item; a full ring loses its oldest.
LEMMA TakeSlotContents ==
  ASSUME NEW r, Sound(r)
  PROVE  Contents(TakeSlot(r)) =
           IF IsFull(r) THEN Append(Tail(Contents(r)), r.buffer[r.head])
                        ELSE Append(Contents(r), r.buffer[r.head])
<1>1. /\ r \in Rings /\ r.tail \in Slots /\ r.head \in Slots
      /\ r.tail \in Nat /\ r.tail < ItemSize /\ r.head \in Nat /\ r.head < ItemSize
      /\ r.count \in Nat /\ r.count <= ItemSize /\ ItemSize \in Nat \ {0}
      /\ 1 \in 0 .. ItemSize /\ r.count \in 0 .. ItemSize
  BY Members, RingAssumption DEF Slots, Sound
<1>2. r.head = IF r.tail + r.count < ItemSize
               THEN r.tail + r.count ELSE r.tail + r.count - ItemSize
  BY <1>1, SlotBehind DEF Sound, Aligned
<1>3. r.buffer[r.head] \in Type \cup {Unset}
  BY <1>1, Members
<1>4. Contents(r) \in Items /\ Len(Contents(r)) = r.count
  BY <1>1, ContentsFact
<1>5. CASE ~IsFull(r)
  <2> DEFINE items == <<r.buffer[r.head]>>
  <2>1. items \in Items /\ Len(items) = 1 /\ items[1] = r.buffer[r.head]
    BY <1>3 DEF Items
  <2>2. Contents(r) \o items = Append(Contents(r), r.buffer[r.head])
    BY <1>3, <1>4 DEF Items
  <2> HIDE DEF items
  <2>3. Staying(r.buffer, r.head, items) /\ Undisturbed(r, r.buffer)
    BY <1>1, <2>1 DEF Staying, Undisturbed
  <2>4. 1 <= RemainSlots(r)
    BY <1>1, <1>5 DEF RemainSlots, IsFull
  <2>5. Index!Increment(r.head) = Index!AddAssign(r.head, 1)
    BY <1>1, IncrementFact, AddAssignFact
  <2>6. TakeSlot(r) = Ring(r.buffer, Index!AddAssign(r.head, 1), r.tail, r.count + 1)
    BY <1>5, <2>5 DEF TakeSlot
  <2>7. Contents(TakeSlot(r)) = Contents(r) \o items
    BY <1>1, <2>1, <2>3, <2>4, <2>6, GrownContents, Members
  <2> QED
    BY <1>5, <2>2, <2>7
<1>6. CASE IsFull(r)
  <2> DEFINE t == Index!Increment(r.tail)
             q == TakeSlot(r)
             v == r.buffer[r.head]
  <2>1. /\ t \in Slots
        /\ t = IF r.tail + 1 < ItemSize THEN r.tail + 1 ELSE r.tail + 1 - ItemSize
    BY <1>1, IncrementFact, SlotBehind
  <2>2. t \in Nat
    BY <2>1 DEF Slots
  <2>3. q.tail = t /\ q.buffer = r.buffer /\ q.count = r.count /\ q \in Rings
    BY <1>6, TakeSlotFact DEF TakeSlot, Ring, Sound
  <2>4. r.count = ItemSize /\ r.head = r.tail
    BY <1>1, <1>2, <1>6 DEF IsFull
  <2> HIDE DEF t, q
  <2>5. Contents(q) \in Items /\ Len(Contents(q)) = ItemSize
    BY <2>3, <2>4, ContentsFact
  <2>6. /\ Tail(Contents(r)) \in Items /\ Len(Tail(Contents(r))) = ItemSize - 1
        /\ \A k \in 1 .. ItemSize - 1 : Tail(Contents(r))[k] = Contents(r)[k + 1]
    BY <1>1, <1>4, <2>4 DEF Items
  <2> HIDE DEF v
  <2>7. /\ Append(Tail(Contents(r)), v) \in Items
        /\ Len(Append(Tail(Contents(r)), v)) = ItemSize
        /\ \A k \in 1 .. ItemSize - 1 :
             Append(Tail(Contents(r)), v)[k] = Contents(r)[k + 1]
        /\ Append(Tail(Contents(r)), v)[ItemSize] = v
    BY <1>1, <1>3, <2>6 DEF Items, v
  <2>8. ASSUME NEW k \in 1 .. ItemSize
        PROVE  Contents(q)[k] = Append(Tail(Contents(r)), v)[k]
    <3>1. Contents(q)[k] = r.buffer[IF t + k - 1 < ItemSize THEN t + k - 1
                                                          ELSE t + k - 1 - ItemSize]
      BY <2>3, <2>4, ContentsFact
    <3>2. CASE k < ItemSize
      <4> DEFINE j == k + 1
      <4>1. j \in 1 .. r.count /\ k \in 1 .. ItemSize - 1
        BY <1>1, <2>4, <3>2
      <4>2. (IF t + k - 1 < ItemSize THEN t + k - 1 ELSE t + k - 1 - ItemSize)
              = IF r.tail + j - 1 < ItemSize THEN r.tail + j - 1
                                             ELSE r.tail + j - 1 - ItemSize
        BY <1>1, <2>1, <2>2, <3>2
      <4>3. Append(Tail(Contents(r)), v)[k] = Contents(r)[j]
        BY <2>7, <4>1
      <4> HIDE DEF j
      <4>4. Contents(r)[j] = r.buffer[IF r.tail + j - 1 < ItemSize
                                      THEN r.tail + j - 1
                                      ELSE r.tail + j - 1 - ItemSize]
        BY <1>1, <4>1, ContentsFact
      <4> QED
        BY <3>1, <4>2, <4>3, <4>4
    <3>3. CASE ~(k < ItemSize)
      <4>1. k = ItemSize
        BY <1>1, <3>3
      <4>2. (IF t + k - 1 < ItemSize THEN t + k - 1 ELSE t + k - 1 - ItemSize) = r.head
        BY <1>1, <2>1, <2>2, <2>4, <4>1
      <4> QED
        BY <2>7, <3>1, <4>1, <4>2 DEF v
    <3> QED
      BY <3>2, <3>3
  <2>9. Contents(q) = Append(Tail(Contents(r)), v)
    BY <2>5, <2>7, <2>8, SeqEqual DEF Items
  <2> QED
    BY <1>6, <2>9 DEF q, v
<1> QED
  BY <1>5, <1>6


\* Where the items of a ring and its next slot are, as numbers.
LEMMA Places ==
  ASSUME NEW r, Sound(r)
  PROVE  /\ r \in Rings /\ r.buffer \in [Slots -> Type \cup {Unset}]
         /\ r.tail \in Slots /\ r.head \in Slots
         /\ r.tail \in Nat /\ r.tail < ItemSize /\ r.head \in Nat /\ r.head < ItemSize
         /\ r.count \in Nat /\ r.count <= ItemSize /\ ItemSize \in Nat \ {0}
         /\ r.head = IF r.tail + r.count < ItemSize
                     THEN r.tail + r.count ELSE r.tail + r.count - ItemSize
<1>1. /\ r \in Rings /\ r.tail \in Slots /\ r.head \in Slots
      /\ r.count \in 0 .. ItemSize /\ r.buffer \in [Slots -> Type \cup {Unset}]
  BY Members DEF Sound
<1>2. r.head = IF r.tail + r.count < ItemSize
               THEN r.tail + r.count ELSE r.tail + r.count - ItemSize
  BY <1>1, SlotBehind DEF Sound, Aligned
<1>3. /\ r.tail \in Nat /\ r.tail < ItemSize /\ r.head \in Nat /\ r.head < ItemSize
      /\ r.count \in Nat /\ r.count <= ItemSize /\ ItemSize \in Nat \ {0}
  BY <1>1, RingAssumption DEF Slots
<1> QED
  BY <1>1, <1>2, <1>3

\* A write to nextSlot() touches no item, or the oldest one of a full ring.
LEMMA WrittenContents ==
  ASSUME NEW r, Sound(r), NEW v \in Type
  PROVE  LET q == NextSlotWritten(r, v)
         IN /\ q.buffer[q.head] = v
            /\ ~IsFull(r) => Contents(q) = Contents(r)
            /\ IsFull(r) => Tail(Contents(q)) = Tail(Contents(r))
<1> DEFINE q == NextSlotWritten(r, v)
<1>1. /\ r \in Rings /\ r.buffer \in [Slots -> Type \cup {Unset}]
      /\ r.tail \in Slots /\ r.head \in Slots
      /\ r.tail \in Nat /\ r.tail < ItemSize /\ r.head \in Nat /\ r.head < ItemSize
      /\ r.count \in Nat /\ r.count <= ItemSize /\ ItemSize \in Nat \ {0}
      /\ r.head = IF r.tail + r.count < ItemSize
                  THEN r.tail + r.count ELSE r.tail + r.count - ItemSize
  BY Places
<1>2. /\ q \in Rings /\ q.tail = r.tail /\ q.count = r.count /\ q.head = r.head
      /\ q.buffer[r.head] = v
      /\ \A i \in Slots \ {r.head} : q.buffer[i] = r.buffer[i]
  BY <1>1, NextSlotWrittenFact DEF NextSlotWritten, Ring, Sound
<1> HIDE DEF q
<1>3. /\ Contents(r) \in Items /\ Len(Contents(r)) = r.count
      /\ Contents(q) \in Items /\ Len(Contents(q)) = r.count
  BY <1>1, <1>2, ContentsFact
<1>4. ASSUME NEW k \in 1 .. r.count, ~IsFull(r) \/ k > 1
      PROVE  Contents(q)[k] = Contents(r)[k]
  <2> DEFINE i == IF r.tail + k - 1 < ItemSize THEN r.tail + k - 1
                                               ELSE r.tail + k - 1 - ItemSize
  <2>1. i \in Nat /\ i < ItemSize /\ i # r.head
    <3>1. r.count < ItemSize \/ k > 1
      BY <1>1, <1>4 DEF IsFull
    <3> QED
      BY ONLY <1>1, <3>1, k \in 1 .. r.count
  <2>2. i \in Slots
    BY <1>1, <2>1 DEF Slots
  <2>3. Contents(r)[k] = r.buffer[i]
    BY <1>1, ContentsFact
  <2>4. Contents(q)[k] = q.buffer[i]
    BY <1>2, ContentsFact
  <2> QED
    BY <1>2, <2>1, <2>2, <2>3, <2>4
<1>5. ~IsFull(r) => Contents(q) = Contents(r)
  BY <1>3, <1>4, SeqEqual DEF Items
<1>6. IsFull(r) => Tail(Contents(q)) = Tail(Contents(r))
  <2>1. IsFull(r) => Contents(q) # <<>> /\ Contents(r) # <<>> /\ r.count >= 1
    BY <1>1, <1>3 DEF IsFull
  <2>2. ASSUME IsFull(r)
        PROVE  /\ Tail(Contents(q)) \in Items /\ Len(Tail(Contents(q))) = r.count - 1
               /\ Tail(Contents(r)) \in Items /\ Len(Tail(Contents(r))) = r.count - 1
               /\ \A k \in 1 .. r.count - 1 :
                    /\ Tail(Contents(q))[k] = Contents(q)[k + 1]
                    /\ Tail(Contents(r))[k] = Contents(r)[k + 1]
    <3>1. Contents(q) # <<>> /\ Contents(r) # <<>>
      BY <2>1, <2>2
    <3>2. ASSUME NEW s \in Items, s # <<>>
          PROVE  /\ Tail(s) \in Items /\ Len(Tail(s)) = Len(s) - 1
                 /\ \A k \in 1 .. Len(s) - 1 : Tail(s)[k] = s[k + 1]
      <4>1. /\ Tail(s) \in Items /\ Len(Tail(s)) = Len(s) - 1
            /\ \A k \in 1 .. Len(Tail(s)) : Tail(s)[k] = s[k + 1]
        BY <3>2, HeadTailProperties DEF Items
      <4> QED
        BY <4>1
    <3> QED
      BY <1>3, <3>1, <3>2
  <2>3. ASSUME IsFull(r), NEW k \in 1 .. r.count - 1
        PROVE  Tail(Contents(q))[k] = Tail(Contents(r))[k]
    <3>1. k + 1 \in 1 .. r.count /\ k + 1 > 1
      BY <1>1
    <3> QED
      BY <1>4, <2>2, <2>3, <3>1
  <2> QED
    BY <2>2, <2>3, SeqEqual DEF Items
<1> QED
  BY <1>2, <1>5, <1>6 DEF q

\* push(item)
LEMMA PushedContents ==
  ASSUME NEW r, Sound(r), NEW v \in Type
  PROVE  Contents(Pushed(r, v)) = IF IsFull(r) THEN Append(Tail(Contents(r)), v)
                                               ELSE Append(Contents(r), v)
<1> DEFINE q == NextSlotWritten(r, v)
<1>1. Sound(q) /\ (IsFull(q) <=> IsFull(r))
  BY NextSlotWrittenFact DEF IsFull
<1>2. /\ q.buffer[q.head] = v
      /\ ~IsFull(r) => Contents(q) = Contents(r)
      /\ IsFull(r) => Tail(Contents(q)) = Tail(Contents(r))
  BY WrittenContents
<1>3. Pushed(r, v) = TakeSlot(q)
  BY DEF Pushed
<1> HIDE DEF q
<1> QED
  BY <1>1, <1>2, <1>3, TakeSlotContents

\* The copy of a span: its items stand from head on, in both pieces, and no
\* item of the ring is touched.
LEMMA CopiedItems ==
  ASSUME NEW r, Sound(r), NEW items, Len(items) \in Nat,
         Len(items) <= RemainSlots(r)
  PROVE  /\ Staying(CopiedIn(r, items), r.head, items)
         /\ Undisturbed(r, CopiedIn(r, items))
<1> DEFINE n == Len(items)
           b == CopiedIn(r, items)
<1>1. /\ r \in Rings
      /\ r.tail \in Nat /\ r.tail < ItemSize /\ r.head \in Nat /\ r.head < ItemSize
      /\ r.count \in Nat /\ ItemSize \in Nat \ {0}
      /\ r.head = IF r.tail + r.count < ItemSize
                  THEN r.tail + r.count ELSE r.tail + r.count - ItemSize
  BY Places
<1>2. n \in Nat /\ r.count + n <= ItemSize
  BY <1>1 DEF RemainSlots
<1>3. \A i \in Slots : b[i] = IF i - r.head \in 0 .. n - 1 THEN items[i - r.head + 1]
                              ELSE IF i + (ItemSize - r.head) < n
                                   THEN items[i + (ItemSize - r.head) + 1]
                                   ELSE r.buffer[i]
  BY DEF CopiedIn
<1> HIDE DEF n, b
<1>4. ASSUME NEW k \in 1 .. n
      PROVE  b[IF r.head + k - 1 < ItemSize THEN r.head + k - 1
                                            ELSE r.head + k - 1 - ItemSize] = items[k]
  <2>1. CASE r.head + k - 1 < ItemSize
    <3> DEFINE i == r.head + k - 1
    <3>1. i \in 0 .. ItemSize - 1 /\ i - r.head \in 0 .. n - 1 /\ i - r.head + 1 = k
      BY ONLY <1>1, <1>2, <2>1, k \in 1 .. n
    <3>2. i \in Slots
      BY <3>1 DEF Slots
    <3> HIDE DEF i
    <3>3. b[i] = items[k]
      BY <1>3, <3>1, <3>2
    <3> QED
      BY <2>1, <3>3 DEF i
  <2>2. CASE ~(r.head + k - 1 < ItemSize)
    <3> DEFINE i == r.head + k - 1 - ItemSize
    <3>1. k \in Int /\ 1 <= k /\ k <= n
      BY <1>2
    <3>2. i \in Int /\ i + ItemSize = r.head + k - 1 /\ 0 <= i /\ i < r.head
      BY ONLY <1>1, <1>2, <2>2, <3>1
    <3> HIDE DEF i
    <3>3. /\ i - r.head \notin 0 .. n - 1
          /\ i + (ItemSize - r.head) < n /\ i + (ItemSize - r.head) + 1 = k
      BY ONLY <1>1, <1>2, <3>1, <3>2
    <3>4. i \in Slots
      BY <1>1, <3>2 DEF Slots
    <3>5. b[i] = items[k]
      BY <1>3, <3>3, <3>4
    <3> QED
      BY <2>2, <3>5 DEF i
  <2> QED
    BY <2>1, <2>2
<1>5. ASSUME NEW k \in 1 .. r.count
      PROVE  LET i == IF r.tail + k - 1 < ItemSize THEN r.tail + k - 1
                                                   ELSE r.tail + k - 1 - ItemSize
             IN b[i] = r.buffer[i]
  <2> DEFINE i == IF r.tail + k - 1 < ItemSize THEN r.tail + k - 1
                                               ELSE r.tail + k - 1 - ItemSize
  <2> HIDE DEF i
  <2>1. /\ i \in 0 .. ItemSize - 1 /\ i - r.head \notin 0 .. n - 1
        /\ ~(i + (ItemSize - r.head) < n)
    <3>1. k \in Int /\ 1 <= k /\ k <= r.count
      BY <1>1
    <3>2. i \in Int /\ i = IF r.tail + k - 1 < ItemSize THEN r.tail + k - 1
                                                     ELSE r.tail + k - 1 - ItemSize
      BY ONLY <1>1, <3>1 DEF i
    <3>3. CASE r.tail + r.count < ItemSize
      <4>1. r.head = r.tail + r.count /\ i = r.tail + k - 1
        BY ONLY <1>1, <3>1, <3>2, <3>3
      <4> QED
        BY ONLY <1>1, <1>2, <3>1, <3>2, <3>3, <4>1
    <3>4. CASE ~(r.tail + r.count < ItemSize)
      <4>1. r.head = r.tail + r.count - ItemSize /\ r.head + n <= r.tail
        BY ONLY <1>1, <1>2, <3>4
      <4>2. CASE r.tail + k - 1 < ItemSize
        <5>1. i = r.tail + k - 1
          BY ONLY <3>2, <4>2
        <5>2. r.tail <= i /\ i < ItemSize /\ n <= i - r.head
          BY ONLY <1>1, <1>2, <3>1, <3>2, <4>1, <4>2, <5>1
        <5> QED
          BY ONLY <1>1, <1>2, <3>2, <5>2
      <4>3. CASE ~(r.tail + k - 1 < ItemSize)
        <5>1. i = r.tail + k - 1 - ItemSize
          BY ONLY <3>2, <4>3
        <5>2. 0 <= i /\ i < r.head
          BY ONLY <1>1, <1>2, <3>1, <3>2, <4>1, <4>3, <5>1
        <5> QED
          BY ONLY <1>1, <1>2, <3>2, <4>1, <5>2
      <4> QED
        BY ONLY <4>2, <4>3
    <3> QED
      BY <3>3, <3>4
  <2>2. i \in Slots
    BY <2>1 DEF Slots
  <2>3. b[i] = r.buffer[i]
    BY <1>3, <2>1, <2>2
  <2> QED
    BY <2>3 DEF i
<1>6. Staying(b, r.head, items)
  BY <1>4 DEF Staying, n
<1>7. Undisturbed(r, b)
  BY <1>5 DEF Undisturbed
<1> QED
  BY <1>6, <1>7 DEF b

\* push(span) of a trivially copyable Type, and havePushed() of items that
\* were written behind nextSlot().
LEMMA PushedSpanContents ==
  ASSUME NEW r, Sound(r), NEW items \in Seq(Type), Len(items) <= RemainSlots(r)
  PROVE  /\ Contents(PushedCopy(r, items)) = Contents(r) \o items
         /\ Staying(r.buffer, r.head, items) =>
              Contents(HavePushed(r, Len(items))) = Contents(r) \o items
<1>1. items \in Items /\ Len(items) \in Nat
  BY DEF Items
<1>2. r \in Rings /\ r.buffer \in [Slots -> Type \cup {Unset}] /\ r.count \in Nat
      /\ ItemSize \in Nat
  BY Places
<1>3. Contents(PushedCopy(r, items)) = Contents(r) \o items
  <2>1. CopiedIn(r, items) \in [Slots -> Type \cup {Unset}]
    BY <1>2, CopiedInFact
  <2> QED
    BY <1>1, <2>1, CopiedItems, GrownContents DEF PushedCopy
<1>4. ASSUME Staying(r.buffer, r.head, items)
      PROVE  Contents(HavePushed(r, Len(items))) = Contents(r) \o items
  <2>1. HavePushed(r, Len(items))
          = Ring(r.buffer, Index!AddAssign(r.head, Len(items)), r.tail,
                 r.count + Len(items))
    BY <1>1, <1>2 DEF HavePushed, RemainSlots
  <2>2. Undisturbed(r, r.buffer)
    BY DEF Undisturbed
  <2> QED
    BY <1>1, <1>2, <1>4, <2>1, <2>2, GrownContents
<1> QED
  BY <1>3, <1>4

-----------------------------------------------------------------------------
(* The calls.                                                              *)

\* The members are sound only together with the bound on the looping pop:
\* an item by item pop(span) that outran the ring would wrap count_.
IInv == TypeOK /\ AlignedInv /\ PopLoopBounded

\* The four kinds of call in progress have four different op members.
LEMMA CallKinds ==
  ASSUME NEW items, NEW n
  PROVE  /\ Idle.op = "idle"
         /\ Pushing(items).op = "push" /\ Pushing(items).items = items
         /\ Popping(n).op = "pop" /\ Popping(n).left = n
         /\ Staged(n, items).op = "staged" /\ Staged(n, items).slots = n
         /\ Staged(n, items).items = items
BY DEF Idle, Pushing, Popping, Staged

\* A ring buffer as its constructor leaves it.
LEMMA InitIInv == Init => IInv
<1> SUFFICES ASSUME Init
             PROVE  IInv
  OBVIOUS
<1>1. did \in [op : Ops, items : Seq(Type), n : Nat]
  BY DEF Init, Did, Ops
<1> QED
  BY <1>1, NewRingFact, CallKinds
  DEF Init, IInv, TypeOK, AlignedInv, PopLoopBounded, Sound

\* A step record of the declared type.
Steps == [op : Ops, items : Seq(Type), n : Nat]

LEMMA StepRecords ==
  /\ \A items \in Seq(Type), n \in Nat, op \in Ops : Did(op, items, n) \in Steps
  /\ \A n \in Nat, op \in Ops : Did(op, <<>>, n) \in Steps
<1>1. <<>> \in Seq(Type)
  OBVIOUS
<1> QED
  BY <1>1 DEF Steps, Did

\* A step that leaves a sound ring and no call in progress.
LEMMA IdleStep ==
  ASSUME NEW step \in Steps, NEW r, Sound(r), NEW items \in Seq(Type \cup {Unset}),
         Does(step, items, r), call' = Idle
  PROVE  IInv'
<1>1. did' \in Steps /\ ring' = r /\ out' = items
  BY DEF Does
<1>2. TypeOK'
  BY <1>1 DEF TypeOK, Sound, Steps
<1>3. PopLoopBounded' /\ AlignedInv'
  BY <1>1, CallKinds DEF PopLoopBounded, AlignedInv, Sound
<1> QED
  BY <1>2, <1>3 DEF IInv

\* A step that leaves items of a span to push.
LEMMA PushingStep ==
  ASSUME NEW step \in Steps, NEW r, Sound(r), Does(step, <<>>, r),
         NEW items \in Seq(Type), call' = Pushing(items)
  PROVE  IInv'
<1>1. /\ did' \in Steps /\ ring' = r /\ out' = <<>>
      /\ call'.op = "push" /\ call'.items = items
  BY CallKinds DEF Does
<1>2. TypeOK'
  BY <1>1 DEF TypeOK, Sound, Steps
<1>3. PopLoopBounded' /\ AlignedInv'
  BY <1>1 DEF PopLoopBounded, AlignedInv, Sound
<1> QED
  BY <1>2, <1>3 DEF IInv

\* A step that leaves items of a span to pop.
LEMMA PoppingStep ==
  ASSUME NEW step \in Steps, NEW r, Sound(r), NEW items \in Seq(Type \cup {Unset}),
         Does(step, items, r), NEW n \in Nat, n <= r.count, call' = Popping(n)
  PROVE  IInv'
<1>1. /\ did' \in Steps /\ ring' = r /\ out' = items
      /\ call'.op = "pop" /\ call'.left = n
  BY CallKinds DEF Does
<1>2. TypeOK'
  BY <1>1 DEF TypeOK, Sound, Steps
<1>3. PopLoopBounded' /\ AlignedInv'
  BY <1>1 DEF PopLoopBounded, AlignedInv, Sound
<1> QED
  BY <1>2, <1>3 DEF IInv

\* A step that leaves a write in place to report.
LEMMA StagedStep ==
  ASSUME NEW step \in Steps, NEW r, Sound(r), Does(step, <<>>, r),
         NEW n \in 0 .. RemainSlots(r), NEW items \in Seq(Type),
         call' = Staged(n, items)
  PROVE  IInv'
<1>1. /\ did' \in Steps /\ ring' = r /\ out' = <<>>
      /\ call'.op = "staged" /\ call'.slots = n /\ call'.items = items
  BY CallKinds DEF Does
<1>2. TypeOK'
  BY <1>1 DEF TypeOK, Sound, Steps, RemainSlots
<1>3. PopLoopBounded' /\ AlignedInv'
  BY <1>1 DEF PopLoopBounded, AlignedInv, Sound
<1> QED
  BY <1>2, <1>3 DEF IInv

\* Every call, and every step of a looping one, keeps the three together.
LEMMA NextIInv == IInv /\ [Next]_vars => IInv'
<1> SUFFICES ASSUME IInv, [Next]_vars
             PROVE  IInv'
  OBVIOUS
<1>1. /\ Sound(ring) /\ ring \in Rings
      /\ <<>> \in Seq(Type) /\ <<>> \in Seq(Type \cup {Unset})
      /\ \A op \in Ops : Did(op, <<>>, 0) \in Steps /\ Did(op, <<>>, 1) \in Steps
  BY StepRecords DEF IInv, TypeOK, AlignedInv, Sound
<1>2. CASE Clear
  <2>1. Sound(Cleared(ring)) /\ Did("clear", <<>>, 0) \in Steps
    BY <1>1, ClearedFact DEF Ops
  <2>2. Does(Did("clear", <<>>, 0), <<>>, Cleared(ring)) /\ call' = Idle
    BY <1>2 DEF Clear
  <2> QED
    BY <1>1, <2>1, <2>2, IdleStep
<1>3. ASSUME NEW item \in Type, Push(item)
      PROVE  IInv'
  <2>1. <<item>> \in Seq(Type)
    OBVIOUS
  <2>2. Sound(Pushed(ring, item)) /\ Did("push", <<item>>, 0) \in Steps
    BY <1>1, <2>1, PushedFact, StepRecords DEF Ops
  <2>3. Does(Did("push", <<item>>, 0), <<>>, Pushed(ring, item)) /\ call' = Idle
    BY <1>3 DEF Push
  <2> QED
    BY <1>1, <2>2, <2>3, IdleStep
<1>4. ASSUME NEW items \in Spans, PushSpan(items)
      PROVE  IInv'
  <2>1. items \in Seq(Type)
    BY UseAssumption DEF Spans
  <2>2. /\ Does(Did("push", items, 0), <<>>, PushedCopy(ring, items))
        /\ call' = Idle
    BY <1>4 DEF PushSpan
  <2>3. Sound(PushedCopy(ring, items))
    BY <1>1, <1>4, <2>1, PushedCopyFact DEF PushSpan
  <2>4. Did("push", items, 0) \in Steps
    BY <2>1, StepRecords DEF Ops
  <2> QED
    BY <1>1, <2>2, <2>3, <2>4, IdleStep
<1>5. ASSUME NEW items \in Spans, PushItemByItem(items)
      PROVE  IInv'
  <2>1. items \in Seq(Type)
    BY UseAssumption DEF Spans
  <2>2. /\ Does(Did("begin", <<>>, 0), <<>>, ring) /\ call' = Pushing(items)
        /\ Did("begin", <<>>, 0) \in Steps
    BY <1>1, <1>5 DEF PushItemByItem, Ops
  <2> QED
    BY <1>1, <2>1, <2>2, PushingStep
<1>6. CASE PushLoop
  <2>1. call.items \in Seq(Type) /\ call.op = "push"
    BY <1>6, CallKinds DEF PushLoop, IInv, TypeOK
  <2>2. CASE call.items = <<>>
    <3>1. /\ Does(Did("end", <<>>, 0), <<>>, ring) /\ call' = Idle
          /\ Did("end", <<>>, 0) \in Steps
      BY <1>1, <1>6, <2>2 DEF PushLoop, Ops
    <3> QED
      BY <1>1, <3>1, IdleStep
  <2>3. CASE call.items # <<>>
    <3> DEFINE v == Head(call.items)
               rest == Tail(call.items)
    <3>1. /\ Does(Did("push", <<v>>, 0), <<>>, Pushed(ring, v))
          /\ call' = Pushing(rest)
      BY <1>6, <2>3 DEF PushLoop
    <3>2. v \in Type /\ rest \in Seq(Type)
      BY <2>1, <2>3
    <3> HIDE DEF v, rest
    <3>3. <<v>> \in Seq(Type)
      BY <3>2
    <3>4. Sound(Pushed(ring, v)) /\ Did("push", <<v>>, 0) \in Steps
      BY <1>1, <3>2, <3>3, PushedFact, StepRecords DEF Ops
    <3> QED
      BY <3>1, <3>2, <3>4, PushingStep
  <2> QED
    BY <2>2, <2>3
<1>7. CASE Pop
  <2>1. Sound(Popped(ring)) /\ Did("pop", <<>>, 1) \in Steps
    BY <1>1, <1>7, PoppedFact DEF Pop, Ops
  <2>2. <<Peek(ring)>> \in Seq(Type \cup {Unset})
    BY <1>1, <1>7, PeekFact DEF Pop
  <2>3. Does(Did("pop", <<>>, 1), <<Peek(ring)>>, Popped(ring)) /\ call' = Idle
    BY <1>7 DEF Pop
  <2> QED
    BY <2>1, <2>2, <2>3, IdleStep
<1>8. ASSUME NEW n \in 0 .. MaxSpan, PopSpan(n)
      PROVE  IInv'
  <2>1. n \in 0 .. ring.count /\ n \in Nat
    BY <1>1, <1>8, Members, RingAssumption, UseAssumption DEF PopSpan
  <2>2. /\ Sound(PoppedCopy(ring, n)) /\ Did("pop", <<>>, n) \in Steps
        /\ PeekCopy(ring, n) \in Seq(Type \cup {Unset})
    BY <1>1, <2>1, PoppedCopyFact, PeekCopyFact, StepRecords DEF Ops
  <2>3. /\ Does(Did("pop", <<>>, n), PeekCopy(ring, n), PoppedCopy(ring, n))
        /\ call' = Idle
    BY <1>8 DEF PopSpan
  <2> QED
    BY <2>2, <2>3, IdleStep
<1>9. ASSUME NEW n \in 0 .. MaxSpan, PopItemByItem(n)
       PROVE  IInv'
  <2>1. /\ Does(Did("begin", <<>>, 0), <<>>, ring) /\ call' = Popping(n)
        /\ Did("begin", <<>>, 0) \in Steps
        /\ n \in Nat /\ n <= ring.count
    BY <1>1, <1>9, UseAssumption DEF PopItemByItem, Ops
  <2> QED
    BY <1>1, <2>1, PoppingStep
<1>10. CASE PopLoop
  <2>1. call.op = "pop" /\ call.left \in Nat /\ call.left <= ring.count
    BY <1>10, CallKinds DEF PopLoop, IInv, TypeOK, PopLoopBounded
  <2>2. CASE call.left = 0
    <3>1. /\ Does(Did("end", <<>>, 0), <<>>, ring) /\ call' = Idle
          /\ Did("end", <<>>, 0) \in Steps
      BY <1>1, <1>10, <2>2 DEF PopLoop, Ops
    <3> QED
      BY <1>1, <3>1, IdleStep
  <2>3. CASE call.left # 0
    <3>1. /\ Does(Did("pop", <<>>, 1), <<Peek(ring)>>, Popped(ring))
          /\ call' = Popping(call.left - 1) /\ Did("pop", <<>>, 1) \in Steps
      BY <1>1, <1>10, <2>3 DEF PopLoop, PopOne, Ops
    <3>2. ~IsEmpty(ring) /\ call.left - 1 \in Nat
      BY <1>1, <2>1, <2>3, Members, RingAssumption DEF IsEmpty
    <3>3. Sound(Popped(ring)) /\ Popped(ring).count = ring.count - 1
      BY <1>1, <3>2, PoppedFact
    <3>4. call.left - 1 <= ring.count - 1
      BY <1>1, <2>1, Members, RingAssumption
    <3>5. <<Peek(ring)>> \in Seq(Type \cup {Unset})
      BY <1>1, PeekFact
    <3> QED
      BY <3>1, <3>2, <3>3, <3>4, <3>5, PoppingStep
  <2> QED
    BY <2>2, <2>3
<1>11. CASE PeekOne
  <2>1. <<Peek(ring)>> \in Seq(Type \cup {Unset})
    BY <1>1, <1>11, PeekFact DEF PeekOne
  <2>2. /\ Does(Did("peek", <<>>, 1), <<Peek(ring)>>, ring) /\ call' = Idle
        /\ Did("peek", <<>>, 1) \in Steps
    BY <1>1, <1>11 DEF PeekOne, Ops
  <2> QED
    BY <1>1, <2>1, <2>2, IdleStep
<1>12. ASSUME NEW n \in 0 .. MaxSpan, PeekSpan(n)
       PROVE  IInv'
  <2>1. n \in 0 .. ring.count /\ n \in Nat
    BY <1>1, <1>12, Members, RingAssumption, UseAssumption DEF PeekSpan
  <2>2. PeekCopy(ring, n) \in Seq(Type \cup {Unset})
    BY <1>1, <2>1, PeekCopyFact
  <2>3. [k \in 1 .. n |-> Peek(ring)] \in Seq(Type \cup {Unset})
    BY <1>1, <2>1, PeekFact
  <2>4. call' = Idle /\ Did("peek", <<>>, n) \in Steps
    BY <1>12, <2>1, StepRecords DEF PeekSpan, Ops
  <2>5. \/ Does(Did("peek", <<>>, n), [k \in 1 .. n |-> Peek(ring)], ring)
        \/ Does(Did("peek", <<>>, n), PeekCopy(ring, n), ring)
    BY <1>12 DEF PeekSpan
  <2>6. CASE Does(Did("peek", <<>>, n), [k \in 1 .. n |-> Peek(ring)], ring)
    BY <1>1, <2>3, <2>4, <2>6, IdleStep
  <2>7. CASE Does(Did("peek", <<>>, n), PeekCopy(ring, n), ring)
    BY <1>1, <2>2, <2>4, <2>7, IdleStep
  <2> QED
    BY <2>5, <2>6, <2>7
<1>13. ASSUME NEW n \in 0 .. MaxSpan, Discard(n)
       PROVE  IInv'
  <2>1. n \in Nat
    BY UseAssumption
  <2>2. Sound(Discarded(ring, n)) /\ Did("discard", <<>>, n) \in Steps
    BY <1>1, <2>1, DiscardedFact, StepRecords DEF Ops
  <2>3. Does(Did("discard", <<>>, n), <<>>, Discarded(ring, n)) /\ call' = Idle
    BY <1>13 DEF Discard
  <2> QED
    BY <1>1, <2>2, <2>3, IdleStep
<1>14. ASSUME NEW item \in Type, WriteNextSlot(item)
       PROVE  IInv'
  <2> DEFINE r == NextSlotWritten(ring, item)
  <2>1. Sound(r)
    BY <1>1, NextSlotWrittenFact
  <2> HIDE DEF r
  <2>2. RemainSlots(r) \in Nat
    BY <2>1, Members, RingAssumption DEF RemainSlots, Sound
  <2>3. 0 \in 0 .. RemainSlots(r) /\ <<item>> \in Seq(Type)
    BY <2>2
  <2>4. Does(Did("write", <<item>>, 0), <<>>, r) /\ call' = Staged(0, <<item>>)
    BY <1>14 DEF WriteNextSlot, r
  <2>5. Did("write", <<item>>, 0) \in Steps
    BY <2>3, StepRecords DEF Ops
  <2> QED
    BY <2>1, <2>3, <2>4, <2>5, StagedStep
<1>15. CASE UseNextSlot
  <2>1. call.items \in Seq(Type)
    BY <1>15, CallKinds DEF UseNextSlot, IInv, TypeOK
  <2>2. Sound(NextSlotUsed(ring)) /\ Did("report", call.items, 0) \in Steps
    BY <1>1, <2>1, TakeSlotFact, StepRecords DEF NextSlotUsed, Ops
  <2>3. Does(Did("report", call.items, 0), <<>>, NextSlotUsed(ring)) /\ call' = Idle
    BY <1>15 DEF UseNextSlot
  <2> QED
    BY <1>1, <2>2, <2>3, IdleStep
<1>16. ASSUME NEW items \in Spans, FillFromNextSlot(items)
       PROVE  IInv'
  <2>1. items \in Seq(Type) /\ Len(items) \in Nat
    BY UseAssumption DEF Spans
  <2>2. CopiedIn(ring, items) \in [Slots -> Type \cup {Unset}]
    BY <1>1, <2>1, CopiedInFact
  <2> DEFINE r == Ring(CopiedIn(ring, items), ring.head, ring.tail, ring.count)
  <2>3. r.count = ring.count /\ Sound(r)
    BY <1>1, <2>2, Members, FromMembers DEF Sound, Aligned, Ring
  <2>4. /\ Does(Did("fill", items, Len(items)), <<>>, r)
        /\ call' = Staged(Len(items), items) /\ Len(items) <= RemainSlots(ring)
    BY <1>16 DEF FillFromNextSlot
  <2> HIDE DEF r
  <2>5. Len(items) \in 0 .. RemainSlots(r)
    BY <1>1, <2>1, <2>3, <2>4, Members, RingAssumption DEF RemainSlots
  <2>6. Did("fill", items, Len(items)) \in Steps
    BY <2>1, StepRecords DEF Ops
  <2> QED
    BY <2>1, <2>3, <2>4, <2>5, <2>6, StagedStep
<1>17. CASE ReportPushed
  <2>1. call.slots \in 0 .. RemainSlots(ring) /\ call.items \in Seq(Type)
    BY <1>17, CallKinds DEF ReportPushed, IInv, TypeOK
  <2>2. Sound(HavePushed(ring, call.slots)) /\ call.slots \in Nat
    BY <1>1, <2>1, HavePushedFact, Members, RingAssumption DEF RemainSlots
  <2>3. /\ Does(Did("report", call.items, call.slots), <<>>,
                HavePushed(ring, call.slots))
        /\ call' = Idle
    BY <1>17 DEF ReportPushed
  <2>4. Did("report", call.items, call.slots) \in Steps
    BY <2>1, <2>2, StepRecords DEF Ops
  <2> QED
    BY <1>1, <2>2, <2>3, <2>4, IdleStep
<1>18. CASE UNCHANGED vars
  BY <1>18 DEF vars, IInv, TypeOK, AlignedInv, PopLoopBounded, Aligned,
               RemainSlots
<1> QED
  BY <1>2, <1>3, <1>4, <1>5, <1>6, <1>7, <1>8, <1>10, <1>11, <1>12, <1>13,
     <1>14, <1>15, <1>16, <1>17, <1>18, <1>9 DEF Next

\* The members keep their ranges through any legal use of a RingBuffer.
THEOREM TypeCorrect == Spec => []TypeOK
<1>1. IInv => TypeOK
  BY DEF IInv
<1> QED
  BY <1>1, InitIInv, NextIInv, PTL DEF Spec

\* head_, tail_ and count_ never disagree, whatever the calls.
THEOREM HeadTailCountAgree == Spec => []AlignedInv
<1>1. IInv => AlignedInv
  BY DEF IInv
<1> QED
  BY <1>1, InitIInv, NextIInv, PTL DEF Spec

\* An item by item pop(span) never meets an empty ring.
THEOREM PopSpanInBounds == Spec => []PopLoopBounded
<1>1. IInv => PopLoopBounded
  BY DEF IInv
<1> QED
  BY <1>1, InitIInv, NextIInv, PTL DEF Spec

-----------------------------------------------------------------------------
(* The refinement: every step is one of the evicting queue's.              *)

\* A write in place that is to be reported stands where it was written.
StagedInv ==
  call.op = "staged" =>
    /\ Len(call.items) = IF call.slots = 0 THEN 1 ELSE call.slots
    /\ Staying(ring.buffer, ring.head, call.items)

RInv == IInv /\ StagedInv

LEMMA QueueNext ==
  /\ QueueItems' = IF call'.op = "staged" /\ call'.slots = 0 /\ IsFull(ring')
                   THEN Tail(Contents(ring')) ELSE Contents(ring')
  /\ call'.op # "staged" => StagedInv'
BY DEF QueueItems, Contents, IsFull, StagedInv

\* The newest ItemSize items of a queue and of one item more.
LEMMA NewestFact ==
  /\ \A s \in Items : Len(s) <= ItemSize => Fifo!Newest(s) = s
  /\ \A s \in Items, v \in Type :
       Len(s) = ItemSize => Fifo!Newest(s \o <<v>>) = Append(Tail(s), v)
<1>1. ItemSize \in Nat \ {0}
  BY RingAssumption
<1>2. ASSUME NEW s \in Items, Len(s) <= ItemSize
      PROVE  Fifo!Newest(s) = s
  BY <1>1, <1>2 DEF Fifo!Newest, Items
<1>3. ASSUME NEW s \in Items, NEW v \in Type, Len(s) = ItemSize
      PROVE  Fifo!Newest(s \o <<v>>) = Append(Tail(s), v)
  <2> DEFINE u == s \o <<v>>
  <2>1. /\ u \in Items /\ Len(u) = ItemSize + 1
        /\ \A k \in 1 .. ItemSize : u[k] = s[k]
        /\ u[ItemSize + 1] = v
    BY <1>1, <1>3 DEF Items
  <2>2. /\ Append(Tail(s), v) \in Items /\ Len(Append(Tail(s), v)) = ItemSize
        /\ \A k \in 1 .. ItemSize - 1 : Append(Tail(s), v)[k] = s[k + 1]
        /\ Append(Tail(s), v)[ItemSize] = v
    BY <1>1, <1>3 DEF Items
  <2> HIDE DEF u
  <2>3. Fifo!Newest(u) = SubSeq(u, 2, ItemSize + 1)
    BY <1>1, <2>1 DEF Fifo!Newest
  <2>4. /\ SubSeq(u, 2, ItemSize + 1) \in Items
        /\ Len(SubSeq(u, 2, ItemSize + 1)) = ItemSize
        /\ \A k \in 1 .. ItemSize : SubSeq(u, 2, ItemSize + 1)[k] = u[k + 1]
    BY <1>1, <2>1 DEF Items
  <2>5. ASSUME NEW k \in 1 .. ItemSize
        PROVE  SubSeq(u, 2, ItemSize + 1)[k] = Append(Tail(s), v)[k]
    <3>1. CASE k < ItemSize
      <4>1. k \in 1 .. ItemSize - 1 /\ k + 1 \in 1 .. ItemSize
        BY <1>1, <3>1
      <4> QED
        BY <2>1, <2>2, <2>4, <4>1
    <3>2. CASE ~(k < ItemSize)
      <4>1. k = ItemSize
        BY <1>1, <3>2
      <4> QED
        BY <2>1, <2>2, <2>4, <4>1
    <3> QED
      BY <3>1, <3>2
  <2>6. SubSeq(u, 2, ItemSize + 1) = Append(Tail(s), v)
    BY <2>2, <2>4, <2>5, SeqEqual DEF Items
  <2> QED
    BY <2>3, <2>6 DEF u
<1> QED
  BY <1>2, <1>3

\* The contents of a ring whose call is not a write in place.
LEMMA QueueNow ==
  ASSUME IInv
  PROVE  /\ Sound(ring) /\ ring \in Rings /\ ring.count \in Nat
         /\ ring.count <= ItemSize /\ ItemSize \in Nat \ {0}
         /\ Contents(ring) \in Items /\ Len(Contents(ring)) = ring.count
         /\ call.op # "staged" => QueueItems = Contents(ring)
         /\ call = Idle => QueueItems = Contents(ring)
<1>1. Sound(ring)
  BY DEF IInv, TypeOK, AlignedInv, Sound
<1> QED
  BY <1>1, Places, ContentsFact, CallKinds DEF QueueItems

\* The ring and the queue speak of the calls in the same words.
LEMMA SameWords ==
  /\ Fifo!Idle = Idle /\ Fifo!Spans = Spans
  /\ \A items : Fifo!Pushing(items) = Pushing(items)
  /\ \A n : Fifo!Popping(n) = Popping(n)
  /\ \A n, items : Fifo!Staged(n, items) = Staged(n, items)
  /\ \A op, items, n : Fifo!Did(op, items, n) = Did(op, items, n)
BY DEF Fifo!Idle, Idle, Fifo!Pushing, Pushing, Fifo!Popping, Popping,
       Fifo!Staged, Staged, Fifo!Did, Did, Fifo!Spans, Spans

\* One item goes in ...
LEMMA PutsOne ==
  ASSUME IInv, NEW v \in Type
  PROVE  (IF IsFull(ring) THEN Append(Tail(Contents(ring)), v)
                          ELSE Append(Contents(ring), v))
           = Fifo!Newest(Contents(ring) \o <<v>>)
<1>1. /\ Contents(ring) \in Items /\ Len(Contents(ring)) = ring.count
      /\ ring.count \in Nat /\ ring.count <= ItemSize /\ ItemSize \in Nat \ {0}
  BY QueueNow
<1>2. CASE IsFull(ring)
  BY <1>1, <1>2, NewestFact DEF IsFull
<1>3. CASE ~IsFull(ring)
  <2>1. /\ Contents(ring) \o <<v>> \in Items
        /\ Len(Contents(ring) \o <<v>>) <= ItemSize
        /\ Contents(ring) \o <<v>> = Append(Contents(ring), v)
    BY <1>1, <1>3 DEF Items, IsFull
  <2> QED
    BY <1>3, <2>1, NewestFact
<1> QED
  BY <1>2, <1>3

\* ... or as many as fit ...
LEMMA PutsMany ==
  ASSUME NEW s \in Items, NEW items \in Seq(Type), Len(s) + Len(items) <= ItemSize
  PROVE  s \o items = Fifo!Newest(s \o items)
<1>1. s \o items \in Items /\ Len(s \o items) <= ItemSize
  BY DEF Items
<1> QED
  BY <1>1, NewestFact

LEMMA StartsEmpty == Init => RInv /\ Fifo!Init
<1> SUFFICES ASSUME Init PROVE RInv /\ Fifo!Init
  OBVIOUS
<1>1. IInv
  BY InitIInv
<1>2. call = Idle /\ call.op # "staged" /\ ring.count = 0
  BY CallKinds DEF Init, NewRing, Ring
<1>3. QueueItems = Contents(ring)
  BY <1>1, <1>2, QueueNow
<1>4. Contents(ring) = <<>>
  BY <1>2 DEF Contents
<1> QED
  BY <1>1, <1>2, <1>3, <1>4, SameWords DEF RInv, StagedInv, Fifo!Init, Init

\* A step after which no write in place is to be reported.
LEMMA NotStaged ==
  ASSUME NEW c, call' = c, c.op # "staged"
  PROVE  StagedInv' /\ QueueItems' = Contents(ring')
BY QueueNext

\* The first half of a write in place.
LEMMA Stages ==
  ASSUME IInv, NEW n, NEW items, call' = Staged(n, items),
         Len(items) = IF n = 0 THEN 1 ELSE n,
         Staying(ring'.buffer, ring'.head, items)
  PROVE  /\ StagedInv'
         /\ QueueItems' = IF n = 0 /\ IsFull(ring') THEN Tail(Contents(ring'))
                                                    ELSE Contents(ring')
<1>1. call'.op = "staged" /\ call'.slots = n /\ call'.items = items
  BY CallKinds
<1> QED
  BY <1>1, QueueNext DEF StagedInv, Staying

LEMMA Writes ==
  ASSUME RInv, NEW v \in Type, WriteNextSlot(v)
  PROVE  StagedInv' /\ Fifo!Next
<1>1. /\ call = Idle /\ call' = Staged(0, <<v>>) /\ ring' = NextSlotWritten(ring, v)
      /\ did' = Did("write", <<v>>, 0) /\ out' = <<>>
  BY DEF WriteNextSlot, Does
<1>2. /\ IInv /\ Sound(ring) /\ QueueItems = Contents(ring)
      /\ Contents(ring) \in Items /\ Len(Contents(ring)) = ring.count
      /\ ring.count \in Nat /\ ItemSize \in Nat \ {0}
  BY <1>1, QueueNow DEF RInv
<1>3. /\ ring'.count = ring.count /\ ring'.head = ring.head /\ ring'.buffer[ring.head] = v
      /\ ~IsFull(ring) => Contents(ring') = Contents(ring)
      /\ IsFull(ring) => Tail(Contents(ring')) = Tail(Contents(ring))
  BY <1>1, <1>2, NextSlotWrittenFact, WrittenContents
<1>4. Staying(ring'.buffer, ring'.head, <<v>>) /\ Len(<<v>>) = 1
  <2>1. ring.head \in Nat /\ ring.head < ItemSize
    BY <1>2, Places
  <2> QED
    BY <1>2, <1>3, <2>1 DEF Staying
<1>5. /\ StagedInv'
      /\ QueueItems' = IF IsFull(ring') THEN Tail(Contents(ring')) ELSE Contents(ring')
  BY <1>1, <1>2, <1>4, Stages
<1>6. QueueItems' = IF Len(QueueItems) = ItemSize THEN Fifo!AllBut(1) ELSE QueueItems
  <2>1. CASE ~IsFull(ring)
    BY <1>2, <1>3, <1>5, <2>1 DEF IsFull
  <2>2. CASE IsFull(ring)
    <3>1. QueueItems' = Tail(Contents(ring))
      BY <1>3, <1>5, <2>2 DEF IsFull
    <3>2. Contents(ring) # <<>> /\ Len(QueueItems) = ItemSize
      BY <1>2, <2>2 DEF IsFull
    <3>3. Tail(Contents(ring)) = SubSeq(QueueItems, 1 + 1, Len(QueueItems))
      BY <1>2, <3>2, TailIsSubSeq DEF Items
    <3> QED
      BY <3>1, <3>2, <3>3 DEF Fifo!AllBut
  <2> QED
    BY <2>1, <2>2
<1>7. Fifo!Write(v)
  BY <1>1, <1>6, SameWords DEF Fifo!Write, Fifo!Does
<1> QED
  BY <1>5, <1>7 DEF Fifo!Next

LEMMA Fills ==
  ASSUME RInv, NEW items \in Spans, FillFromNextSlot(items)
  PROVE  StagedInv' /\ Fifo!Next
<1>1. /\ call = Idle /\ items # <<>> /\ Len(items) <= RemainSlots(ring)
      /\ ring' = Ring(CopiedIn(ring, items), ring.head, ring.tail, ring.count)
      /\ call' = Staged(Len(items), items)
      /\ did' = Did("fill", items, Len(items)) /\ out' = <<>>
  BY DEF FillFromNextSlot, Does
<1>2. items \in Seq(Type) /\ Len(items) \in Nat \ {0}
  BY <1>1, UseAssumption DEF Spans
<1>3. /\ IInv /\ Sound(ring) /\ ring \in Rings /\ QueueItems = Contents(ring)
      /\ Len(Contents(ring)) = ring.count
      /\ ring.count \in Nat /\ ItemSize \in Nat
  BY <1>1, QueueNow DEF RInv
<1>4. /\ ring'.buffer = CopiedIn(ring, items) /\ ring'.head = ring.head
      /\ ring'.tail = ring.tail /\ ring'.count = ring.count
  BY <1>1 DEF Ring
<1>5. /\ Staying(ring'.buffer, ring'.head, items) /\ Undisturbed(ring, ring'.buffer)
  BY <1>1, <1>2, <1>3, <1>4, CopiedItems
<1>6. StagedInv' /\ QueueItems' = Contents(ring')
  BY <1>1, <1>2, <1>3, <1>5, Stages
<1>7. Contents(ring') = Contents(ring)
  <2>1. ring' \in Rings
    BY <1>1, <1>2, <1>3, CopiedInFact, Members, FromMembers
  <2>2. /\ Contents(ring) \in Items /\ Len(Contents(ring)) = ring.count
        /\ Contents(ring') \in Items /\ Len(Contents(ring')) = ring.count
    BY <1>3, <1>4, <2>1, ContentsFact
  <2>3. ASSUME NEW k \in 1 .. ring.count
        PROVE  Contents(ring')[k] = Contents(ring)[k]
    <3> DEFINE i == IF ring.tail + k - 1 < ItemSize THEN ring.tail + k - 1
                                                    ELSE ring.tail + k - 1 - ItemSize
    <3>1. Contents(ring)[k] = ring.buffer[i]
      BY <1>3, ContentsFact
    <3>2. Contents(ring')[k] = ring'.buffer[i]
      BY <1>4, <2>1, ContentsFact
    <3>3. ring'.buffer[i] = ring.buffer[i]
      BY <1>5 DEF Undisturbed
    <3> QED
      BY <3>1, <3>2, <3>3
  <2> QED
    BY <2>2, <2>3, SeqEqual DEF Items
<1>8. Len(QueueItems) + Len(items) <= ItemSize
  BY <1>1, <1>2, <1>3 DEF RemainSlots
<1>9. Fifo!Fill(items)
  BY <1>1, <1>3, <1>6, <1>7, <1>8, SameWords DEF Fifo!Fill, Fifo!Does
<1> QED
  BY <1>6, <1>9, SameWords DEF Fifo!Next

LEMMA Reports ==
  ASSUME RInv, UseNextSlot \/ ReportPushed
  PROVE  StagedInv' /\ Fifo!Next
<1>1. /\ IInv /\ Sound(ring) /\ ring \in Rings
      /\ ring.count \in Nat /\ ring.count <= ItemSize /\ ItemSize \in Nat \ {0}
      /\ Contents(ring) \in Items /\ Len(Contents(ring)) = ring.count
  BY QueueNow DEF RInv
<1> DEFINE items == call.items
<1>2. /\ call.op = "staged" /\ call' = Idle
      /\ did' = Did("report", items, call.slots) /\ out' = <<>>
  BY DEF UseNextSlot, ReportPushed, Does
<1>3. /\ items \in Seq(Type) /\ call.slots \in 0 .. RemainSlots(ring)
      /\ Len(items) = IF call.slots = 0 THEN 1 ELSE call.slots
      /\ Staying(ring.buffer, ring.head, items)
  BY <1>2, CallKinds DEF RInv, IInv, TypeOK, StagedInv
<1>4. StagedInv' /\ QueueItems' = Contents(ring')
  BY <1>2, CallKinds, NotStaged
<1>5. QueueItems' = QueueItems \o items
  <2>1. CASE UseNextSlot
    <3>1. call.slots = 0 /\ ring' = TakeSlot(ring)
      BY <2>1 DEF UseNextSlot, Does, NextSlotUsed
    <3>2. Len(items) = 1 /\ items[1] \in Type /\ ring.buffer[ring.head] = items[1]
      <4>1. ring.head \in Nat /\ ring.head < ItemSize
        BY <1>1, Places
      <4>2. Len(items) = 1 /\ items[1] \in Type /\ 1 \in 1 .. Len(items)
        BY <1>3, <3>1
      <4>3. ring.buffer[IF ring.head + 1 - 1 < ItemSize THEN ring.head + 1 - 1
                        ELSE ring.head + 1 - 1 - ItemSize] = items[1]
        BY <1>3, <4>2 DEF Staying
      <4>4. ring.head + 1 - 1 = ring.head
        BY <4>1
      <4> QED
        BY <4>1, <4>2, <4>3, <4>4
    <3> DEFINE v == items[1]
    <3>3. items = <<v>>
      BY <1>3, <3>2
    <3>4. QueueItems' = IF IsFull(ring) THEN Append(Tail(Contents(ring)), v)
                                        ELSE Append(Contents(ring), v)
      BY <1>1, <1>4, <3>1, <3>2, TakeSlotContents
    <3>5. QueueItems = IF IsFull(ring) THEN Tail(Contents(ring)) ELSE Contents(ring)
      BY <1>2, <3>1 DEF QueueItems
    <3>6. QueueItems \in Items
      <4>1. CASE ~IsFull(ring)
        BY <1>1, <3>5, <4>1
      <4>2. CASE IsFull(ring)
        <5>1. Contents(ring) # <<>>
          BY <1>1, <4>2 DEF IsFull
        <5> QED
          BY <1>1, <3>5, <4>2, <5>1, HeadTailProperties DEF Items
      <4> QED
        BY <4>1, <4>2
    <3>7. QueueItems' = Append(QueueItems, v)
      BY <3>4, <3>5
    <3> DEFINE q == QueueItems
    <3>8. q \in Items /\ QueueItems' = Append(q, v)
      BY <3>6, <3>7
    <3> HIDE DEF q
    <3>9. q \o <<v>> = Append(q, v)
      BY <3>2, <3>8 DEF Items
    <3> QED
      BY <3>3, <3>8, <3>9 DEF q
  <2>2. CASE ReportPushed
    <3>1. call.slots > 0 /\ ring' = HavePushed(ring, call.slots)
      BY <2>2 DEF ReportPushed, Does
    <3>2. Len(items) = call.slots /\ Len(items) <= RemainSlots(ring)
      BY <1>1, <1>3, <3>1 DEF RemainSlots
    <3>3. QueueItems' = Contents(ring) \o items
      BY <1>1, <1>3, <1>4, <3>1, <3>2, PushedSpanContents
    <3>4. QueueItems = Contents(ring)
      BY <1>3, <3>1 DEF QueueItems, RemainSlots
    <3> QED
      BY <3>3, <3>4
  <2> QED
    BY <2>1, <2>2
<1>6. Fifo!Report
  BY <1>2, <1>5, SameWords DEF Fifo!Report, Fifo!Does
<1> QED
  BY <1>4, <1>6 DEF Fifo!Next

\* The calls that give the ring items at once.
LEMMA Pushes ==
  ASSUME RInv,
         \/ \E item \in Type : Push(item)
         \/ \E items \in Spans : PushSpan(items)
  PROVE  StagedInv' /\ Fifo!Next
<1>1. call = Idle /\ call' = Idle /\ Fifo!Whole
  BY SameWords DEF Push, PushSpan, Fifo!Whole
<1>2. /\ IInv /\ Sound(ring) /\ QueueItems = Contents(ring)
      /\ ring.count \in Nat /\ ItemSize \in Nat
      /\ Contents(ring) \in Items /\ Len(Contents(ring)) = ring.count
  BY <1>1, QueueNow DEF RInv
<1>3. StagedInv' /\ QueueItems' = Contents(ring')
  BY <1>1, CallKinds, NotStaged
<1>4. ASSUME NEW item \in Type, Push(item)
      PROVE  Fifo!Next
  <2>1. /\ ring' = Pushed(ring, item)
        /\ did' = Did("push", <<item>>, 0) /\ out' = <<>>
    BY <1>4 DEF Push, Does
  <2>2. QueueItems' = IF IsFull(ring) THEN Append(Tail(Contents(ring)), item)
                                      ELSE Append(Contents(ring), item)
    BY <1>2, <1>3, <2>1, PushedContents
  <2>3. Fifo!Push(<<item>>)
    BY <1>1, <1>2, <2>1, <2>2, PutsOne, SameWords DEF Fifo!Push, Fifo!Does
  <2> QED
    BY <2>3 DEF Fifo!Next
<1>5. ASSUME NEW items \in Spans, PushSpan(items)
      PROVE  Fifo!Next
  <2>1. /\ ring' = PushedCopy(ring, items) /\ Len(items) <= RemainSlots(ring)
        /\ did' = Did("push", items, 0) /\ out' = <<>>
    BY <1>5 DEF PushSpan, Does
  <2>2. items \in Seq(Type) /\ Len(items) \in Nat
    BY UseAssumption DEF Spans
  <2>3. QueueItems' = Contents(ring) \o items
    BY <1>2, <1>3, <2>1, <2>2, PushedSpanContents
  <2>4. Len(Contents(ring)) + Len(items) <= ItemSize
    BY <1>2, <2>1, <2>2 DEF RemainSlots
  <2>5. Contents(ring) \o items = Fifo!Newest(Contents(ring) \o items)
    BY <1>2, <2>2, <2>4, PutsMany
  <2>6. Fifo!Push(items)
    BY <1>1, <1>2, <2>1, <2>3, <2>5, SameWords DEF Fifo!Push, Fifo!Does
  <2> QED
    BY <2>6, SameWords DEF Fifo!Next
<1> QED
  BY <1>3, <1>4, <1>5

\* The calls that take items out at once, or look at them.
LEMMA Takes ==
  ASSUME RInv, ~ConstantEvaluated,
         \/ Clear \/ Pop \/ PeekOne
         \/ \E n \in 0 .. MaxSpan : PopSpan(n) \/ PeekSpan(n) \/ Discard(n)
  PROVE  StagedInv' /\ Fifo!Next
<1>1. call = Idle /\ call' = Idle /\ Fifo!Whole
  BY SameWords DEF Clear, Pop, PeekOne, PopSpan, PeekSpan, Discard, Fifo!Whole
<1>2. /\ IInv /\ Sound(ring) /\ ring \in Rings /\ QueueItems = Contents(ring)
      /\ ring.count \in Nat /\ ring.count <= ItemSize /\ ItemSize \in Nat
      /\ Contents(ring) \in Items /\ Len(Contents(ring)) = ring.count
      /\ Len(QueueItems) = ring.count
  BY <1>1, QueueNow DEF RInv
<1>3. StagedInv' /\ QueueItems' = Contents(ring')
  BY <1>1, CallKinds, NotStaged
<1>4. CASE Clear
  <2>1. ring' = Cleared(ring) /\ did' = Did("clear", <<>>, 0) /\ out' = <<>>
    BY <1>4 DEF Clear, Does
  <2>2. QueueItems' = <<>>
    BY <1>2, <1>3, <2>1, TakenOut
  <2>3. Fifo!Clear
    BY <1>1, <2>1, <2>2, SameWords DEF Fifo!Clear, Fifo!Does
  <2> QED
    BY <1>3, <2>3 DEF Fifo!Next
<1>5. CASE Pop
  <2>1. /\ ring' = Popped(ring) /\ ~IsEmpty(ring)
        /\ did' = Did("pop", <<>>, 1) /\ out' = <<Peek(ring)>>
    BY <1>5 DEF Pop, Does
  <2>2. 1 \in 0 .. ItemSize /\ 1 <= ring.count
    BY <1>2, <2>1 DEF IsEmpty
  <2>3. QueueItems' = SubSeq(Contents(ring), 1 + 1, ring.count)
    <3>1. 1 + 1 = 2
      OBVIOUS
    <3> QED
      BY <1>2, <1>3, <2>1, <3>1, TakenOut
  <2>4. out' = SubSeq(Contents(ring), 1, 1)
    BY <1>2, <2>1, PeekedOldest
  <2>5. Fifo!Pop(1)
    BY <1>1, <1>2, <2>1, <2>2, <2>3, <2>4, SameWords
    DEF Fifo!Pop, Fifo!Does, Fifo!Oldest, Fifo!AllBut
  <2> QED
    BY <1>3, <2>2, <2>5 DEF Fifo!Next
<1>6. CASE PeekOne
  <2>1. /\ ring' = ring /\ ~IsEmpty(ring)
        /\ did' = Did("peek", <<>>, 1) /\ out' = <<Peek(ring)>>
    BY <1>6 DEF PeekOne, Does
  <2>2. 1 \in 0 .. ItemSize /\ 1 <= ring.count
    BY <1>2, <2>1 DEF IsEmpty
  <2>3. QueueItems' = QueueItems /\ out' = SubSeq(Contents(ring), 1, 1)
    BY <1>2, <1>3, <2>1, PeekedOldest
  <2>4. Fifo!Peek(1)
    BY <1>1, <1>2, <2>1, <2>2, <2>3, SameWords DEF Fifo!Peek, Fifo!Does, Fifo!Oldest
  <2> QED
    BY <1>3, <2>2, <2>4 DEF Fifo!Next
<1>7. ASSUME NEW n \in 0 .. MaxSpan, PopSpan(n)
      PROVE  Fifo!Next
  <2>1. /\ ring' = PoppedCopy(ring, n) /\ n <= ring.count
        /\ did' = Did("pop", <<>>, n) /\ out' = PeekCopy(ring, n)
    BY <1>7 DEF PopSpan, Does
  <2>2. n \in 0 .. ring.count /\ n \in 0 .. ItemSize
    BY <1>2, <2>1, UseAssumption
  <2>3. /\ QueueItems' = SubSeq(Contents(ring), n + 1, ring.count)
        /\ out' = SubSeq(Contents(ring), 1, n)
    BY <1>2, <1>3, <2>1, <2>2, TakenOut, PeekedCopy
  <2>4. Fifo!Pop(n)
    BY <1>1, <1>2, <2>1, <2>3, SameWords
    DEF Fifo!Pop, Fifo!Does, Fifo!Oldest, Fifo!AllBut
  <2> QED
    BY <2>2, <2>4 DEF Fifo!Next
<1>8. ASSUME NEW n \in 0 .. MaxSpan, PeekSpan(n)
      PROVE  Fifo!Next
  <2>1. /\ ring' = ring /\ n <= ring.count
        /\ did' = Did("peek", <<>>, n) /\ out' = PeekCopy(ring, n)
    BY <1>8 DEF PeekSpan, Does
  <2>2. n \in 0 .. ring.count /\ n \in 0 .. ItemSize
    BY <1>2, <2>1, UseAssumption
  <2>3. QueueItems' = QueueItems /\ out' = SubSeq(Contents(ring), 1, n)
    BY <1>2, <1>3, <2>1, <2>2, PeekedCopy
  <2>4. Fifo!Peek(n)
    BY <1>1, <1>2, <2>1, <2>3, SameWords DEF Fifo!Peek, Fifo!Does, Fifo!Oldest
  <2> QED
    BY <2>2, <2>4 DEF Fifo!Next
<1>9. ASSUME NEW slots \in 0 .. MaxSpan, Discard(slots)
      PROVE  Fifo!Next
  <2>1. /\ ring' = Discarded(ring, slots)
        /\ did' = Did("discard", <<>>, slots) /\ out' = <<>>
    BY <1>9 DEF Discard, Does
  <2>2. slots \in Nat
    BY UseAssumption
  <2>3. QueueItems' = SubSeq(Contents(ring), slots + 1, ring.count)
    BY <1>2, <1>3, <2>1, <2>2, TakenOut
  <2>4. Fifo!Discard(slots)
    BY <1>1, <1>2, <2>1, <2>3, SameWords DEF Fifo!Discard, Fifo!Does, Fifo!AllBut
  <2> QED
    BY <2>4 DEF Fifo!Next
<1> QED
  BY <1>3, <1>4, <1>5, <1>6, <1>7, <1>8, <1>9

\* The span calls that go item by item.
LEMMA Loops ==
  ASSUME RInv,
         \/ PushLoop \/ PopLoop
         \/ \E items \in Spans : PushItemByItem(items)
         \/ \E n \in 0 .. MaxSpan : PopItemByItem(n)
  PROVE  StagedInv' /\ Fifo!Next
<1>1. call.op # "staged" /\ call'.op # "staged"
  BY CallKinds DEF PushLoop, PopLoop, PopOne, PushItemByItem, PopItemByItem
<1>2. /\ IInv /\ Sound(ring) /\ ring \in Rings /\ QueueItems = Contents(ring)
      /\ ring.count \in Nat /\ Len(QueueItems) = ring.count
  BY <1>1, QueueNow DEF RInv
<1>3. StagedInv' /\ QueueItems' = Contents(ring')
  BY <1>1, NotStaged
<1>4. ASSUME NEW items \in Spans, PushItemByItem(items)
      PROVE  Fifo!Next
  <2>1. Fifo!Begin
    BY <1>2, <1>3, <1>4, SameWords DEF PushItemByItem, Does, Fifo!Begin, Fifo!Does
  <2> QED
    BY <2>1 DEF Fifo!Next
<1>5. ASSUME NEW n \in 0 .. MaxSpan, PopItemByItem(n)
      PROVE  Fifo!Next
  <2>1. n \in 0 .. Len(QueueItems)
    BY <1>2, <1>5, UseAssumption DEF PopItemByItem
  <2>2. Fifo!Begin
    BY <1>2, <1>3, <1>5, <2>1, SameWords
    DEF PopItemByItem, Does, Fifo!Begin, Fifo!Does
  <2> QED
    BY <2>2 DEF Fifo!Next
<1>6. CASE (PushLoop /\ call.items = <<>>) \/ (PopLoop /\ call.left = 0)
  <2>1. call \in {Pushing(<<>>), Popping(0)}
    BY <1>2, <1>6, CallKinds DEF PushLoop, PopLoop, IInv, TypeOK
  <2>2. call' = Idle /\ Does(Did("end", <<>>, 0), <<>>, ring)
    BY <1>6, <2>1, CallKinds DEF PushLoop, PopLoop
  <2>3. Fifo!End
    BY <1>2, <1>3, <2>1, <2>2, SameWords DEF Fifo!End, Fifo!Does, Does
  <2> QED
    BY <1>3, <2>3 DEF Fifo!Next
<1>7. CASE PushLoop /\ call.items # <<>>
  <2>1. call.items \in Seq(Type)
    BY <1>2, <1>7, CallKinds DEF PushLoop, IInv, TypeOK
  <2> DEFINE v == Head(call.items)
  <2>2. /\ v \in Type /\ ring' = Pushed(ring, v) /\ call' = Pushing(Tail(call.items))
        /\ did' = Did("push", <<v>>, 0) /\ out' = <<>> /\ call.op = "push"
    BY <1>7, <2>1 DEF PushLoop, Does
  <2>3. /\ QueueItems' = IF IsFull(ring) THEN Append(Tail(Contents(ring)), v)
                                         ELSE Append(Contents(ring), v)
        /\ QueueItems' = Fifo!Newest(QueueItems \o <<v>>)
    <3> HIDE DEF v
    <3> QED
      BY <1>2, <1>3, <2>2, PushedContents, PutsOne
  <2>4. Fifo!PushNext
    BY <1>7, <2>2, <2>3, SameWords DEF Fifo!PushNext, Fifo!Does
  <2> QED
    BY <1>3, <2>4 DEF Fifo!Next
<1>8. CASE PopLoop /\ call.left # 0
  <2>1. /\ ring' = Popped(ring) /\ call' = Popping(call.left - 1)
        /\ did' = Did("pop", <<>>, 1) /\ out' = <<Peek(ring)>> /\ call.op = "pop"
    BY <1>8 DEF PopLoop, PopOne, Does
  <2>2. 1 <= ring.count /\ ~IsEmpty(ring) /\ call.left > 0
    <3>1. call.op = "pop" /\ call.left \in Nat /\ call.left <= ring.count
      BY <1>2, <1>8, CallKinds DEF PopLoop, IInv, TypeOK, PopLoopBounded
    <3> QED
      BY <1>2, <1>8, <3>1 DEF IsEmpty
  <2>3. QueueItems' = SubSeq(Contents(ring), 1 + 1, ring.count)
    <3>1. 1 + 1 = 2
      OBVIOUS
    <3> QED
      BY <1>2, <1>3, <2>1, <2>2, <3>1, TakenOut
  <2>4. out' = SubSeq(Contents(ring), 1, 1)
    BY <1>2, <2>1, <2>2, PeekedOldest
  <2>5. QueueItems # <<>>
    BY <1>2, <2>2
  <2>6. Fifo!PopNext
    BY <1>2, <2>1, <2>2, <2>3, <2>4, <2>5, SameWords
    DEF Fifo!PopNext, Fifo!Does, Fifo!Oldest, Fifo!AllBut
  <2> QED
    BY <1>3, <2>6 DEF Fifo!Next
<1> QED
  BY <1>3, <1>4, <1>5, <1>6, <1>7, <1>8

LEMMA RStep ==
  ASSUME RInv, ~ConstantEvaluated, [Next]_vars
  PROVE  RInv' /\ [Fifo!Next]_(Fifo!vars)
<1>1. IInv'
  BY NextIInv DEF RInv
<1>2. CASE Next
  <2>1. StagedInv' /\ Fifo!Next
    BY <1>2, Pushes, Takes, Loops, Writes, Fills, Reports DEF Next
  <2> QED
    BY <1>1, <2>1 DEF RInv
<1>3. CASE UNCHANGED vars
  <2>1. QueueItems' = QueueItems /\ StagedInv'
    BY <1>3 DEF vars, QueueItems, Contents, IsFull, RInv, StagedInv, Staying
  <2> QED
    BY <1>1, <1>3, <2>1 DEF RInv, vars, Fifo!vars
<1> QED
  BY <1>2, <1>3

\* For every size, element type and length of a span, and outside constant
\* evaluation, a RingBuffer is an evicting first-in first-out queue: each call,
\* and each step of one that goes item by item, is the step of the queue for
\* that same call, with the same arguments, result and losses.
THEOREM RingIsFifo == ~ConstantEvaluated => (Spec => RefinesFifo)
<1> SUFFICES ASSUME ~ConstantEvaluated
             PROVE  Spec => Fifo!Spec
  BY DEF RefinesFifo
<1>1. Init => RInv /\ Fifo!Init
  BY StartsEmpty
<1>2. RInv /\ [Next]_vars => RInv' /\ [Fifo!Next]_(Fifo!vars)
  BY RStep
<1> QED
  BY <1>1, <1>2, PTL DEF Spec, Fifo!Spec
=============================================================================
