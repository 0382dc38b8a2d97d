------------------------- MODULE InplaceDynamicArray -------------------------
(***************************************************************************)
(* InplaceDynamicArray<Type, N> of                                         *)
(* core/inc/emdevif/core/data_container/inplace_dynamic_array.hpp: N slots *)
(* of raw storage, the first size_ of them holding elements.  A slot is    *)
(* Raw, or holds an element.  The array itself must construct an element   *)
(* before it assigns to it or reads it, and destroy it once; a slot where  *)
(* it did otherwise is Broken.  A method is the operator that gives the    *)
(* array it leaves, or that array with what it returns.  Type stands for   *)
(* the values of an element type with a destructor.                        *)
(***************************************************************************)
EXTENDS Integers, SequencesExt

CONSTANTS N,        \* the template argument N
          SizeMax,  \* 2^w for a std::size_t of w bits
          Type,     \* the values of an element
          Moved,    \* the value of an element that was moved from
          Raw,      \* no element
          Broken    \* undefined behaviour

ASSUME ArrayAssumption ==
  /\ N \in Nat \ {0}
  /\ SizeMax \in Nat /\ 2 * N <= SizeMax
  /\ Moved \notin Type /\ Raw \notin Type \cup {Moved}
  /\ Broken \notin Type \cup {Moved, Raw}

Elem == Type \cup {Moved}
Slots == 0 .. N - 1
None == -1                      \* nullptr
Wrap(n) == n % SizeMax

Least(m, n) == IF m <= n THEN m ELSE n
Repeat(item, n) == [k \in 1 .. n |-> item]

-----------------------------------------------------------------------------
\* The algorithms of the standard library.  A range is given by its first slot
\* and the slot after its last; a range written to is given by its first slot.

\* Puts the items into slots that must satisfy ready; out of bounds nothing of
\* the storage is known any more.
Put(cells, to, items, ready) ==
  IF to + Len(items) > N THEN [s \in Slots |-> Broken]
  ELSE [s \in Slots |->
          IF s \notin to .. to + Len(items) - 1 THEN cells[s]
          ELSE IF cells[s] \in ready /\ items[s - to + 1] \in Elem
               THEN items[s - to + 1] ELSE Broken]

UninitCopy(cells, to, items) == Put(cells, to, items, {Raw})
CopyTo(cells, to, items) == Put(cells, to, items, Elem)

Items(cells, from, until) == [k \in 1 .. until - from |-> cells[from + k - 1]]

MovedFrom(cells, from, until) ==
  [s \in Slots |->
     IF s \in from .. until - 1 /\ cells[s] \in Elem THEN Moved ELSE cells[s]]

Destroy(cells, from, until) ==
  [s \in Slots |-> IF s \notin from .. until - 1 THEN cells[s]
                   ELSE IF cells[s] \in Elem THEN Raw ELSE Broken]

UninitMove(cells, from, until, to) ==
  UninitCopy(MovedFrom(cells, from, until), to, Items(cells, from, until))

\* std::move: the ranges may overlap when it moves to the front.
MoveForward(cells, from, until, to) ==
  IF from <= to /\ to < until THEN [s \in Slots |-> Broken]
  ELSE CopyTo(MovedFrom(cells, from, until), to, Items(cells, from, until))

\* std::move_backward: the ranges may overlap when it moves to the back.
MoveBackward(cells, from, until, toEnd) ==
  IF from < toEnd /\ toEnd <= until THEN [s \in Slots |-> Broken]
  ELSE CopyTo(MovedFrom(cells, from, until), toEnd - (until - from),
              Items(cells, from, until))

\* The items that are not removed, in their order.
Without(items, removed) ==
  LET kept[k \in 0 .. Len(items)] ==
        IF k = 0 THEN <<>>
        ELSE IF items[k] \in removed THEN kept[k - 1]
        ELSE Append(kept[k - 1], items[k])
  IN kept[Len(items)]

\* std::remove_if: what is kept comes first; the rest has been moved from or not.
RemoveIf(cells, until, removed) ==
  LET kept == Without(Items(cells, 0, until), removed)
  IN [end |-> Len(kept), cells |-> CopyTo(MovedFrom(cells, 0, until), 0, kept)]

-----------------------------------------------------------------------------
NewArray == [cells |-> [s \in Slots |-> Raw], size |-> 0]

Contents(a) == Items(a.cells, 0, a.size)
IsFull(a) == a.size = N

Result(a, code, at) == [array |-> a, code |-> code, at |-> at]
Refused(a, code) == Result(a, code, None)

Reserve(a, newCap) ==
  Refused(a, IF newCap > N THEN "InvalidArgument" ELSE "Success")

At(a, i) == IF i >= a.size THEN None ELSE i

\* ~InplaceDynamicArray and clear()
Cleared(a) == [cells |-> Destroy(a.cells, 0, a.size), size |-> 0]

\* A constructor, over the raw storage cells: copy, move, initializer list.
Constructed(cells, items) ==
  [cells |-> UninitCopy(cells, 0, items), size |-> Len(items)]

\* What a move leaves of its source: size_ stays.
GivenUp(a) == [a EXCEPT !.cells = MovedFrom(@, 0, a.size)]

\* Assignments: the elements both have are assigned, the surplus is destroyed,
\* what is missing is constructed.
Overwritten(a, items) ==
  LET common == Least(a.size, Len(items))
      copied == CopyTo(a.cells, 0, SubSeq(items, 1, common))
      grown == UninitCopy(copied, a.size, SubSeq(items, common + 1, Len(items)))
  IN [cells |-> Destroy(grown, common, a.size), size |-> Len(items)]

AssignFilled(a, count, item) ==
  IF count > N THEN Refused(a, "InvalidArgument")
  ELSE Refused(Overwritten(a, Repeat(item, count)), "Success")

AssignRange(a, items) ==
  IF Len(items) > N THEN Refused(a, "InvalidArgument")
  ELSE Refused(Overwritten(a, items), "Success")

\* Both forms of resize: the one without an item adds T{}, one of the values.
Resized(a, newSize, item) ==
  LET added == Repeat(item, newSize - Least(newSize, a.size))
      cells == Destroy(UninitCopy(a.cells, a.size, added), newSize, a.size)
  IN IF newSize > N THEN Refused(a, "InvalidArgument")
     ELSE Refused([cells |-> cells, size |-> newSize], "Success")

UncheckedPushBack(a, item) ==
  Result([cells |-> UninitCopy(a.cells, a.size, <<item>>), size |-> a.size + 1],
         "None", a.size)

PushBack(a, item) ==
  IF IsFull(a) THEN Refused(a, "Full")
  ELSE Refused(UncheckedPushBack(a, item).array, "Success")

TryPushBack(a, item) ==
  IF IsFull(a) THEN Refused(a, "None") ELSE UncheckedPushBack(a, item)

\* Faulty form of popBack: the last element of an empty array.
PoppedBackUnchecked(a) ==
  [cells |-> Destroy(a.cells, a.size - 1, a.size), size |-> a.size - 1]

PoppedBack(a) ==
  IF a.size = 0 THEN a
  ELSE [cells |-> Destroy(a.cells, a.size - 1, a.size), size |-> a.size - 1]

\* emplace: the last element moves into the first raw slot, the others behind
\* it one to the back, and the freed element is destroyed and made anew.
Emplace(a, i, item) ==
  LET last == a.size - 1
      opened == MoveBackward(UninitMove(a.cells, last, a.size, a.size), i, last, a.size)
      cells == IF i = a.size THEN a.cells ELSE Destroy(opened, i, i + 1)
  IN IF IsFull(a) THEN Refused(a, "Full")
     ELSE Result([cells |-> UninitCopy(cells, i, <<item>>), size |-> a.size + 1],
                 "Success", i)

TryEmplace(a, i, item) ==
  LET emplaced == Emplace(a, i, item)
  IN Result(emplaced.array, "None", emplaced.at)

\* Opens a gap of count elements at i: the last ones of the tail move into raw
\* slots, the others backwards over elements.
Opened(a, i, count) ==
  LET uninit == Least(a.size - i, count)
      moved == UninitMove(a.cells, a.size - uninit, a.size,
                          Wrap(a.size + count - uninit))
  IN IF a.size - i > uninit
     THEN MoveBackward(moved, i, a.size - uninit, Wrap(a.size + count - uninit))
     ELSE moved

\* The items go into the gap: over the moved-from elements, then into raw slots.
InsertRange(a, i, items) ==
  LET count == Len(items)
      existing == Least(count, a.size - i)
      over == CopyTo(Opened(a, i, count), i, SubSeq(items, 1, existing))
  IN IF count = 0 THEN Result(a, "Success", i)
     ELSE IF Wrap(a.size + count) > N THEN Refused(a, "Full")
     ELSE Result([cells |-> UninitCopy(over, a.size, SubSeq(items, existing + 1, count)),
                  size |-> Wrap(a.size + count)],
                 "Success", i)

InsertFilled(a, i, count, item) == InsertRange(a, i, Repeat(item, count))

AppendRange(a, items) ==
  Refused(InsertRange(a, a.size, items).array, InsertRange(a, a.size, items).code)

\* tryAppendRange gives TRUE or FALSE, here the code.
TryAppendRange(a, items) ==
  IF Wrap(a.size + Len(items)) > N THEN Refused(a, "Full")
  ELSE Refused(AppendRange(a, items).array, "Success")

\* Faulty form of erase: the moved-from elements at the end are not destroyed.
ErasedKeeping(a, i, j) ==
  Result([cells |-> MoveForward(a.cells, j, a.size, i), size |-> a.size - (j - i)],
         "None", i)

\* erase [i, j): what lies behind moves to the front, the surplus is destroyed.
Erased(a, i, j) ==
  LET closed == MoveForward(a.cells, j, a.size, i)
      newEnd == i + (a.size - j)
  IN IF i = j THEN Result(a, "None", i)
     ELSE Result([cells |-> Destroy(closed, newEnd, a.size),
                  size |-> a.size - (j - i)], "None", i)

\* eraseIf gives the number of elements removed.
ErasedIf(a, removed) ==
  LET left == RemoveIf(a.cells, a.size, removed)
  IN Result(Erased([a EXCEPT !.cells = left.cells], left.end, a.size).array,
            "None", a.size - left.end)

\* Faulty form of swap: the sizes change places, the surplus stays.
SwappedCommon(a, b) ==
  LET common == Least(a.size, b.size)
  IN <<[cells |-> CopyTo(a.cells, 0, Items(b.cells, 0, common)), size |-> b.size],
       [cells |-> CopyTo(b.cells, 0, Items(a.cells, 0, common)), size |-> a.size]>>

\* The elements from slot n on have moved away and are destroyed.
Shortened(cells, n, size) == Destroy(MovedFrom(cells, n, size), n, size)

\* swap: the elements both have change places, the surplus moves over.
Swapped(a, b) ==
  LET common == Least(a.size, b.size)
      aCells == CopyTo(a.cells, 0, Items(b.cells, 0, common))
      bCells == CopyTo(b.cells, 0, Items(a.cells, 0, common))
  IN <<[cells |-> Shortened(UninitCopy(aCells, common, Items(b.cells, common, b.size)),
                            b.size, a.size),
        size |-> b.size],
       [cells |-> Shortened(UninitCopy(bCells, common, Items(a.cells, common, a.size)),
                            a.size, b.size),
        size |-> a.size]>>
=============================================================================
