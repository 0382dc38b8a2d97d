-------------------- MODULE InplaceDynamicArrayUseProofs ---------------------
(***************************************************************************)
(* For any capacity, any element type and any number of arrays: the        *)
(* storage holds elements exactly in its first size_ slots, and the array  *)
(* implements BoundedVector.                                               *)
(***************************************************************************)
EXTENDS InplaceDynamicArrayUse, SequenceTheorems, WellFoundedInduction, TLAPS

\* What size_ + count never reaches, for insert() does not look (hpp:750).
NoCountWraps ==
  /\ N + MaxSpan < SizeMax
  /\ \A n \in Counts : N + n < SizeMax

Cell == Elem \cup {Raw, Broken}
Storage == [Slots -> Cell]
Typed(a) == a \in [cells : Storage, size : 0 .. N]
Codes == {"None", "Success", "Full", "InvalidArgument"}

\* What a method on one array may leave and return.
Fine(r) == Typed(r.array) /\ r.code \in Codes /\ r.at \in -1 .. N

\* What an array can contain, and the array that contains it.
Lists == {s \in Seq(Elem) : Len(s) <= N}
Held(s) ==
  [cells |-> [k \in Slots |-> IF k < Len(s) THEN s[k + 1] ELSE Raw],
   size |-> Len(s)]

-----------------------------------------------------------------------------
(* The storage keeps its type whatever is done to it.                      *)

LEMMA Constants ==
  /\ N \in Nat /\ N > 0 /\ SizeMax \in Nat /\ 2 * N <= SizeMax
  /\ Slots \subseteq Nat /\ \A k \in Nat : k \in Slots <=> k < N
  /\ Raw \notin Elem /\ Broken \notin Elem /\ Raw # Broken
  /\ Moved \in Elem /\ Type \subseteq Elem
BY ArrayAssumption DEF Slots, Elem

LEMMA WrapIs ==
  ASSUME NEW n \in Nat
  PROVE  Wrap(n) \in Nat /\ (n < SizeMax => Wrap(n) = n)
BY Constants DEF Wrap

LEMMA LeastIs ==
  ASSUME NEW m \in Int, NEW n \in Int
  PROVE  /\ Least(m, n) \in Int /\ Least(m, n) <= m /\ Least(m, n) <= n
         /\ Least(m, n) = m \/ Least(m, n) = n
BY DEF Least

LEMMA ArrayIs ==
  ASSUME NEW a, Typed(a)
  PROVE  /\ a = [cells |-> a.cells, size |-> a.size]
         /\ a.cells \in Storage /\ a.size \in 0 .. N /\ a.size \in Nat
BY Constants DEF Typed

LEMMA PutTyped ==
  ASSUME NEW cells \in Storage, NEW to, NEW items, NEW ready
  PROVE  Put(cells, to, items, ready) \in Storage
BY DEF Put, Storage, Cell

LEMMA CopiesTyped ==
  ASSUME NEW cells \in Storage, NEW to, NEW items
  PROVE  /\ UninitCopy(cells, to, items) \in Storage
         /\ CopyTo(cells, to, items) \in Storage
BY PutTyped DEF UninitCopy, CopyTo

LEMMA RemovalsTyped ==
  ASSUME NEW cells \in Storage, NEW from, NEW until
  PROVE  /\ MovedFrom(cells, from, until) \in Storage
         /\ Destroy(cells, from, until) \in Storage
BY Constants DEF MovedFrom, Destroy, Storage, Cell

LEMMA MovesTyped ==
  ASSUME NEW cells \in Storage, NEW from, NEW until, NEW to
  PROVE  /\ UninitMove(cells, from, until, to) \in Storage
         /\ MoveForward(cells, from, until, to) \in Storage
         /\ MoveBackward(cells, from, until, to) \in Storage
BY CopiesTyped, RemovalsTyped
DEF UninitMove, MoveForward, MoveBackward, Storage, Cell

LEMMA Outcomes ==
  ASSUME NEW a, NEW code, NEW at
  PROVE  /\ Result(a, code, at).array = a /\ Result(a, code, at).code = code
         /\ Result(a, code, at).at = at
         /\ Refused(a, code).array = a /\ Refused(a, code).code = code
         /\ Refused(a, code).at = None
BY DEF Result, Refused

LEMMA FineResult ==
  ASSUME NEW a, Typed(a), NEW code \in Codes, NEW at \in -1 .. N
  PROVE  Fine(Result(a, code, at)) /\ Fine(Refused(a, code))
BY Outcomes, Constants DEF Fine, None

LEMMA ArrayTyped ==
  ASSUME NEW cells \in Storage, NEW size \in 0 .. N
  PROVE  Typed([cells |-> cells, size |-> size])
BY DEF Typed

LEMMA ClearedTyped ==
  ASSUME NEW a, Typed(a)
  PROVE  Typed(Cleared(a))
BY ArrayIs, RemovalsTyped, ArrayTyped, Constants DEF Cleared

LEMMA ContentsLength ==
  ASSUME NEW a, Typed(a)
  PROVE  Len(Contents(a)) \in 0 .. N
<1>1. a.size \in 0 .. N /\ a.size \in Nat
  BY ArrayIs
<1>2. Contents(a) = [k \in 1 .. a.size |-> a.cells[0 + k - 1]]
  BY <1>1 DEF Contents, Items
<1> QED
  BY <1>1, <1>2

LEMMA ConstructedTyped ==
  ASSUME NEW cells \in Storage, NEW items, Len(items) \in 0 .. N
  PROVE  Typed(Constructed(cells, items))
BY CopiesTyped, ArrayTyped DEF Constructed

LEMMA GivenUpTyped ==
  ASSUME NEW a, Typed(a)
  PROVE  Typed(GivenUp(a))
<1>1. GivenUp(a) = [cells |-> MovedFrom(a.cells, 0, a.size), size |-> a.size]
  BY ArrayIs DEF GivenUp
<1> QED
  BY <1>1, ArrayIs, RemovalsTyped, ArrayTyped

LEMMA OverwrittenTyped ==
  ASSUME NEW a, Typed(a), NEW items, Len(items) \in 0 .. N
  PROVE  Typed(Overwritten(a, items))
BY ArrayIs, CopiesTyped, RemovalsTyped, ArrayTyped DEF Overwritten

LEMMA RepeatIs ==
  ASSUME NEW S, NEW item \in S, NEW n \in Nat
  PROVE  /\ Repeat(item, n) \in Seq(S) /\ Len(Repeat(item, n)) = n
         /\ \A k \in 1 .. n : Repeat(item, n)[k] = item
BY DEF Repeat

LEMMA AssignedFine ==
  ASSUME NEW a, Typed(a)
  PROVE  /\ \A items : Len(items) \in Nat => Fine(AssignRange(a, items))
         /\ \A n \in Nat : \A item : Fine(AssignFilled(a, n, item))
<1>1. \A items : Len(items) \in 0 .. N => Typed(Overwritten(a, items))
  BY OverwrittenTyped
<1>2. "Success" \in Codes /\ "InvalidArgument" \in Codes /\ 0 \in -1 .. N
  BY Constants DEF Codes
<1>3. \A items : Len(items) \in 0 .. N => Fine(Refused(Overwritten(a, items), "Success"))
  BY <1>1, <1>2, FineResult
<1>4. Fine(Refused(a, "InvalidArgument"))
  BY <1>2, FineResult
<1>5. \A n \in Nat : \A item : Len(Repeat(item, n)) = n
  BY DEF Repeat
<1> QED
  BY <1>3, <1>4, <1>5, Constants DEF AssignRange, AssignFilled

LEMMA ResizedFine ==
  ASSUME NEW a, Typed(a), NEW n \in Nat, NEW item
  PROVE  Fine(Resized(a, n, item))
<1>1. "Success" \in Codes /\ "InvalidArgument" \in Codes /\ 0 \in -1 .. N
  BY Constants DEF Codes
<1> DEFINE added == Repeat(item, n - Least(n, a.size))
           cells == Destroy(UninitCopy(a.cells, a.size, added), n, a.size)
<1>2. Resized(a, n, item) =
        IF n > N THEN Refused(a, "InvalidArgument")
        ELSE Refused([cells |-> cells, size |-> n], "Success")
  BY DEF Resized
<1>3. cells \in Storage
  BY ArrayIs, CopiesTyped, RemovalsTyped
<1> HIDE DEF cells
<1>4. n <= N => Typed([cells |-> cells, size |-> n])
  BY <1>3, ArrayTyped, Constants
<1> QED
  BY <1>1, <1>2, <1>4, FineResult, Constants

LEMMA PushedFine ==
  ASSUME NEW a, Typed(a), NEW item
  PROVE  /\ ~IsFull(a) => Fine(UncheckedPushBack(a, item))
         /\ Fine(PushBack(a, item)) /\ Fine(TryPushBack(a, item))
<1>1. /\ "None" \in Codes /\ "Success" \in Codes /\ "Full" \in Codes
      /\ a.size \in -1 .. N /\ 0 \in -1 .. N
  BY ArrayIs, Constants DEF Codes
<1> DEFINE p == [cells |-> UninitCopy(a.cells, a.size, <<item>>), size |-> a.size + 1]
<1>2. ~IsFull(a) => Typed(p)
  BY ArrayIs, CopiesTyped, ArrayTyped, Constants DEF IsFull
<1>3. UncheckedPushBack(a, item) = Result(p, "None", a.size)
  BY DEF UncheckedPushBack
<1> HIDE DEF p
<1>4. UncheckedPushBack(a, item).array = p
  BY <1>3, Outcomes
<1> QED
  BY <1>1, <1>2, <1>3, <1>4, FineResult DEF PushBack, TryPushBack

LEMMA PoppedBackTyped ==
  ASSUME NEW a, Typed(a)
  PROVE  Typed(PoppedBack(a))
BY ArrayIs, RemovalsTyped, ArrayTyped, Constants DEF PoppedBack

LEMMA EmplacedFine ==
  ASSUME NEW a, Typed(a), NEW i \in 0 .. a.size, NEW item
  PROVE  Fine(Emplace(a, i, item)) /\ Fine(TryEmplace(a, i, item))
<1>1. /\ "None" \in Codes /\ "Success" \in Codes /\ "Full" \in Codes
      /\ i \in -1 .. N /\ 0 \in -1 .. N /\ None \in -1 .. N
  BY ArrayIs, Constants DEF Codes, None
<1> DEFINE last == a.size - 1
           opened == MoveBackward(UninitMove(a.cells, last, a.size, a.size),
                                  i, last, a.size)
           cells == IF i = a.size THEN a.cells ELSE Destroy(opened, i, i + 1)
           p == [cells |-> UninitCopy(cells, i, <<item>>), size |-> a.size + 1]
<1>2. Emplace(a, i, item) = IF IsFull(a) THEN Refused(a, "Full")
                            ELSE Result(p, "Success", i)
  BY DEF Emplace
<1>3. ~IsFull(a) => Typed(p)
  <2>1. opened \in Storage
    BY ArrayIs, MovesTyped
  <2>2. cells \in Storage
    BY <2>1, ArrayIs, RemovalsTyped
  <2> HIDE DEF cells
  <2> QED BY <2>2, ArrayIs, CopiesTyped, ArrayTyped, Constants DEF IsFull
<1> HIDE DEF p
<1>4. Fine(Emplace(a, i, item))
  BY <1>1, <1>2, <1>3, FineResult
<1> HIDE DEF last, opened, cells
<1>5. Fine(TryEmplace(a, i, item))
  BY <1>1, <1>4, FineResult DEF TryEmplace, Fine
<1> QED
  BY <1>4, <1>5

LEMMA InsertedFine ==
  ASSUME NEW a, Typed(a), NEW i \in 0 .. a.size, NEW items, Len(items) \in Nat
  PROVE  Fine(InsertRange(a, i, items))
<1>1. /\ "Success" \in Codes /\ "Full" \in Codes
      /\ i \in -1 .. N /\ 0 \in -1 .. N
  BY ArrayIs, Constants DEF Codes
<1> DEFINE count == Len(items)
           existing == Least(count, a.size - i)
           over == CopyTo(Opened(a, i, count), i, SubSeq(items, 1, existing))
           p == [cells |-> UninitCopy(over, a.size, SubSeq(items, existing + 1, count)),
                 size |-> Wrap(a.size + count)]
<1>2. InsertRange(a, i, items) =
        IF count = 0 THEN Result(a, "Success", i)
        ELSE IF Wrap(a.size + count) > N THEN Refused(a, "Full")
        ELSE Result(p, "Success", i)
  BY DEF InsertRange
<1>3. Wrap(a.size + count) \in Nat
  BY ArrayIs, WrapIs
<1>4. Wrap(a.size + count) <= N => Typed(p)
  <2>1. Opened(a, i, count) \in Storage
    BY ArrayIs, MovesTyped DEF Opened
  <2>2. over \in Storage
    BY <2>1, CopiesTyped
  <2> HIDE DEF over
  <2>3. UninitCopy(over, a.size, SubSeq(items, existing + 1, count)) \in Storage
    BY <2>2, CopiesTyped
  <2> QED BY <2>3, <1>3, ArrayTyped, Constants
<1> HIDE DEF p
<1> QED
  BY <1>1, <1>2, <1>3, <1>4, FineResult, Constants

LEMMA AppendedFine ==
  ASSUME NEW a, Typed(a), NEW items, Len(items) \in Nat
  PROVE  Fine(AppendRange(a, items)) /\ Fine(TryAppendRange(a, items))
<1>1. "Success" \in Codes /\ "Full" \in Codes /\ 0 \in -1 .. N
  BY Constants DEF Codes
<1>2. Fine(InsertRange(a, a.size, items))
  BY ArrayIs, InsertedFine
<1>3. Fine(AppendRange(a, items))
  BY <1>1, <1>2, FineResult DEF AppendRange, Fine
<1> QED
  BY <1>1, <1>3, FineResult DEF TryAppendRange, Fine

LEMMA ErasedFine ==
  ASSUME NEW a, Typed(a), NEW i \in Nat, NEW j \in Nat, i <= j, j <= a.size
  PROVE  Fine(Erased(a, i, j))
<1>1. "None" \in Codes /\ i \in -1 .. N
  BY ArrayIs, Constants DEF Codes
<1> DEFINE cells == Destroy(MoveForward(a.cells, j, a.size, i), i + (a.size - j), a.size)
<1>2. cells \in Storage
  BY ArrayIs, MovesTyped, RemovalsTyped
<1>3. Erased(a, i, j) = IF i = j THEN Result(a, "None", i)
                        ELSE Result([cells |-> cells, size |-> a.size - (j - i)], "None", i)
  BY DEF Erased
<1> HIDE DEF cells
<1>4. Typed([cells |-> cells, size |-> a.size - (j - i)])
  BY <1>2, ArrayIs, ArrayTyped, Constants
<1> QED
  BY <1>1, <1>3, <1>4, FineResult

LEMMA ErasedIfFine ==
  ASSUME NEW a, Typed(a), NEW removed,
         Len(Without(Contents(a), removed)) \in 0 .. a.size
  PROVE  Fine(ErasedIf(a, removed))
<1> DEFINE left == RemoveIf(a.cells, a.size, removed)
           b == [a EXCEPT !.cells = left.cells]
<1>1. left.end = Len(Without(Contents(a), removed)) /\ left.cells \in Storage
  BY ArrayIs, CopiesTyped, RemovalsTyped DEF RemoveIf, Contents
<1>2. b = [cells |-> left.cells, size |-> a.size]
  BY ArrayIs
<1>3. ErasedIf(a, removed) =
        Result(Erased(b, left.end, a.size).array, "None", a.size - left.end)
  BY DEF ErasedIf
<1> HIDE DEF left, b
<1>4. Typed(b) /\ b.size = a.size
  BY <1>1, <1>2, ArrayIs, ArrayTyped
<1>5. left.end \in Nat /\ left.end <= a.size /\ a.size \in Nat /\ a.size <= N
  BY <1>1, ArrayIs, Constants
<1>6. Fine(Erased(b, left.end, a.size))
  BY <1>4, <1>5, ErasedFine
<1>7. a.size - left.end \in -1 .. N /\ "None" \in Codes
  BY <1>5, Constants DEF Codes
<1> QED
  BY <1>3, <1>6, <1>7, FineResult DEF Fine

LEMMA SwappedTyped ==
  ASSUME NEW a, Typed(a), NEW b, Typed(b)
  PROVE  Typed(Swapped(a, b)[1]) /\ Typed(Swapped(a, b)[2])
<1> DEFINE common == Least(a.size, b.size)
           aCells == CopyTo(a.cells, 0, Items(b.cells, 0, common))
           bCells == CopyTo(b.cells, 0, Items(a.cells, 0, common))
           c == Shortened(UninitCopy(aCells, common, Items(b.cells, common, b.size)),
                          b.size, a.size)
           d == Shortened(UninitCopy(bCells, common, Items(a.cells, common, a.size)),
                          a.size, b.size)
<1>1. /\ Swapped(a, b)[1] = [cells |-> c, size |-> b.size]
      /\ Swapped(a, b)[2] = [cells |-> d, size |-> a.size]
  BY DEF Swapped
<1>2. aCells \in Storage /\ bCells \in Storage
  BY ArrayIs, CopiesTyped
<1> HIDE DEF aCells, bCells
<1>3. c \in Storage /\ d \in Storage
  BY <1>2, CopiesTyped, RemovalsTyped DEF Shortened
<1> HIDE DEF c, d
<1> QED
  BY <1>1, <1>3, ArrayIs, ArrayTyped

-----------------------------------------------------------------------------
(* Sequences.                                                              *)

\* The least number principle.
LEMMA LeastNumber ==
  ASSUME NEW S, S \subseteq Nat, S # {}
  PROVE  \E n \in S : \A k \in S : n <= k
<1> DEFINE R == OpToRel(<, Nat)
<1>1. IsWellFoundedOn(R, Nat)
  BY NatLessThanWellFounded
<1>2. \A k, n \in Nat : <<k, n>> \in R <=> k < n
  BY DEF OpToRel
<1> HIDE DEF R
<1>3. \E n \in S : \A k \in S : ~ (<<k, n>> \in R)
  BY <1>1, WFMin
<1>4. PICK n \in S : \A k \in S : ~ (<<k, n>> \in R)
  BY <1>3
<1>5. \A k \in S : n <= k
  <2> TAKE k \in S
  <2>1. k \in Nat /\ n \in Nat
    OBVIOUS
  <2>2. ~(k < n)
    BY <1>2, <1>4, <2>1
  <2> QED
    BY <2>1, <2>2
<1> QED
  BY <1>5

LEMMA SubSeqIs ==
  ASSUME NEW S, NEW s \in Seq(S), NEW i \in 1 .. Len(s) + 1, NEW j \in i - 1 .. Len(s)
  PROVE  /\ SubSeq(s, i, j) \in Seq(S) /\ Len(SubSeq(s, i, j)) = j - i + 1
         /\ \A k \in 1 .. j - i + 1 : SubSeq(s, i, j)[k] = s[k + i - 1]
<1>1. \A k \in 1 .. Len(s) : s[k] \in S
  BY ElementOfSeq
<1>2. Len(s) \in Nat
  OBVIOUS
<1>3. \A k \in i .. j : s[k] \in S
  BY <1>1, <1>2
<1>4. i \in Int /\ j \in Int
  OBVIOUS
<1>5. /\ SubSeq(s, i, j) \in Seq(S)
      /\ Len(SubSeq(s, i, j)) = (IF i <= j THEN j - i + 1 ELSE 0)
      /\ \A k \in 1 .. j - i + 1 : SubSeq(s, i, j)[k] = s[i + k - 1]
  BY <1>3, <1>4, SubSeqProperties
<1>6. (IF i <= j THEN j - i + 1 ELSE 0) = j - i + 1
  BY <1>2
<1>7. \A k \in 1 .. j - i + 1 : i + k - 1 = k + i - 1
  BY <1>2
<1> QED
  BY ONLY <1>5, <1>6, <1>7

\* In t the items take the place of what stands between the positions i and j.
IsSpliced(t, s, i, j, items) ==
  /\ Len(t) = Len(s) - (j - i) + Len(items)
  /\ \A k \in 1 .. Len(t) :
       t[k] = IF k <= i THEN s[k] ELSE IF k <= i + Len(items) THEN items[k - i]
              ELSE s[k - Len(items) + (j - i)]

LEMMA SplicedIs ==
  ASSUME NEW S, NEW s \in Seq(S), NEW i \in Nat, NEW j \in Nat, i <= j, j <= Len(s),
         NEW items \in Seq(S)
  PROVE  /\ BV!Spliced(s, i, j, items) \in Seq(S)
         /\ IsSpliced(BV!Spliced(s, i, j, items), s, i, j, items)
<1> DEFINE a == SubSeq(s, 1, i)
           c == SubSeq(s, j + 1, Len(s))
           m == Len(items)
           n == Len(s)
           t == BV!Spliced(s, i, j, items)
<1>1. t = (a \o items) \o c
  BY DEF BV!Spliced
<1>2. n \in Nat /\ m \in Nat
  OBVIOUS
<1>3. /\ a \in Seq(S) /\ Len(a) = i
      /\ \A k \in 1 .. i : a[k] = s[k]
  <2>1. 1 \in 1 .. n + 1 /\ i \in 1 - 1 .. n
    BY <1>2
  <2>2. /\ a \in Seq(S) /\ Len(a) = i - 1 + 1
        /\ \A k \in 1 .. i - 1 + 1 : a[k] = s[k + 1 - 1]
    BY <2>1, SubSeqIs
  <2> HIDE DEF a
  <2> QED BY <2>2
<1>4. /\ c \in Seq(S) /\ Len(c) = n - j
      /\ \A k \in 1 .. n - j : c[k] = s[k + j]
  <2>1. j + 1 \in 1 .. n + 1 /\ n \in (j + 1) - 1 .. n
    BY <1>2
  <2>2. /\ c \in Seq(S) /\ Len(c) = n - (j + 1) + 1
        /\ \A k \in 1 .. n - (j + 1) + 1 : c[k] = s[k + (j + 1) - 1]
    BY <2>1, SubSeqIs
  <2>3. n - (j + 1) + 1 = n - j /\ \A k \in 1 .. n - j : k + (j + 1) - 1 = k + j
    BY <1>2
  <2> HIDE DEF a, c, n, m
  <2> QED BY ONLY <2>2, <2>3
<1> HIDE DEF a, c, t
<1> DEFINE b == a \o items
<1>5. /\ b \in Seq(S) /\ Len(b) = i + m
      /\ \A k \in 1 .. i + m : b[k] = IF k <= i THEN a[k] ELSE items[k - i]
  BY <1>3, ConcatProperties
<1> HIDE DEF b
<1>6. /\ b \o c \in Seq(S) /\ Len(b \o c) = (i + m) + (n - j)
      /\ \A k \in 1 .. (i + m) + (n - j) :
           (b \o c)[k] = IF k <= i + m THEN b[k] ELSE c[k - (i + m)]
  <2>1. /\ b \o c \in Seq(S) /\ Len(b \o c) = Len(b) + Len(c)
        /\ \A k \in 1 .. Len(b) + Len(c) :
             (b \o c)[k] = IF k <= Len(b) THEN b[k] ELSE c[k - Len(b)]
    <3>1. b \in Seq(S) /\ c \in Seq(S)
      BY <1>4, <1>5
    <3> QED BY ONLY <3>1, ConcatProperties
  <2>2. Len(b) = i + m /\ Len(c) = n - j
    BY <1>4, <1>5
  <2> HIDE DEF m, n
  <2> QED BY ONLY <2>1, <2>2
<1>7. t = b \o c
  BY <1>1 DEF b
<1>8. (i + m) + (n - j) = n - (j - i) + m
  BY <1>2
<1>9. ASSUME NEW k \in 1 .. Len(t)
      PROVE  t[k] = IF k <= i THEN s[k] ELSE IF k <= i + m THEN items[k - i]
                    ELSE s[k - m + (j - i)]
  <2>1. k \in 1 .. (i + m) + (n - j)
    BY <1>6, <1>7
  <2>2. t[k] = IF k <= i + m THEN b[k] ELSE c[k - (i + m)]
    BY <2>1, <1>6, <1>7
  <2>3. CASE k <= i
    BY <2>1, <2>2, <2>3, <1>2, <1>3, <1>5
  <2>4. CASE k > i /\ k <= i + m
    BY <2>1, <2>2, <2>4, <1>2, <1>5
  <2>5. CASE k > i + m
    <3>1. k - (i + m) \in 1 .. n - j
      BY <2>1, <2>5, <1>2
    <3>2. c[k - (i + m)] = s[(k - (i + m)) + j]
      BY <3>1, <1>4
    <3>3. (k - (i + m)) + j = k - m + (j - i)
      BY <2>1, <1>2
    <3>4. ~(k <= i) /\ ~(k <= i + m)
      BY <2>1, <2>5, <1>2
    <3> QED BY <3>2, <3>3, <3>4, <2>2
  <2>6. k <= i \/ (k > i /\ k <= i + m) \/ k > i + m
    BY <2>1, <1>2
  <2> QED BY <2>3, <2>4, <2>5, <2>6
<1> QED
  BY <1>6, <1>7, <1>8, <1>9 DEF t, m, n, IsSpliced

\* Without gives at most as many elements, of the same kind.
LEMMA WithoutIs ==
  ASSUME NEW S, NEW s \in Seq(S), NEW removed
  PROVE  /\ Without(s, removed) \in Seq(S)
         /\ Len(Without(s, removed)) \in 0 .. Len(s)
         /\ BV!Without(s, removed) = Without(s, removed)
<1> DEFINE n == Len(s)
           E(h, k) == IF k = 0 THEN <<>>
                      ELSE IF s[k] \in removed THEN h[k - 1]
                      ELSE Append(h[k - 1], s[k])
           Is(h, m) == h = [k \in 0 .. m |-> E(h, k)]
           Kept(k, t) == t \in Seq(S) /\ Len(t) \in 0 .. k
           Good(m) == /\ \E h : Is(h, m)
                      /\ \A h : Is(h, m) => \A k \in 0 .. m : Kept(k, h[k])
<1>1. n \in Nat
  OBVIOUS
<1>2. \A k \in 1 .. n : s[k] \in S
  BY ElementOfSeq
<1>3. \A m, h : Is(h, m) <=> /\ h = [k \in 0 .. m |-> h[k]]
                             /\ \A k \in 0 .. m : h[k] = E(h, k)
  <2> SUFFICES ASSUME NEW m, NEW h
               PROVE  Is(h, m) <=> /\ h = [k \in 0 .. m |-> h[k]]
                                   /\ \A k \in 0 .. m : h[k] = E(h, k)
    OBVIOUS
  <2> HIDE DEF E
  <2>1. ASSUME Is(h, m)
        PROVE  /\ h = [k \in 0 .. m |-> h[k]]
               /\ \A k \in 0 .. m : h[k] = E(h, k)
    <3> DEFINE g == [k \in 0 .. m |-> E(h, k)]
    <3>1. g = [k \in 0 .. m |-> g[k]] /\ \A k \in 0 .. m : g[k] = E(h, k)
      OBVIOUS
    <3>2. h = g
      BY <2>1
    <3> HIDE DEF g
    <3> QED BY <3>1, <3>2
  <2>2. ASSUME h = [k \in 0 .. m |-> h[k]], \A k \in 0 .. m : h[k] = E(h, k)
        PROVE  Is(h, m)
    <3>1. [k \in 0 .. m |-> h[k]] = [k \in 0 .. m |-> E(h, k)]
      BY <2>2
    <3> QED BY <2>2, <3>1
  <2> QED BY <2>1, <2>2
<1> HIDE DEF Is
<1>4. Good(0)
  <2>1. \A h : Is(h, 0) => Kept(0, h[0])
    <3> SUFFICES ASSUME NEW h, Is(h, 0)
                 PROVE  Kept(0, h[0])
      OBVIOUS
    <3>1. h[0] = <<>>
      BY <1>3
    <3> QED BY <3>1
  <2>2. Is([k \in 0 .. 0 |-> <<>>], 0)
    <3> DEFINE g == [k \in 0 .. 0 |-> <<>>]
    <3>1. g = [k \in 0 .. 0 |-> g[k]] /\ \A k \in 0 .. 0 : g[k] = <<>> /\ k = 0
      OBVIOUS
    <3> HIDE DEF g
    <3>2. \A k \in 0 .. 0 : g[k] = E(g, k)
      BY <3>1
    <3> QED BY <3>1, <3>2, <1>3 DEF g
  <2>3. \A k \in 0 .. 0 : k = 0
    OBVIOUS
  <2> HIDE DEF Kept, E
  <2> QED BY <2>1, <2>2, <2>3
<1>5. ASSUME NEW m \in 1 .. n, Good(m - 1)
      PROVE  Good(m)
  <2>1. m \in Nat /\ m - 1 \in Nat /\ s[m] \in S
    BY <1>1, <1>2
  <2>2. PICK h : Is(h, m - 1)
    BY <1>5
  <2> DEFINE g == [k \in 0 .. m |-> IF k = m THEN E(h, m) ELSE h[k]]
  <2>3. Is(g, m)
    <3>1. g = [k \in 0 .. m |-> g[k]]
      OBVIOUS
    <3>2. ASSUME NEW k \in 0 .. m
          PROVE  g[k] = E(g, k)
      <4>1. k \in 0 .. m /\ m \in Nat
        BY <2>1
      <4>2. k \in 0 .. m - 1 => h[k] = E(h, k)
        BY <2>2, <1>3
      <4>3. g[k] = IF k = m THEN E(h, m) ELSE h[k]
        OBVIOUS
      <4>4. k = m \/ k \in 0 .. m - 1
        BY <4>1
      <4>5. g[k] = E(h, k)
        <5> HIDE DEF E, g
        <5> QED BY <4>2, <4>3, <4>4
      <4>6. k # 0 => g[k - 1] = h[k - 1]
        <5>1. k # 0 => k - 1 \in 0 .. m /\ k - 1 # m
          BY <4>1
        <5> QED BY <5>1
      <4> HIDE DEF g
      <4> QED BY <4>5, <4>6
    <3> HIDE DEF g, E
    <3> QED BY <3>1, <3>2, <1>3
  <2>4. ASSUME NEW f, Is(f, m)
        PROVE  \A k \in 0 .. m : Kept(k, f[k])
    <3> DEFINE e == [k \in 0 .. m - 1 |-> f[k]]
    <3>1. \A k \in 0 .. m : f[k] = E(f, k)
      BY <2>4, <1>3
    <3>2. Is(e, m - 1)
      <4>1. e = [k \in 0 .. m - 1 |-> e[k]] /\ \A k \in 0 .. m - 1 : e[k] = f[k]
        OBVIOUS
      <4> HIDE DEF e
      <4>2. ASSUME NEW k \in 0 .. m - 1
            PROVE  e[k] = E(e, k)
        <5>1. k \in 0 .. m /\ (k # 0 => k - 1 \in 0 .. m - 1)
          BY <2>1
        <5> QED BY <5>1, <3>1, <4>1
      <4> HIDE DEF E
      <4> QED BY <4>1, <4>2, <1>3
    <3>3. \A k \in 0 .. m - 1 : e[k] = f[k] /\ Kept(k, e[k])
      BY <3>2, <1>5
    <3> HIDE DEF e
    <3>4. Kept(m - 1, f[m - 1])
      BY <2>1, <3>3
    <3>5. f[m] = IF s[m] \in removed THEN f[m - 1] ELSE Append(f[m - 1], s[m])
      BY <3>1, <2>1
    <3>6. Kept(m, f[m])
      <4>1. Kept(m, f[m - 1])
        BY <3>4, <2>1
      <4>2. Kept(m, Append(f[m - 1], s[m]))
        BY <3>4, <2>1
      <4> QED BY <3>5, <4>1, <4>2
    <3>7. \A k \in 0 .. m : k = m \/ k \in 0 .. m - 1
      BY <2>1
    <3> HIDE DEF Kept
    <3> QED BY <3>3, <3>6, <3>7
  <2> HIDE DEF Kept, g
  <2> QED BY <2>3, <2>4
<1> HIDE DEF Good
<1>6. Good(n)
  <2> DEFINE Bad == {m \in 0 .. n : ~Good(m)}
  <2> SUFFICES ASSUME ~Good(n)
               PROVE  FALSE
    OBVIOUS
  <2>1. Bad \subseteq Nat /\ n \in Bad /\ \A m \in Bad : m \in 0 .. n
    BY <1>1
  <2>2. \A m \in 0 .. n : m \in Bad <=> ~Good(m)
    OBVIOUS
  <2> HIDE DEF Bad
  <2>3. PICK m \in Bad : \A k \in Bad : m <= k
    BY <2>1, LeastNumber
  <2>4. m \in 1 .. n /\ ~Good(m)
    BY <2>1, <2>2, <2>3, <1>1, <1>4
  <2>5. m - 1 \in 0 .. n /\ ~(m <= m - 1)
    BY <2>4, <1>1
  <2>6. Good(m - 1)
    BY <2>2, <2>3, <2>5
  <2> QED BY <2>4, <2>6, <1>5
<1> DEFINE kept == CHOOSE h : Is(h, n)
<1>7. Is(kept, n)
  BY <1>6 DEF Good
<1>8. /\ Without(s, removed) = kept[n]
      /\ BV!Without(s, removed) = kept[n]
  BY DEF Without, BV!Without, Is
<1> HIDE DEF kept
<1>9. Kept(n, kept[n])
  BY <1>1, <1>6, <1>7 DEF Good
<1> QED
  BY <1>8, <1>9

-----------------------------------------------------------------------------
(* The standard library's algorithms, slot by slot, where they are used as *)
(* they must be.                                                           *)

\* c is a storage, whatever its slots hold.
CellsAre(c) == c = [k \in Slots |-> c[k]]

LEMMA SameCells ==
  ASSUME NEW c, CellsAre(c), NEW d, CellsAre(d), \A k \in Slots : c[k] = d[k]
  PROVE  c = d
BY DEF CellsAre

\* s lists the slots of a range.
Listed(s, c, from, until) ==
  /\ s \in Seq(Elem) /\ Len(s) = until - from
  /\ \A k \in 1 .. until - from : s[k] = c[from + k - 1]

ReadyIn(ready, c, from, until) == \A k \in from .. until - 1 : c[k] \in ready

LEMMA ItemsIs ==
  ASSUME NEW c, NEW from \in Nat, NEW until \in Nat, from <= until,
         ReadyIn(Elem, c, from, until)
  PROVE  Listed(Items(c, from, until), c, from, until)
<1> DEFINE n == until - from
           s == [k \in 1 .. n |-> c[from + k - 1]]
<1>1. n \in Nat /\ \A k \in 1 .. n : from + k - 1 \in from .. until - 1
  OBVIOUS
<1>2. Items(c, from, until) = s
  BY DEF Items
<1>3. s \in Seq(Elem) /\ Len(s) = n /\ \A k \in 1 .. n : s[k] = c[from + k - 1]
  BY <1>1 DEF ReadyIn
<1> QED
  BY <1>2, <1>3 DEF Listed

\* d is c with the items written from slot to on, the elements of a range moved
\* to there, or taken out, or moved from.
Written(d, c, to, items) ==
  /\ CellsAre(d)
  /\ \A k \in Slots : d[k] = IF k < to \/ k >= to + Len(items) THEN c[k]
                             ELSE items[k - to + 1]

MovedTo(d, c, from, until, to) ==
  /\ CellsAre(d)
  /\ \A k \in Slots : d[k] = IF k >= to /\ k < to + (until - from) THEN c[k - to + from]
                             ELSE IF k >= from /\ k < until THEN Moved ELSE c[k]

TakenOut(d, c, from, until) ==
  /\ CellsAre(d)
  /\ \A k \in Slots : d[k] = IF k < from \/ k >= until THEN c[k] ELSE Raw

LeftMoved(d, c, from, until) ==
  /\ CellsAre(d)
  /\ \A k \in Slots : d[k] = IF k >= from /\ k < until THEN Moved ELSE c[k]

LEMMA PutIs ==
  ASSUME NEW c, NEW ready, NEW to \in Nat, NEW items \in Seq(Elem), to + Len(items) <= N,
         ReadyIn(ready, c, to, to + Len(items))
  PROVE  Written(Put(c, to, items, ready), c, to, items)
<1> DEFINE m == Len(items)
           d == Put(c, to, items, ready)
<1>1. m \in Nat /\ N \in Nat /\ \A k \in 1 .. m : items[k] \in Elem
  BY Constants, ElementOfSeq
<1>2. d = [s \in Slots |->
             IF s \notin to .. to + m - 1 THEN c[s]
             ELSE IF c[s] \in ready /\ items[s - to + 1] \in Elem
                  THEN items[s - to + 1] ELSE Broken]
  BY <1>1 DEF Put
<1> HIDE DEF d
<1>3. ASSUME NEW k \in Slots
      PROVE  d[k] = IF k < to \/ k >= to + m THEN c[k] ELSE items[k - to + 1]
  <2>1. k \in Nat
    BY Constants
  <2>2. CASE k < to \/ k >= to + m
    <3>1. k \notin to .. to + m - 1
      BY <2>1, <2>2, <1>1
    <3> QED BY <3>1, <2>2, <1>2
  <2>3. CASE ~(k < to \/ k >= to + m)
    <3>1. k \in to .. to + m - 1 /\ k - to + 1 \in 1 .. m
      BY <2>1, <2>3, <1>1
    <3> QED BY <3>1, <2>3, <1>1, <1>2 DEF ReadyIn
  <2> QED BY <2>2, <2>3
<1>4. CellsAre(d)
  BY <1>2 DEF CellsAre
<1> QED
  BY <1>3, <1>4 DEF d, m, Written

LEMMA UninitCopyIs ==
  ASSUME NEW c, NEW to \in Nat, NEW items \in Seq(Elem), to + Len(items) <= N,
         ReadyIn({Raw}, c, to, to + Len(items))
  PROVE  Written(UninitCopy(c, to, items), c, to, items)
BY PutIs DEF UninitCopy

LEMMA CopyToIs ==
  ASSUME NEW c, NEW to \in Nat, NEW items \in Seq(Elem), to + Len(items) <= N,
         ReadyIn(Elem, c, to, to + Len(items))
  PROVE  Written(CopyTo(c, to, items), c, to, items)
BY PutIs DEF CopyTo

LEMMA DestroyIs ==
  ASSUME NEW c, NEW from \in Nat, NEW until \in Nat, ReadyIn(Elem, c, from, until)
  PROVE  TakenOut(Destroy(c, from, until), c, from, until)
BY Constants DEF Destroy, CellsAre, ReadyIn, TakenOut

LEMMA MovedFromIs ==
  ASSUME NEW c, NEW from \in Nat, NEW until \in Nat, ReadyIn(Elem, c, from, until)
  PROVE  LeftMoved(MovedFrom(c, from, until), c, from, until)
BY Constants DEF MovedFrom, CellsAre, ReadyIn, LeftMoved

\* The elements arrive in raw slots or over elements, of which the moved ones
\* may be some, and what they leave are Moved ones.
LEMMA MoveIs ==
  ASSUME NEW c, NEW from \in Nat, NEW until \in Nat, from <= until, until <= N,
         NEW to \in Nat, to + (until - from) <= N, ReadyIn(Elem, c, from, until),
         NEW ready \in {{Raw}, Elem}, ReadyIn(ready, c, to, to + (until - from))
  PROVE  MovedTo(Put(MovedFrom(c, from, until), to, Items(c, from, until), ready),
                 c, from, until, to)
<1> DEFINE n == until - from
           s == Items(c, from, until)
           e == MovedFrom(c, from, until)
           d == Put(e, to, s, ready)
<1>1. n \in Nat /\ N \in Nat /\ \A k \in Slots : k \in Nat /\ k < N
  BY Constants
<1>2. s \in Seq(Elem) /\ Len(s) = n /\ \A k \in 1 .. n : s[k] = c[from + k - 1]
  BY ItemsIs DEF Listed
<1>3. \A k \in Slots : e[k] = IF k >= from /\ k < until THEN Moved ELSE c[k]
  BY MovedFromIs DEF LeftMoved
<1> HIDE DEF s, e
<1>4. ReadyIn(ready, e, to, to + n)
  <2> SUFFICES ASSUME NEW k \in to .. to + n - 1
               PROVE  e[k] \in ready
    BY DEF ReadyIn
  <2>1. k \in Slots /\ k \in Nat /\ c[k] \in ready
    BY <1>1, Constants DEF ReadyIn
  <2>2. k >= from /\ k < until => c[k] \in Elem
    BY <2>1 DEF ReadyIn
  <2> QED BY <2>1, <2>2, <1>3, Constants
<1>5. Written(d, e, to, s)
  BY <1>1, <1>2, <1>4, PutIs
<1> HIDE DEF d
<1>6. \A k \in Slots : d[k] = IF k < to \/ k >= to + n THEN e[k] ELSE s[k - to + 1]
  BY <1>2, <1>5 DEF Written
<1>7. ASSUME NEW k \in Slots
      PROVE  d[k] = IF k >= to /\ k < to + n THEN c[k - to + from]
                    ELSE IF k >= from /\ k < until THEN Moved ELSE c[k]
  <2>1. CASE k >= to /\ k < to + n
    <3>1. k - to + 1 \in 1 .. n /\ from + (k - to + 1) - 1 = k - to + from
      BY <2>1, <1>1
    <3>2. d[k] = s[k - to + 1]
      BY <2>1, <1>1, <1>6
    <3>3. s[k - to + 1] = c[from + (k - to + 1) - 1]
      BY <3>1, <1>2
    <3> QED BY <3>1, <3>2, <3>3, <2>1
  <2>2. CASE ~(k >= to /\ k < to + n)
    BY <2>2, <1>1, <1>3, <1>6
  <2> QED BY <2>1, <2>2
<1>8. CellsAre(d)
  BY <1>5 DEF Written
<1> QED
  BY <1>7, <1>8 DEF d, n, s, e, MovedTo

LEMMA MovesAre ==
  ASSUME NEW c, NEW from \in Nat, NEW until \in Nat, from <= until, until <= N,
         NEW to \in Nat, to + (until - from) <= N, ReadyIn(Elem, c, from, until)
  PROVE  /\ ReadyIn({Raw}, c, to, to + (until - from)) =>
              MovedTo(UninitMove(c, from, until, to), c, from, until, to)
         /\ (to < from \/ from = until) /\ ReadyIn(Elem, c, to, to + (until - from)) =>
              MovedTo(MoveForward(c, from, until, to), c, from, until, to)
         /\ (to > from \/ from = until) /\ ReadyIn(Elem, c, to, to + (until - from)) =>
              MovedTo(MoveBackward(c, from, until, to + (until - from)),
                      c, from, until, to)
<1> DEFINE P(ready) == Put(MovedFrom(c, from, until), to, Items(c, from, until), ready)
<1>1. /\ ReadyIn({Raw}, c, to, to + (until - from)) => MovedTo(P({Raw}), c, from, until, to)
      /\ ReadyIn(Elem, c, to, to + (until - from)) => MovedTo(P(Elem), c, from, until, to)
  BY MoveIs
<1>2. UninitMove(c, from, until, to) = P({Raw})
  BY DEF UninitMove, UninitCopy
<1>3. to < from \/ from = until => MoveForward(c, from, until, to) = P(Elem)
  BY DEF MoveForward, CopyTo
<1>4. to > from \/ from = until =>
        MoveBackward(c, from, until, to + (until - from)) = P(Elem)
  <2>1. (to + (until - from)) - (until - from) = to
    OBVIOUS
  <2> QED BY <2>1 DEF MoveBackward, CopyTo
<1> QED
  BY <1>1, <1>2, <1>3, <1>4

-----------------------------------------------------------------------------
(* What the methods leave of an array that contains s.                     *)

LEMMA HeldIs ==
  ASSUME NEW s \in Lists
  PROVE  /\ s \in Seq(Elem) /\ Len(s) \in Nat /\ Len(s) <= N
         /\ Held(s).size = Len(s) /\ CellsAre(Held(s).cells)
         /\ \A k \in Slots : Held(s).cells[k] = IF k < Len(s) THEN s[k + 1] ELSE Raw
<1> DEFINE c == [k \in Slots |-> IF k < Len(s) THEN s[k + 1] ELSE Raw]
<1>1. Held(s).cells = c /\ Held(s).size = Len(s)
  BY DEF Held
<1>2. CellsAre(c) /\ \A k \in Slots : c[k] = IF k < Len(s) THEN s[k + 1] ELSE Raw
  BY DEF CellsAre
<1>3. s \in Seq(Elem) /\ Len(s) <= N
  BY DEF Lists
<1> QED
  BY <1>1, <1>2, <1>3

LEMMA HeldElements ==
  ASSUME NEW s \in Lists
  PROVE  /\ \A k \in 1 .. Len(s) : s[k] \in Elem
         /\ \A k \in 0 .. Len(s) - 1 : s[k + 1] \in Elem /\ k \in Slots
<1>1. \A k \in 1 .. Len(s) : s[k] \in Elem
  BY HeldIs, ElementOfSeq
<1>2. \A k \in 0 .. Len(s) - 1 : k + 1 \in 1 .. Len(s) /\ k \in Slots
  BY HeldIs, Constants
<1> QED
  BY <1>1, <1>2

\* The elements end where the raw storage begins.
LEMMA HeldReady ==
  ASSUME NEW s \in Lists, NEW from \in Nat, NEW until \in Nat
  PROVE  /\ until <= Len(s) => ReadyIn(Elem, Held(s).cells, from, until)
         /\ Len(s) <= from /\ until <= N => ReadyIn({Raw}, Held(s).cells, from, until)
<1>1. ASSUME until <= Len(s), NEW k \in from .. until - 1
      PROVE  Held(s).cells[k] \in Elem
  <2>1. k \in 0 .. Len(s) - 1 /\ k < Len(s)
    BY <1>1, HeldIs
  <2> QED BY <2>1, HeldIs, HeldElements
<1>2. ASSUME Len(s) <= from, until <= N, NEW k \in from .. until - 1
      PROVE  Held(s).cells[k] = Raw
  <2>1. k \in Slots /\ ~(k < Len(s))
    BY <1>2, HeldIs, Constants
  <2> QED BY <2>1, HeldIs
<1> QED
  BY <1>1, <1>2 DEF ReadyIn

LEMMA ItIsHeld ==
  ASSUME NEW s \in Lists, NEW c, CellsAre(c), NEW n, n = Len(s),
         \A k \in Slots : c[k] = IF k < Len(s) THEN s[k + 1] ELSE Raw
  PROVE  [cells |-> c, size |-> n] = Held(s)
<1>1. CellsAre(Held(s).cells) /\ \A k \in Slots : c[k] = Held(s).cells[k]
  BY HeldIs
<1>2. c = Held(s).cells
  BY <1>1, SameCells
<1>3. Held(s) = [cells |-> Held(s).cells, size |-> Len(s)]
  BY DEF Held
<1> QED
  BY <1>2, <1>3

LEMMA HeldContents ==
  ASSUME NEW s \in Lists
  PROVE  /\ Contents(Held(s)) = s /\ Held(s).size = Len(s)
         /\ Held(s) = [cells |-> Held(s).cells, size |-> Len(s)]
<1> DEFINE c == Held(s).cells
<1>1. Len(s) \in Nat /\ ReadyIn(Elem, c, 0, Len(s))
  BY HeldReady, HeldIs
<1> DEFINE t == Items(c, 0, Len(s))
<1>2. Listed(t, c, 0, Len(s))
  <2> HIDE DEF c
  <2> QED BY <1>1, ItemsIs
<1> HIDE DEF t
<1>3. ASSUME NEW k \in 1 .. Len(s)
      PROVE  t[k] = s[k]
  <2>1. k - 1 \in Slots /\ k - 1 < Len(s) /\ (k - 1) + 1 = k /\ 0 + k - 1 = k - 1
    BY HeldIs, HeldElements
  <2>2. k \in 1 .. Len(s) - 0
    BY HeldIs
  <2>3. t[k] = c[k - 1]
    BY <1>2, <2>1, <2>2 DEF Listed
  <2> QED BY <2>1, <2>3, HeldIs
<1>4. t = s
  BY <1>2, <1>3, HeldIs, SeqEqual DEF Listed
<1>5. Contents(Held(s)) = t
  BY HeldIs DEF Contents, t
<1> QED
  BY <1>4, <1>5, HeldIs DEF Held

LEMMA NewArrayIs == <<>> \in Lists /\ NewArray = Held(<<>>)
<1>1. <<>> \in Lists /\ Len(<<>>) = 0
  BY Constants DEF Lists
<1> DEFINE c == [k \in Slots |-> Raw]
<1>2. CellsAre(c) /\ \A k \in Slots : c[k] = Raw /\ ~(k < 0)
  BY Constants DEF CellsAre
<1>3. NewArray = [cells |-> c, size |-> 0]
  BY DEF NewArray
<1> HIDE DEF c
<1> QED
  BY <1>1, <1>2, <1>3, ItIsHeld

LEMMA ClearedIs ==
  ASSUME NEW s \in Lists
  PROVE  Cleared(Held(s)) = Held(<<>>)
<1> DEFINE c == Destroy(Held(s).cells, 0, Len(s))
<1>1. Cleared(Held(s)) = [cells |-> c, size |-> 0]
  BY HeldIs DEF Cleared
<1>2. TakenOut(c, Held(s).cells, 0, Len(s))
  BY HeldIs, HeldReady, DestroyIs
<1> HIDE DEF c
<1>3. CellsAre(c) /\ \A k \in Slots : c[k] = Raw /\ ~(k < 0)
  BY <1>2, HeldIs, Constants DEF TakenOut
<1> QED
  BY <1>1, <1>3, NewArrayIs, ItIsHeld

LEMMA ConstructedIs ==
  ASSUME NEW s \in Lists, NEW items \in Lists
  PROVE  Constructed(Cleared(Held(s)).cells, items) = Held(items)
<1> DEFINE e == Held(<<>>).cells
           c == UninitCopy(e, 0, items)
<1>1. Constructed(Cleared(Held(s)).cells, items) = [cells |-> c, size |-> Len(items)]
  BY ClearedIs DEF Constructed
<1>2. Written(c, e, 0, items)
  <2>1. Len(<<>>) = 0 /\ 0 + Len(items) = Len(items)
    BY HeldIs
  <2>2. ReadyIn({Raw}, e, 0, Len(items))
    <3> DEFINE z == <<>>
    <3>1. z \in Lists /\ Len(z) = 0
      BY NewArrayIs
    <3> HIDE DEF z
    <3>2. 0 \in Nat /\ Len(items) \in Nat /\ Len(z) <= 0 /\ Len(items) <= N
      BY <3>1, HeldIs
    <3>3. ReadyIn({Raw}, Held(z).cells, 0, Len(items))
      BY ONLY <3>1, <3>2, HeldReady
    <3> QED BY <3>3 DEF z
  <2> HIDE DEF e
  <2> QED BY <2>1, <2>2, HeldIs, UninitCopyIs
<1>3. \A k \in Slots : e[k] = Raw
  BY NewArrayIs, HeldIs, Constants
<1> HIDE DEF c, e
<1>4. CellsAre(c) /\ \A k \in Slots : c[k] = IF k < Len(items) THEN items[k + 1] ELSE Raw
  <2> SUFFICES ASSUME NEW k \in Slots
               PROVE  c[k] = IF k < Len(items) THEN items[k + 1] ELSE Raw
    BY <1>2 DEF Written
  <2>1. k \in Nat /\ k - 0 + 1 = k + 1
    BY Constants
  <2> QED BY <2>1, <1>2, <1>3, HeldIs DEF Written
<1> QED
  BY <1>1, <1>4, ItIsHeld

LEMMA GivenUpIs ==
  ASSUME NEW s \in Lists
  PROVE  /\ Repeat(Moved, Len(s)) \in Lists
         /\ GivenUp(Held(s)) = Held(Repeat(Moved, Len(s)))
<1> DEFINE t == Repeat(Moved, Len(s))
           c == MovedFrom(Held(s).cells, 0, Len(s))
<1>1. t \in Seq(Elem) /\ Len(t) = Len(s) /\ \A k \in 1 .. Len(s) : t[k] = Moved
  BY HeldIs, RepeatIs, Constants
<1>2. GivenUp(Held(s)) = [cells |-> c, size |-> Len(s)]
  BY HeldContents DEF GivenUp
<1>3. LeftMoved(c, Held(s).cells, 0, Len(s))
  BY HeldIs, HeldReady, MovedFromIs
<1> HIDE DEF t, c
<1>4. t \in Lists
  BY <1>1, HeldIs DEF Lists
<1>5. ASSUME NEW k \in Slots
      PROVE  c[k] = IF k < Len(t) THEN t[k + 1] ELSE Raw
  <2>1. k \in Nat /\ k >= 0 /\ (k < Len(s) => k + 1 \in 1 .. Len(s))
    BY HeldIs, Constants
  <2> QED BY <2>1, <1>1, <1>3, HeldIs DEF LeftMoved
<1>6. CellsAre(c)
  BY <1>3 DEF LeftMoved
<1>7. [cells |-> c, size |-> Len(s)] = Held(t)
  BY <1>1, <1>4, <1>5, <1>6, ItIsHeld
<1> QED
  BY <1>2, <1>4, <1>7 DEF t

LEMMA OverwrittenIs ==
  ASSUME NEW s \in Lists, NEW items \in Lists
  PROVE  Overwritten(Held(s), items) = Held(items)
<1> DEFINE h == Held(s).cells
           n == Len(s)
           m == Len(items)
           common == Least(n, m)
           p == SubSeq(items, 1, common)
           q == SubSeq(items, common + 1, m)
           copied == CopyTo(h, 0, p)
           grown == UninitCopy(copied, n, q)
           c == Destroy(grown, common, n)
<1>1. Overwritten(Held(s), items) = [cells |-> c, size |-> m]
  BY HeldIs DEF Overwritten
<1>2. /\ items \in Seq(Elem) /\ n \in Nat /\ m \in Nat /\ n <= N /\ m <= N /\ N \in Nat
      /\ common \in Nat /\ ((common = n /\ n <= m) \/ (common = m /\ m < n))
      /\ \A k \in Slots : k \in Nat /\ k < N
      /\ CellsAre(h) /\ \A k \in Slots : h[k] = IF k < n THEN s[k + 1] ELSE Raw
  BY HeldIs, Constants DEF Least
<1>3. /\ p \in Seq(Elem) /\ Len(p) = common
      /\ \A k \in 1 .. common : p[k] = items[k]
  <2>1. 1 \in 1 .. m + 1 /\ common \in 1 - 1 .. m
    BY <1>2
  <2>2. /\ p \in Seq(Elem) /\ Len(p) = common - 1 + 1
        /\ \A k \in 1 .. common - 1 + 1 : p[k] = items[k + 1 - 1]
    BY <1>2, <2>1, SubSeqIs
  <2> HIDE DEF p, common
  <2> QED BY <1>2, <2>2
<1>4. /\ q \in Seq(Elem) /\ Len(q) = m - common
      /\ \A k \in 1 .. m - common : q[k] = items[k + common]
  <2>1. common + 1 \in 1 .. m + 1 /\ m \in (common + 1) - 1 .. m
    BY <1>2
  <2>2. /\ q \in Seq(Elem) /\ Len(q) = m - (common + 1) + 1
        /\ \A k \in 1 .. m - (common + 1) + 1 : q[k] = items[k + (common + 1) - 1]
    BY <1>2, <2>1, SubSeqIs
  <2> HIDE DEF q, common
  <2>3. m - (common + 1) + 1 = m - common
    BY <1>2
  <2>4. \A k \in 1 .. m - common : k + (common + 1) - 1 = k + common
    BY <1>2
  <2>5. ASSUME NEW k \in 1 .. m - common
        PROVE  q[k] = items[k + common]
    BY ONLY <2>2, <2>3, <2>4, k \in 1 .. m - common
  <2>6. q \in Seq(Elem) /\ Len(q) = m - common
    BY ONLY <2>2, <2>3
  <2> QED BY <2>5, <2>6
<1> HIDE DEF h, common, p, q
<1>5. Written(copied, h, 0, p)
  <2>1. ReadyIn(Elem, h, 0, 0 + Len(p))
    BY <1>2, <1>3, HeldReady DEF h
  <2>2. 0 + Len(p) <= N
    BY <1>2, <1>3
  <2> QED BY <1>3, <2>1, <2>2, CopyToIs
<1> HIDE DEF copied
<1>6. \A k \in Slots : copied[k] = IF k < common THEN items[k + 1] ELSE h[k]
  <2> SUFFICES ASSUME NEW k \in Slots
               PROVE  copied[k] = IF k < common THEN items[k + 1] ELSE h[k]
    OBVIOUS
  <2>1. k < common => k + 1 \in 1 .. common /\ k - 0 + 1 = k + 1
    BY <1>2
  <2> QED BY <1>2, <1>3, <1>5, <2>1 DEF Written
<1>7. Written(grown, copied, n, q)
  <2>1. ASSUME NEW k \in n .. n + Len(q) - 1
        PROVE  copied[k] \in {Raw}
    <3>1. k \in Slots /\ ~(k < common) /\ ~(k < n)
      BY <1>2, <1>4, Constants
    <3> QED BY <3>1, <1>2, <1>6
  <2>2. n + Len(q) <= N
    BY <1>2, <1>4
  <2>3. ReadyIn({Raw}, copied, n, n + Len(q))
    BY <2>1 DEF ReadyIn
  <2> QED BY <1>2, <1>4, <2>2, <2>3, UninitCopyIs
<1> HIDE DEF grown
<1>8. \A k \in Slots : grown[k] = IF k < m THEN items[k + 1] ELSE h[k]
  <2> SUFFICES ASSUME NEW k \in Slots
               PROVE  grown[k] = IF k < m THEN items[k + 1] ELSE h[k]
    OBVIOUS
  <2>1. CASE k >= n /\ k < m
    <3>1. common = n /\ k - n + 1 \in 1 .. m - common /\ (k - n + 1) + common = k + 1
      BY <1>2, <2>1
    <3>2. grown[k] = q[k - n + 1]
      BY <1>2, <1>4, <1>7, <2>1, <3>1 DEF Written
    <3> QED BY <1>4, <2>1, <3>1, <3>2
  <2>2. CASE ~(k >= n /\ k < m)
    <3>1. grown[k] = copied[k]
      BY <1>2, <1>4, <1>7, <2>2 DEF Written
    <3>2. k < common <=> k < m
      BY <1>2, <2>2
    <3> QED BY <1>6, <3>1, <3>2
  <2> QED BY <2>1, <2>2
<1>9. TakenOut(c, grown, common, n)
  <2>1. ASSUME NEW k \in common .. n - 1
        PROVE  grown[k] \in Elem
    <3>1. k \in Slots /\ ~(k < m) /\ k \in 0 .. n - 1 /\ k < n
      BY <1>2, Constants
    <3> QED BY <3>1, <1>2, <1>8, HeldElements
  <2> QED BY <1>2, <2>1, DestroyIs DEF ReadyIn
<1> HIDE DEF c
<1>10. ASSUME NEW k \in Slots
       PROVE  c[k] = IF k < m THEN items[k + 1] ELSE Raw
  <2>1. CASE k < common \/ k >= n
    <3>1. c[k] = grown[k]
      BY <1>9, <2>1 DEF TakenOut
    <3>2. ~(k < m) => ~(k < n)
      BY <1>2, <2>1
    <3> QED BY <1>2, <1>8, <3>1, <3>2
  <2>2. CASE ~(k < common \/ k >= n)
    <3>1. ~(k < m)
      BY <1>2, <2>2
    <3> QED BY <1>9, <2>2, <3>1 DEF TakenOut
  <2> QED BY <2>1, <2>2
<1>11. CellsAre(c)
  BY <1>9 DEF TakenOut
<1> QED
  BY <1>1, <1>10, <1>11, ItIsHeld

LEMMA AssignedIs ==
  ASSUME NEW s \in Lists, NEW items \in Seq(Elem)
  PROVE  /\ Len(items) > N => AssignRange(Held(s), items) = Refused(Held(s), "InvalidArgument")
         /\ Len(items) <= N => /\ items \in Lists
                               /\ AssignRange(Held(s), items) = Refused(Held(items), "Success")
<1>1. Len(items) <= N => items \in Lists
  BY DEF Lists
<1>2. Len(items) \in Nat /\ N \in Nat
  BY Constants
<1>3. Len(items) > N => AssignRange(Held(s), items) = Refused(Held(s), "InvalidArgument")
  BY DEF AssignRange
<1>4. Len(items) <= N => AssignRange(Held(s), items) = Refused(Overwritten(Held(s), items), "Success")
  BY <1>2 DEF AssignRange
<1> QED
  BY <1>1, <1>3, <1>4, OverwrittenIs


\* What an operation must leave in the storage.
Holds(c, t) ==
  /\ CellsAre(c)
  /\ \A k \in Slots : c[k] = IF k < Len(t) THEN t[k + 1] ELSE Raw

LEMMA HoldsIs ==
  ASSUME NEW t \in Lists
  PROVE  /\ Holds(Held(t).cells, t)
         /\ \A c, n : Holds(c, t) /\ n = Len(t) => [cells |-> c, size |-> n] = Held(t)
BY HeldIs, ItIsHeld DEF Holds

\* Elements behind those of t, up to slot n, are destroyed.
LEMMA TrimmedIs ==
  ASSUME NEW t \in Lists, NEW n \in Nat, NEW c, n <= N,
         \A k \in Slots : k < Len(t) => c[k] = t[k + 1],
         \A k \in Slots : k >= Len(t) /\ k < n => c[k] \in Elem,
         \A k \in Slots : k >= Len(t) /\ k >= n => c[k] = Raw
  PROVE  Holds(Destroy(c, Len(t), n), t)
<1> DEFINE d == Destroy(c, Len(t), n)
<1>1. Len(t) \in Nat /\ N \in Nat
  BY HeldIs, Constants
<1>2. TakenOut(d, c, Len(t), n)
  <2>1. ASSUME NEW k \in Len(t) .. n - 1
        PROVE  c[k] \in Elem
    <3>1. k \in Slots /\ k >= Len(t) /\ k < n
      BY <1>1, Constants
    <3> QED BY <3>1
  <2> QED BY <1>1, <2>1, DestroyIs DEF ReadyIn
<1> HIDE DEF d
<1>3. ASSUME NEW k \in Slots
      PROVE  d[k] = IF k < Len(t) THEN t[k + 1] ELSE Raw
  <2>1. k \in Nat
    BY Constants
  <2>2. k < Len(t) => d[k] = c[k] /\ c[k] = t[k + 1]
    BY <1>2 DEF TakenOut
  <2>3. k >= Len(t) /\ k < n => d[k] = Raw
    BY <1>1, <1>2, <2>1 DEF TakenOut
  <2>4. k >= Len(t) /\ k >= n => d[k] = c[k] /\ c[k] = Raw
    BY <1>2 DEF TakenOut
  <2> QED BY <1>1, <2>1, <2>2, <2>3, <2>4
<1> QED
  BY <1>2, <1>3 DEF d, Holds, TakenOut

\* The elements of t from slot n on are constructed, m of them.
LEMMA GrownIs ==
  ASSUME NEW t \in Lists, NEW n \in Nat, NEW c, NEW q \in Seq(Elem), n + Len(q) <= Len(t),
         \A k \in Slots : k < n => c[k] = t[k + 1],
         \A k \in 1 .. Len(q) : q[k] = t[k + n],
         \A k \in Slots : k >= n /\ k < n + Len(q) => c[k] = Raw,
         \A k \in Slots : k >= n + Len(q) /\ k < Len(t) => c[k] = t[k + 1],
         \A k \in Slots : k >= Len(t) => c[k] = Raw
  PROVE  Holds(UninitCopy(c, n, q), t)
<1> DEFINE d == UninitCopy(c, n, q)
           m == Len(q)
<1>1. Len(t) \in Nat /\ Len(t) <= N /\ N \in Nat /\ m \in Nat
  BY HeldIs, Constants
<1>2. Written(d, c, n, q)
  <2>1. ASSUME NEW k \in n .. n + m - 1
        PROVE  c[k] \in {Raw}
    <3>1. k \in Slots /\ k >= n /\ k < n + m
      BY <1>1, Constants
    <3> QED BY <3>1
  <2>2. n + m <= N
    BY <1>1
  <2>3. ReadyIn({Raw}, c, n, n + m)
    BY <2>1 DEF ReadyIn
  <2> QED BY <1>1, <2>2, <2>3, UninitCopyIs
<1> HIDE DEF d
<1>3. ASSUME NEW k \in Slots
      PROVE  d[k] = IF k < Len(t) THEN t[k + 1] ELSE Raw
  <2>1. k \in Nat
    BY Constants
  <2>2. CASE k < n
    BY <1>1, <1>2, <2>1, <2>2 DEF Written
  <2>3. CASE k >= n /\ k < n + m
    <3>1. k - n + 1 \in 1 .. m /\ (k - n + 1) + n = k + 1 /\ k < Len(t)
      BY <1>1, <2>1, <2>3
    <3>2. d[k] = q[k - n + 1]
      BY <1>1, <1>2, <2>1, <2>3 DEF Written
    <3>3. q[k - n + 1] = t[(k - n + 1) + n]
      BY <3>1
    <3> QED BY <3>1, <3>2, <3>3
  <2>4. CASE k >= n + m /\ k < Len(t)
    BY <1>1, <1>2, <2>1, <2>4 DEF Written
  <2>5. CASE k >= Len(t)
    BY <1>1, <1>2, <2>1, <2>5 DEF Written
  <2> QED BY <1>1, <2>1, <2>2, <2>3, <2>4, <2>5
<1> QED
  BY <1>2, <1>3 DEF d, Holds, Written

\* Elements before those of t, from slot 0 on, are written over.
LEMMA CopiedIs ==
  ASSUME NEW c, NEW n \in Nat, n <= N, NEW q \in Seq(Elem), Len(q) <= n,
         \A k \in Slots : k < n => c[k] \in Elem
  PROVE  /\ CellsAre(CopyTo(c, 0, q))
         /\ \A k \in Slots : CopyTo(c, 0, q)[k] = IF k < Len(q) THEN q[k + 1] ELSE c[k]
<1> DEFINE d == CopyTo(c, 0, q)
<1>1. Len(q) \in Nat /\ N \in Nat /\ 0 + Len(q) = Len(q)
  BY Constants
<1>2. Written(d, c, 0, q)
  <2>1. ASSUME NEW k \in 0 .. Len(q) - 1
        PROVE  c[k] \in Elem
    <3>1. k \in Slots /\ k < n
      BY <1>1, Constants
    <3> QED BY <3>1
  <2>2. ReadyIn(Elem, c, 0, 0 + Len(q))
    BY <1>1, <2>1 DEF ReadyIn
  <2> QED BY <1>1, <2>2, CopyToIs
<1> HIDE DEF d
<1>3. ASSUME NEW k \in Slots
      PROVE  d[k] = IF k < Len(q) THEN q[k + 1] ELSE c[k]
  <2>1. k \in Nat /\ k - 0 + 1 = k + 1
    BY Constants
  <2> QED BY <1>1, <1>2, <2>1 DEF Written
<1> QED
  BY <1>2, <1>3 DEF Written, d

\* The elements of s, as many of them as fit into m, and copies of item.
LEMMA PaddedIs ==
  ASSUME NEW s \in Lists, NEW item \in Elem, NEW m \in 0 .. N
  PROVE  LET t == SubSeq(s \o BV!Repeat(item, N), 1, m)
         IN /\ t \in Lists /\ Len(t) = m
            /\ \A k \in 1 .. m : t[k] = IF k <= Len(s) THEN s[k] ELSE item
<1> DEFINE r == Repeat(item, N)
           u == s \o r
           t == SubSeq(u, 1, m)
           n == Len(s)
<1>1. s \in Seq(Elem) /\ n \in Nat /\ N \in Nat /\ m \in Nat /\ m <= N
  BY HeldIs, Constants
<1>2. BV!Repeat(item, N) = r
  BY DEF BV!Repeat, Repeat
<1>3. r \in Seq(Elem) /\ Len(r) = N /\ \A k \in 1 .. N : r[k] = item
  BY <1>1, RepeatIs
<1> HIDE DEF r
<1>4. /\ u \in Seq(Elem) /\ Len(u) = n + N
      /\ \A k \in 1 .. n + N : u[k] = IF k <= n THEN s[k] ELSE r[k - n]
  <2>1. /\ u \in Seq(Elem) /\ Len(u) = Len(s) + Len(r)
        /\ \A k \in 1 .. Len(s) + Len(r) : u[k] = IF k <= Len(s) THEN s[k] ELSE r[k - Len(s)]
    <3>1. s \in Seq(Elem) /\ r \in Seq(Elem)
      BY <1>1, <1>3
    <3> QED BY ONLY <3>1, ConcatProperties
  <2> HIDE DEF u
  <2> QED BY <2>1, <1>3
<1> HIDE DEF u
<1>5. /\ t \in Seq(Elem) /\ Len(t) = m
      /\ \A k \in 1 .. m : t[k] = u[k]
  <2>1. 1 \in 1 .. Len(u) + 1 /\ m \in 1 - 1 .. Len(u)
    BY <1>1, <1>4
  <2>2. /\ t \in Seq(Elem) /\ Len(t) = m - 1 + 1
        /\ \A k \in 1 .. m - 1 + 1 : t[k] = u[k + 1 - 1]
    BY <1>4, <2>1, SubSeqIs
  <2> HIDE DEF t
  <2> QED BY <1>1, <2>2
<1> HIDE DEF t
<1>6. ASSUME NEW k \in 1 .. m
      PROVE  t[k] = IF k <= n THEN s[k] ELSE item
  <2>1. k \in 1 .. n + N /\ (k > n => k - n \in 1 .. N)
    BY <1>1
  <2> QED BY <1>1, <1>3, <1>4, <1>5, <2>1
<1>7. t \in Lists
  BY <1>1, <1>5 DEF Lists
<1> QED
  BY <1>2, <1>5, <1>6, <1>7 DEF t, u, n

LEMMA ResizedIs ==
  ASSUME NEW s \in Lists, NEW item \in Elem, NEW m \in Nat
  PROVE  LET t == SubSeq(s \o BV!Repeat(item, N), 1, m)
         IN /\ m > N => Resized(Held(s), m, item) = Refused(Held(s), "InvalidArgument")
            /\ m <= N => /\ t \in Lists
                         /\ Resized(Held(s), m, item) = Refused(Held(t), "Success")
<1> DEFINE h == Held(s).cells
           n == Len(s)
           t == SubSeq(s \o BV!Repeat(item, N), 1, m)
           added == Repeat(item, m - Least(m, n))
           grown == UninitCopy(h, n, added)
           c == Destroy(grown, m, n)
<1>1. Resized(Held(s), m, item) =
        IF m > N THEN Refused(Held(s), "InvalidArgument")
        ELSE Refused([cells |-> c, size |-> m], "Success")
  BY HeldIs DEF Resized
<1>2. /\ n \in Nat /\ n <= N /\ N \in Nat
      /\ \A k \in Slots : k \in Nat /\ k < N
      /\ \A k \in Slots : h[k] = IF k < n THEN s[k + 1] ELSE Raw
      /\ \A k \in 0 .. n - 1 : s[k + 1] \in Elem
  BY HeldIs, HeldElements, Constants
<1>3. CASE m > N
  BY <1>1, <1>2, <1>3
<1>4. CASE m <= N
  <2>1. /\ t \in Lists /\ Len(t) = m
        /\ \A k \in 1 .. m : t[k] = IF k <= n THEN s[k] ELSE item
    <3>1. m \in 0 .. N
      BY <1>2, <1>4
    <3> QED BY <3>1, PaddedIs
  <2>2. \A k \in Slots : k < m => t[k + 1] = IF k < n THEN s[k + 1] ELSE item
    <3> SUFFICES ASSUME NEW k \in Slots, k < m
                 PROVE  t[k + 1] = IF k < n THEN s[k + 1] ELSE item
      OBVIOUS
    <3>1. k + 1 \in 1 .. m /\ (k + 1 <= n <=> k < n)
      BY <1>2
    <3> HIDE DEF t
    <3> QED BY <2>1, <3>1
  <2> HIDE DEF t, h
  <2>3. CASE n <= m
    <3>1. /\ added \in Seq(Elem) /\ Len(added) = m - n
          /\ \A k \in 1 .. m - n : added[k] = item
      <4>1. m - Least(m, n) = m - n /\ m - n \in Nat
        BY <1>2, <2>3 DEF Least
      <4> QED BY <4>1, RepeatIs
    <3> HIDE DEF added
    <3>2. Holds(grown, t)
      <4>1. n + Len(added) = Len(t)
        BY <1>2, <2>1, <3>1
      <4>2. \A k \in Slots : k < n => h[k] = t[k + 1]
        BY <1>2, <2>2, <2>3
      <4>3. \A k \in 1 .. Len(added) : added[k] = t[k + n]
        <5> SUFFICES ASSUME NEW k \in 1 .. Len(added)
                     PROVE  added[k] = t[k + n]
          OBVIOUS
        <5>1. k \in 1 .. m - n /\ k + n \in 1 .. m /\ ~(k + n <= n)
          BY <1>2, <3>1
        <5> QED BY <2>1, <3>1, <5>1
      <4>4. /\ \A k \in Slots : k >= n /\ k < n + Len(added) => h[k] = Raw
            /\ \A k \in Slots : k >= n + Len(added) /\ k < Len(t) => h[k] = t[k + 1]
            /\ \A k \in Slots : k >= Len(t) => h[k] = Raw
        BY <1>2, <2>1, <2>3, <4>1
      <4>5. n + Len(added) <= Len(t)
        BY <1>2, <2>1, <4>1
      <4> QED BY <1>2, <2>1, <3>1, <4>2, <4>3, <4>4, <4>5, GrownIs
    <3> HIDE DEF grown
    <3>3. TakenOut(c, grown, m, n)
      <4>1. ReadyIn(Elem, grown, m, n)
        BY <1>2, <2>3 DEF ReadyIn
      <4> QED BY <1>2, <4>1, DestroyIs
    <3> HIDE DEF c
    <3>4. \A k \in Slots : c[k] = grown[k]
      BY <1>2, <2>3, <3>3 DEF TakenOut
    <3>5. Holds(c, t)
      BY <3>2, <3>3, <3>4 DEF Holds, TakenOut
    <3>6. [cells |-> c, size |-> m] = Held(t)
      BY <2>1, <3>5, HoldsIs
    <3>7. Resized(Held(s), m, item) = Refused([cells |-> c, size |-> m], "Success")
      BY <1>1, <1>2, <1>4
    <3> QED BY <1>2, <1>4, <2>1, <3>6, <3>7 DEF t
  <2>4. CASE m < n
    <3>1. added \in Seq(Elem) /\ Len(added) = 0
      <4>1. m - Least(m, n) = 0
        BY <1>2, <2>4 DEF Least
      <4> QED BY <4>1, RepeatIs
    <3> HIDE DEF added
    <3>2. Written(grown, h, n, added)
      <4>1. ReadyIn({Raw}, h, n, n + Len(added)) /\ n + Len(added) <= N
        BY <1>2, <3>1 DEF ReadyIn
      <4> QED BY <1>2, <3>1, <4>1, UninitCopyIs
    <3> HIDE DEF grown
    <3>3. \A k \in Slots : grown[k] = h[k]
      BY <1>2, <3>1, <3>2 DEF Written
    <3>4. Holds(Destroy(grown, Len(t), n), t)
      <4>1. \A k \in Slots : k < Len(t) => grown[k] = t[k + 1]
        BY <1>2, <2>1, <2>2, <2>4, <3>3
      <4>2. \A k \in Slots : k >= Len(t) /\ k < n => grown[k] \in Elem
        BY <1>2, <3>3
      <4>3. \A k \in Slots : k >= Len(t) /\ k >= n => grown[k] = Raw
        BY <1>2, <3>3
      <4> QED BY <1>2, <2>1, <4>1, <4>2, <4>3, TrimmedIs
    <3>6. [cells |-> c, size |-> m] = Held(t)
      BY <2>1, <3>4, HoldsIs
    <3>7. Resized(Held(s), m, item) = Refused([cells |-> c, size |-> m], "Success")
      BY <1>1, <1>2, <1>4
    <3> QED BY <1>2, <1>4, <2>1, <3>6, <3>7 DEF t
  <2> QED BY <1>2, <2>3, <2>4
<1> QED
  BY <1>2, <1>3, <1>4

LEMMA OneItem ==
  ASSUME NEW item \in Elem
  PROVE  <<item>> \in Seq(Elem) /\ Len(<<item>>) = 1 /\ <<item>>[1] = item
OBVIOUS

LEMMA PoppedBackIs ==
  ASSUME NEW s \in Lists
  PROVE  LET t == IF s = <<>> THEN <<>> ELSE Front(s)
         IN t \in Lists /\ PoppedBack(Held(s)) = Held(t)
<1> DEFINE h == Held(s).cells
           n == Len(s)
<1>1. /\ n \in Nat /\ n <= N /\ N \in Nat /\ s \in Seq(Elem)
      /\ \A k \in Slots : k \in Nat /\ k < N
      /\ \A k \in Slots : h[k] = IF k < n THEN s[k + 1] ELSE Raw
      /\ \A k \in 0 .. n - 1 : s[k + 1] \in Elem
  BY HeldIs, HeldElements, Constants
<1>2. s = <<>> <=> n = 0
  BY <1>1, EmptySeq
<1>3. CASE n = 0
  BY <1>2, <1>3, NewArrayIs, HeldIs DEF PoppedBack
<1>4. CASE n # 0
  <2> DEFINE t == SubSeq(s, 1, n - 1)
             c == Destroy(h, n - 1, n)
  <2>1. Front(s) = t
    BY DEF Front
  <2>2. t \in Lists /\ Len(t) = n - 1 /\ \A k \in 1 .. n - 1 : t[k] = s[k]
    <3>1. 1 \in 1 .. n + 1 /\ n - 1 \in 1 - 1 .. n
      BY <1>1, <1>4
    <3>2. /\ t \in Seq(Elem) /\ Len(t) = (n - 1) - 1 + 1
          /\ \A k \in 1 .. (n - 1) - 1 + 1 : t[k] = s[k + 1 - 1]
      BY <1>1, <3>1, SubSeqIs
    <3> HIDE DEF t
    <3> QED BY <1>1, <3>2 DEF Lists
  <2>3. PoppedBack(Held(s)) = [cells |-> c, size |-> n - 1]
    BY <1>1, <1>4, HeldIs DEF PoppedBack
  <2> HIDE DEF t, h
  <2>4. Holds(Destroy(h, Len(t), n), t)
    <3>1. \A k \in Slots : k < Len(t) => h[k] = t[k + 1]
      BY <1>1, <2>2
    <3>2. \A k \in Slots : k >= Len(t) /\ k < n => h[k] \in Elem
      BY <1>1
    <3>3. \A k \in Slots : k >= Len(t) /\ k >= n => h[k] = Raw
      BY <1>1
    <3> QED BY <1>1, <2>2, <3>1, <3>2, <3>3, TrimmedIs
  <2> QED BY <1>2, <1>4, <2>1, <2>2, <2>3, <2>4, HoldsIs
<1> QED
  BY <1>3, <1>4

\* s with an item put in at position i.
LEMMA InsertedOne ==
  ASSUME NEW s \in Lists, Len(s) < N, NEW i \in 0 .. Len(s), NEW item \in Elem
  PROVE  LET t == BV!Spliced(s, i, i, <<item>>)
         IN /\ t \in Lists /\ Len(t) = Len(s) + 1
            /\ \A k \in Slots : k < i => t[k + 1] = s[k + 1]
            /\ t[i + 1] = item
            /\ \A k \in Slots : k > i /\ k <= Len(s) => t[k + 1] = s[k]
<1> DEFINE t == BV!Spliced(s, i, i, <<item>>)
           n == Len(s)
<1>1. /\ s \in Seq(Elem) /\ n \in Nat /\ N \in Nat /\ i \in Nat /\ i <= i /\ i <= n /\ n < N
      /\ <<item>> \in Seq(Elem) /\ Len(<<item>>) = 1 /\ <<item>>[1] = item
      /\ \A k \in Slots : k \in Nat
  BY HeldIs, Constants, OneItem
<1> DEFINE q == <<item>>
<1> HIDE DEF q
<1>2. /\ t \in Seq(Elem) /\ Len(t) = n - (i - i) + Len(q)
      /\ \A k \in 1 .. Len(t) :
           t[k] = IF k <= i THEN s[k] ELSE IF k <= i + Len(q) THEN q[k - i]
                  ELSE s[k - Len(q) + (i - i)]
  <2>1. q \in Seq(Elem)
    BY <1>1 DEF q
  <2>2. t = BV!Spliced(s, i, i, q)
    BY DEF q
  <2>3. IsSpliced(t, s, i, i, q) /\ t \in Seq(Elem)
    BY <1>1, <2>1, <2>2, SplicedIs
  <2> HIDE DEF t
  <2> QED BY <2>3 DEF IsSpliced
<1> HIDE DEF t
<1>3. Len(q) = 1 /\ q[1] = item
  BY <1>1 DEF q
<1>4. Len(t) = n + 1
  BY <1>1, <1>2, <1>3
<1>5. t \in Lists
  BY <1>1, <1>2, <1>4 DEF Lists
<1>6. \A k \in 1 .. n + 1 :
        t[k] = IF k <= i THEN s[k] ELSE IF k <= i + 1 THEN q[k - i] ELSE s[k - 1 + (i - i)]
  BY <1>2, <1>3, <1>4
<1>7. ASSUME NEW k \in Slots, k < i
      PROVE  t[k + 1] = s[k + 1]
  <2>1. k + 1 \in 1 .. n + 1 /\ k + 1 <= i
    BY <1>1, <1>7
  <2> QED BY <1>6, <2>1
<1>8. t[i + 1] = item
  <2>1. i + 1 \in 1 .. n + 1 /\ ~(i + 1 <= i) /\ i + 1 - i = 1
    BY <1>1
  <2> QED BY <1>3, <1>6, <2>1
<1>9. ASSUME NEW k \in Slots, k > i, k <= n
      PROVE  t[k + 1] = s[k]
  <2>1. /\ k + 1 \in 1 .. n + 1 /\ ~(k + 1 <= i) /\ ~(k + 1 <= i + 1)
        /\ k + 1 - 1 + (i - i) = k
    BY <1>1, <1>9
  <2> DEFINE j == k + 1
  <2>2. j \in 1 .. n + 1 /\ ~(j <= i) /\ ~(j <= i + 1) /\ j - 1 + (i - i) = k
    BY <1>1, <2>1
  <2> HIDE DEF j
  <2>3. t[j] = s[j - 1 + (i - i)]
    BY <1>6, <2>2
  <2>4. t[j] = s[k]
    BY <2>2, <2>3
  <2> QED BY <2>4 DEF j
<1> QED
  BY <1>4, <1>5, <1>7, <1>8, <1>9 DEF t, n

\* An item constructed in a raw slot that was opened for it.
LEMMA FilledIs ==
  ASSUME NEW s \in Lists, Len(s) < N, NEW i \in 0 .. Len(s), NEW item \in Elem, NEW c,
         \A k \in Slots : k < i => c[k] = s[k + 1],
         \A k \in Slots : k = i => c[k] = Raw,
         \A k \in Slots : k > i /\ k <= Len(s) => c[k] = s[k],
         \A k \in Slots : k > Len(s) => c[k] = Raw
  PROVE  [cells |-> UninitCopy(c, i, <<item>>), size |-> Len(s) + 1]
           = Held(BV!Spliced(s, i, i, <<item>>))
<1> DEFINE t == BV!Spliced(s, i, i, <<item>>)
           n == Len(s)
           q == <<item>>
<1>1. /\ n \in Nat /\ N \in Nat /\ i \in Nat /\ i <= n /\ n < N
      /\ q \in Seq(Elem) /\ Len(q) = 1 /\ q[1] = item
      /\ \A k \in Slots : k \in Nat
  BY HeldIs, Constants, OneItem
<1>2. /\ t \in Lists /\ Len(t) = n + 1
      /\ \A k \in Slots : k < i => t[k + 1] = s[k + 1]
      /\ t[i + 1] = item
      /\ \A k \in Slots : k > i /\ k <= n => t[k + 1] = s[k]
  BY InsertedOne
<1> HIDE DEF t, q
<1>3. /\ \A k \in Slots : k < i => c[k] = t[k + 1]
      /\ \A k \in Slots : k >= i /\ k < i + Len(q) => c[k] = Raw
      /\ \A k \in Slots : k >= i + Len(q) /\ k < Len(t) => c[k] = t[k + 1]
      /\ \A k \in Slots : k >= Len(t) => c[k] = Raw
  BY <1>1, <1>2
<1>4. \A k \in 1 .. Len(q) : q[k] = t[k + i]
  <2>1. \A k \in 1 .. Len(q) : k = 1
    BY <1>1
  <2>2. i + 1 = 1 + i
    BY <1>1
  <2> QED BY <1>1, <1>2, <2>1, <2>2
<1>5. i + Len(q) <= Len(t)
  BY <1>1, <1>2
<1>6. Holds(UninitCopy(c, i, q), t)
  <2>1. t \in Lists /\ i \in Nat /\ q \in Seq(Elem)
    BY <1>1, <1>2
  <2> QED BY ONLY <1>3, <1>4, <1>5, <2>1, GrownIs
<1>7. [cells |-> UninitCopy(c, i, q), size |-> n + 1] = Held(t)
  BY <1>2, <1>6, HoldsIs
<1> QED
  BY <1>7 DEF t, q, n

LEMMA PushedIs ==
  ASSUME NEW s \in Lists, NEW item \in Elem
  PROVE  LET t == BV!Spliced(s, Len(s), Len(s), <<item>>)
         IN /\ IsFull(Held(s)) <=> Len(s) = N
            /\ Len(s) < N => /\ t \in Lists
                             /\ UncheckedPushBack(Held(s), item) = Result(Held(t), "None", Len(s))
<1> DEFINE h == Held(s).cells
           n == Len(s)
           t == BV!Spliced(s, n, n, <<item>>)
<1>1. /\ n \in Nat /\ n <= N /\ N \in Nat /\ n \in 0 .. n
      /\ \A k \in Slots : h[k] = IF k < n THEN s[k + 1] ELSE Raw
      /\ \A k \in Slots : k \in Nat
  <2>1. n \in Nat /\ n <= N /\ N \in Nat /\ \A k \in Slots : k \in Nat
    BY HeldIs, Constants
  <2>2. \A k \in Slots : h[k] = IF k < n THEN s[k + 1] ELSE Raw
    BY HeldIs
  <2> QED BY <2>1, <2>2
<1>2. n < N => t \in Lists
  BY <1>1, InsertedOne
<1>3. UncheckedPushBack(Held(s), item) =
        Result([cells |-> UninitCopy(h, n, <<item>>), size |-> n + 1], "None", n)
  BY HeldIs DEF UncheckedPushBack
<1> HIDE DEF h, t
<1>4. n < N => [cells |-> UninitCopy(h, n, <<item>>), size |-> n + 1] = Held(t)
  <2> SUFFICES ASSUME n < N
               PROVE  [cells |-> UninitCopy(h, n, <<item>>), size |-> n + 1] = Held(t)
    OBVIOUS
  <2>1. /\ \A k \in Slots : k < n => h[k] = s[k + 1]
        /\ \A k \in Slots : k = n => h[k] = Raw
        /\ \A k \in Slots : k > n /\ k <= n => h[k] = s[k]
        /\ \A k \in Slots : k > n => h[k] = Raw
    BY <1>1
  <2> QED BY <1>1, <2>1, FilledIs DEF t
<1>5. IsFull(Held(s)) <=> n = N
  BY HeldIs DEF IsFull
<1> QED
  BY <1>2, <1>3, <1>4, <1>5 DEF t

\* emplace in the middle: the tail has moved one slot to the back, and the
\* element at i is gone.
LEMMA EmplacedIs ==
  ASSUME NEW s \in Lists, Len(s) < N, NEW i \in 0 .. Len(s), NEW item \in Elem
  PROVE  LET t == BV!Spliced(s, i, i, <<item>>)
         IN t \in Lists /\ Emplace(Held(s), i, item) = Result(Held(t), "Success", i)
<1> DEFINE h == Held(s).cells
           n == Len(s)
           t == BV!Spliced(s, i, i, <<item>>)
           last == n - 1
           first == UninitMove(h, last, n, n)
           opened == MoveBackward(first, i, last, n)
           gap == Destroy(opened, i, i + 1)
           c == IF i = n THEN h ELSE gap
<1>1. /\ n \in Nat /\ n < N /\ N \in Nat /\ i \in Nat /\ i <= n
      /\ \A k \in Slots : h[k] = IF k < n THEN s[k + 1] ELSE Raw
      /\ \A k \in Slots : k \in Nat /\ k < N
      /\ \A k \in Slots : k < n => s[k + 1] \in Elem
  <2>1. n \in Nat /\ N \in Nat /\ \A k \in Slots : k \in Nat /\ k < N
    BY HeldIs, Constants
  <2>2. \A k \in Slots : h[k] = IF k < n THEN s[k + 1] ELSE Raw
    BY HeldIs
  <2>3. \A k \in Slots : k < n => k \in 0 .. n - 1
    BY <2>1
  <2>4. \A k \in Slots : k < n => s[k + 1] \in Elem
    BY <2>3, HeldElements
  <2>5. i \in Nat /\ i <= n
    BY <2>1
  <2> QED BY <2>1, <2>2, <2>4, <2>5
<1>2. Emplace(Held(s), i, item) =
        Result([cells |-> UninitCopy(c, i, <<item>>), size |-> n + 1], "Success", i)
  BY <1>1, HeldIs DEF Emplace, IsFull
<1>3. t \in Lists
  BY InsertedOne
<1> HIDE DEF h, t
<1>4. CASE i = n
  <2>1. /\ c = h
        /\ \A k \in Slots : k < i => h[k] = s[k + 1]
        /\ \A k \in Slots : k = i => h[k] = Raw
        /\ \A k \in Slots : k > i /\ k <= n => h[k] = s[k]
        /\ \A k \in Slots : k > n => h[k] = Raw
    BY <1>1, <1>4
  <2> QED BY <1>2, <1>3, <2>1, FilledIs DEF t
<1>5. CASE i < n
  <2>1. /\ last \in Nat /\ last <= n /\ n <= N /\ n + (n - last) <= N /\ n - last = 1
        /\ n + (n - last) = n + 1
    BY <1>1, <1>5
  <2>2. MovedTo(first, h, last, n, n)
    <3> HIDE DEF last, first
    <3>1. ReadyIn(Elem, h, last, n)
      BY <1>1, <2>1, HeldReady DEF h
    <3>2. ReadyIn({Raw}, h, n, n + 1)
      <4>1. \A k \in n .. (n + 1) - 1 : k \in Slots /\ k = n
        BY <1>1, Constants
      <4>2. \A k \in n .. (n + 1) - 1 : h[k] \in {Raw}
        BY <1>1, <4>1
      <4> QED BY <4>2 DEF ReadyIn
    <3>3. ReadyIn({Raw}, h, n, n + (n - last))
      BY <2>1, <3>2
    <3> QED BY <1>1, <2>1, <3>1, <3>3, MovesAre DEF first
  <2> HIDE DEF first
  <2>3. \A k \in Slots : first[k] = IF k = n THEN s[n] ELSE IF k = last THEN Moved ELSE h[k]
    <3> SUFFICES ASSUME NEW k \in Slots
                 PROVE  first[k] = IF k = n THEN s[n] ELSE IF k = last THEN Moved ELSE h[k]
      OBVIOUS
    <3>1. first[k] = IF k >= n /\ k < n + (n - last) THEN h[k - n + last]
                     ELSE IF k >= last /\ k < n THEN Moved ELSE h[k]
      BY <2>2 DEF MovedTo
    <3>2. CASE k = n
      <4>1. k - n + last = last /\ last \in Slots /\ last < n /\ last + 1 = n
        BY <1>1, <2>1, <3>2, Constants
      <4> QED BY <1>1, <2>1, <3>1, <3>2, <4>1
    <3>3. CASE k # n
      BY <1>1, <2>1, <3>1, <3>3
    <3> QED BY <3>2, <3>3
  <2>4. MovedTo(opened, first, i, last, i + 1)
    <3>1. /\ i <= last /\ last <= N /\ i + 1 \in Nat /\ (i + 1) + (last - i) = n
          /\ n <= N /\ i + 1 > i
      BY <1>1, <1>5
    <3>2. \A k \in Slots : k < n => first[k] \in Elem
      <4> SUFFICES ASSUME NEW k \in Slots, k < n
                   PROVE  first[k] \in Elem
        OBVIOUS
      <4>1. k # n /\ (k # last => first[k] = h[k]) /\ (k = last => first[k] = Moved)
        BY <1>1, <2>3
      <4> QED BY <1>1, <4>1, Constants
    <3>3. /\ \A k \in i .. last - 1 : k \in Slots /\ k < n
          /\ \A k \in i + 1 .. n - 1 : k \in Slots /\ k < n
      BY <1>1, Constants
    <3>4. ReadyIn(Elem, first, i, last) /\ ReadyIn(Elem, first, i + 1, n)
      BY <3>2, <3>3 DEF ReadyIn
    <3> HIDE DEF last, opened
    <3> QED BY <1>1, <2>1, <3>1, <3>4, MovesAre DEF opened
  <2> HIDE DEF opened
  <2>5. \A k \in Slots : opened[k] = IF k > i /\ k < n THEN s[k]
                                     ELSE IF k = i THEN Moved ELSE first[k]
    <3> SUFFICES ASSUME NEW k \in Slots
                 PROVE  opened[k] = IF k > i /\ k < n THEN s[k]
                                    ELSE IF k = i THEN Moved ELSE first[k]
      OBVIOUS
    <3>1. opened[k] = IF k >= i + 1 /\ k < (i + 1) + (last - i) THEN first[k - (i + 1) + i]
                      ELSE IF k >= i /\ k < last THEN Moved ELSE first[k]
      BY <2>4 DEF MovedTo
    <3>2. CASE k > i /\ k < n
      <4>1. /\ k - (i + 1) + i = k - 1 /\ k - 1 \in Slots /\ k - 1 < n /\ k - 1 # n
            /\ k - 1 # last /\ (k - 1) + 1 = k /\ k >= i + 1 /\ k < (i + 1) + (last - i)
        <5>1. k \in Nat /\ n \in Nat /\ N \in Nat /\ i \in Nat /\ n <= N /\ last = n - 1
          BY <1>1, Constants
        <5> HIDE DEF n, last
        <5>2. /\ k - (i + 1) + i = k - 1 /\ k - 1 < n /\ k - 1 # n
              /\ k - 1 # last /\ (k - 1) + 1 = k /\ k >= i + 1 /\ k < (i + 1) + (last - i)
              /\ k - 1 \in Nat /\ k - 1 < N
          BY ONLY <3>2, <5>1
        <5> QED BY <5>2, Constants
      <4>2. first[k - 1] = s[k]
        BY <1>1, <2>3, <4>1
      <4> QED BY <3>1, <3>2, <4>1, <4>2
    <3>3. CASE k = i
      <4>1. ~(k >= i + 1) /\ ((k >= i /\ k < last) \/ k = last) /\ k # n
        BY <1>1, <1>5, <3>3
      <4> QED BY <2>3, <3>1, <3>3, <4>1
    <3>4. CASE k < i \/ k >= n
      <4>1. ~(k >= i /\ k < last) /\ ~(k >= i + 1 /\ k < (i + 1) + (last - i))
            /\ ~(k > i /\ k < n) /\ k # i
        BY <1>1, <1>5, <3>4
      <4> QED BY <3>1, <4>1
    <3> QED BY <1>1, <3>2, <3>3, <3>4
  <2>6. TakenOut(gap, opened, i, i + 1)
    <3>1. \A k \in i .. (i + 1) - 1 : k = i /\ k \in Slots
      BY <1>1, Constants
    <3>2. ReadyIn(Elem, opened, i, i + 1)
      BY <2>5, <3>1, Constants DEF ReadyIn
    <3> QED BY <1>1, <3>2, DestroyIs
  <2> HIDE DEF gap
  <2>7. /\ c = gap
        /\ \A k \in Slots : k < i => gap[k] = s[k + 1]
        /\ \A k \in Slots : k = i => gap[k] = Raw
        /\ \A k \in Slots : k > i /\ k <= n => gap[k] = s[k]
        /\ \A k \in Slots : k > n => gap[k] = Raw
    <3>1. \A k \in Slots : gap[k] = IF k = i THEN Raw ELSE opened[k]
      BY <1>1, <2>6 DEF TakenOut
    <3>2. \A k \in Slots : k < i => opened[k] = s[k + 1]
      BY <1>1, <1>5, <2>3, <2>5
    <3>3. \A k \in Slots : k > i /\ k <= n => opened[k] = s[k]
      BY <1>1, <1>5, <2>3, <2>5
    <3>4. \A k \in Slots : k > n => opened[k] = Raw
      BY <1>1, <1>5, <2>3, <2>5
    <3> QED BY <1>1, <1>5, <3>1, <3>2, <3>3, <3>4
  <2> HIDE DEF c
  <2>8. [cells |-> UninitCopy(c, i, <<item>>), size |-> n + 1] = Held(t)
    BY <2>7, FilledIs DEF t
  <2> QED BY <1>2, <1>3, <2>8 DEF t
<1> QED
  BY <1>1, <1>4, <1>5

\* s with items put in at position i, slot by slot.
LEMMA InsertedMany ==
  ASSUME NEW s \in Lists, NEW i \in 0 .. Len(s), NEW items \in Seq(Elem)
  PROVE  LET t == BV!Spliced(s, i, i, items)
             m == Len(items)
         IN /\ Len(t) = Len(s) + m
            /\ Len(s) + m <= N => t \in Lists
            /\ \A k \in Nat : k < i => t[k + 1] = s[k + 1]
            /\ \A k \in Nat : k >= i /\ k < i + m => t[k + 1] = items[k - i + 1]
            /\ \A k \in Nat : k >= i + m /\ k < Len(s) + m => t[k + 1] = s[k - m + 1]
<1> DEFINE t == BV!Spliced(s, i, i, items)
           n == Len(s)
           m == Len(items)
<1>1. /\ s \in Seq(Elem) /\ n \in Nat /\ m \in Nat /\ i \in Nat /\ i <= i /\ i <= n
  BY HeldIs
<1>2. /\ t \in Seq(Elem) /\ Len(t) = n - (i - i) + m
      /\ \A k \in 1 .. Len(t) :
           t[k] = IF k <= i THEN s[k] ELSE IF k <= i + m THEN items[k - i]
                  ELSE s[k - m + (i - i)]
  <2>1. IsSpliced(t, s, i, i, items) /\ t \in Seq(Elem)
    BY <1>1, SplicedIs
  <2> HIDE DEF t
  <2> QED BY <2>1 DEF IsSpliced
<1> HIDE DEF t
<1>3. Len(t) = n + m
  BY <1>1, <1>2
<1>4. n + m <= N => t \in Lists
  BY <1>2, <1>3 DEF Lists
<1>5. \A k \in 1 .. n + m :
        t[k] = IF k <= i THEN s[k] ELSE IF k <= i + m THEN items[k - i]
               ELSE s[k - m + (i - i)]
  BY <1>2, <1>3
<1> HIDE DEF n, m
<1>6. ASSUME NEW k \in Nat, k < i
      PROVE  t[k + 1] = s[k + 1]
  <2>1. k + 1 \in 1 .. n + m /\ k + 1 <= i
    BY <1>1, <1>6
  <2> QED BY <1>5, <2>1
<1>7. ASSUME NEW k \in Nat, k >= i, k < i + m
      PROVE  t[k + 1] = items[k - i + 1]
  <2> DEFINE j == k + 1
  <2>1. j \in 1 .. n + m /\ ~(j <= i) /\ j <= i + m /\ j - i = k - i + 1
    BY <1>1, <1>7
  <2> HIDE DEF j
  <2>2. t[j] = items[j - i]
    BY <1>5, <2>1
  <2>3. t[j] = items[k - i + 1]
    BY <2>1, <2>2
  <2> QED BY <2>3 DEF j
<1>8. ASSUME NEW k \in Nat, k >= i + m, k < n + m
      PROVE  t[k + 1] = s[k - m + 1]
  <2> DEFINE j == k + 1
  <2>1. j \in 1 .. n + m /\ ~(j <= i) /\ ~(j <= i + m) /\ j - m + (i - i) = k - m + 1
    BY <1>1, <1>8
  <2> HIDE DEF j
  <2>2. t[j] = s[j - m + (i - i)]
    BY <1>5, <2>1
  <2>3. t[j] = s[k - m + 1]
    BY <2>1, <2>2
  <2> QED BY <2>3 DEF j
<1> QED
  BY <1>3, <1>4, <1>6, <1>7, <1>8 DEF t, n, m

LEMMA HeldShape ==
  ASSUME NEW s \in Lists
  PROVE  /\ Len(s) \in Nat /\ Len(s) <= N /\ N \in Nat /\ s \in Seq(Elem)
         /\ \A k \in Slots : k \in Nat /\ k < N
         /\ \A k \in Nat : k < N => k \in Slots
         /\ \A k \in Slots : k < Len(s) => /\ Held(s).cells[k] = s[k + 1]
                                           /\ Held(s).cells[k] \in Elem
         /\ \A k \in Slots : k >= Len(s) => Held(s).cells[k] = Raw
<1>1. /\ Len(s) \in Nat /\ Len(s) <= N /\ N \in Nat /\ s \in Seq(Elem)
      /\ \A k \in Slots : k \in Nat /\ k < N
      /\ \A k \in Nat : k < N => k \in Slots
  BY HeldIs, Constants
<1>2. ASSUME NEW k \in Slots, k < Len(s)
      PROVE  Held(s).cells[k] = s[k + 1] /\ Held(s).cells[k] \in Elem
  <2>1. k \in 0 .. Len(s) - 1
    BY <1>1, <1>2
  <2> QED BY <1>2, <2>1, HeldIs, HeldElements
<1>3. ASSUME NEW k \in Slots, k >= Len(s)
      PROVE  Held(s).cells[k] = Raw
  <2>1. ~(k < Len(s))
    BY <1>1, <1>3
  <2> QED BY <2>1, HeldIs
<1> QED
  BY <1>1, <1>2, <1>3

\* The gap of insert(): moved-from elements, then raw slots.
LEMMA OpenedIs ==
  ASSUME NEW s \in Lists, NEW i \in 0 .. Len(s), NEW m \in Nat, m > 0,
         Len(s) + m <= N, Len(s) + m < SizeMax
  PROVE  LET o == Opened(Held(s), i, m)
             n == Len(s)
         IN /\ \A k \in Slots : k < i => o[k] = s[k + 1]
            /\ \A k \in Slots : k >= i + m /\ k < n + m => o[k] = s[k - m + 1]
            /\ \A k \in Slots : k >= i /\ k < i + m /\ k < n => o[k] \in Elem
            /\ \A k \in Slots : k >= n /\ k < i + m => o[k] = Raw
            /\ \A k \in Slots : k >= n + m => o[k] = Raw
<1> DEFINE h == Held(s).cells
           n == Len(s)
           u == Least(n - i, m)
           moved == UninitMove(h, n - u, n, Wrap(n + m - u))
           o == Opened(Held(s), i, m)
<1>1. /\ n \in Nat /\ n + m <= N /\ N \in Nat /\ i \in Nat /\ i <= n
      /\ \A k \in Slots : k \in Nat /\ k < N
      /\ \A k \in Nat : k < N => k \in Slots
      /\ \A k \in Slots : k < n => h[k] = s[k + 1] /\ h[k] \in Elem
      /\ \A k \in Slots : k >= n => h[k] = Raw
  BY HeldShape
<1>2. u \in Nat /\ u <= m /\ u <= n /\ ((u = m /\ m < n - i) \/ (u = n - i /\ n - i <= m))
  BY <1>1 DEF Least
<1>3. o = IF n - i > u THEN MoveBackward(moved, i, n - u, Wrap(n + m - u)) ELSE moved
  BY HeldIs DEF Opened
<1>4. Wrap(n + m - u) = n + m - u /\ n + m - u \in Nat
  <2>1. n + m - u \in Nat /\ n + m - u < SizeMax
    BY <1>1, <1>2, Constants
  <2> QED BY <2>1, WrapIs
<1> HIDE DEF h, n, u, o
<1>5. MovedTo(moved, h, n - u, n, n + m - u)
  <2> DEFINE from == n - u
             to == n + m - u
  <2>1. /\ from \in Nat /\ from <= n /\ n <= N /\ to \in Nat /\ to + (n - from) <= N
        /\ to + (n - from) = n + m /\ to >= n
    BY <1>1, <1>2
  <2>2. moved = UninitMove(h, from, n, to)
    BY <1>4
  <2> HIDE DEF from, to, moved
  <2>3. ReadyIn(Elem, h, from, n)
    <3>1. \A k \in from .. n - 1 : k \in Slots /\ k < n
      BY <1>1, <2>1
    <3> QED BY <1>1, <3>1 DEF ReadyIn
  <2>4. ReadyIn({Raw}, h, to, to + (n - from))
    <3>1. \A k \in to .. (n + m) - 1 : k \in Slots /\ k >= n
      BY <1>1, <2>1
    <3>2. ReadyIn({Raw}, h, to, n + m)
      BY <1>1, <3>1 DEF ReadyIn
    <3> QED BY <2>1, <3>2
  <2>5. MovedTo(moved, h, from, n, to)
    BY <1>1, <2>1, <2>2, <2>3, <2>4, MovesAre
  <2> QED BY <2>5 DEF from, to
<1> HIDE DEF moved
<1>6. /\ \A k \in Slots : k < n - u => moved[k] = s[k + 1] /\ moved[k] \in Elem
      /\ \A k \in Slots : k >= n - u /\ k < n => moved[k] = Moved /\ moved[k] \in Elem
      /\ \A k \in Slots : k >= n /\ k < n + m - u => moved[k] = Raw
      /\ \A k \in Slots : k >= n + m - u /\ k < n + m => moved[k] = s[k - m + 1]
      /\ \A k \in Slots : k >= n + m => moved[k] = Raw
  <2>1. ASSUME NEW k \in Slots
        PROVE  /\ k < n - u => moved[k] = s[k + 1] /\ moved[k] \in Elem
               /\ k >= n - u /\ k < n => moved[k] = Moved /\ moved[k] \in Elem
               /\ k >= n /\ k < n + m - u => moved[k] = Raw
               /\ k >= n + m - u /\ k < n + m => moved[k] = s[k - m + 1]
               /\ k >= n + m => moved[k] = Raw
    <3> DEFINE to == n + m - u
               j == k - to + (n - u)
    <3>1. moved[k] = IF k >= to /\ k < to + (n - (n - u)) THEN h[j]
                     ELSE IF k >= n - u /\ k < n THEN Moved ELSE h[k]
      BY <1>5 DEF MovedTo
    <3>2. k \in Nat /\ k < N /\ to + (n - (n - u)) = n + m /\ j = k - m /\ to >= n
      BY <1>1, <1>2
    <3>3. CASE k >= to /\ k < n + m
      <4>1. k - m \in Slots /\ k - m < n /\ ~(k < n)
        BY <1>1, <1>2, <3>2, <3>3
      <4>2. moved[k] = h[k - m]
        BY <3>1, <3>2, <3>3
      <4>3. h[k - m] = s[k - m + 1]
        BY <1>1, <4>1
      <4> QED BY <1>1, <1>2, <3>2, <3>3, <4>1, <4>2, <4>3
    <3>4. CASE ~(k >= to /\ k < n + m)
      <4>1. moved[k] = IF k >= n - u /\ k < n THEN Moved ELSE h[k]
        BY <3>1, <3>2, <3>4
      <4> QED BY <1>1, <1>2, <3>2, <3>4, <4>1, Constants
    <3> QED BY <3>3, <3>4
  <2> QED BY <2>1
<1>7. CASE u = n - i /\ n - i <= m
  <2>1. o = moved /\ n - u = i /\ n + m - u = i + m
    BY <1>1, <1>3, <1>7
  <2>2. ASSUME NEW k \in Slots
        PROVE  /\ k < i => o[k] = s[k + 1]
               /\ k >= i + m /\ k < n + m => o[k] = s[k - m + 1]
               /\ k >= i /\ k < i + m /\ k < n => o[k] \in Elem
               /\ k >= n /\ k < i + m => o[k] = Raw
               /\ k >= n + m => o[k] = Raw
    BY <1>6, <2>1
  <2> QED BY <2>2 DEF o, n
<1>8. CASE u = m /\ m < n - i
  <2> DEFINE until == n - m
             to == i + m
  <2>1. /\ until \in Nat /\ i <= until /\ until <= N /\ to \in Nat /\ to + (until - i) = n
        /\ n <= N /\ to > i /\ n - u = until /\ n + m - u = n
    BY <1>1, <1>8
  <2>2. o = MoveBackward(moved, i, until, n)
    <3>1. o = MoveBackward(moved, i, n - u, n + m - u)
      BY <1>1, <1>3, <1>4, <1>8
    <3> QED BY <2>1, <3>1
  <2>3. \A k \in Slots : k < n => moved[k] \in Elem
    BY <1>1, <1>6, <2>1
  <2>4. /\ \A k \in i .. until - 1 : k \in Slots /\ k < n
        /\ \A k \in to .. n - 1 : k \in Slots /\ k < n
    BY <1>1, <2>1
  <2>5. ReadyIn(Elem, moved, i, until) /\ ReadyIn(Elem, moved, to, n)
    BY <2>3, <2>4 DEF ReadyIn
  <2> HIDE DEF until, to
  <2>6. MovedTo(o, moved, i, until, to)
    BY <1>1, <2>1, <2>2, <2>5, MovesAre
  <2>7. ASSUME NEW k \in Slots
        PROVE  /\ k < i => o[k] = s[k + 1]
               /\ k >= i + m /\ k < n + m => o[k] = s[k - m + 1]
               /\ k >= i /\ k < i + m /\ k < n => o[k] \in Elem
               /\ k >= n /\ k < i + m => o[k] = Raw
               /\ k >= n + m => o[k] = Raw
    <3> DEFINE j == k - to + i
    <3>1. o[k] = IF k >= to /\ k < to + (until - i) THEN moved[j]
                 ELSE IF k >= i /\ k < until THEN Moved ELSE moved[k]
      BY <2>6 DEF MovedTo
    <3>2. k \in Nat /\ j = k - m
      BY <1>1 DEF to
    <3>3. CASE k >= to /\ k < n
      <4>1. k - m \in Slots /\ k - m < n - u /\ k >= i + m /\ k < n + m
        <5>1. /\ k \in Nat /\ n \in Nat /\ i \in Nat /\ m \in Nat /\ N \in Nat /\ n <= N
              /\ to = i + m
          BY <1>1, <3>2 DEF to
        <5>2. /\ k - m \in Nat /\ k - m < N /\ k - m < n - u
              /\ k >= i + m /\ k < n + m
          BY ONLY <1>8, <3>3, <5>1
        <5> QED BY <5>2, Constants
      <4>2. o[k] = moved[k - m]
        BY <2>1, <3>1, <3>2, <3>3
      <4>3. moved[k - m] = s[k - m + 1]
        BY <1>6, <4>1
      <4>4. /\ k \in Nat /\ n \in Nat /\ i \in Nat /\ m \in Nat
            /\ k < n /\ k >= i + m
        BY <1>1, <3>2, <3>3, <4>1
      <4>5. ~(k < i) /\ ~(k < i + m) /\ ~(k >= n) /\ ~(k >= n + m)
        BY ONLY <4>4
      <4> QED BY ONLY <4>2, <4>3, <4>5
    <3>4. CASE k < to
      <4>1. o[k] = IF k >= i /\ k < until THEN Moved ELSE moved[k]
        BY <2>1, <3>1, <3>2, <3>4
      <4>2. k < n /\ ~(k >= i + m) /\ ~(k >= n) /\ ~(k >= n + m)
        BY <1>1, <1>8, <3>2, <3>4 DEF to
      <4>3. k < i => k < n - u
        BY <1>1, <1>8, <3>2
      <4>4. k < i => o[k] = s[k + 1]
        BY <1>1, <1>6, <3>2, <4>1, <4>3
      <4> QED BY <2>3, <4>1, <4>2, <4>4, Constants
    <3>5. CASE k >= n
      <4>1. o[k] = moved[k]
        BY <1>1, <2>1, <3>1, <3>2, <3>5
      <4>2. ~(k < i) /\ ~(k < n) /\ ~(k < i + m) /\ k >= n + m - u
        BY <1>1, <1>8, <3>2, <3>5
      <4> QED BY <1>6, <4>1, <4>2
    <3> QED BY <1>1, <2>1, <3>2, <3>3, <3>4, <3>5
  <2> QED BY <2>7 DEF o, n
<1> QED
  BY <1>2, <1>7, <1>8

\* insert(): the first items go over what the gap has of elements, the others
\* into its raw slots.
LEMMA InsertedIs ==
  ASSUME NEW s \in Lists, NEW i \in 0 .. Len(s), NEW items \in Seq(Elem),
         Len(s) + Len(items) < SizeMax
  PROVE  LET t == BV!Spliced(s, i, i, items)
             r == InsertRange(Held(s), i, items)
         IN /\ Len(items) = 0 => r = Result(Held(s), "Success", i)
            /\ Len(items) > 0 /\ Len(s) + Len(items) > N => r = Refused(Held(s), "Full")
            /\ Len(items) > 0 /\ Len(s) + Len(items) <= N =>
                 t \in Lists /\ r = Result(Held(t), "Success", i)
<1> DEFINE h == Held(s).cells
           n == Len(s)
           m == Len(items)
           t == BV!Spliced(s, i, i, items)
           r == InsertRange(Held(s), i, items)
           e == Least(m, n - i)
           p == SubSeq(items, 1, e)
           q == SubSeq(items, e + 1, m)
           o == Opened(Held(s), i, m)
           over == CopyTo(o, i, p)
           c == UninitCopy(over, n, q)
<1>1. /\ n \in Nat /\ n <= N /\ N \in Nat /\ m \in Nat /\ i \in Nat /\ i <= n
      /\ \A k \in Slots : k \in Nat /\ k < N
      /\ \A k \in Nat : k < N => k \in Slots
  BY HeldShape
<1>2. Wrap(n + m) = n + m
  BY <1>1, WrapIs
<1>3. r = IF m = 0 THEN Result(Held(s), "Success", i)
          ELSE IF n + m > N THEN Refused(Held(s), "Full")
          ELSE Result([cells |-> c, size |-> n + m], "Success", i)
  BY <1>2, HeldIs DEF InsertRange
<1>4. ASSUME m > 0, n + m <= N
      PROVE  t \in Lists /\ [cells |-> c, size |-> n + m] = Held(t)
  <2>1. /\ Len(t) = n + m /\ t \in Lists
        /\ \A k \in Nat : k < i => t[k + 1] = s[k + 1]
        /\ \A k \in Nat : k >= i /\ k < i + m => t[k + 1] = items[k - i + 1]
        /\ \A k \in Nat : k >= i + m /\ k < n + m => t[k + 1] = s[k - m + 1]
    BY <1>1, <1>4, InsertedMany
  <2>2. /\ \A k \in Slots : k < i => o[k] = s[k + 1]
        /\ \A k \in Slots : k >= i + m /\ k < n + m => o[k] = s[k - m + 1]
        /\ \A k \in Slots : k >= i /\ k < i + m /\ k < n => o[k] \in Elem
        /\ \A k \in Slots : k >= n /\ k < i + m => o[k] = Raw
        /\ \A k \in Slots : k >= n + m => o[k] = Raw
    BY <1>1, <1>4, OpenedIs
  <2>3. e \in Nat /\ ((e = m /\ m <= n - i) \/ (e = n - i /\ n - i < m))
    BY <1>1 DEF Least
  <2>4. p \in Seq(Elem) /\ Len(p) = e /\ \A k \in 1 .. e : p[k] = items[k]
    <3>1. 1 \in 1 .. m + 1 /\ e \in 1 - 1 .. m
      BY <1>1, <2>3
    <3>2. /\ p \in Seq(Elem) /\ Len(p) = e - 1 + 1
          /\ \A k \in 1 .. e - 1 + 1 : p[k] = items[k + 1 - 1]
      BY <3>1, SubSeqIs
    <3> HIDE DEF p, e
    <3> QED BY <2>3, <3>2
  <2>5. q \in Seq(Elem) /\ Len(q) = m - e /\ \A k \in 1 .. m - e : q[k] = items[k + e]
    <3>1. e + 1 \in 1 .. m + 1 /\ m \in (e + 1) - 1 .. m
      BY <1>1, <2>3
    <3>2. /\ q \in Seq(Elem) /\ Len(q) = m - (e + 1) + 1
          /\ \A k \in 1 .. m - (e + 1) + 1 : q[k] = items[k + (e + 1) - 1]
      BY <3>1, SubSeqIs
    <3> HIDE DEF q, e, m
    <3>3. m - (e + 1) + 1 = m - e
      BY <1>1, <2>3
    <3>4. \A k \in 1 .. m - e : k + (e + 1) - 1 = k + e
      BY <1>1, <2>3
    <3>5. ASSUME NEW k \in 1 .. m - e
          PROVE  q[k] = items[k + e]
      BY ONLY <3>2, <3>3, <3>4, k \in 1 .. m - e
    <3>6. q \in Seq(Elem) /\ Len(q) = m - e
      BY ONLY <3>2, <3>3
    <3> QED BY <3>5, <3>6
  <2> HIDE DEF n, m, e, p, q, o, t
  <2>6. Written(over, o, i, p)
    <3>1. \A k \in i .. i + e - 1 : k \in Slots /\ k >= i /\ k < i + m /\ k < n
      BY <1>1, <1>4, <2>3
    <3>2. ReadyIn(Elem, o, i, i + Len(p)) /\ i + Len(p) <= N
      BY <1>1, <2>2, <2>3, <2>4, <3>1 DEF ReadyIn
    <3> QED BY <1>1, <2>4, <3>2, CopyToIs
  <2> HIDE DEF over
  <2>7. ASSUME NEW k \in Slots
        PROVE  /\ k >= i /\ k < i + e => over[k] = items[k - i + 1]
               /\ k < i \/ k >= i + e => over[k] = o[k]
    <3>1. over[k] = IF k < i \/ k >= i + Len(p) THEN o[k] ELSE p[k - i + 1]
      BY <2>6 DEF Written
    <3>2. k \in Nat
      BY <1>1
    <3>3. k >= i /\ k < i + e => k - i + 1 \in 1 .. e
      BY <1>1, <2>3, <3>2
    <3> QED BY <1>1, <2>3, <2>4, <3>1, <3>2, <3>3
  <2>8. \A k \in Slots : k < n => over[k] = t[k + 1]
    <3> SUFFICES ASSUME NEW k \in Slots, k < n
                 PROVE  over[k] = t[k + 1]
      OBVIOUS
    <3>1. k \in Nat
      BY <1>1
    <3>2. CASE k < i
      BY <2>1, <2>2, <2>7, <3>1, <3>2
    <3>3. CASE k >= i /\ k < i + e
      <4>1. k < i + m
        BY <1>1, <2>3, <3>1, <3>3
      <4> QED BY <2>1, <2>7, <3>1, <3>3, <4>1
    <3>4. CASE k >= i + e
      <4>1. k >= i + m /\ k < n + m
        BY <1>1, <2>3, <3>1, <3>4
      <4> QED BY <2>1, <2>2, <2>7, <3>1, <3>4, <4>1
    <3> QED BY <1>1, <2>3, <3>1, <3>2, <3>3, <3>4
  <2>9. \A k \in 1 .. Len(q) : q[k] = t[k + n]
    <3> SUFFICES ASSUME NEW k \in 1 .. Len(q)
                 PROVE  q[k] = t[k + n]
      OBVIOUS
    <3> DEFINE j == k + n - 1
    <3>1. /\ k \in 1 .. m - e /\ e = n - i /\ j \in Nat /\ j >= i /\ j < i + m
          /\ j - i + 1 = k + e /\ j + 1 = k + n
      BY <1>1, <2>3, <2>5
    <3> HIDE DEF j
    <3>2. t[j + 1] = items[j - i + 1]
      BY <2>1, <3>1
    <3>3. q[k] = items[k + e]
      BY <2>5, <3>1
    <3>4. t[k + n] = items[k + e]
      BY <3>1, <3>2
    <3> QED BY <3>3, <3>4
  <2>10. ASSUME NEW k \in Slots, k >= n, k < n + Len(q)
         PROVE  over[k] = Raw
    <3>1. k \in Nat /\ k >= i + e /\ k < i + m
      BY <1>1, <2>3, <2>5, <2>10
    <3> QED BY <2>2, <2>7, <2>10, <3>1
  <2>11. ASSUME NEW k \in Slots, k >= n + Len(q), k < Len(t)
         PROVE  over[k] = t[k + 1]
    <3>1. k \in Nat /\ k >= n + (m - e) /\ k < n + m
      BY <1>1, <2>1, <2>5, <2>11
    <3>2. k >= i + e /\ k >= i + m
      BY <1>1, <2>3, <3>1
    <3> QED BY <2>1, <2>2, <2>7, <3>1, <3>2
  <2>12. ASSUME NEW k \in Slots, k >= Len(t)
         PROVE  over[k] = Raw
    <3>1. k \in Nat /\ k >= i + e /\ k >= n + m
      BY <1>1, <2>1, <2>3, <2>12
    <3> QED BY <2>2, <2>7, <3>1
  <2>13. n + Len(q) <= Len(t)
    BY <1>1, <2>1, <2>3, <2>5
  <2>14. Holds(UninitCopy(over, n, q), t)
    BY <1>1, <2>1, <2>5, <2>8, <2>9, <2>10, <2>11, <2>12, <2>13, GrownIs
  <2> HIDE DEF c
  <2>15. [cells |-> c, size |-> n + m] = Held(t)
    BY <2>1, <2>14, HoldsIs DEF c
  <2> QED BY <2>1, <2>15
<1> HIDE DEF c, t, r
<1>5. CASE m = 0
  BY <1>1, <1>3, <1>5 DEF r
<1>6. CASE m > 0 /\ n + m > N
  BY <1>1, <1>3, <1>6 DEF r
<1>7. CASE m > 0 /\ n + m <= N
  <2>1. r = Result(Held(t), "Success", i) /\ t \in Lists
    BY <1>1, <1>3, <1>4, <1>7
  <2> QED BY <1>1, <1>7, <2>1 DEF r, t
<1> QED
  BY <1>1, <1>5, <1>6, <1>7

\* Erasing moves what lies behind to the front.
LEMMA ErasedShape ==
  ASSUME NEW s \in Lists, NEW i \in Nat, NEW j \in Nat, i <= j, j <= Len(s)
  PROVE  LET t == BV!Spliced(s, i, j, <<>>)
         IN /\ t \in Lists /\ Len(t) = Len(s) - (j - i)
            /\ \A k \in Nat : k < i => t[k + 1] = s[k + 1]
            /\ \A k \in Nat : k >= i /\ k < Len(t) => t[k + 1] = s[k + (j - i) + 1]
<1> DEFINE z == <<>>
           t == BV!Spliced(s, i, j, z)
           n == Len(s)
<1>1. s \in Seq(Elem) /\ n \in Nat /\ n <= N /\ N \in Nat
  BY HeldShape
<1>2. z \in Seq(Elem) /\ Len(z) = 0
  OBVIOUS
<1> HIDE DEF z
<1>3. /\ t \in Seq(Elem) /\ Len(t) = n - (j - i) + Len(z)
      /\ \A k \in 1 .. Len(t) :
           t[k] = IF k <= i THEN s[k] ELSE IF k <= i + Len(z) THEN z[k - i]
                  ELSE s[k - Len(z) + (j - i)]
  <2>1. IsSpliced(t, s, i, j, z) /\ t \in Seq(Elem)
    BY <1>1, <1>2, SplicedIs
  <2> HIDE DEF t
  <2> QED BY <2>1 DEF IsSpliced
<1> HIDE DEF t
<1>4. Len(t) = n - (j - i) /\ Len(t) \in Nat
  BY <1>1, <1>2, <1>3
<1>5. t \in Lists
  BY <1>1, <1>3, <1>4 DEF Lists
<1>6. \A k \in 1 .. Len(t) :
        t[k] = IF k <= i THEN s[k] ELSE IF k <= i + 0 THEN z[k - i] ELSE s[k - 0 + (j - i)]
  BY <1>2, <1>3
<1>7. ASSUME NEW k \in Nat, k < i
      PROVE  t[k + 1] = s[k + 1]
  <2>1. k + 1 \in 1 .. Len(t) /\ k + 1 <= i
    BY <1>1, <1>4, <1>7
  <2> QED BY <1>6, <2>1
<1>8. ASSUME NEW k \in Nat, k >= i, k < Len(t)
      PROVE  t[k + 1] = s[k + (j - i) + 1]
  <2> DEFINE l == k + 1
  <2>1. /\ l \in 1 .. Len(t) /\ ~(l <= i) /\ ~(l <= i + 0)
        /\ l - 0 + (j - i) = k + (j - i) + 1
    BY <1>1, <1>4, <1>8
  <2> HIDE DEF l
  <2>2. t[l] = s[l - 0 + (j - i)]
    BY <1>6, <2>1
  <2>3. t[l] = s[k + (j - i) + 1]
    BY <2>1, <2>2
  <2> QED BY <2>3 DEF l
<1> QED
  BY <1>4, <1>5, <1>7, <1>8 DEF t, z, n

LEMMA ErasedIs ==
  ASSUME NEW s \in Lists, NEW i \in Nat, NEW j \in Nat, i <= j, j <= Len(s)
  PROVE  LET t == BV!Spliced(s, i, j, <<>>)
         IN t \in Lists /\ Erased(Held(s), i, j) = Result(Held(t), "None", i)
<1> DEFINE h == Held(s).cells
           n == Len(s)
           t == BV!Spliced(s, i, j, <<>>)
           closed == MoveForward(h, j, n, i)
           c == Destroy(closed, i + (n - j), n)
<1>1. /\ n \in Nat /\ n <= N /\ N \in Nat /\ s \in Seq(Elem)
      /\ \A k \in Slots : k \in Nat /\ k < N
      /\ \A k \in Nat : k < N => k \in Slots
      /\ \A k \in Slots : k < n => h[k] = s[k + 1] /\ h[k] \in Elem
      /\ \A k \in Slots : k >= n => h[k] = Raw
  BY HeldShape
<1>2. /\ t \in Lists /\ Len(t) = n - (j - i)
      /\ \A k \in Nat : k < i => t[k + 1] = s[k + 1]
      /\ \A k \in Nat : k >= i /\ k < Len(t) => t[k + 1] = s[k + (j - i) + 1]
  BY ErasedShape
<1>3. Erased(Held(s), i, j) =
        IF i = j THEN Result(Held(s), "None", i)
        ELSE Result([cells |-> c, size |-> n - (j - i)], "None", i)
  BY HeldIs DEF Erased
<1> HIDE DEF t, h
<1>4. CASE i = j
  <2>1. t \in Seq(Elem) /\ Len(t) = n
    BY <1>1, <1>2, <1>4, HeldIs
  <2>2. ASSUME NEW k \in 1 .. n
        PROVE  s[k] = t[k]
    <3> DEFINE l == k - 1
    <3>1. l \in Nat /\ l + 1 = k /\ l < Len(t) /\ l + (j - i) + 1 = k
      BY <1>1, <1>4, <2>1
    <3> HIDE DEF l
    <3>2. t[l + 1] = s[l + 1] \/ t[l + 1] = s[l + (j - i) + 1]
      BY <1>1, <1>2, <3>1
    <3> QED BY <3>1, <3>2
  <2>3. s = t
    BY <1>1, <2>1, <2>2, SeqEqual
  <2> QED BY <1>2, <1>3, <1>4, <2>3 DEF t
<1>5. CASE i < j
  <2> HIDE DEF n
  <2>1. MovedTo(closed, h, j, n, i)
    <3>1. /\ j <= n /\ i + (n - j) <= N /\ i < j /\ i + (n - j) \in Nat /\ i + (n - j) <= n
      BY <1>1, <1>5 DEF n
    <3>2. /\ \A k \in j .. n - 1 : k \in Slots /\ k < n
          /\ \A k \in i .. i + (n - j) - 1 : k \in Slots /\ k < n
      BY <1>1, <3>1
    <3>3. ReadyIn(Elem, h, j, n) /\ ReadyIn(Elem, h, i, i + (n - j))
      BY <1>1, <3>2 DEF ReadyIn
    <3> QED BY <1>1, <3>1, <3>3, MovesAre
  <2> HIDE DEF closed
  <2>2. ASSUME NEW k \in Slots
        PROVE  /\ k < Len(t) => closed[k] = t[k + 1]
               /\ k >= Len(t) /\ k < n => closed[k] \in Elem
               /\ k >= Len(t) /\ k >= n => closed[k] = Raw
    <3> DEFINE l == k - i + j
    <3>1. closed[k] = IF k >= i /\ k < i + (n - j) THEN h[l]
                      ELSE IF k >= j /\ k < n THEN Moved ELSE h[k]
      BY <2>1 DEF MovedTo
    <3>2. k \in Nat /\ k < N /\ Len(t) = i + (n - j) /\ j <= n
      BY <1>1, <1>2, <1>5 DEF n
    <3>3. CASE k < i
      <4>1. closed[k] = h[k] /\ k < n /\ k < Len(t)
        BY <1>1, <1>5, <3>1, <3>2, <3>3
      <4> QED BY <1>1, <1>2, <3>2, <3>3, <4>1
    <3>4. CASE k >= i /\ k < i + (n - j)
      <4>1. l = k + (j - i) /\ l \in Slots /\ l < n /\ l + 1 = k + (j - i) + 1
        BY <1>1, <1>5, <3>2, <3>4
      <4>2. closed[k] = h[l]
        BY <3>1, <3>4
      <4> HIDE DEF l
      <4>3. h[l] = s[k + (j - i) + 1]
        BY <1>1, <4>1
      <4> QED BY <1>1, <1>2, <3>2, <3>4, <4>2, <4>3
    <3>5. CASE k >= i + (n - j)
      <4>1. closed[k] = IF k >= j /\ k < n THEN Moved ELSE h[k]
        BY <1>1, <3>1, <3>2, <3>5
      <4> QED BY <1>1, <3>2, <3>5, <4>1, Constants
    <3> QED BY <1>1, <3>2, <3>3, <3>4, <3>5
  <2>3. Holds(Destroy(closed, Len(t), n), t)
    BY <1>1, <1>2, <2>2, TrimmedIs
  <2>4. i + (n - j) = Len(t) /\ n - (j - i) = Len(t)
    BY <1>1, <1>2
  <2>5. Holds(c, t)
    BY <2>3, <2>4
  <2> HIDE DEF c
  <2>6. [cells |-> c, size |-> n - (j - i)] = Held(t)
    BY <1>2, <2>4, <2>5, HoldsIs
  <2> QED BY <1>2, <1>3, <1>5, <2>6 DEF t
<1> QED
  BY <1>4, <1>5

\* eraseIf: remove_if moves what is kept to the front, erase() takes the rest.
LEMMA ErasedIfIs ==
  ASSUME NEW s \in Lists, NEW removed
  PROVE  LET t == BV!Without(s, removed)
         IN /\ t \in Lists /\ Len(t) <= Len(s)
            /\ ErasedIf(Held(s), removed) = Result(Held(t), "None", Len(s) - Len(t))
<1> DEFINE h == Held(s).cells
           n == Len(s)
           t == Without(s, removed)
           m == Len(t)
           left == CopyTo(MovedFrom(h, 0, n), 0, t)
           b == [cells |-> left, size |-> n]
           closed == MoveForward(left, n, n, m)
           c == Destroy(closed, m + (n - n), n)
<1>1. /\ n \in Nat /\ n <= N /\ N \in Nat /\ s \in Seq(Elem)
      /\ \A k \in Slots : k \in Nat /\ k < N
      /\ \A k \in Nat : k < N => k \in Slots
      /\ \A k \in Slots : k < n => h[k] = s[k + 1] /\ h[k] \in Elem
      /\ \A k \in Slots : k >= n => h[k] = Raw
  BY HeldShape
<1>2. BV!Without(s, removed) = t /\ t \in Seq(Elem) /\ m \in Nat /\ m <= n
  <2>1. t \in Seq(Elem) /\ m \in 0 .. n /\ BV!Without(s, removed) = t
    BY <1>1, WithoutIs
  <2> HIDE DEF t
  <2> QED BY <1>1, <2>1
<1>3. t \in Lists
  BY <1>1, <1>2 DEF Lists
<1>4. ErasedIf(Held(s), removed) =
        Result((IF m = n THEN b ELSE [cells |-> c, size |-> n - (n - m)]), "None", n - m)
  <2>1. Items(h, 0, n) = s
    BY HeldContents, HeldIs DEF Contents
  <2>2. RemoveIf(h, n, removed) = [end |-> m, cells |-> left]
    BY <2>1 DEF RemoveIf
  <2>3. [Held(s) EXCEPT !.cells = left] = b
    BY HeldContents
  <2> HIDE DEF left, t, h, n
  <2>4. RemoveIf(h, n, removed).end = m /\ RemoveIf(h, n, removed).cells = left
    BY <2>2
  <2>5. Held(s).size = n /\ Held(s).cells = h
    BY HeldIs DEF h, n
  <2>6. ErasedIf(Held(s), removed) = Result(Erased(b, m, n).array, "None", n - m)
    BY <2>3, <2>4, <2>5 DEF ErasedIf
  <2>7. b.cells = left /\ b.size = n
    OBVIOUS
  <2>8. Erased(b, m, n) = Result((IF m = n THEN b ELSE [cells |-> c, size |-> n - (n - m)]),
                                 "None", m)
    BY <2>7 DEF Erased
  <2> QED BY <2>6, <2>8, Outcomes
<1> HIDE DEF t, h, n
<1>5. ASSUME NEW k \in Slots
      PROVE  /\ k < m => left[k] = t[k + 1]
             /\ k >= m /\ k < n => left[k] \in Elem
             /\ k >= m /\ k >= n => left[k] = Raw
  <2> DEFINE moved == MovedFrom(h, 0, n)
  <2>1. LeftMoved(moved, h, 0, n)
    <3>1. \A l \in 0 .. n - 1 : l \in Slots /\ l < n
      BY <1>1
    <3>2. ReadyIn(Elem, h, 0, n)
      BY <1>1, <3>1 DEF ReadyIn
    <3> QED BY <1>1, <3>2, MovedFromIs
  <2>2. left = CopyTo(moved, 0, t)
    OBVIOUS
  <2> HIDE DEF moved, left
  <2>3. \A l \in Slots : moved[l] = IF l >= 0 /\ l < n THEN Moved ELSE h[l]
    BY <2>1 DEF LeftMoved
  <2>4. \A l \in Slots : l < n => moved[l] \in Elem
    BY <1>1, <2>3, Constants
  <2>5. left[k] = IF k < m THEN t[k + 1] ELSE moved[k]
    <3>1. n \in Nat /\ n <= N /\ t \in Seq(Elem) /\ Len(t) <= n
      BY <1>1, <1>2
    <3>2. CopyTo(moved, 0, t)[k] = IF k < Len(t) THEN t[k + 1] ELSE moved[k]
      BY ONLY <2>4, <3>1, k \in Slots, CopiedIs
    <3> QED BY <2>2, <3>2
  <2> QED BY <1>1, <2>3, <2>4, <2>5
<1> HIDE DEF left
<1>6. CASE m = n
  <2>1. Holds(left, t)
    <3>1. CellsAre(left)
      BY DEF left, CopyTo, Put, CellsAre
    <3>2. ASSUME NEW k \in Slots
          PROVE  left[k] = IF k < m THEN t[k + 1] ELSE Raw
      BY <1>1, <1>5, <1>6
    <3> QED BY <3>1, <3>2 DEF Holds
  <2>2. b = Held(t)
    BY <1>3, <1>6, <2>1, HoldsIs
  <2> HIDE DEF b
  <2> QED BY <1>2, <1>3, <1>4, <1>6, <2>2 DEF n
<1>7. CASE m < n
  <2>1. MovedTo(closed, left, n, n, m)
    <3>1. /\ m + (n - n) = m /\ m <= N /\ n <= n /\ m \in Nat /\ m < n
          /\ \A k \in n .. n - 1 : FALSE
          /\ \A k \in m .. m - 1 : FALSE
      BY <1>1, <1>2, <1>7
    <3>2. ReadyIn(Elem, left, n, n) /\ ReadyIn(Elem, left, m, m + (n - n))
      BY <3>1 DEF ReadyIn
    <3> HIDE DEF m
    <3> QED BY <1>1, <3>1, <3>2, MovesAre
  <2> HIDE DEF closed
  <2>2. \A k \in Slots : closed[k] = left[k]
    <3> SUFFICES ASSUME NEW k \in Slots
                 PROVE  closed[k] = left[k]
      OBVIOUS
    <3>1. closed[k] = IF k >= m /\ k < m + (n - n) THEN left[k - m + n]
                      ELSE IF k >= n /\ k < n THEN Moved ELSE left[k]
      BY <2>1 DEF MovedTo
    <3>2. k \in Nat /\ n \in Nat /\ m \in Nat
      BY <1>1, <1>2
    <3> HIDE DEF m
    <3>3. ~(k >= m /\ k < m + (n - n)) /\ ~(k >= n /\ k < n)
      BY ONLY <3>2
    <3> QED BY ONLY <3>1, <3>3
  <2>3. Holds(Destroy(closed, Len(t), n), t)
    <3>1. /\ \A k \in Slots : k < Len(t) => closed[k] = t[k + 1]
          /\ \A k \in Slots : k >= Len(t) /\ k < n => closed[k] \in Elem
          /\ \A k \in Slots : k >= Len(t) /\ k >= n => closed[k] = Raw
      BY <1>5, <2>2
    <3> QED BY ONLY <1>1, <1>3, <3>1, TrimmedIs
  <2>4. m + (n - n) = Len(t) /\ n - (n - m) = Len(t)
    BY <1>1, <1>2
  <2>5. Holds(c, t)
    BY <2>3, <2>4
  <2> HIDE DEF c
  <2>6. [cells |-> c, size |-> n - (n - m)] = Held(t)
    BY <1>3, <2>4, <2>5, HoldsIs
  <2> QED BY <1>2, <1>3, <1>4, <1>7, <2>6 DEF n
<1> QED
  BY <1>1, <1>2, <1>6, <1>7

\* What swap() leaves in the storage of an array that contained s.
LEMMA ExchangedIs ==
  ASSUME NEW s \in Lists, NEW t \in Lists
  PROVE  LET common == Least(Len(s), Len(t))
             copied == CopyTo(Held(s).cells, 0, Items(Held(t).cells, 0, common))
             grown == UninitCopy(copied, common, Items(Held(t).cells, common, Len(t)))
         IN Holds(Shortened(grown, Len(t), Len(s)), t)
<1> DEFINE h == Held(s).cells
           g == Held(t).cells
           n == Len(s)
           m == Len(t)
           common == Least(n, m)
           p == Items(g, 0, common)
           q == Items(g, common, m)
           copied == CopyTo(h, 0, p)
           grown == UninitCopy(copied, common, q)
           moved == MovedFrom(grown, m, n)
<1>1. /\ n \in Nat /\ n <= N /\ N \in Nat
      /\ \A k \in Slots : k \in Nat /\ k < N
      /\ \A k \in Nat : k < N => k \in Slots
      /\ \A k \in Slots : k < n => h[k] = s[k + 1] /\ h[k] \in Elem
      /\ \A k \in Slots : k >= n => h[k] = Raw
  BY HeldShape
<1>2. /\ m \in Nat /\ m <= N
      /\ \A k \in Slots : k < m => g[k] = t[k + 1] /\ g[k] \in Elem
  BY HeldShape
<1>3. common \in Nat /\ ((common = n /\ n <= m) \/ (common = m /\ m < n))
  BY <1>1, <1>2 DEF Least
<1> HIDE DEF h, g, n, m, common
<1>4. Listed(p, g, 0, common) /\ Listed(q, g, common, m)
  <2>1. /\ \A k \in 0 .. common - 1 : k \in Slots /\ k < m
        /\ \A k \in common .. m - 1 : k \in Slots /\ k < m
    BY <1>1, <1>2, <1>3
  <2>2. ReadyIn(Elem, g, 0, common) /\ ReadyIn(Elem, g, common, m)
    BY <1>2, <2>1 DEF ReadyIn
  <2>3. 0 <= common /\ common <= m
    BY <1>1, <1>2, <1>3
  <2> QED BY <1>2, <1>3, <2>2, <2>3, ItemsIs
<1> HIDE DEF p, q
<1>5. /\ p \in Seq(Elem) /\ Len(p) = common
      /\ \A k \in Slots : k < common => p[k + 1] = t[k + 1]
  <2>1. p \in Seq(Elem) /\ Len(p) = common
    BY <1>3, <1>4 DEF Listed
  <2>2. ASSUME NEW k \in Slots, k < common
        PROVE  p[k + 1] = t[k + 1]
    <3> DEFINE j == k + 1
    <3>1. j \in 1 .. common - 0 /\ 0 + j - 1 = k /\ k < m
      BY <1>1, <1>2, <1>3, <2>2
    <3> HIDE DEF j
    <3>2. p[j] = g[0 + j - 1]
      BY <1>4, <3>1 DEF Listed
    <3>3. p[j] = g[k]
      BY <3>1, <3>2
    <3> QED BY <1>2, <3>1, <3>3 DEF j
  <2> QED BY <2>1, <2>2
<1>6. /\ q \in Seq(Elem) /\ Len(q) = m - common
      /\ \A k \in 1 .. m - common : q[k] = t[k + common]
  <2>1. q \in Seq(Elem) /\ Len(q) = m - common
    BY <1>4 DEF Listed
  <2>2. ASSUME NEW k \in 1 .. m - common
        PROVE  q[k] = t[k + common]
    <3> DEFINE j == common + k - 1
    <3>1. j \in Slots /\ j < m /\ j + 1 = k + common
      BY <1>1, <1>2, <1>3
    <3>2. q[k] = g[j]
      BY <1>4 DEF Listed
    <3> HIDE DEF j
    <3>3. g[j] = t[j + 1]
      BY <1>2, <3>1
    <3> QED BY <3>1, <3>2, <3>3
  <2> QED BY <2>1, <2>2
<1>7. \A k \in Slots : copied[k] = IF k < common THEN t[k + 1] ELSE h[k]
  <2>1. Len(p) <= n /\ \A k \in Slots : k < n => h[k] \in Elem
    BY <1>1, <1>2, <1>3, <1>5
  <2>2. ASSUME NEW k \in Slots
        PROVE  copied[k] = IF k < Len(p) THEN p[k + 1] ELSE h[k]
    <3>1. p \in Seq(Elem) /\ n \in Nat /\ n <= N
      BY <1>1, <1>5
    <3> QED BY ONLY <2>1, <3>1, CopiedIs
  <2> HIDE DEF copied
  <2> QED BY <1>5, <2>2
<1> HIDE DEF copied
<1>8. Written(grown, copied, common, q)
  <2>1. ASSUME NEW k \in common .. m - 1
        PROVE  copied[k] \in {Raw}
    <3>1. k \in Slots /\ ~(k < common) /\ k >= n
      BY <1>1, <1>2, <1>3
    <3> QED BY <1>1, <1>7, <3>1
  <2>2. common + Len(q) = m /\ m <= N
    BY <1>2, <1>3, <1>6
  <2> HIDE DEF grown
  <2>3. ReadyIn({Raw}, copied, common, m)
    BY ONLY <2>1 DEF ReadyIn
  <2>4. ReadyIn({Raw}, copied, common, common + Len(q))
    BY ONLY <2>2, <2>3
  <2> USE DEF grown
  <2> QED BY <1>3, <1>6, <2>2, <2>4, UninitCopyIs
<1> HIDE DEF grown
<1>9. ASSUME NEW k \in Slots
      PROVE  /\ k < m => grown[k] = t[k + 1]
             /\ k >= m => grown[k] = h[k]
  <2>1. grown[k] = IF k < common \/ k >= common + Len(q) THEN copied[k]
                   ELSE q[k - common + 1]
    BY <1>8 DEF Written
  <2>2. k \in Nat /\ common + Len(q) = m
    BY <1>1, <1>2, <1>3, <1>6
  <2>3. CASE k < common
    BY <1>1, <1>2, <1>3, <1>7, <2>1, <2>2, <2>3
  <2>4. CASE k >= common /\ k < m
    <3> DEFINE j == k - common + 1
    <3>1. j \in 1 .. m - common /\ j + common = k + 1
      BY <1>1, <1>2, <1>3, <2>2, <2>4
    <3>2. grown[k] = q[j]
      BY <1>2, <1>3, <2>1, <2>2, <2>4
    <3> HIDE DEF j
    <3>3. q[j] = t[k + 1]
      BY <1>6, <3>1
    <3> QED BY <1>2, <2>2, <2>4, <3>2, <3>3
  <2>5. CASE k >= m
    <3>1. ~(k < common)
      BY <1>1, <1>2, <1>3, <2>2, <2>5
    <3> QED BY <1>2, <1>7, <2>1, <2>2, <2>5, <3>1
  <2> QED BY <1>2, <1>3, <2>2, <2>3, <2>4, <2>5
<1>10. LeftMoved(moved, grown, m, n)
  <2>1. ASSUME NEW k \in m .. n - 1
        PROVE  grown[k] \in Elem
    <3>1. k \in Slots /\ k >= m /\ k < n
      BY <1>1, <1>2
    <3> QED BY <1>1, <1>9, <3>1
  <2> QED BY <1>1, <1>2, <2>1, MovedFromIs DEF ReadyIn
<1> HIDE DEF moved
<1>11. ASSUME NEW k \in Slots
       PROVE  /\ k < m => moved[k] = t[k + 1]
              /\ k >= m /\ k < n => moved[k] \in Elem
              /\ k >= m /\ k >= n => moved[k] = Raw
  <2>1. moved[k] = IF k >= m /\ k < n THEN Moved ELSE grown[k]
    BY <1>10 DEF LeftMoved
  <2> QED BY <1>1, <1>2, <1>9, <2>1, Constants
<1>12. Holds(Destroy(moved, m, n), t)
  BY <1>1, <1>2, <1>11, TrimmedIs DEF m
<1> QED
  BY <1>12 DEF Shortened, moved, grown, copied, p, q, common, g, h, m, n
\* Both arrays that swap() leaves.
LEMMA SwappedIs ==
  ASSUME NEW s \in Lists, NEW t \in Lists
  PROVE  Swapped(Held(s), Held(t)) = <<Held(t), Held(s)>>
<1> DEFINE both == Swapped(Held(s), Held(t))
<1>1. /\ Len(s) \in Nat /\ Len(t) \in Nat
      /\ Held(s).size = Len(s) /\ Held(t).size = Len(t)
  BY HeldIs
<1>2. Least(Len(s), Len(t)) = Least(Len(t), Len(s))
  BY <1>1 DEF Least
<1>3. both[1] = Held(t)
  <2> DEFINE common == Least(Len(s), Len(t))
             copied == CopyTo(Held(s).cells, 0, Items(Held(t).cells, 0, common))
             grown == UninitCopy(copied, common, Items(Held(t).cells, common, Len(t)))
             c == Shortened(grown, Len(t), Len(s))
  <2>1. Holds(c, t)
    BY ExchangedIs
  <2>2. both[1] = [cells |-> c, size |-> Len(t)]
    BY <1>1 DEF Swapped
  <2> HIDE DEF c
  <2> QED BY <2>1, <2>2, HoldsIs
<1>4. both[2] = Held(s)
  <2> DEFINE common == Least(Len(t), Len(s))
             copied == CopyTo(Held(t).cells, 0, Items(Held(s).cells, 0, common))
             grown == UninitCopy(copied, common, Items(Held(s).cells, common, Len(s)))
             c == Shortened(grown, Len(s), Len(t))
  <2>1. Holds(c, s)
    BY ExchangedIs
  <2>2. both[2] = [cells |-> c, size |-> Len(s)]
    BY <1>1, <1>2 DEF Swapped
  <2> HIDE DEF c
  <2> QED BY <2>1, <2>2, HoldsIs
<1>5. both = <<both[1], both[2]>>
  BY DEF Swapped
<1> HIDE DEF both
<1> QED
  BY <1>3, <1>4, <1>5 DEF both

-----------------------------------------------------------------------------
(* The types of the state.                                                 *)

LEMMA BoundedSeqs ==
  ASSUME NEW S, NEW n \in Nat
  PROVE  \A s \in BoundedSeq(S, n) : s \in Seq(S) /\ Len(s) <= n
<1>1. BoundedSeq(S, n) = UNION {[1 .. m -> S] : m \in 0 .. n}
  BY DEF BoundedSeq, SeqOf
<1> SUFFICES ASSUME NEW s \in BoundedSeq(S, n)
             PROVE  s \in Seq(S) /\ Len(s) <= n
  OBVIOUS
<1>2. PICK m \in 0 .. n : s \in [1 .. m -> S]
  BY <1>1
<1>3. m \in Nat /\ m <= n
  OBVIOUS
<1>4. s \in Seq(S) /\ Len(s) = m
  BY <1>2, <1>3, SeqDef
<1> QED
  BY <1>3, <1>4

LEMMA SpansAre ==
  \A s \in Spans : s \in Seq(Elem) /\ Len(s) \in Nat /\ Len(s) <= MaxSpan
<1> SUFFICES ASSUME NEW s \in Spans
             PROVE  s \in Seq(Elem) /\ Len(s) \in Nat /\ Len(s) <= MaxSpan
  OBVIOUS
<1>1. MaxSpan \in Nat
  BY UseAssumption
<1>2. s \in Seq(Type) /\ Len(s) <= MaxSpan
  BY <1>1, BoundedSeqs DEF Spans
<1>3. s \in Seq(Elem)
  BY <1>2, Constants, SeqMonotonic
<1> QED
  BY <1>2, <1>3

LEMMA TypeIs ==
  ASSUME NEW a, NEW r
  PROVE  (/\ a \in [Arrays -> [cells : [Slots -> Elem \cup {Raw, Broken}], size : 0 .. N]]
          /\ r \in [code : {"None", "Success", "Full", "InvalidArgument"}, at : -1 .. N])
         <=> /\ a = [x \in Arrays |-> a[x]] /\ \A x \in Arrays : Typed(a[x])
             /\ r = [code |-> r.code, at |-> r.at] /\ r.code \in Codes /\ r.at \in -1 .. N
<1> DEFINE A == [cells : Storage, size : 0 .. N]
<1>1. A = [cells : [Slots -> Elem \cup {Raw, Broken}], size : 0 .. N]
  BY DEF Storage, Cell
<1>2. \A x : Typed(x) <=> x \in A
  BY DEF Typed
<1> HIDE DEF A
<1>3. a \in [Arrays -> A] <=> a = [x \in Arrays |-> a[x]] /\ \A x \in Arrays : a[x] \in A
  OBVIOUS
<1>4. r \in [code : Codes, at : -1 .. N]
        <=> r = [code |-> r.code, at |-> r.at] /\ r.code \in Codes /\ r.at \in -1 .. N
  OBVIOUS
<1> QED
  BY <1>1, <1>2, <1>3, <1>4 DEF Codes

LEMMA DoesTyped ==
  ASSUME TypeOK, NEW x \in Arrays, NEW c, c.on = x, NEW r, Fine(r), Does(c, r)
  PROVE  TypeOK'
<1>1. /\ array = [z \in Arrays |-> array[z]] /\ \A z \in Arrays : Typed(array[z])
  BY TypeIs DEF TypeOK
<1>2. array' = [array EXCEPT ![x] = r.array] /\ ret' = [code |-> r.code, at |-> r.at]
  BY DEF Does
<1>3. /\ array' = [z \in Arrays |-> array'[z]]
      /\ \A z \in Arrays : array'[z] = IF z = x THEN r.array ELSE array[z]
  BY <1>1, <1>2
<1>4. \A z \in Arrays : Typed(array'[z])
  BY <1>1, <1>3 DEF Fine
<1>5. /\ ret' = [code |-> ret'.code, at |-> ret'.at]
      /\ ret'.code \in Codes /\ ret'.at \in -1 .. N
  BY <1>2 DEF Fine
<1> QED
  BY <1>3, <1>4, <1>5, TypeIs DEF TypeOK

LEMMA DoesBothTyped ==
  ASSUME TypeOK, NEW op, NEW x \in Arrays, NEW y \in Arrays, NEW a, Typed(a),
         NEW b, Typed(b), DoesBoth(op, x, a, y, b)
  PROVE  TypeOK'
<1>1. /\ array = [z \in Arrays |-> array[z]] /\ \A z \in Arrays : Typed(array[z])
  BY TypeIs DEF TypeOK
<1>2. /\ array' = [array EXCEPT ![x] = a, ![y] = b]
      /\ ret' = [code |-> "None", at |-> None]
  BY DEF DoesBoth
<1>3. /\ array' = [z \in Arrays |-> array'[z]]
      /\ \A z \in Arrays : array'[z] = IF z = y THEN b ELSE IF z = x THEN a ELSE array[z]
  BY <1>1, <1>2
<1>4. \A z \in Arrays : Typed(array'[z])
  BY <1>1, <1>3
<1>5. /\ ret' = [code |-> ret'.code, at |-> ret'.at]
      /\ ret'.code \in Codes /\ ret'.at \in -1 .. N
  BY <1>2, Constants DEF Codes, None
<1> QED
  BY <1>3, <1>4, <1>5, TypeIs DEF TypeOK
LEMMA FirstMethodsTyped ==
  ASSUME TypeOK, NEW x \in Arrays,
         Ask(x) \/ Assign(x) \/ Resize(x) \/ PushOne(x) \/ AppendSpan(x)
  PROVE  TypeOK'
<1>1. Typed(array[x])
  BY TypeIs DEF TypeOK
<1>2. N \in Nat
  BY Constants
<1>3. CASE Ask(x)
  <2>1. CASE \E n \in 0 .. N + 1 :
               Does([op |-> "reserve", on |-> x, count |-> n], Reserve(array[x], n))
    <3>1. PICK n \in 0 .. N + 1 :
            Does([op |-> "reserve", on |-> x, count |-> n], Reserve(array[x], n))
      BY <2>1
    <3>2. Fine(Reserve(array[x], n))
      <4> DEFINE code == IF n > N THEN "InvalidArgument" ELSE "Success"
      <4>1. code \in Codes
        BY DEF Codes
      <4> HIDE DEF code
      <4>2. Fine(Refused(array[x], code))
        BY <1>1, <1>2, <4>1, FineResult
      <4> QED BY <4>2 DEF Reserve, code
    <3> QED BY <3>1, <3>2, DoesTyped
  <2>2. CASE \E i \in 0 .. N : Does([op |-> "at", on |-> x, at |-> i],
                                    Result(array[x], "None", At(array[x], i)))
    <3>1. PICK i \in 0 .. N : Does([op |-> "at", on |-> x, at |-> i],
                                   Result(array[x], "None", At(array[x], i)))
      BY <2>2
    <3>2. At(array[x], i) \in -1 .. N /\ "None" \in Codes
      BY <1>2 DEF At, None, Codes
    <3>3. Fine(Result(array[x], "None", At(array[x], i)))
      BY <1>1, <3>2, FineResult
    <3> QED BY <3>1, <3>3, DoesTyped
  <2> QED BY <1>3, <2>1, <2>2 DEF Ask
<1>4. CASE Assign(x)
  <2>1. CASE \E s \in Spans :
               Does([op |-> "assign", on |-> x, items |-> s], AssignRange(array[x], s))
    BY <1>1, <2>1, SpansAre, AssignedFine, DoesTyped
  <2>2. CASE \E n \in 0 .. N + 1, item \in Type :
               LET s == Repeat(item, n)
               IN \E r \in {AssignFilled(array[x], n, item), AssignRange(array[x], s)} :
                    Does([op |-> "assign", on |-> x, items |-> s], r)
    <3>1. PICK n \in 0 .. N + 1, item \in Type :
            \E r \in {AssignFilled(array[x], n, item), AssignRange(array[x], Repeat(item, n))} :
              Does([op |-> "assign", on |-> x, items |-> Repeat(item, n)], r)
      BY <2>2
    <3>2. n \in Nat /\ Len(Repeat(item, n)) \in Nat
      BY <1>2, RepeatIs
    <3>3. /\ Fine(AssignFilled(array[x], n, item))
          /\ Fine(AssignRange(array[x], Repeat(item, n)))
      BY <1>1, <3>2, AssignedFine
    <3> QED BY <3>1, <3>3, DoesTyped
  <2> QED BY <1>4, <2>1, <2>2 DEF Assign
<1>5. CASE Resize(x)
  <2>1. PICK n \in 0 .. N + 1, item \in Type :
          Does([op |-> "resize", on |-> x, count |-> n, item |-> item],
               Resized(array[x], n, item))
    BY <1>5 DEF Resize
  <2>2. Fine(Resized(array[x], n, item))
    BY <1>1, <1>2, ResizedFine
  <2> QED BY <2>1, <2>2, DoesTyped
<1>6. CASE PushOne(x)
  <2>1. PICK item \in Type, op \in {"pushBack", "tryPushBack"} :
          LET c == [op |-> op, on |-> x, item |-> item]
          IN \/ Does(c, PushBack(array[x], item))
             \/ Does(c, TryPushBack(array[x], item))
             \/ ~IsFull(array[x]) /\ Does(c, UncheckedPushBack(array[x], item))
    BY <1>6 DEF PushOne
  <2>2. /\ ~IsFull(array[x]) => Fine(UncheckedPushBack(array[x], item))
        /\ Fine(PushBack(array[x], item)) /\ Fine(TryPushBack(array[x], item))
    BY <1>1, PushedFine
  <2> QED BY <2>1, <2>2, DoesTyped
<1>7. CASE AppendSpan(x)
  <2>1. PICK s \in Spans :
          LET c == [op |-> "appendRange", on |-> x, items |-> s]
          IN Does(c, AppendRange(array[x], s)) \/ Does(c, TryAppendRange(array[x], s))
    BY <1>7 DEF AppendSpan
  <2>2. Fine(AppendRange(array[x], s)) /\ Fine(TryAppendRange(array[x], s))
    BY <1>1, SpansAre, AppendedFine
  <2> QED BY <2>1, <2>2, DoesTyped
<1> QED
  BY <1>3, <1>4, <1>5, <1>6, <1>7

LEMMA OtherMethodsTyped ==
  ASSUME TypeOK, NEW x \in Arrays,
         \/ Insert(x) \/ PopBack(x) \/ Erase(x) \/ EraseIf(x)
         \/ Clear(x) \/ ConstructList(x)
  PROVE  TypeOK'
<1>1. /\ Typed(array[x]) /\ array[x].cells \in Storage
      /\ array[x].size \in 0 .. N /\ array[x].size \in Nat
  BY TypeIs, ArrayIs DEF TypeOK
<1>2. N \in Nat
  BY Constants
<1>3. CASE Insert(x)
  <2>1. PICK i \in 0 .. array[x].size :
          LET c(op, items) == [op |-> op, on |-> x, at |-> i, items |-> items]
          IN \/ \E item \in Type :
                  \/ Does(c("insert", <<item>>), Emplace(array[x], i, item))
                  \/ Does(c("tryInsert", <<item>>), TryEmplace(array[x], i, item))
                  \/ \E n \in Counts :
                       Does(c("insert", Repeat(item, n)),
                            InsertFilled(array[x], i, n, item))
             \/ \E s \in Spans : Does(c("insert", s), InsertRange(array[x], i, s))
    BY <1>3 DEF Insert
  <2>2. CASE \E item \in Type :
               \/ Does([op |-> "insert", on |-> x, at |-> i, items |-> <<item>>],
                       Emplace(array[x], i, item))
               \/ Does([op |-> "tryInsert", on |-> x, at |-> i, items |-> <<item>>],
                       TryEmplace(array[x], i, item))
    BY <1>1, <2>2, EmplacedFine, DoesTyped
  <2>3. CASE \E item \in Type, n \in Counts :
               Does([op |-> "insert", on |-> x, at |-> i, items |-> Repeat(item, n)],
                    InsertFilled(array[x], i, n, item))
    <3>1. PICK item \in Type, n \in Counts :
            Does([op |-> "insert", on |-> x, at |-> i, items |-> Repeat(item, n)],
                 InsertFilled(array[x], i, n, item))
      BY <2>3
    <3>2. n \in Nat
      BY Constants, UseAssumption
    <3>3. Len(Repeat(item, n)) \in Nat
      BY <3>2, RepeatIs
    <3>4. Fine(InsertFilled(array[x], i, n, item))
      BY <1>1, <3>3, InsertedFine DEF InsertFilled
    <3> QED BY <3>1, <3>4, DoesTyped
  <2>4. CASE \E s \in Spans :
               Does([op |-> "insert", on |-> x, at |-> i, items |-> s],
                    InsertRange(array[x], i, s))
    BY <1>1, <2>4, SpansAre, InsertedFine, DoesTyped
  <2> QED BY <2>1, <2>2, <2>3, <2>4
<1>4. CASE PopBack(x)
  <2>1. Fine(Refused(PoppedBack(array[x]), "None"))
    BY <1>1, <1>2, PoppedBackTyped, FineResult DEF Codes
  <2> QED BY <1>4, <2>1, DoesTyped DEF PopBack
<1>5. CASE Erase(x)
  <2>1. PICK j \in 0 .. array[x].size : \E i \in 0 .. j :
          Does([op |-> "erase", on |-> x, at |-> i, until |-> j], Erased(array[x], i, j))
    BY <1>5 DEF Erase
  <2> PICK i \in 0 .. j :
        Does([op |-> "erase", on |-> x, at |-> i, until |-> j], Erased(array[x], i, j))
    BY <2>1
  <2>2. Fine(Erased(array[x], i, j))
    <3>1. i \in Nat /\ j \in Nat /\ i <= j /\ j <= array[x].size
      BY <1>1
    <3> QED BY <1>1, <3>1, ErasedFine
  <2> QED BY <2>2, DoesTyped
<1>6. CASE EraseIf(x)
  <2>1. PICK removed \in SUBSET Type :
          Does([op |-> "eraseIf", on |-> x, removed |-> removed],
               ErasedIf(array[x], removed))
    BY <1>6 DEF EraseIf
  <2> DEFINE s == Contents(array[x])
  <2>2. s \in Seq(Cell) /\ Len(s) = array[x].size
    <3> DEFINE n == array[x].size
               cells == array[x].cells
    <3>1. s = [k \in 1 .. n |-> cells[k - 1]]
      BY <1>1 DEF Contents, Items
    <3>2. \A k \in 1 .. n : cells[k - 1] \in Cell
      BY <1>1, Constants DEF Storage
    <3> HIDE DEF s, cells
    <3>3. s \in [1 .. n -> Cell]
      BY <3>1, <3>2
    <3> QED BY <1>1, <3>3, SeqDef
  <2> HIDE DEF s
  <2>3. Len(Without(s, removed)) \in 0 .. array[x].size
    BY <2>2, WithoutIs
  <2>4. Fine(ErasedIf(array[x], removed))
    BY <1>1, <2>3, ErasedIfFine DEF s
  <2> QED BY <2>1, <2>4, DoesTyped
<1>7. CASE Clear(x)
  <2>1. Fine(Refused(Cleared(array[x]), "None"))
    BY <1>1, <1>2, ClearedTyped, FineResult DEF Codes
  <2> QED BY <1>7, <2>1, DoesTyped DEF Clear
<1>8. CASE ConstructList(x)
  <2>1. PICK s \in Spans :
          /\ Len(s) <= N
          /\ Does([op |-> "assign", on |-> x, items |-> s],
                  Refused(Constructed(Cleared(array[x]).cells, s), "Success"))
    BY <1>8 DEF ConstructList
  <2>2. Len(s) \in 0 .. N /\ Cleared(array[x]).cells \in Storage
    BY <1>1, <1>2, <2>1, SpansAre, ClearedTyped, ArrayIs
  <2>3. Fine(Refused(Constructed(Cleared(array[x]).cells, s), "Success"))
    BY <1>2, <2>2, ConstructedTyped, FineResult DEF Codes
  <2> QED BY <2>1, <2>3, DoesTyped
<1> QED
  BY <1>3, <1>4, <1>5, <1>6, <1>7, <1>8

LEMMA PairsTyped ==
  ASSUME TypeOK, NEW x \in Arrays, NEW y \in Arrays,
         Construct(x, y) \/ AssignOther(x, y) \/ Swap(x, y)
  PROVE  TypeOK'
<1>1. Typed(array[x]) /\ Typed(array[y])
  BY TypeIs DEF TypeOK
<1>2. Typed(GivenUp(array[y])) /\ Len(Contents(array[y])) \in 0 .. N
  BY <1>1, GivenUpTyped, ContentsLength
<1>3. CASE Construct(x, y)
  <2>1. Cleared(array[x]).cells \in Storage
    BY <1>1, ClearedTyped, ArrayIs
  <2>2. Typed(Constructed(Cleared(array[x]).cells, Contents(array[y])))
    BY <1>2, <2>1, ConstructedTyped
  <2> QED BY <1>1, <1>2, <1>3, <2>2, DoesBothTyped DEF Construct
<1>4. CASE AssignOther(x, y)
  <2>1. Typed(Overwritten(array[x], Contents(array[y])))
    BY <1>1, <1>2, OverwrittenTyped
  <2> QED BY <1>1, <1>2, <1>4, <2>1, DoesBothTyped DEF AssignOther
<1>5. CASE Swap(x, y)
  BY <1>1, <1>5, SwappedTyped, DoesBothTyped DEF Swap
<1> QED
  BY <1>3, <1>4, <1>5

\* The storage of each array keeps its N cells and its size stays within the
\* capacity, whatever the calls and whatever insert()'s count argument: a count
\* that wraps may leave broken cells, but no size beyond N.
THEOREM TypeCorrect == Spec => []TypeOK
<1>1. Init => TypeOK
  <2> SUFFICES ASSUME Init
               PROVE  TypeOK
    OBVIOUS
  <2>1. Typed(NewArray)
    BY Constants DEF NewArray, Typed, Storage, Cell
  <2>2. array = [x \in Arrays |-> array[x]] /\ \A x \in Arrays : Typed(array[x])
    BY <2>1 DEF Init
  <2>3. /\ ret = [code |-> ret.code, at |-> ret.at]
        /\ ret.code \in Codes /\ ret.at \in -1 .. N
    BY Constants DEF Init, Codes, None
  <2> QED BY <2>2, <2>3, TypeIs DEF TypeOK
<1>2. ASSUME TypeOK, Next
      PROVE  TypeOK'
  BY <1>2, FirstMethodsTyped, OtherMethodsTyped, PairsTyped DEF Next
<1>3. ASSUME TypeOK, UNCHANGED vars
      PROVE  TypeOK'
  BY <1>3 DEF vars, TypeOK
<1> QED
  BY <1>1, <1>2, <1>3, PTL DEF Spec
-----------------------------------------------------------------------------
(* What the arrays contain.                                                *)

Vec == [x \in Arrays |-> Contents(array[x])]

\* The invariant: every array is the one that holds what it contains.  As
\* each call is an equation between such arrays, LiveExactly follows, which
\* alone says nothing of the function that the storage is.
IHeld ==
  /\ array = [x \in Arrays |-> array[x]]
  /\ \A x \in Arrays : Vec[x] \in Lists /\ array[x] = Held(Vec[x])

LEMMA DoesIs ==
  ASSUME IHeld, NEW x \in Arrays, NEW c, c.on = x, NEW t \in Lists, NEW code, NEW at,
         Does(c, Result(Held(t), code, at))
  PROVE  /\ IHeld' /\ call' = c
         /\ BV!Becomes(x, t) /\ BV!Returns(code, at)
         /\ t = Vec[x] => Vec' = Vec
         /\ t = Vec[x] /\ at = None => BV!Fails(code)
<1>1. /\ array' = [array EXCEPT ![x] = Held(t)]
      /\ call' = c /\ ret' = [code |-> code, at |-> at]
  <2> DEFINE r == Result(Held(t), code, at)
  <2>1. r.array = Held(t) /\ r.code = code /\ r.at = at
    BY Outcomes
  <2>2. Does(c, r)
    OBVIOUS
  <2> HIDE DEF r
  <2> QED BY <2>1, <2>2 DEF Does
<1>2. /\ array' = [z \in Arrays |-> array'[z]]
      /\ \A z \in Arrays : array'[z] = IF z = x THEN Held(t) ELSE array[z]
  BY <1>1 DEF IHeld
<1>3. \A z \in Arrays : Vec'[z] = Contents(array'[z])
  BY DEF Vec
<1>4. Contents(Held(t)) = t
  BY HeldContents
<1>5. Vec' = [z \in Arrays |-> Vec'[z]] /\ Vec = [z \in Arrays |-> Vec[z]]
  BY DEF Vec
<1>6. \A z \in Arrays : Vec'[z] = IF z = x THEN t ELSE Vec[z]
  BY <1>2, <1>3, <1>4 DEF Vec
<1>7. \A z \in Arrays : Vec'[z] \in Lists /\ array'[z] = Held(Vec'[z])
  BY <1>2, <1>6 DEF IHeld
<1>8. Vec' = [Vec EXCEPT ![x] = t]
  BY <1>5, <1>6
<1>9. t = Vec[x] => Vec' = Vec
  BY <1>5, <1>6
<1> QED
  BY <1>1, <1>2, <1>7, <1>8, <1>9 DEF IHeld, BV!Becomes, BV!Returns, BV!Fails, Vec, None, BV!None

LEMMA DoesBothIs ==
  ASSUME IHeld, NEW op, NEW x \in Arrays, NEW y \in Arrays, x # y,
         NEW s \in Lists, NEW t \in Lists, DoesBoth(op, x, Held(s), y, Held(t))
  PROVE  /\ IHeld' /\ call' = [op |-> op, on |-> x, from |-> y]
         /\ Vec' = [Vec EXCEPT ![x] = s, ![y] = t] /\ BV!Returns("None", BV!None)
         /\ t = Vec[y] => BV!Becomes(x, s)
<1>1. /\ array' = [array EXCEPT ![x] = Held(s), ![y] = Held(t)]
      /\ call' = [op |-> op, on |-> x, from |-> y]
      /\ ret' = [code |-> "None", at |-> None]
  BY DEF DoesBoth
<1>2. /\ array' = [z \in Arrays |-> array'[z]]
      /\ \A z \in Arrays :
           array'[z] = IF z = y THEN Held(t) ELSE IF z = x THEN Held(s) ELSE array[z]
  BY <1>1 DEF IHeld
<1>3. \A z \in Arrays : Vec'[z] = Contents(array'[z])
  BY DEF Vec
<1>4. Contents(Held(s)) = s /\ Contents(Held(t)) = t
  BY HeldContents
<1>5. Vec' = [z \in Arrays |-> Vec'[z]] /\ Vec = [z \in Arrays |-> Vec[z]]
  BY DEF Vec
<1>6. \A z \in Arrays : Vec'[z] = IF z = y THEN t ELSE IF z = x THEN s ELSE Vec[z]
  BY <1>2, <1>3, <1>4 DEF Vec
<1>7. \A z \in Arrays : Vec'[z] \in Lists /\ array'[z] = Held(Vec'[z])
  BY <1>2, <1>6 DEF IHeld
<1>8. Vec' = [Vec EXCEPT ![x] = s, ![y] = t]
  BY <1>5, <1>6
<1>9. t = Vec[y] => Vec' = [Vec EXCEPT ![x] = s]
  BY <1>5, <1>6
<1> QED
  BY <1>1, <1>2, <1>7, <1>8, <1>9 DEF IHeld, BV!Becomes, BV!Returns, Vec, None, BV!None

LEMMA Calling == BV!Next <=> BV!Does(call')
BY DEF BV!Next

\* Nothing in the place of nothing changes nothing.
LEMMA SplicedNothing ==
  ASSUME NEW s \in Lists, NEW i \in 0 .. Len(s)
  PROVE  BV!Spliced(s, i, i, <<>>) = s
<1> DEFINE t == BV!Spliced(s, i, i, <<>>)
<1>1. i \in Nat /\ Len(s) \in Nat /\ i <= Len(s)
  BY HeldIs
<1>2. t \in Lists /\ Erased(Held(s), i, i) = Result(Held(t), "None", i)
  BY <1>1, ErasedIs
<1> HIDE DEF t
<1>3. Erased(Held(s), i, i) = Result(Held(s), "None", i)
  BY DEF Erased
<1>4. Held(t) = Held(s)
  <2>1. Result(Held(t), "None", i).array = Result(Held(s), "None", i).array
    BY <1>2, <1>3
  <2> QED BY <2>1, Outcomes
<1>5. Contents(Held(t)) = t /\ Contents(Held(s)) = s
  BY <1>2, HeldContents
<1> QED
  BY <1>4, <1>5 DEF t

\* What a step does that puts items into an array, or refuses to.
LEMMA Putting ==
  ASSUME IHeld, NEW x \in Arrays, NEW i \in 0 .. Len(Vec[x]), NEW items \in Seq(Elem),
         NEW full, NEW done, NEW at
  PROVE  LET s == Vec[x]
             t == BV!Spliced(s, i, i, items)
         IN /\ BV!Fails(full) /\ Len(items) > 0 /\ Len(s) + Len(items) > N =>
                 BV!Put(x, i, items, full, done, at)
            /\ BV!Becomes(x, t) /\ BV!Returns(done, at) /\ Len(s) + Len(items) <= N =>
                 BV!Put(x, i, items, full, done, at)
            /\ BV!Becomes(x, s) /\ BV!Returns(done, at) /\ Len(items) = 0 =>
                 BV!Put(x, i, items, full, done, at)
<1> DEFINE s == Vec[x]
           t == BV!Spliced(s, i, i, items)
<1>1. s \in Lists /\ Len(s) \in Nat /\ Len(s) <= N /\ N \in Nat
  BY HeldIs, Constants DEF IHeld
<1>2. Len(items) \in Nat /\ (items = <<>> <=> Len(items) = 0)
  BY EmptySeq
<1>3. items = <<>> => t = s
  BY <1>1, SplicedNothing
<1>4. BV!Put(x, i, items, full, done, at) <=>
        IF items # <<>> /\ Len(s) + Len(items) > N THEN BV!Fails(full)
        ELSE BV!Becomes(x, t) /\ BV!Returns(done, at)
  BY DEF BV!Put, Vec
<1> HIDE DEF s, t
<1>5. /\ BV!Fails(full) /\ Len(items) > 0 /\ Len(s) + Len(items) > N =>
           BV!Put(x, i, items, full, done, at)
      /\ BV!Becomes(x, t) /\ BV!Returns(done, at) /\ Len(s) + Len(items) <= N =>
           BV!Put(x, i, items, full, done, at)
      /\ BV!Becomes(x, s) /\ BV!Returns(done, at) /\ Len(items) = 0 =>
           BV!Put(x, i, items, full, done, at)
  BY <1>1, <1>2, <1>3, <1>4
<1> QED
  BY <1>5 DEF s, t
\* What the arrays of a step hold, with the bounds that its lemmas ask for.
LEMMA BeforeStep ==
  ASSUME IHeld, NEW x \in Arrays
  PROVE  LET s == Vec[x]
         IN /\ s \in Lists /\ s \in Seq(Elem) /\ Len(s) \in Nat /\ Len(s) <= N
            /\ N \in Nat /\ array[x] = Held(s) /\ array[x].size = Len(s)
BY HeldIs, Constants DEF IHeld

LEMMA AskStep ==
  ASSUME IHeld, NEW x \in Arrays, Ask(x)
  PROVE  IHeld' /\ BV!Next
<1> DEFINE s == Vec[x]
<1>1. /\ s \in Lists /\ Len(s) \in Nat /\ Len(s) <= N
      /\ N \in Nat /\ array[x] = Held(s) /\ array[x].size = Len(s)
  BY BeforeStep
<1> HIDE DEF s
<1>2. CASE \E n \in 0 .. N + 1 :
             Does([op |-> "reserve", on |-> x, count |-> n], Reserve(array[x], n))
  <2>1. PICK n \in 0 .. N + 1 :
          Does([op |-> "reserve", on |-> x, count |-> n], Reserve(array[x], n))
    BY <1>2
  <2> DEFINE c == [op |-> "reserve", on |-> x, count |-> n]
             code == IF n > N THEN "InvalidArgument" ELSE "Success"
  <2>2. Does(c, Result(Held(s), code, None))
    BY <1>1, <2>1 DEF Reserve, Refused
  <2>3. c.op = "reserve" /\ c.on = x /\ c.count = n
    OBVIOUS
  <2> HIDE DEF c, code
  <2>4. IHeld' /\ call' = c /\ BV!Fails(code)
    BY <1>1, <2>2, <2>3, DoesIs DEF s
  <2>5. BV!Reserve(n)
    BY <2>4 DEF BV!Reserve, BV!Fails, code
  <2> QED BY <2>3, <2>4, <2>5, Calling DEF BV!Does
<1>3. CASE \E i \in 0 .. N : Does([op |-> "at", on |-> x, at |-> i],
                                  Result(array[x], "None", At(array[x], i)))
  <2>1. PICK i \in 0 .. N : Does([op |-> "at", on |-> x, at |-> i],
                                 Result(array[x], "None", At(array[x], i)))
    BY <1>3
  <2> DEFINE c == [op |-> "at", on |-> x, at |-> i]
             at == IF i < Len(s) THEN i ELSE None
  <2>2. Does(c, Result(Held(s), "None", at))
    <3>1. At(array[x], i) = at
      BY <1>1 DEF At
    <3> QED BY <1>1, <2>1, <3>1
  <2>3. c.op = "at" /\ c.on = x /\ c.at = i
    OBVIOUS
  <2> HIDE DEF c, at
  <2>4. IHeld' /\ call' = c /\ BV!Returns("None", at) /\ Vec' = Vec
    BY <1>1, <2>2, <2>3, DoesIs DEF s
  <2>5. BV!At(x, i)
    BY <2>4 DEF BV!At, Vec, at, s, None, BV!None
  <2> QED BY <2>3, <2>4, <2>5, Calling DEF BV!Does
<1> QED
  BY <1>2, <1>3 DEF Ask

\* A call that assigns a sequence of items, which fits or is refused.
LEMMA AssignItems ==
  ASSUME IHeld, NEW x \in Arrays, NEW items \in Seq(Elem), NEW r,
         \/ Len(items) > N /\ r = Refused(array[x], "InvalidArgument")
         \/ Len(items) <= N /\ items \in Lists /\ r = Refused(Held(items), "Success"),
         Does([op |-> "assign", on |-> x, items |-> items], r)
  PROVE  IHeld' /\ BV!Next
<1> DEFINE s == Vec[x]
           c == [op |-> "assign", on |-> x, items |-> items]
<1>1. s \in Lists /\ array[x] = Held(s) /\ N \in Nat /\ Len(items) \in Nat
  BY BeforeStep
<1>2. c.op = "assign" /\ c.on = x /\ c.items = items /\ Does(c, r)
  OBVIOUS
<1> HIDE DEF s, c
<1>3. CASE Len(items) > N
  <2>1. Does(c, Result(Held(s), "InvalidArgument", None))
    BY <1>1, <1>2, <1>3 DEF Refused
  <2>2. IHeld' /\ call' = c /\ BV!Fails("InvalidArgument")
    BY <1>1, <1>2, <2>1, DoesIs DEF s
  <2>3. BV!Assign(x, items)
    BY <1>3, <2>2 DEF BV!Assign
  <2> QED BY <1>2, <2>2, <2>3, Calling DEF BV!Does
<1>4. CASE Len(items) <= N
  <2>1. items \in Lists /\ Does(c, Result(Held(items), "Success", None))
    BY <1>1, <1>2, <1>4 DEF Refused
  <2>2. IHeld' /\ call' = c /\ BV!Becomes(x, items) /\ BV!Returns("Success", None)
    BY <1>2, <2>1, DoesIs
  <2>3. BV!Assign(x, items)
    BY <1>1, <1>4, <2>2 DEF BV!Assign, None, BV!None
  <2> QED BY <1>2, <2>2, <2>3, Calling DEF BV!Does
<1> QED
  BY <1>1, <1>3, <1>4

LEMMA AssignStep ==
  ASSUME IHeld, NEW x \in Arrays, Assign(x) \/ ConstructList(x)
  PROVE  IHeld' /\ BV!Next
<1> DEFINE s == Vec[x]
<1>1. s \in Lists /\ Len(s) \in Nat /\ N \in Nat /\ array[x] = Held(s)
  BY BeforeStep
<1> HIDE DEF s
<1>2. ASSUME NEW items \in Seq(Elem)
      PROVE  \/ /\ Len(items) > N
                /\ AssignRange(array[x], items) = Refused(array[x], "InvalidArgument")
             \/ /\ Len(items) <= N /\ items \in Lists
                /\ AssignRange(array[x], items) = Refused(Held(items), "Success")
  <2>1. Len(items) \in Nat
    OBVIOUS
  <2> QED BY <1>1, <2>1, AssignedIs
<1>3. CASE \E items \in Spans :
             Does([op |-> "assign", on |-> x, items |-> items], AssignRange(array[x], items))
  BY <1>2, <1>3, SpansAre, AssignItems
<1>4. CASE \E n \in 0 .. N + 1, item \in Type :
             LET items == Repeat(item, n)
             IN \E r \in {AssignFilled(array[x], n, item), AssignRange(array[x], items)} :
                  Does([op |-> "assign", on |-> x, items |-> items], r)
  <2>1. PICK n \in 0 .. N + 1, item \in Type :
          \E r \in {AssignFilled(array[x], n, item), AssignRange(array[x], Repeat(item, n))} :
            Does([op |-> "assign", on |-> x, items |-> Repeat(item, n)], r)
    BY <1>4
  <2> DEFINE items == Repeat(item, n)
  <2>2. items \in Seq(Elem) /\ Len(items) = n
    <3>1. n \in Nat /\ item \in Elem
      BY <1>1, Constants
    <3> QED BY <3>1, RepeatIs
  <2>3. AssignFilled(array[x], n, item) = AssignRange(array[x], items)
    BY <2>2 DEF AssignFilled, AssignRange
  <2>4. Does([op |-> "assign", on |-> x, items |-> items], AssignRange(array[x], items))
    BY <2>1, <2>3
  <2> HIDE DEF items
  <2> QED BY <1>2, <2>2, <2>4, AssignItems
<1>5. CASE ConstructList(x)
  <2>1. PICK items \in Spans :
          /\ Len(items) <= N
          /\ Does([op |-> "assign", on |-> x, items |-> items],
                  Refused(Constructed(Cleared(array[x]).cells, items), "Success"))
    BY <1>5 DEF ConstructList
  <2>2. items \in Seq(Elem) /\ items \in Lists
    BY <2>1, SpansAre DEF Lists
  <2>3. Constructed(Cleared(array[x]).cells, items) = Held(items)
    BY <1>1, <2>2, ConstructedIs
  <2> QED BY <2>1, <2>2, <2>3, AssignItems
<1> QED
  BY <1>3, <1>4, <1>5 DEF Assign

LEMMA ResizeStep ==
  ASSUME IHeld, NEW x \in Arrays, Resize(x)
  PROVE  IHeld' /\ BV!Next
<1> DEFINE s == Vec[x]
<1>1. s \in Lists /\ Len(s) \in Nat /\ N \in Nat /\ array[x] = Held(s)
  BY BeforeStep
<1>2. PICK m \in 0 .. N + 1, item \in Type :
        Does([op |-> "resize", on |-> x, count |-> m, item |-> item],
             Resized(array[x], m, item))
  BY DEF Resize
<1> DEFINE c == [op |-> "resize", on |-> x, count |-> m, item |-> item]
           t == SubSeq(s \o BV!Repeat(item, N), 1, m)
<1>3. /\ m > N => Resized(array[x], m, item) = Refused(Held(s), "InvalidArgument")
      /\ m <= N => t \in Lists /\ Resized(array[x], m, item) = Refused(Held(t), "Success")
  <2>1. m \in Nat /\ item \in Elem
    BY <1>1, Constants
  <2> HIDE DEF s
  <2> QED BY <1>1, <2>1, ResizedIs
<1>4. BV!Resize(x, m, item) <=>
        IF m > N THEN BV!Fails("InvalidArgument")
        ELSE BV!Becomes(x, t) /\ BV!Returns("Success", BV!None)
  BY DEF BV!Resize, Vec
<1>5. /\ c.op = "resize" /\ c.on = x /\ c.count = m /\ c.item = item
      /\ Does(c, Resized(array[x], m, item))
  BY <1>2
<1> HIDE DEF c, t, s
<1>6. CASE m > N
  <2>1. Does(c, Result(Held(s), "InvalidArgument", None))
    BY <1>3, <1>5, <1>6 DEF Refused
  <2>2. IHeld' /\ call' = c /\ BV!Fails("InvalidArgument")
    BY <1>1, <1>5, <2>1, DoesIs DEF s
  <2>3. BV!Resize(x, m, item)
    BY <1>4, <1>6, <2>2
  <2> QED BY <1>5, <2>2, <2>3, Calling DEF BV!Does
<1>7. CASE m <= N
  <2>1. t \in Lists /\ Does(c, Result(Held(t), "Success", None))
    BY <1>3, <1>5, <1>7 DEF Refused
  <2>2. IHeld' /\ call' = c /\ BV!Becomes(x, t) /\ BV!Returns("Success", None)
    BY <1>5, <2>1, DoesIs
  <2>3. BV!Resize(x, m, item)
    BY <1>1, <1>4, <1>7, <2>2 DEF None, BV!None
  <2> QED BY <1>5, <2>2, <2>3, Calling DEF BV!Does
<1> QED
  BY <1>1, <1>6, <1>7
LEMMA PutsItems ==
  ASSUME IHeld, NEW x \in Arrays, NEW i \in 0 .. Len(Vec[x]), NEW items \in Seq(Elem),
         NEW full, NEW done, NEW at, NEW c, c.on = x, NEW r,
         \/ Len(items) = 0 /\ r = Result(array[x], done, at)
         \/ Len(items) > 0 /\ Len(Vec[x]) + Len(items) > N /\ r = Refused(array[x], full)
         \/ /\ Len(Vec[x]) + Len(items) <= N
            /\ BV!Spliced(Vec[x], i, i, items) \in Lists
            /\ r = Result(Held(BV!Spliced(Vec[x], i, i, items)), done, at),
         Does(c, r)
  PROVE  IHeld' /\ call' = c /\ BV!Put(x, i, items, full, done, at)
<1> DEFINE s == Vec[x]
           t == BV!Spliced(s, i, i, items)
<1>1. s \in Lists /\ array[x] = Held(s)
  BY BeforeStep
<1>2. /\ BV!Fails(full) /\ Len(items) > 0 /\ Len(s) + Len(items) > N =>
           BV!Put(x, i, items, full, done, at)
      /\ BV!Becomes(x, t) /\ BV!Returns(done, at) /\ Len(s) + Len(items) <= N =>
           BV!Put(x, i, items, full, done, at)
      /\ BV!Becomes(x, s) /\ BV!Returns(done, at) /\ Len(items) = 0 =>
           BV!Put(x, i, items, full, done, at)
  BY Putting
<1>3. \/ Len(items) = 0 /\ r = Result(Held(s), done, at)
      \/ Len(items) > 0 /\ Len(s) + Len(items) > N /\ r = Result(Held(s), full, None)
      \/ Len(s) + Len(items) <= N /\ t \in Lists /\ r = Result(Held(t), done, at)
  BY <1>1 DEF Refused
<1> HIDE DEF t, s
<1>4. CASE Len(items) = 0 /\ r = Result(Held(s), done, at)
  <2>1. IHeld' /\ call' = c /\ BV!Becomes(x, s) /\ BV!Returns(done, at)
    BY <1>1, <1>4, DoesIs
  <2> QED BY <1>2, <1>4, <2>1
<1>5. CASE Len(items) > 0 /\ Len(s) + Len(items) > N /\ r = Result(Held(s), full, None)
  <2>1. IHeld' /\ call' = c /\ BV!Fails(full)
    BY <1>1, <1>5, DoesIs DEF s
  <2> QED BY <1>2, <1>5, <2>1
<1>6. CASE Len(s) + Len(items) <= N /\ t \in Lists /\ r = Result(Held(t), done, at)
  <2>1. IHeld' /\ call' = c /\ BV!Becomes(x, t) /\ BV!Returns(done, at)
    BY <1>6, DoesIs
  <2> QED BY <1>2, <1>6, <2>1
<1> QED
  BY <1>3, <1>4, <1>5, <1>6

LEMMA PushStep ==
  ASSUME IHeld, NEW x \in Arrays, PushOne(x)
  PROVE  IHeld' /\ BV!Next
<1> DEFINE s == Vec[x]
<1>1. /\ s \in Lists /\ Len(s) \in Nat /\ Len(s) <= N
      /\ N \in Nat /\ array[x] = Held(s)
  BY BeforeStep
<1>2. PICK item \in Type, op \in {"pushBack", "tryPushBack"} :
        LET c == [op |-> op, on |-> x, item |-> item]
        IN \/ op = "pushBack" /\ Does(c, PushBack(array[x], item))
           \/ op = "tryPushBack" /\ Does(c, TryPushBack(array[x], item))
           \/ /\ op = "tryPushBack" /\ ~IsFull(array[x])
              /\ Does(c, UncheckedPushBack(array[x], item))
  BY DEF PushOne
<1> DEFINE c == [op |-> op, on |-> x, item |-> item]
           one == <<item>>
           t == BV!Spliced(s, Len(s), Len(s), one)
<1>3. c.op = op /\ c.on = x /\ c.item = item
  OBVIOUS
<1>4. one \in Seq(Elem) /\ Len(one) = 1 /\ item \in Elem
  BY OneItem, Constants
<1>5. /\ IsFull(array[x]) <=> Len(s) = N
      /\ Len(s) < N => /\ t \in Lists
                       /\ UncheckedPushBack(array[x], item) = Result(Held(t), "None", Len(s))
  <2> HIDE DEF s
  <2> QED BY <1>1, <1>4, PushedIs
<1>6. /\ \/ op = "pushBack" /\ Does(c, PushBack(array[x], item))
         \/ op = "tryPushBack" /\ Does(c, TryPushBack(array[x], item))
         \/ /\ op = "tryPushBack" /\ ~IsFull(array[x])
            /\ Does(c, UncheckedPushBack(array[x], item))
      /\ op = "pushBack" \/ op = "tryPushBack"
  BY <1>2
<1>7. /\ BV!AppendRange(x, one) <=>
           BV!Put(x, Len(s), one, "Full", "Success", BV!None)
      /\ BV!TryInsert(x, Len(s), one) <=> BV!Put(x, Len(s), one, "None", "None", Len(s))
  BY DEF BV!AppendRange, BV!TryInsert, Vec
<1>8. BV!Does(c) <=> \/ c.op = "pushBack" /\ BV!AppendRange(x, one)
                     \/ c.op = "tryPushBack" /\ BV!TryInsert(x, Len(s), one)
  BY <1>2, <1>3 DEF BV!Does, Vec
<1>9. Len(s) \in 0 .. Len(s)
  BY <1>1
<1> HIDE DEF c, one, t
<1>10. CASE op = "pushBack" /\ Does(c, PushBack(array[x], item))
  <2> DEFINE r == PushBack(array[x], item)
  <2>1. \/ Len(one) > 0 /\ Len(s) + Len(one) > N /\ r = Refused(array[x], "Full")
        \/ Len(s) + Len(one) <= N /\ t \in Lists /\ r = Result(Held(t), "Success", None)
    <3>1. CASE Len(s) = N
      BY <1>1, <1>4, <1>5, <3>1 DEF PushBack
    <3>2. CASE Len(s) < N
      BY <1>1, <1>4, <1>5, <3>2, Outcomes DEF PushBack, Refused
    <3> QED BY <1>1, <3>1, <3>2
  <2> HIDE DEF r
  <2>2. IHeld' /\ call' = c /\ BV!Put(x, Len(s), one, "Full", "Success", None)
    <3>1. Does(c, r)
      BY <1>10 DEF r
    <3> QED BY <1>3, <1>4, <1>9, <2>1, <3>1, PutsItems DEF t
  <2>3. BV!Does(c)
    BY <1>3, <1>7, <1>8, <1>10, <2>2 DEF None, BV!None
  <2> QED BY <2>2, <2>3, Calling
<1>11. CASE op = "tryPushBack" /\ (\/ Does(c, TryPushBack(array[x], item))
                                   \/ /\ ~IsFull(array[x])
                                      /\ Does(c, UncheckedPushBack(array[x], item)))
  <2> DEFINE r == TryPushBack(array[x], item)
  <2>1. \/ Len(one) > 0 /\ Len(s) + Len(one) > N /\ r = Refused(array[x], "None")
        \/ Len(s) + Len(one) <= N /\ t \in Lists /\ r = Result(Held(t), "None", Len(s))
    <3>1. CASE Len(s) = N
      BY <1>1, <1>4, <1>5, <3>1 DEF TryPushBack
    <3>2. CASE Len(s) < N
      BY <1>1, <1>4, <1>5, <3>2 DEF TryPushBack
    <3> QED BY <1>1, <3>1, <3>2
  <2>2. Does(c, r)
    BY <1>11 DEF TryPushBack
  <2> HIDE DEF r
  <2>3. IHeld' /\ call' = c /\ BV!Put(x, Len(s), one, "None", "None", Len(s))
    BY <1>3, <1>4, <1>9, <2>1, <2>2, PutsItems DEF t
  <2>4. BV!Does(c)
    BY <1>3, <1>7, <1>8, <1>11, <2>3
  <2> QED BY <2>3, <2>4, Calling
<1> QED
  BY <1>6, <1>10, <1>11

\* insert() of a range, in the form that PutsItems asks for.
LEMMA InsertRangeIs ==
  ASSUME IHeld, NEW x \in Arrays, NEW i \in 0 .. Len(Vec[x]), NEW items \in Seq(Elem),
         N + Len(items) < SizeMax
  PROVE  LET s == Vec[x]
             t == BV!Spliced(s, i, i, items)
             r == InsertRange(array[x], i, items)
         IN \/ Len(items) = 0 /\ r = Result(array[x], "Success", i)
            \/ Len(items) > 0 /\ Len(s) + Len(items) > N /\ r = Refused(array[x], "Full")
            \/ Len(s) + Len(items) <= N /\ t \in Lists /\ r = Result(Held(t), "Success", i)
<1> DEFINE s == Vec[x]
           t == BV!Spliced(s, i, i, items)
           r == InsertRange(Held(s), i, items)
<1>1. /\ s \in Lists /\ Len(s) \in Nat /\ Len(s) <= N /\ N \in Nat
      /\ array[x] = Held(s) /\ SizeMax \in Nat /\ Len(items) \in Nat
  BY BeforeStep, Constants
<1>2. Len(s) + Len(items) < SizeMax
  BY <1>1
<1>3. /\ Len(items) = 0 => r = Result(Held(s), "Success", i)
      /\ Len(items) > 0 /\ Len(s) + Len(items) > N => r = Refused(Held(s), "Full")
      /\ Len(items) > 0 /\ Len(s) + Len(items) <= N =>
           t \in Lists /\ r = Result(Held(t), "Success", i)
  <2>1. i \in 0 .. Len(s)
    OBVIOUS
  <2> HIDE DEF s
  <2> QED BY <1>1, <1>2, <2>1, InsertedIs
<1>4. r = InsertRange(array[x], i, items)
  BY <1>1
<1>5. \/ Len(items) = 0 /\ r = Result(array[x], "Success", i)
      \/ Len(items) > 0 /\ Len(s) + Len(items) > N /\ r = Refused(array[x], "Full")
      \/ Len(s) + Len(items) <= N /\ t \in Lists /\ r = Result(Held(t), "Success", i)
  <2> HIDE DEF s, t, r
  <2> QED BY <1>1, <1>3
<1> QED
  BY <1>4, <1>5
\* What of a range argument, or of insert()'s count, keeps size_ from wrapping.
LEMMA NoWrap ==
  ASSUME NoCountWraps
  PROVE  /\ \A items \in Spans : items \in Seq(Elem) /\ N + Len(items) < SizeMax
         /\ \A n \in Counts, item \in Type :
              Repeat(item, n) \in Seq(Elem) /\ N + Len(Repeat(item, n)) < SizeMax
<1>1. N \in Nat /\ SizeMax \in Nat /\ MaxSpan \in Nat
  BY Constants, UseAssumption
<1>2. ASSUME NEW items \in Spans
      PROVE  items \in Seq(Elem) /\ N + Len(items) < SizeMax
  <2>1. items \in Seq(Elem) /\ Len(items) \in Nat /\ Len(items) <= MaxSpan
    BY SpansAre
  <2> QED BY <1>1, <2>1 DEF NoCountWraps
<1>3. ASSUME NEW n \in Counts, NEW item \in Type
      PROVE  Repeat(item, n) \in Seq(Elem) /\ N + Len(Repeat(item, n)) < SizeMax
  <2>1. n \in Nat /\ item \in Elem
    BY Constants, UseAssumption
  <2>2. Repeat(item, n) \in Seq(Elem) /\ Len(Repeat(item, n)) = n
    BY <2>1, RepeatIs
  <2> QED BY <1>1, <2>1, <2>2 DEF NoCountWraps
<1> QED
  BY <1>2, <1>3

LEMMA AppendStep ==
  ASSUME IHeld, NoCountWraps, NEW x \in Arrays, AppendSpan(x)
  PROVE  IHeld' /\ BV!Next
<1> DEFINE s == Vec[x]
           n == Len(s)
<1>1. /\ n \in Nat /\ n <= N /\ N \in Nat /\ SizeMax \in Nat /\ array[x].size = n
  BY BeforeStep, Constants
<1>2. PICK items \in Spans :
        LET c == [op |-> "appendRange", on |-> x, items |-> items]
        IN Does(c, AppendRange(array[x], items)) \/ Does(c, TryAppendRange(array[x], items))
  BY DEF AppendSpan
<1> DEFINE c == [op |-> "appendRange", on |-> x, items |-> items]
           t == BV!Spliced(s, n, n, items)
           m == Len(items)
           inserted == InsertRange(array[x], n, items)
<1>3. items \in Seq(Elem) /\ m \in Nat /\ N + m < SizeMax /\ n \in 0 .. n
  BY <1>1, SpansAre, NoWrap
<1>4. \/ m = 0 /\ inserted = Result(array[x], "Success", n)
      \/ m > 0 /\ n + m > N /\ inserted = Refused(array[x], "Full")
      \/ n + m <= N /\ t \in Lists /\ inserted = Result(Held(t), "Success", n)
  BY <1>3, InsertRangeIs
<1>5. /\ AppendRange(array[x], items) = Refused(inserted.array, inserted.code)
      /\ TryAppendRange(array[x], items) =
           IF Wrap(n + m) > N THEN Refused(array[x], "Full")
           ELSE Refused(Refused(inserted.array, inserted.code).array, "Success")
  BY <1>1 DEF AppendRange, TryAppendRange
<1>6. Wrap(n + m) = n + m
  BY <1>1, <1>3, WrapIs
<1>7. /\ BV!AppendRange(x, items) <=>
           BV!Put(x, n, items, "Full", "Success", BV!None)
      /\ c.op = "appendRange" /\ c.on = x /\ c.items = items
  BY DEF BV!AppendRange, Vec
<1> DEFINE Puts(r) == \/ m = 0 /\ r = Result(array[x], "Success", None)
                      \/ m > 0 /\ n + m > N /\ r = Refused(array[x], "Full")
                      \/ /\ n + m <= N /\ t \in Lists
                         /\ r = Result(Held(t), "Success", None)
<1>8. PICK r : Puts(r) /\ Does(c, r)
  <2>1. Does(c, AppendRange(array[x], items)) \/ Does(c, TryAppendRange(array[x], items))
    BY <1>2
  <2> HIDE DEF c, t, m, n, inserted
  <2>2. Puts(AppendRange(array[x], items)) /\ Puts(TryAppendRange(array[x], items))
    <3>1. CASE m = 0 /\ inserted = Result(array[x], "Success", n)
      <4>1. inserted.array = array[x] /\ inserted.code = "Success"
        BY <3>1, Outcomes
      <4>2. ~(Wrap(n + m) > N)
        BY <1>1, <1>6, <3>1
      <4>3. Refused(inserted.array, inserted.code).array = array[x]
        BY <4>1, Outcomes
      <4> QED BY <1>5, <3>1, <4>1, <4>2, <4>3 DEF Refused
    <3>2. CASE m > 0 /\ n + m > N /\ inserted = Refused(array[x], "Full")
      <4>1. inserted.array = array[x] /\ inserted.code = "Full"
        BY <3>2, Outcomes
      <4> QED BY <1>5, <1>6, <3>2, <4>1
    <3>3. CASE n + m <= N /\ t \in Lists /\ inserted = Result(Held(t), "Success", n)
      <4>1. inserted.array = Held(t) /\ inserted.code = "Success"
        BY <3>3, Outcomes
      <4>2. ~(Wrap(n + m) > N)
        BY <1>1, <1>3, <1>6, <3>3
      <4>3. Refused(inserted.array, inserted.code).array = Held(t)
        BY <4>1, Outcomes
      <4> QED BY <1>5, <3>3, <4>1, <4>2, <4>3 DEF Refused
    <3> QED BY <1>4, <3>1, <3>2, <3>3
  <2> HIDE DEF Puts
  <2> QED BY <2>1, <2>2
<1> HIDE DEF c
<1>9. IHeld' /\ call' = c /\ BV!Put(x, n, items, "Full", "Success", None)
  BY <1>3, <1>7, <1>8, PutsItems
<1>10. BV!Does(c)
  BY <1>7, <1>9 DEF BV!Does, None, BV!None
<1> QED
  BY <1>9, <1>10, Calling

\* An insert() whose result is r.
LEMMA InsertItems ==
  ASSUME IHeld, NEW x \in Arrays, NEW i \in 0 .. Len(Vec[x]), NEW items \in Seq(Elem),
         NEW r,
         \/ Len(items) = 0 /\ r = Result(array[x], "Success", i)
         \/ Len(items) > 0 /\ Len(Vec[x]) + Len(items) > N /\ r = Refused(array[x], "Full")
         \/ /\ Len(Vec[x]) + Len(items) <= N
            /\ BV!Spliced(Vec[x], i, i, items) \in Lists
            /\ r = Result(Held(BV!Spliced(Vec[x], i, i, items)), "Success", i),
         Does([op |-> "insert", on |-> x, at |-> i, items |-> items], r)
  PROVE  IHeld' /\ BV!Next
<1> DEFINE c == [op |-> "insert", on |-> x, at |-> i, items |-> items]
<1>1. c.op = "insert" /\ c.on = x /\ c.at = i /\ c.items = items /\ Does(c, r)
  OBVIOUS
<1> HIDE DEF c
<1>2. IHeld' /\ call' = c /\ BV!Put(x, i, items, "Full", "Success", i)
  BY <1>1, PutsItems
<1>3. BV!Does(c)
  BY <1>1, <1>2 DEF BV!Does, BV!Insert
<1> QED
  BY <1>2, <1>3, Calling

LEMMA InsertStep ==
  ASSUME IHeld, NoCountWraps, NEW x \in Arrays, Insert(x)
  PROVE  IHeld' /\ BV!Next
<1> DEFINE s == Vec[x]
<1>1. /\ s \in Lists /\ Len(s) \in Nat /\ Len(s) <= N
      /\ N \in Nat /\ array[x] = Held(s) /\ array[x].size = Len(s)
  BY BeforeStep
<1>2. PICK i \in 0 .. Len(s) :
        LET c(op, items) == [op |-> op, on |-> x, at |-> i, items |-> items]
        IN \/ \E item \in Type :
                \/ Does(c("insert", <<item>>), Emplace(array[x], i, item))
                \/ Does(c("tryInsert", <<item>>), TryEmplace(array[x], i, item))
                \/ \E n \in Counts :
                     Does(c("insert", Repeat(item, n)), InsertFilled(array[x], i, n, item))
           \/ \E items \in Spans : Does(c("insert", items), InsertRange(array[x], i, items))
  <2> HIDE DEF s
  <2> QED BY <1>1 DEF Insert
<1>3. ASSUME NEW item \in Type
      PROVE  LET t == BV!Spliced(s, i, i, <<item>>)
             IN /\ <<item>> \in Seq(Elem) /\ Len(<<item>>) = 1
                /\ \/ /\ Len(s) + 1 > N
                      /\ Emplace(array[x], i, item) = Refused(array[x], "Full")
                      /\ TryEmplace(array[x], i, item) = Refused(array[x], "None")
                   \/ /\ Len(s) + 1 <= N /\ t \in Lists
                      /\ Emplace(array[x], i, item) = Result(Held(t), "Success", i)
                      /\ TryEmplace(array[x], i, item) = Result(Held(t), "None", i)
  <2> DEFINE t == BV!Spliced(s, i, i, <<item>>)
             e == Emplace(array[x], i, item)
  <2>1. item \in Elem /\ <<item>> \in Seq(Elem) /\ Len(<<item>>) = 1
    BY OneItem, Constants
  <2>2. TryEmplace(array[x], i, item) = Result(e.array, "None", e.at)
    BY DEF TryEmplace
  <2>3. CASE Len(s) = N
    <3>1. IsFull(array[x])
      BY <1>1, <2>3 DEF IsFull
    <3>2. e = Refused(array[x], "Full")
      BY <3>1 DEF Emplace
    <3>3. e.array = array[x] /\ e.at = None
      BY <3>2, Outcomes
    <3>4. TryEmplace(array[x], i, item) = Refused(array[x], "None")
      BY <2>2, <3>3 DEF Refused
    <3> QED BY <1>1, <2>1, <2>3, <3>2, <3>4
  <2>4. CASE Len(s) < N
    <3>1. t \in Lists /\ Emplace(Held(s), i, item) = Result(Held(t), "Success", i)
      <4> HIDE DEF s
      <4> QED BY <1>1, <2>1, <2>4, EmplacedIs
    <3>2. e = Result(Held(t), "Success", i)
      BY <1>1, <3>1
    <3>3. e.array = Held(t) /\ e.at = i
      BY <3>2, Outcomes
    <3> QED BY <1>1, <2>1, <2>2, <2>4, <3>1, <3>2, <3>3
  <2> QED BY <1>1, <2>3, <2>4
<1>4. CASE \E item \in Type : Does([op |-> "insert", on |-> x, at |-> i, items |-> <<item>>],
                                   Emplace(array[x], i, item))
  <2>1. PICK item \in Type : Does([op |-> "insert", on |-> x, at |-> i, items |-> <<item>>],
                                  Emplace(array[x], i, item))
    BY <1>4
  <2> DEFINE one == <<item>>
             r == Emplace(array[x], i, item)
  <2>2. /\ one \in Seq(Elem) /\ Len(one) > 0
        /\ \/ Len(s) + Len(one) > N /\ r = Refused(array[x], "Full")
           \/ /\ Len(s) + Len(one) <= N /\ BV!Spliced(s, i, i, one) \in Lists
              /\ r = Result(Held(BV!Spliced(s, i, i, one)), "Success", i)
    BY <1>3
  <2>3. Does([op |-> "insert", on |-> x, at |-> i, items |-> one], r)
    BY <2>1
  <2> HIDE DEF one, r
  <2> QED BY <2>2, <2>3, InsertItems
<1>5. CASE \E item \in Type :
             Does([op |-> "tryInsert", on |-> x, at |-> i, items |-> <<item>>],
                  TryEmplace(array[x], i, item))
  <2>1. PICK item \in Type :
          Does([op |-> "tryInsert", on |-> x, at |-> i, items |-> <<item>>],
               TryEmplace(array[x], i, item))
    BY <1>5
  <2> DEFINE one == <<item>>
             r == TryEmplace(array[x], i, item)
             c == [op |-> "tryInsert", on |-> x, at |-> i, items |-> one]
  <2>2. /\ one \in Seq(Elem) /\ Len(one) > 0
        /\ \/ Len(s) + Len(one) > N /\ r = Refused(array[x], "None")
           \/ /\ Len(s) + Len(one) <= N /\ BV!Spliced(s, i, i, one) \in Lists
              /\ r = Result(Held(BV!Spliced(s, i, i, one)), "None", i)
    BY <1>3
  <2>3. c.op = "tryInsert" /\ c.on = x /\ c.at = i /\ c.items = one /\ Does(c, r)
    BY <2>1
  <2> HIDE DEF one, r, c
  <2>4. IHeld' /\ call' = c /\ BV!Put(x, i, one, "None", "None", i)
    BY <2>2, <2>3, PutsItems
  <2>5. BV!Does(c)
    BY <2>3, <2>4 DEF BV!Does, BV!TryInsert
  <2> QED BY <2>4, <2>5, Calling
<1>6. CASE \E item \in Type, n \in Counts :
             Does([op |-> "insert", on |-> x, at |-> i, items |-> Repeat(item, n)],
                  InsertFilled(array[x], i, n, item))
  <2>1. PICK item \in Type, n \in Counts :
          Does([op |-> "insert", on |-> x, at |-> i, items |-> Repeat(item, n)],
               InsertFilled(array[x], i, n, item))
    BY <1>6
  <2> DEFINE items == Repeat(item, n)
  <2>2. items \in Seq(Elem) /\ N + Len(items) < SizeMax
    BY NoWrap
  <2>3. Does([op |-> "insert", on |-> x, at |-> i, items |-> items],
             InsertRange(array[x], i, items))
    BY <2>1 DEF InsertFilled
  <2> HIDE DEF items
  <2> QED BY <2>2, <2>3, InsertRangeIs, InsertItems
<1>7. CASE \E items \in Spans :
             Does([op |-> "insert", on |-> x, at |-> i, items |-> items],
                  InsertRange(array[x], i, items))
  BY <1>7, NoWrap, InsertRangeIs, InsertItems
<1> QED
  BY <1>2, <1>4, <1>5, <1>6, <1>7
LEMMA RemovalStep ==
  ASSUME IHeld, NEW x \in Arrays, PopBack(x) \/ Erase(x) \/ EraseIf(x) \/ Clear(x)
  PROVE  IHeld' /\ BV!Next
<1> DEFINE s == Vec[x]
<1>1. /\ s \in Lists /\ Len(s) \in Nat /\ array[x] = Held(s) /\ array[x].size = Len(s)
  BY BeforeStep
<1>2. CASE PopBack(x)
  <2> DEFINE c == [op |-> "popBack", on |-> x]
             t == IF s = <<>> THEN <<>> ELSE Front(s)
  <2>1. t \in Lists /\ PoppedBack(Held(s)) = Held(t)
    <3> HIDE DEF s
    <3> QED BY <1>1, PoppedBackIs
  <2>2. BV!PopBack(x) <=> BV!Becomes(x, t) /\ BV!Returns("None", BV!None)
    <3>1. \A u : BV!Front(u) = Front(u)
      BY DEF BV!Front, Front
    <3> QED BY <3>1 DEF BV!PopBack, Vec
  <2>3. c.op = "popBack" /\ c.on = x
    OBVIOUS
  <2>4. Does(c, Result(Held(t), "None", None))
    BY <1>1, <1>2, <2>1 DEF PopBack, Refused
  <2> HIDE DEF c, t
  <2>5. IHeld' /\ call' = c /\ BV!Becomes(x, t) /\ BV!Returns("None", None)
    BY <2>1, <2>3, <2>4, DoesIs
  <2>6. BV!Does(c)
    BY <2>2, <2>3, <2>5 DEF BV!Does, None, BV!None
  <2> QED BY <2>5, <2>6, Calling
<1>3. CASE Erase(x)
  <2>1. PICK j \in 0 .. Len(s) : \E i \in 0 .. j :
          Does([op |-> "erase", on |-> x, at |-> i, until |-> j], Erased(array[x], i, j))
    <3> HIDE DEF s
    <3> QED BY <1>1, <1>3 DEF Erase
  <2> PICK i \in 0 .. j :
        Does([op |-> "erase", on |-> x, at |-> i, until |-> j], Erased(array[x], i, j))
    BY <2>1
  <2> DEFINE c == [op |-> "erase", on |-> x, at |-> i, until |-> j]
             t == BV!Spliced(s, i, j, <<>>)
  <2>2. t \in Lists /\ Erased(Held(s), i, j) = Result(Held(t), "None", i)
    <3>1. i \in Nat /\ j \in Nat /\ i <= j /\ j <= Len(s)
      BY <1>1
    <3> HIDE DEF s
    <3> QED BY <1>1, <3>1, ErasedIs
  <2>3. BV!Erase(x, i, j) <=> BV!Becomes(x, t) /\ BV!Returns("None", i)
    BY DEF BV!Erase, Vec
  <2>4. c.op = "erase" /\ c.on = x /\ c.at = i /\ c.until = j
    OBVIOUS
  <2>5. Does(c, Result(Held(t), "None", i))
    BY <1>1, <2>2
  <2> HIDE DEF c, t
  <2>6. IHeld' /\ call' = c /\ BV!Becomes(x, t) /\ BV!Returns("None", i)
    BY <2>2, <2>4, <2>5, DoesIs
  <2>7. BV!Does(c)
    BY <2>3, <2>4, <2>6 DEF BV!Does
  <2> QED BY <2>6, <2>7, Calling
<1>4. CASE EraseIf(x)
  <2>1. PICK removed \in SUBSET Type :
          Does([op |-> "eraseIf", on |-> x, removed |-> removed],
               ErasedIf(array[x], removed))
    BY <1>4 DEF EraseIf
  <2> DEFINE c == [op |-> "eraseIf", on |-> x, removed |-> removed]
             t == BV!Without(s, removed)
             at == Len(s) - Len(t)
  <2>2. t \in Lists /\ ErasedIf(Held(s), removed) = Result(Held(t), "None", at)
    <3> HIDE DEF s
    <3> QED BY <1>1, ErasedIfIs
  <2>3. BV!EraseIf(x, removed) <=> BV!Becomes(x, t) /\ BV!Returns("None", at)
    BY DEF BV!EraseIf, Vec
  <2>4. c.op = "eraseIf" /\ c.on = x /\ c.removed = removed
    OBVIOUS
  <2>5. Does(c, Result(Held(t), "None", at))
    BY <1>1, <2>1, <2>2
  <2> HIDE DEF c, t, at
  <2>6. IHeld' /\ call' = c /\ BV!Becomes(x, t) /\ BV!Returns("None", at)
    BY <2>2, <2>4, <2>5, DoesIs
  <2>7. BV!Does(c)
    BY <2>3, <2>4, <2>6 DEF BV!Does
  <2> QED BY <2>6, <2>7, Calling
<1>5. CASE Clear(x)
  <2> DEFINE c == [op |-> "clear", on |-> x]
  <2>1. Cleared(Held(s)) = Held(<<>>) /\ <<>> \in Lists
    <3>1. <<>> \in Seq(Elem) /\ Len(<<>>) = 0 /\ N \in Nat
      BY Constants
    <3> HIDE DEF s
    <3> QED BY <1>1, <3>1, ClearedIs DEF Lists
  <2>2. BV!Clear(x) <=> BV!Becomes(x, <<>>) /\ BV!Returns("None", BV!None)
    BY DEF BV!Clear
  <2>3. c.op = "clear" /\ c.on = x
    OBVIOUS
  <2>4. Does(c, Result(Held(<<>>), "None", None))
    BY <1>1, <1>5, <2>1 DEF Clear, Refused
  <2> HIDE DEF c
  <2>5. IHeld' /\ call' = c /\ BV!Becomes(x, <<>>) /\ BV!Returns("None", None)
    BY <2>1, <2>3, <2>4, DoesIs
  <2>6. BV!Does(c)
    BY <2>2, <2>3, <2>5 DEF BV!Does, None, BV!None
  <2> QED BY <2>5, <2>6, Calling
<1> QED
  BY <1>2, <1>3, <1>4, <1>5

LEMMA PairStep ==
  ASSUME IHeld, NEW x \in Arrays, NEW y \in Arrays, x # y,
         Construct(x, y) \/ AssignOther(x, y) \/ Swap(x, y)
  PROVE  IHeld' /\ BV!Next
<1> DEFINE s == Vec[x]
           t == Vec[y]
           moved == Repeat(Moved, Len(t))
<1>1. /\ s \in Lists /\ t \in Lists
      /\ array[x] = Held(s) /\ array[y] = Held(t)
  BY BeforeStep
<1>2. /\ BV!Copy(x, y) <=> BV!Becomes(x, t) /\ BV!Returns("None", BV!None)
      /\ BV!Move(x, y) <=> /\ Vec' = [Vec EXCEPT ![x] = t, ![y] = moved]
                           /\ BV!Returns("None", BV!None)
      /\ BV!Swap(x, y) <=> /\ Vec' = [Vec EXCEPT ![x] = t, ![y] = s]
                           /\ BV!Returns("None", BV!None)
  BY DEF BV!Copy, BV!Move, BV!Swap, BV!Repeat, Repeat, Vec
<1> HIDE DEF s, t
<1>3. /\ moved \in Lists /\ GivenUp(array[y]) = Held(moved)
      /\ Constructed(Cleared(array[x]).cells, Contents(array[y])) = Held(t)
      /\ Overwritten(array[x], Contents(array[y])) = Held(t)
      /\ Swapped(array[x], array[y]) = <<Held(t), Held(s)>>
  BY <1>1, GivenUpIs, HeldContents, ConstructedIs, OverwrittenIs, SwappedIs
<1> HIDE DEF moved
<1>4. \/ DoesBoth("copy", x, Held(t), y, Held(t))
      \/ DoesBoth("move", x, Held(t), y, Held(moved))
      \/ DoesBoth("swap", x, Held(t), y, Held(s))
  <2>1. ASSUME Swap(x, y)
        PROVE  DoesBoth("swap", x, Held(t), y, Held(s))
    BY <1>3, <2>1 DEF Swap
  <2> QED BY <1>1, <1>3, <2>1 DEF Construct, AssignOther
<1>5. CASE DoesBoth("copy", x, Held(t), y, Held(t))
  <2> DEFINE c == [op |-> "copy", on |-> x, from |-> y]
  <2>1. c.op = "copy" /\ c.on = x /\ c.from = y
    OBVIOUS
  <2>2. IHeld' /\ call' = c /\ BV!Becomes(x, t) /\ BV!Returns("None", BV!None)
    BY <1>1, <1>5, DoesBothIs DEF t
  <2> HIDE DEF c
  <2>3. BV!Does(c)
    BY <1>2, <2>1, <2>2 DEF BV!Does
  <2> QED BY <2>2, <2>3, Calling
<1>6. CASE DoesBoth("move", x, Held(t), y, Held(moved))
  <2> DEFINE c == [op |-> "move", on |-> x, from |-> y]
  <2>1. c.op = "move" /\ c.on = x /\ c.from = y
    OBVIOUS
  <2>2. /\ IHeld' /\ call' = c /\ Vec' = [Vec EXCEPT ![x] = t, ![y] = moved]
        /\ BV!Returns("None", BV!None)
    <3>1. /\ IHeld' /\ call' = [op |-> "move", on |-> x, from |-> y]
          /\ Vec' = [Vec EXCEPT ![x] = t, ![y] = moved]
          /\ BV!Returns("None", BV!None)
      <4>1. t \in Lists /\ moved \in Lists
        BY <1>1, <1>3
      <4> QED
        BY ONLY IHeld, x \in Arrays, y \in Arrays, x # y, <1>6, <4>1, DoesBothIs
    <3> QED BY <3>1
  <2> HIDE DEF c
  <2>3. BV!Does(c)
    BY <1>2, <2>1, <2>2 DEF BV!Does
  <2> QED BY <2>2, <2>3, Calling
<1>7. CASE DoesBoth("swap", x, Held(t), y, Held(s))
  <2> DEFINE c == [op |-> "swap", on |-> x, from |-> y]
  <2>1. c.op = "swap" /\ c.on = x /\ c.from = y
    OBVIOUS
  <2>2. /\ IHeld' /\ call' = c /\ Vec' = [Vec EXCEPT ![x] = t, ![y] = s]
        /\ BV!Returns("None", BV!None)
    <3>1. /\ IHeld' /\ call' = [op |-> "swap", on |-> x, from |-> y]
          /\ Vec' = [Vec EXCEPT ![x] = t, ![y] = s]
          /\ BV!Returns("None", BV!None)
      <4>1. s \in Lists /\ t \in Lists
        BY <1>1
      <4> QED
        BY ONLY IHeld, x \in Arrays, y \in Arrays, x # y, <1>7, <4>1, DoesBothIs
    <3> QED BY <3>1
  <2> HIDE DEF c
  <2>3. BV!Does(c)
    BY <1>2, <2>1, <2>2 DEF BV!Does
  <2> QED BY <2>2, <2>3, Calling
<1> QED
  BY <1>4, <1>5, <1>6, <1>7

LEMMA InitHeld ==
  ASSUME Init
  PROVE  IHeld /\ BV!Init
<1>1. NewArray = Held(<<>>) /\ <<>> \in Lists
  BY NewArrayIs
<1>2. Contents(NewArray) = <<>>
  BY <1>1, HeldContents
<1>3. Vec = [x \in Arrays |-> <<>>]
  BY <1>2 DEF Init, Vec
<1>4. IHeld
  BY <1>1, <1>3 DEF Init, IHeld
<1>5. BV!Init
  BY <1>3 DEF Init, BV!Init, Vec, None, BV!None
<1> QED
  BY <1>4, <1>5

LEMMA NextStep ==
  ASSUME IHeld, NoCountWraps, Next
  PROVE  IHeld' /\ BV!Next
<1>1. CASE \E x \in Arrays :
             \/ Ask(x) \/ Assign(x) \/ Resize(x) \/ PushOne(x) \/ AppendSpan(x) \/ Insert(x)
             \/ PopBack(x) \/ Erase(x) \/ EraseIf(x) \/ Clear(x) \/ ConstructList(x)
  BY <1>1, AskStep, AssignStep, ResizeStep, PushStep, AppendStep, InsertStep, RemovalStep
<1>2. CASE \E x, y \in Arrays :
             x # y /\ (Construct(x, y) \/ AssignOther(x, y) \/ Swap(x, y))
  BY <1>2, PairStep
<1> QED
  BY <1>1, <1>2 DEF Next

LEMMA StutterStep ==
  ASSUME IHeld, UNCHANGED vars
  PROVE  IHeld' /\ UNCHANGED BV!vars
<1>1. array' = array /\ call' = call /\ ret' = ret
  BY DEF vars
<1>2. Vec' = Vec
  BY <1>1 DEF Vec
<1> QED
  BY <1>1, <1>2 DEF IHeld, BV!vars, Vec

LEMMA Invariance ==
  ASSUME NoCountWraps
  PROVE  Spec => []IHeld
<1>1. Init => IHeld
  BY InitHeld
<1>2. IHeld /\ [Next]_vars => IHeld'
  BY NextStep, StutterStep
<1> QED
  BY <1>1, <1>2, PTL DEF Spec

-----------------------------------------------------------------------------
(* The theorems that no wrapping count disturbs.                           *)

\* After every call the storage holds elements in its first size_ slots and
\* nothing behind them, as long as size_ + count does not wrap in insert().
THEOREM HoldsExactlyItsElements ==
  ASSUME NoCountWraps
  PROVE  Spec => []LiveExactly
<1>1. ASSUME IHeld
      PROVE  LiveExactly
  <2> SUFFICES ASSUME NEW x \in Arrays, NEW k \in Slots
               PROVE  IF k < array[x].size THEN array[x].cells[k] \in Elem
                      ELSE array[x].cells[k] = Raw
    BY DEF LiveExactly
  <2> DEFINE s == Vec[x]
  <2>1. s \in Lists /\ array[x] = Held(s) /\ array[x].size = Len(s)
    BY <1>1, BeforeStep
  <2> HIDE DEF s
  <2>2. /\ k < Len(s) => Held(s).cells[k] \in Elem
        /\ k >= Len(s) => Held(s).cells[k] = Raw
        /\ k \in Nat /\ Len(s) \in Nat
    BY <2>1, HeldShape
  <2> QED BY <2>1, <2>2
<1> QED
  BY <1>1, Invariance, PTL

\* Each method does to the arrays, and returns, what it does to sequences of at
\* most N elements, as long as size_ + count does not wrap in insert().
THEOREM ImplementsBoundedVector ==
  ASSUME NoCountWraps
  PROVE  Spec => RefinesBoundedVector
<1>1. Init => BV!Init
  BY InitHeld
<1>2. IHeld /\ [Next]_vars => [BV!Next]_BV!vars
  BY NextStep, StutterStep
<1> QED
  BY <1>1, <1>2, Invariance, PTL DEF Spec, RefinesBoundedVector, BV!Spec
=============================================================================
