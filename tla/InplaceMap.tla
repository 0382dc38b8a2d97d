----------------------------- MODULE InplaceMap ------------------------------
(***************************************************************************)
(* InplaceMap<Key, T, N> of                                                *)
(* core/inc/emdevif/core/data_container/inplace_map.hpp: the keys, in the  *)
(* order of Compare, in one InplaceDynamicArray and the mapped values at   *)
(* the same indices in another.  Each array is here the sequence of its    *)
(* elements, which is what BoundedVector shows it to be.  An iterator is   *)
(* an index from 0; end() is the size.  A method is the operator that      *)
(* gives the map it leaves with what it returns: a code and an iterator.   *)
(***************************************************************************)
EXTENDS Integers, FiniteSets, SequencesExt

CONSTANTS N,          \* the template argument N
          Keys,       \* the keys, as numbers in the order of Compare
          Values,     \* the mapped values
          Zero,       \* the value T{}
          Moved       \* the value of an element that was moved from

ASSUME MapAssumption ==
  /\ N \in Nat \ {0}
  /\ Keys \subseteq Nat /\ IsFiniteSet(Keys) /\ Keys # {}
  /\ Zero \in Values
  /\ Moved \notin Keys \cup Values

None == -1            \* nullptr, or no iterator

NewMap == [keys |-> <<>>, values |-> <<>>]
Size(m) == Len(m.keys)
KeyAt(m, idx) == m.keys[idx + 1]

Result(m, code, at) == [map |-> m, code |-> code, at |-> at]

\* insert() or emplace() of the arrays, which fails when there is no room
HasRoom(s) == Len(s) < N
Put(s, idx, item) == InsertAt(s, idx + 1, item)
Cut(s, i, j) == SubSeq(s, 1, i) \o SubSeq(s, j + 1, Len(s))

-----------------------------------------------------------------------------
\* Faulty form of lowerBoundImpl_: it passes an equal key.
LowerBoundPast(m, key) ==
  LET first == SelectInSeq(m.keys, LAMBDA k : key < k)
  IN IF first = 0 THEN Size(m) ELSE first - 1

\* lowerBoundImpl_: the first key that is not less
LowerBound(m, key) ==
  LET first == SelectInSeq(m.keys, LAMBDA k : ~(k < key))
  IN IF first = 0 THEN Size(m) ELSE first - 1

IsKeyAt(m, idx, key) == idx < Size(m) /\ ~(key < KeyAt(m, idx))

\* findImpl_
Find(m, key) ==
  IF IsKeyAt(m, LowerBound(m, key), key) THEN LowerBound(m, key) ELSE Size(m)

At(m, key) == IF Find(m, key) = Size(m) THEN None ELSE Find(m, key)

UpperBound(m, key) ==
  IF IsKeyAt(m, LowerBound(m, key), key)
  THEN LowerBound(m, key) + 1 ELSE LowerBound(m, key)

-----------------------------------------------------------------------------
\* Faulty form of the insertions: a full map is not noticed.
PutBothUnchecked(m, idx, key, value) ==
  Result([keys |-> Put(m.keys, idx, key), values |-> Put(m.values, idx, value)],
         "Success", idx)

\* Both arrays take their part at index idx; keys_ gives its part back when
\* values_ has no room.
PutBoth(m, idx, key, value) ==
  LET keys == Put(m.keys, idx, key)
  IN IF ~HasRoom(m.keys) THEN Result(m, "Full", Size(m))
     ELSE IF ~HasRoom(m.values)
          THEN Result([m EXCEPT !.keys = Cut(keys, idx, idx + 1)], "Full", Size(m))
          ELSE Result([keys |-> keys, values |-> Put(m.values, idx, value)],
                      "Success", idx)

\* insertImpl_ and emplace
Insert(m, key, value) ==
  LET idx == LowerBound(m, key)
  IN IF IsKeyAt(m, idx, key) THEN Result(m, "AlreadyExists", idx)
     ELSE PutBoth(m, idx, key, value)

TryEmplace(m, key, value) ==
  LET r == Insert(m, key, value)
  IN [r EXCEPT !.code = IF @ = "Success" THEN "True" ELSE "False"]

GetOrCreate(m, key) ==
  LET r == Insert(m, key, Zero)
  IN Result(r.map, "None", IF r.code = "Full" THEN None ELSE r.at)

InsertOrAssign(m, key, value) ==
  LET idx == LowerBound(m, key)
  IN IF IsKeyAt(m, idx, key)
     THEN Result([m EXCEPT !.values[idx + 1] = value], "AlreadyExists", idx)
     ELSE PutBoth(m, idx, key, value)

\* The test of insertHintImpl_, emplaceHint and tryEmplaceHint.
HintTaken(m, hint, key) ==
  /\ hint # Size(m)
  /\ hint = 0 \/ KeyAt(m, hint - 1) < key
  /\ ~(key < KeyAt(m, hint))

\* insertHintImpl_ and emplaceHint
InsertHint(m, hint, key, value) ==
  IF ~HintTaken(m, hint, key) THEN Insert(m, key, value)
  ELSE IF ~(KeyAt(m, hint) < key) THEN Result(m, "AlreadyExists", hint)
       ELSE PutBoth(m, hint, key, value)

TryEmplaceHint(m, hint, key, value) ==
  [InsertHint(m, hint, key, value) EXCEPT !.code = "None"]

\* Faulty form of insert(range): it ends at a key that is present as well.
InsertRangeNew(m, pairs) ==
  LET Step(acc, p) == IF acc.code # "Success" THEN acc
                      ELSE Insert(acc.map, p[1], p[2])
      done == FoldLeft(Step, Result(m, "Success", None), pairs)
  IN Result(done.map, IF done.code = "Full" THEN "Full" ELSE "Success", None)

\* The pairs go in one after the other; a call that stops does so at the first
\* that does not fit.
InsertAll(m, pairs, stops) ==
  LET done[k \in 0 .. Len(pairs)] ==
        IF k = 0 THEN Result(m, "Success", None)
        ELSE IF stops /\ done[k - 1].code = "Full" THEN done[k - 1]
        ELSE Insert(done[k - 1].map, pairs[k][1], pairs[k][2])
  IN done[Len(pairs)]

\* insert(range) ends at the first pair that does not fit.
InsertRange(m, pairs) ==
  LET done == InsertAll(m, pairs, TRUE)
  IN Result(done.map, IF done.code = "Full" THEN "Full" ELSE "Success", None)

\* The constructors from a range try every pair.
ConstructedFrom(pairs) == InsertAll(NewMap, pairs, FALSE).map

Cleared == NewMap

EraseRange(m, i, j) ==
  Result([keys |-> Cut(m.keys, i, j), values |-> Cut(m.values, i, j)], "None", i)

\* Faulty form of erase(key): the value stays.
EraseKeyOnly(m, key) ==
  IF Find(m, key) = Size(m) THEN Result(m, "Nil", None)
  ELSE Result([m EXCEPT !.keys = Cut(@, Find(m, key), Find(m, key) + 1)], "One", None)

\* erase(key) gives the number of keys erased.
Erase(m, key) ==
  IF Find(m, key) = Size(m) THEN Result(m, "Nil", None)
  ELSE Result(EraseRange(m, Find(m, key), Find(m, key) + 1).map, "One", None)

\* What a move leaves of its source: both arrays keep their sizes.
GivenUp(m) ==
  [keys |-> [k \in DOMAIN m.keys |-> Moved], values |-> [k \in DOMAIN m.values |-> Moved]]
=============================================================================
