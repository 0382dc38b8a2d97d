------------------------------ MODULE FiniteMap ------------------------------
(***************************************************************************)
(* What an InplaceMap promises (docs/core/data_container.md): functions on *)
(* at most N keys.  A call returns a code and an iterator; the iterator is *)
(* the key it stands at, End, or Null for a null pointer or nothing.  A    *)
(* map that was moved from is Lost until it is assigned, cleared or        *)
(* constructed again.  The caller chooses the call, the step is what the   *)
(* call does.                                                              *)
(***************************************************************************)
EXTENDS Integers, FiniteSets, FiniteSetsExt, SequencesExt

CONSTANTS N,          \* the capacity
          Zero,       \* the value T{}
          Lost,       \* a map that was moved from
          End,        \* an integer greater than every key
          Null,       \* an integer smaller than every key
          Maps        \* the maps of the program

VARIABLES map,        \* the maps
          call,       \* the last call: method, map and arguments
          ret         \* what it returned

vars == <<map, call, ret>>

Empty == [k \in {} |-> Zero]
Dom(f) == DOMAIN f
Extended(f, k, v) == [j \in Dom(f) \cup {k} |-> IF j = k THEN v ELSE f[j]]
Shrunk(f, gone) == [j \in Dom(f) \ gone |-> f[j]]
CeilingKey(f, k) == Min({j \in Dom(f) \cup {End} : j >= k})
HigherKey(f, k) == Min({j \in Dom(f) \cup {End} : j > k})

Returns(code, at) == ret' = [code |-> code, at |-> at]
Becomes(x, f) == map' = [map EXCEPT ![x] = f]

\* The pairs go in one after the other; a key that is present is passed over,
\* and the first one that does not fit ends the call.
InsertAll(f, pairs) ==
  LET Step(acc, p) ==
        IF acc.full \/ p[1] \in Dom(acc.f) THEN acc
        ELSE IF Cardinality(Dom(acc.f)) = N THEN [acc EXCEPT !.full = TRUE]
        ELSE [acc EXCEPT !.f = Extended(acc.f, p[1], p[2])]
      done[k \in 0 .. Len(pairs)] ==
        IF k = 0 THEN [f |-> f, full |-> FALSE]
        ELSE Step(done[k - 1], pairs[k])
  IN done[Len(pairs)]

Init ==
  /\ map = [x \in Maps |-> Empty]
  /\ call = [op |-> "none"]
  /\ ret = [code |-> "None", at |-> Null]

\* A call that adds key k with value v unless it is there; the codes and the
\* iterator of a refusal differ from method to method.
Add(x, k, v, present, full, refused, added) ==
  IF k \in Dom(map[x]) THEN Returns(present, k) /\ UNCHANGED map
  ELSE IF Cardinality(Dom(map[x])) = N
       THEN Returns(full, refused) /\ UNCHANGED map
       ELSE Becomes(x, Extended(map[x], k, v)) /\ Returns(added, k)

Insert(x, k, v) == Add(x, k, v, "AlreadyExists", "Full", End, "Success")
TryEmplace(x, k, v) == Add(x, k, v, "False", "False", End, "True")
TryEmplaceHint(x, k, v) == Add(x, k, v, "None", "None", End, "None")
GetOrCreate(x, k) == Add(x, k, Zero, "None", "None", Null, "None")

InsertOrAssign(x, k, v) ==
  IF k \in Dom(map[x])
  THEN Becomes(x, Extended(map[x], k, v)) /\ Returns("AlreadyExists", k)
  ELSE Insert(x, k, v)

InsertRange(x, pairs) ==
  LET done == InsertAll(map[x], pairs)
  IN Becomes(x, done.f) /\ Returns(IF done.full THEN "Full" ELSE "Success", Null)

Rebuild(x, pairs) ==
  Becomes(x, InsertAll(Empty, pairs).f) /\ Returns("None", Null)

Erase(x, k) ==
  /\ Becomes(x, Shrunk(map[x], {k}))
  /\ Returns(IF k \in Dom(map[x]) THEN "One" ELSE "Nil", Null)

\* The keys from lo up to hi, hi excluded.
EraseRange(x, lo, hi) ==
  /\ Becomes(x, Shrunk(map[x], {k \in Dom(map[x]) : lo <= k /\ k < hi}))
  /\ Returns("None", hi)

Find(x, k) ==
  Returns("None", IF k \in Dom(map[x]) THEN k ELSE End) /\ UNCHANGED map
At(x, k) ==
  Returns("None", IF k \in Dom(map[x]) THEN k ELSE Null) /\ UNCHANGED map
LowerBound(x, k) == Returns("None", CeilingKey(map[x], k)) /\ UNCHANGED map
UpperBound(x, k) == Returns("None", HigherKey(map[x], k)) /\ UNCHANGED map

Clear(x) == Becomes(x, Empty) /\ Returns("None", Null)

Copy(x, y) == Becomes(x, map[y]) /\ Returns("None", Null)

Move(x, y) ==
  /\ map' = [map EXCEPT ![x] = map[y], ![y] = IF @ = Empty THEN @ ELSE Lost]
  /\ Returns("None", Null)

Swap(x, y) ==
  map' = [map EXCEPT ![x] = map[y], ![y] = map[x]] /\ Returns("None", Null)

Does(c) ==
  \/ c.op = "insert" /\ Insert(c.on, c.key, c.value)
  \/ c.op = "tryEmplace" /\ TryEmplace(c.on, c.key, c.value)
  \/ c.op = "tryEmplaceHint" /\ TryEmplaceHint(c.on, c.key, c.value)
  \/ c.op = "insertOrAssign" /\ InsertOrAssign(c.on, c.key, c.value)
  \/ c.op = "getOrCreate" /\ GetOrCreate(c.on, c.key)
  \/ c.op = "insertRange" /\ InsertRange(c.on, c.pairs)
  \/ c.op = "rebuild" /\ Rebuild(c.on, c.pairs)
  \/ c.op = "erase" /\ Erase(c.on, c.key)
  \/ c.op = "eraseRange" /\ EraseRange(c.on, c.first, c.last)
  \/ c.op = "find" /\ Find(c.on, c.key)
  \/ c.op = "at" /\ At(c.on, c.key)
  \/ c.op = "lowerBound" /\ LowerBound(c.on, c.key)
  \/ c.op = "upperBound" /\ UpperBound(c.on, c.key)
  \/ c.op = "clear" /\ Clear(c.on)
  \/ c.op = "copy" /\ Copy(c.on, c.from)
  \/ c.op = "move" /\ Move(c.on, c.from)
  \/ c.op = "swap" /\ Swap(c.on, c.from)

Next == Does(call')

Spec == Init /\ [][Next]_vars
=============================================================================
