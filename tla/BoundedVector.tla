---------------------------- MODULE BoundedVector ----------------------------
(***************************************************************************)
(* What an InplaceDynamicArray promises (docs/core/data_container.md):     *)
(* sequences of at most N elements, named as std::inplace_vector names     *)
(* their operations, that answer with an error code and stay as they were  *)
(* when the result would not fit.  Positions count from 0.  An element     *)
(* that was moved from is Moved: it can be overwritten and removed.  The   *)
(* caller chooses the call, the step is what the call does.                *)
(***************************************************************************)
EXTENDS Integers, SequencesExt

CONSTANTS N,          \* the capacity
          Moved,      \* the value of an element that was moved from
          Vectors     \* the vectors of the program

VARIABLES vec,        \* the sequences
          call,       \* the last call: method, vector and arguments
          ret         \* what it returned: a code and a position or number

vars == <<vec, call, ret>>

None == -1            \* no position: nullptr

Repeat(item, n) == [k \in 1 .. n |-> item]
Spliced(s, i, j, items) ==
  SubSeq(s, 1, i) \o items \o SubSeq(s, j + 1, Len(s))
Without(s, removed) ==
  LET kept[k \in 0 .. Len(s)] ==
        IF k = 0 THEN <<>>
        ELSE IF s[k] \in removed THEN kept[k - 1]
        ELSE Append(kept[k - 1], s[k])
  IN kept[Len(s)]

Returns(code, at) == ret' = [code |-> code, at |-> at]
Becomes(x, s) == vec' = [vec EXCEPT ![x] = s]
Fails(code) == Returns(code, None) /\ UNCHANGED vec

Init ==
  /\ vec = [x \in Vectors |-> <<>>]
  /\ call = [op |-> "none"]
  /\ ret = [code |-> "None", at |-> None]

Reserve(n) ==
  Returns(IF n > N THEN "InvalidArgument" ELSE "Success", None) /\ UNCHANGED vec

At(x, i) ==
  Returns("None", IF i < Len(vec[x]) THEN i ELSE None) /\ UNCHANGED vec

Assign(x, items) ==
  IF Len(items) > N THEN Fails("InvalidArgument")
  ELSE Becomes(x, items) /\ Returns("Success", None)

Resize(x, n, item) ==
  IF n > N THEN Fails("InvalidArgument")
  ELSE /\ Becomes(x, SubSeq(vec[x] \o Repeat(item, N), 1, n))
       /\ Returns("Success", None)

\* A call that puts items at position i; its codes differ from method to method.
Put(x, i, items, full, done, at) ==
  IF items # <<>> /\ Len(vec[x]) + Len(items) > N THEN Fails(full)
  ELSE Becomes(x, Spliced(vec[x], i, i, items)) /\ Returns(done, at)

Insert(x, i, items) == Put(x, i, items, "Full", "Success", i)
TryInsert(x, i, items) == Put(x, i, items, "None", "None", i)
AppendRange(x, items) == Put(x, Len(vec[x]), items, "Full", "Success", None)

PopBack(x) ==
  /\ Becomes(x, IF vec[x] = <<>> THEN <<>> ELSE Front(vec[x]))
  /\ Returns("None", None)

Erase(x, i, j) ==
  Becomes(x, Spliced(vec[x], i, j, <<>>)) /\ Returns("None", i)

EraseIf(x, removed) ==
  /\ Becomes(x, Without(vec[x], removed))
  /\ Returns("None", Len(vec[x]) - Len(Without(vec[x], removed)))

Clear(x) == Becomes(x, <<>>) /\ Returns("None", None)

Copy(x, y) == Becomes(x, vec[y]) /\ Returns("None", None)

Move(x, y) ==
  /\ vec' = [vec EXCEPT ![x] = vec[y], ![y] = Repeat(Moved, Len(vec[y]))]
  /\ Returns("None", None)

Swap(x, y) ==
  /\ vec' = [vec EXCEPT ![x] = vec[y], ![y] = vec[x]]
  /\ Returns("None", None)

Does(c) ==
  \/ c.op = "reserve" /\ Reserve(c.count)
  \/ c.op = "at" /\ At(c.on, c.at)
  \/ c.op = "assign" /\ Assign(c.on, c.items)
  \/ c.op = "resize" /\ Resize(c.on, c.count, c.item)
  \/ c.op = "insert" /\ Insert(c.on, c.at, c.items)
  \/ c.op = "tryInsert" /\ TryInsert(c.on, c.at, c.items)
  \/ c.op = "pushBack" /\ AppendRange(c.on, <<c.item>>)
  \/ c.op = "tryPushBack" /\ TryInsert(c.on, Len(vec[c.on]), <<c.item>>)
  \/ c.op = "appendRange" /\ AppendRange(c.on, c.items)
  \/ c.op = "popBack" /\ PopBack(c.on)
  \/ c.op = "erase" /\ Erase(c.on, c.at, c.until)
  \/ c.op = "eraseIf" /\ EraseIf(c.on, c.removed)
  \/ c.op = "clear" /\ Clear(c.on)
  \/ c.op = "copy" /\ Copy(c.on, c.from)
  \/ c.op = "move" /\ Move(c.on, c.from)
  \/ c.op = "swap" /\ Swap(c.on, c.from)

Next == Does(call')

Spec == Init /\ [][Next]_vars
=============================================================================
