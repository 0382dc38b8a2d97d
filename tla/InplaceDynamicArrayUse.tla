----------------------- MODULE InplaceDynamicArrayUse ------------------------
(***************************************************************************)
(* One thread that calls the methods of its InplaceDynamicArrays in any    *)
(* order, with positions in range (the code asserts them), arguments that  *)
(* are not elements of the array itself, and uncheckedPushBack() only when *)
(* there is room (docs/core/data_container.md:218).  Every call is a step. *)
(***************************************************************************)
EXTENDS InplaceDynamicArray

CONSTANTS Arrays,      \* the arrays of the program
          MaxOther,    \* bound on the sizes of the other arrays in a call on one
          MaxSpan,     \* bound on the length of a range argument
          Counts       \* the values of insert()'s count argument

ASSUME UseAssumption ==
  /\ MaxOther \in Nat /\ MaxSpan \in Nat
  /\ Counts \subseteq 0 .. SizeMax - 1

VARIABLES array,       \* the arrays
          call,        \* the last call: method, array and arguments
          ret          \* what it returned: a code and a position or number

vars == <<array, call, ret>>

Spans == BoundedSeq(Type, MaxSpan)

\* The call c, after which its array is r.array, returns the rest of r.
Does(c, r) ==
  /\ array' = [array EXCEPT ![c.on] = r.array]
  /\ call' = c
  /\ ret' = [code |-> r.code, at |-> r.at]

\* A call with another array as argument, which returns nothing.
DoesBoth(op, x, a, y, b) ==
  /\ array' = [array EXCEPT ![x] = a, ![y] = b]
  /\ call' = [op |-> op, on |-> x, from |-> y]
  /\ ret' = [code |-> "None", at |-> None]

Init ==
  /\ array = [x \in Arrays |-> NewArray]
  /\ call = [op |-> "none"]
  /\ ret = [code |-> "None", at |-> None]

Ask(x) ==
  \/ \E n \in 0 .. N + 1 :
       Does([op |-> "reserve", on |-> x, count |-> n], Reserve(array[x], n))
  \/ \E i \in 0 .. N :
       Does([op |-> "at", on |-> x, at |-> i], Result(array[x], "None", At(array[x], i)))

Assign(x) ==
  \/ \E s \in Spans :
       Does([op |-> "assign", on |-> x, items |-> s], AssignRange(array[x], s))
  \/ \E n \in 0 .. N + 1, item \in Type :
       LET s == Repeat(item, n)
       IN \E r \in {AssignFilled(array[x], n, item), AssignRange(array[x], s)} :
            Does([op |-> "assign", on |-> x, items |-> s], r)

Resize(x) ==
  \E n \in 0 .. N + 1, item \in Type :
    Does([op |-> "resize", on |-> x, count |-> n, item |-> item],
         Resized(array[x], n, item))

PushOne(x) ==
  \E item \in Type :
    LET c(op) == [op |-> op, on |-> x, item |-> item]
    IN \/ Does(c("pushBack"), PushBack(array[x], item))
       \/ Does(c("tryPushBack"), TryPushBack(array[x], item))
       \/ ~IsFull(array[x]) /\ Does(c("tryPushBack"), UncheckedPushBack(array[x], item))

AppendSpan(x) ==
  \E s \in Spans :
    LET c == [op |-> "appendRange", on |-> x, items |-> s]
    IN Does(c, AppendRange(array[x], s)) \/ Does(c, TryAppendRange(array[x], s))

Insert(x) ==
  \E i \in 0 .. array[x].size :
    LET c(op, items) == [op |-> op, on |-> x, at |-> i, items |-> items]
    IN \/ \E item \in Type :
            \/ Does(c("insert", <<item>>), Emplace(array[x], i, item))
            \/ Does(c("tryInsert", <<item>>), TryEmplace(array[x], i, item))
            \/ \E n \in Counts :
                 Does(c("insert", Repeat(item, n)), InsertFilled(array[x], i, n, item))
       \/ \E s \in Spans : Does(c("insert", s), InsertRange(array[x], i, s))

PopBack(x) ==
  Does([op |-> "popBack", on |-> x], Refused(PoppedBack(array[x]), "None"))

Erase(x) ==
  \E j \in 0 .. array[x].size : \E i \in 0 .. j :
    Does([op |-> "erase", on |-> x, at |-> i, until |-> j], Erased(array[x], i, j))

EraseIf(x) ==
  \E removed \in SUBSET Type :
    Does([op |-> "eraseIf", on |-> x, removed |-> removed], ErasedIf(array[x], removed))

Clear(x) == Does([op |-> "clear", on |-> x], Refused(Cleared(array[x]), "None"))

\* x is destroyed and constructed again in the same storage.
Construct(x, y) ==
  LET made == Constructed(Cleared(array[x]).cells, Contents(array[y]))
  IN \/ DoesBoth("copy", x, made, y, array[y])
     \/ DoesBoth("move", x, made, y, GivenUp(array[y]))

ConstructList(x) ==
  \E s \in Spans :
    /\ Len(s) <= N
    /\ Does([op |-> "assign", on |-> x, items |-> s],
            Refused(Constructed(Cleared(array[x]).cells, s), "Success"))

AssignOther(x, y) ==
  LET made == Overwritten(array[x], Contents(array[y]))
  IN \/ DoesBoth("copy", x, made, y, array[y])
     \/ DoesBoth("move", x, made, y, GivenUp(array[y]))

Swap(x, y) ==
  LET swapped == Swapped(array[x], array[y])
  IN DoesBoth("swap", x, swapped[1], y, swapped[2])

Next ==
  \/ \E x \in Arrays :
       /\ \A y \in Arrays \ {x} : array[y].size <= MaxOther
       /\ \/ Ask(x) \/ Assign(x) \/ Resize(x) \/ PushOne(x) \/ AppendSpan(x) \/ Insert(x)
          \/ PopBack(x) \/ Erase(x) \/ EraseIf(x) \/ Clear(x) \/ ConstructList(x)
  \/ \E x, y \in Arrays :
       x # y /\ (Construct(x, y) \/ AssignOther(x, y) \/ Swap(x, y))

Spec == Init /\ [][Next]_vars

-----------------------------------------------------------------------------
\* For TLC: arrays are interchangeable, and so are values.
Symmetry == Permutations(Arrays) \cup Permutations(Type)

\* Types of the state: sizes within the capacity, codes and positions.
TypeOK ==
  /\ array \in [Arrays -> [cells : [Slots -> Elem \cup {Raw, Broken}], size : 0 .. N]]
  /\ ret \in [code : {"None", "Success", "Full", "InvalidArgument"}, at : -1 .. N]

\* The storage holds elements in its first size_ slots and nothing behind them,
\* after every call: no element is read, assigned or destroyed where there is
\* none, constructed over another, or left behind (the shifts of emplace,
\* insert, erase, swap and of the assignments).
LiveExactly ==
  \A x \in Arrays : \A s \in Slots :
    IF s < array[x].size THEN array[x].cells[s] \in Elem ELSE array[x].cells[s] = Raw

BV == INSTANCE BoundedVector WITH
        Vectors <- Arrays, vec <- [x \in Arrays |-> Contents(array[x])]

\* Every method leaves the elements, and returns the code, iterator or count,
\* that the call gives on a sequence of bounded length; what does not fit is
\* refused with an error code and changes nothing (inplace_dynamic_array.hpp:5-6).
RefinesBoundedVector == BV!Spec
=============================================================================
