---------------------------- MODULE InplaceMapUse ----------------------------
(***************************************************************************)
(* One thread that calls the methods of its InplaceMaps in any order.  It  *)
(* gives iterators of the map itself, and does not look into a map that    *)
(* was moved from before that is assigned, cleared or constructed again.   *)
(* Every call is a step.                                                   *)
(***************************************************************************)
EXTENDS InplaceMap, FiniteSetsExt

CONSTANTS Maps,       \* the maps of the program
          MaxOther,   \* bound on the sizes of the other maps where x is changed
                      \* in place or looked into
          MaxSpan,    \* bound on the length of a range argument
          AnyHint     \* FALSE: a hint does not stand before the key's place

ASSUME UseAssumption ==
  MaxOther \in Nat /\ MaxSpan \in Nat /\ AnyHint \in BOOLEAN

VARIABLES map,        \* the maps
          call,       \* the last call: method, map and arguments
          ret         \* what it returned: a code and an iterator into its map

vars == <<map, call, ret>>

Pairs == BoundedSeq(Keys \X Values, MaxSpan)
Whole(x) == \A k \in DOMAIN map[x].keys : map[x].keys[k] # Moved
Positions(x) == 0 .. Size(map[x])

\* The key an iterator of m stands at.
End == 1 + Max(Keys)
KeyOf(m, at) ==
  IF at = None THEN None ELSE IF at = Size(m) THEN End ELSE KeyAt(m, at)

\* The call c, after which its map is r.map, returns the rest of r.
Does(c, r) ==
  /\ map' = [map EXCEPT ![c.on] = r.map]
  /\ call' = c
  /\ ret' = [code |-> r.code, at |-> r.at]

\* A call with another map as argument, which returns nothing.
DoesBoth(op, x, m, y, n) ==
  /\ map' = [map EXCEPT ![x] = m, ![y] = n]
  /\ call' = [op |-> op, on |-> x, from |-> y]
  /\ ret' = [code |-> "None", at |-> None]

Init ==
  /\ map = [x \in Maps |-> NewMap]
  /\ call = [op |-> "none"]
  /\ ret = [code |-> "None", at |-> None]

AddPair(x) ==
  \E key \in Keys, value \in Values :
    LET c(op) == [op |-> op, on |-> x, key |-> key, value |-> value]
    IN \/ Does(c("insert"), Insert(map[x], key, value))
       \/ Does(c("tryEmplace"), TryEmplace(map[x], key, value))
       \/ Does(c("insertOrAssign"), InsertOrAssign(map[x], key, value))
       \/ \E hint \in Positions(x) :
            /\ AnyHint \/ hint >= LowerBound(map[x], key)
            /\ \/ Does(c("insert"), InsertHint(map[x], hint, key, value))
               \/ Does(c("tryEmplaceHint"), TryEmplaceHint(map[x], hint, key, value))

AddPairs(x) ==
  \E pairs \in Pairs :
    Does([op |-> "insertRange", on |-> x, pairs |-> pairs], InsertRange(map[x], pairs))

\* The calls that are given a key.
UseKey(x) ==
  \E key \in Keys :
    LET c(op) == [op |-> op, on |-> x, key |-> key]
        Finds(at) == Result(map[x], "None", at)
    IN \/ Does(c("getOrCreate"), GetOrCreate(map[x], key))
       \/ Does(c("erase"), Erase(map[x], key))
       \/ Does(c("find"), Finds(Find(map[x], key)))
       \/ Does(c("at"), Finds(At(map[x], key)))
       \/ Does(c("lowerBound"), Finds(LowerBound(map[x], key)))
       \/ Does(c("upperBound"), Finds(UpperBound(map[x], key)))

\* The call names the keys its iterators stand at.
EraseAt(x) ==
  \E j \in Positions(x) : \E i \in 0 .. j :
    Does([op |-> "eraseRange", on |-> x,
          first |-> KeyOf(map[x], i), last |-> KeyOf(map[x], j)],
         EraseRange(map[x], i, j))

Clear(x) == Does([op |-> "clear", on |-> x], Result(Cleared, "None", None))

\* x is destroyed and constructed again, or assigned an initializer list.
Rebuild(x) ==
  \E pairs \in Pairs :
    LET c == [op |-> "rebuild", on |-> x, pairs |-> pairs]
    IN \/ Does(c, Result(ConstructedFrom(pairs), "None", None))
       \/ /\ Len(pairs) <= N
          /\ Does(c, Result(InsertRange(Cleared, pairs).map, "None", None))

\* The copy and the move, constructing or assigning.
Copy(x, y) == DoesBoth("copy", x, map[y], y, map[y])
Move(x, y) == DoesBoth("move", x, map[y], y, GivenUp(map[y]))

Swap(x, y) == DoesBoth("swap", x, map[y], y, map[x])

Next ==
  \/ \E x \in Maps :
       /\ Whole(x)
       /\ \A y \in Maps \ {x} : Size(map[y]) <= MaxOther
       /\ AddPair(x) \/ AddPairs(x) \/ UseKey(x) \/ EraseAt(x)
  \/ \E x \in Maps : Clear(x) \/ Rebuild(x)
  \/ \E x, y \in Maps :
       /\ x # y /\ Whole(y)
       /\ Copy(x, y) \/ Move(x, y) \/ (Whole(x) /\ Swap(x, y))

Spec == Init /\ [][Next]_vars

-----------------------------------------------------------------------------
\* For TLC: maps are interchangeable.
Symmetry == Permutations(Maps)

\* Types of the state: at most N keys and values, codes and iterators.
TypeOK ==
  /\ map \in [Maps -> [keys : BoundedSeq(Keys \cup {Moved}, N),
                       values : BoundedSeq(Values \cup {Moved}, N)]]
  /\ ret.code \in {"None", "Success", "AlreadyExists", "Full", "True", "False", "One", "Nil"}
  /\ ret.at \in -1 .. IF call.op = "none" THEN -1 ELSE Size(map[call.on])

\* The keys are strictly ascending, which every lookup relies on: an insertion
\* at a wrong index would hide keys from std::lower_bound and let a key in twice.
KeysAscend ==
  \A x \in Maps :
    Whole(x) => \A i, j \in DOMAIN map[x].keys : i < j => map[x].keys[i] < map[x].keys[j]

\* The two arrays stay parallel: as many values as keys after every call, the
\* ones that ended halfway with Full included.
Parallel == \A x \in Maps : Len(map[x].values) = Len(map[x].keys)

FunctionOf(m) ==
  [key \in ToSet(m.keys) |-> m.values[SelectInSeq(m.keys, LAMBDA k : k = key)]]

FM == INSTANCE FiniteMap WITH
        Null <- None, Lost <- Moved,
        map <- [x \in Maps |-> IF Whole(x) THEN FunctionOf(map[x]) ELSE Moved],
        ret <- [code |-> ret.code,
                at |-> IF ret.at = None THEN None ELSE KeyOf(map[call.on], ret.at)]

\* Every method changes the map, and returns the code and the iterator, as a
\* finite function of at most N keys does (docs/core/data_container.md:228-262).
RefinesFiniteMap == FM!Spec
=============================================================================
