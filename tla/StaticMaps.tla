----------------------------- MODULE StaticMaps -----------------------------
(***************************************************************************)
(* StaticMap<KeyType, ValueType, max_size, KeyEqual> (core/inc/emdevif/    *)
(* core/data_container/static_map.hpp): an array of pairs that the         *)
(* compiler builds, searched from the front.  A table is the sequence of   *)
(* its pairs; a position past the last one is end().                       *)
(***************************************************************************)
EXTENDS Integers, Sequences, FiniteSetsExt

CONSTANT KeyClasses  \* KeyEqual compares the remainders of two keys

ASSUME KeyClassesAssumption == KeyClasses \in Nat \ {0}

KeyEqual(a, b) == a % KeyClasses = b % KeyClasses

\* The assertion of the constructor.
NoneRepeatKeys(table) ==
  \A i, j \in DOMAIN table : i # j => ~KeyEqual(table[i][1], table[j][1])

End(table) == Len(table) + 1

\* find(): the first pair whose key is equal to key
Find(table, key) ==
  Min({i \in DOMAIN table : KeyEqual(table[i][1], key)} \cup {End(table)})

\* at(): nullptr, or a pointer through which the value may be assigned to, as
\* through operator[], which asserts that there is one.
IsNull(table, key) == Find(table, key) = End(table)
At(table, key) == table[Find(table, key)][2]
AssignAt(table, key, v) == [table EXCEPT ![Find(table, key)][2] = v]
=============================================================================
