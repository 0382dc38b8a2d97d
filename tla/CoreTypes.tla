----------------------------- MODULE CoreTypes -----------------------------
(***************************************************************************)
(* The value types of core, each used by a client that keeps in mind what  *)
(* its object should hold: the numbers of module Counters, a fixed string, *)
(* a static map, and a pair of InitOnce objects.  What the client thinks   *)
(* of is in position; value is the object.                                 *)
(***************************************************************************)
EXTENDS Counters, FixedStrings, StaticMaps, InitOnces

CONSTANTS Chars,     \* characters, as numbers; Nul may be one of them
          MaxText,   \* bound on the length of a string
          Keys,      \* keys of a static map, as numbers
          Given      \* values that a map or an InitOnce is given

ASSUME CoreTypesAssumption ==
  /\ Chars \subseteq Nat /\ MaxText \in Nat /\ Keys \subseteq Nat
  /\ Default # MovedFrom /\ MovedFrom \notin Given

Texts == UNION {[1 .. n -> Chars] : n \in 0 .. MaxText}
Literals == {Append(s, Nul) : s \in Texts}
Pair == {"a", "b"}

\* The object becomes v, which should hold what is.
Becomes(v, what) == value' = v /\ position' = what /\ UNCHANGED <<kind, off>>

-----------------------------------------------------------------------------
(* A string.                                                               *)

TextInit == kind = "text" /\ \E s \in Texts : value = FromRange(s) /\ position = s

\* text = text + s, s + text and the like
Join ==
  /\ kind = "text"
  /\ \/ \E s \in Texts :
          \/ Becomes(Concat(value, FromRange(s)), position \o s)
          \/ Becomes(ConcatLiteral(value, Append(s, Nul)), position \o s)
          \/ Becomes(LiteralConcat(Append(s, Nul), value), s \o position)
          \/ Becomes(FromLiteral(Append(s, Nul)), s)
     \/ \E c \in Chars :
          \/ Becomes(ConcatChar(value, c), Append(position, c))
          \/ Becomes(CharConcat(c, value), <<c>> \o position)
  /\ Len(position') <= MaxText

\* swap(text, other)
Exchange ==
  /\ kind = "text"
  /\ \E s \in Texts :
       Len(s) = Len(position) /\ Becomes(Swapped(value, FromRange(s))[1], s)

-----------------------------------------------------------------------------
(* A static map: the client thinks of its value for every key that is      *)
(* equal to one of the keys it was built with.                             *)

TableInit ==
  /\ kind = "table"
  /\ \E n \in 1 .. KeyClasses, v \in Given :
       \E keys \in [1 .. n -> Keys] :
         /\ value = [i \in 1 .. n |-> <<keys[i], v>>]
         /\ NoneRepeatKeys(value)
         /\ position = [k \in {x \in Keys : \E i \in 1 .. n : KeyEqual(keys[i], x)} |-> v]

\* *map.at(key) = v, map[key] = v
AssignValue(key, v) ==
  /\ kind = "table" /\ ~IsNull(value, key)
  /\ Becomes(AssignAt(value, key, v),
             [k \in DOMAIN position |-> IF KeyEqual(k, key) THEN v ELSE position[k]])

-----------------------------------------------------------------------------
(* Two InitOnce objects: the client thinks of the first value each was     *)
(* given or took from another, or Nothing.                                 *)

Nothing == "nothing"

OnceInit ==
  /\ kind = "once"
  /\ value = [o \in Pair |-> NewOnce] /\ position = [o \in Pair |-> Nothing]

First(o, v) == [position EXCEPT ![o] = IF @ = Nothing THEN v ELSE @]

\* o.init(v), o = v
Give(o, v) ==
  kind = "once" /\ Becomes([value EXCEPT ![o] = Initialised(@, v)], First(o, v))

\* o = other, o = std::move(other)
Take(o, other) ==
  /\ kind = "once" /\ o # other
  /\ LET taken == [value EXCEPT ![o] = AssignedOnce(@, value[other])]
         met == First(o, value[other].v)
     IN  \/ Becomes(taken, met)
         \/ Becomes([taken EXCEPT ![other] = LeftByAssign(value[o], @)],
                    [met EXCEPT ![other] = IF @ # Nothing /\ position[o] = Nothing
                                           THEN MovedFrom ELSE @])

\* The scope of o ends; another begins with a copy of other, or takes it.
Replace(o, other) ==
  /\ kind = "once" /\ o # other
  /\ LET copied == [value EXCEPT ![o] = CopyOnce(value[other])]
         met == [position EXCEPT ![o] = value[other].v]
     IN  \/ Becomes([value EXCEPT ![o] = NewOnce], [position EXCEPT ![o] = Nothing])
         \/ \E v \in Given :
              Becomes([value EXCEPT ![o] = MadeOnce(v)], [position EXCEPT ![o] = v])
         \/ Becomes(copied, met)
         \/ Becomes([copied EXCEPT ![other] = LeftOnce(@)],
                    [met EXCEPT ![other] = IF @ = Nothing THEN @ ELSE MovedFrom])

-----------------------------------------------------------------------------
CoreInit == Init \/ (off = 0 /\ (TextInit \/ TableInit \/ OnceInit))

CoreNext ==
  \/ Next
  \/ Join \/ Exchange
  \/ \E key \in Keys, v \in Given : AssignValue(key, v)
  \/ \E o \in Pair : \E v \in Given : Give(o, v)
  \/ \E o, other \in Pair : Take(o, other) \/ Replace(o, other)

CoreSpec == CoreInit /\ [][CoreNext]_vars
-----------------------------------------------------------------------------
\* A string holds the characters it was made of, in their order and NULs among
\* them, with a NUL behind; it compares with any other by them alone.
TextKept ==
  /\ View(value) = position /\ Last(value) = Nul
  /\ \A txt \in Literals :
       LET other == FromLiteral(txt)
       IN  /\ TextEquals(value, other) <=> position = Front(txt)
           /\ TextEqualsLiteral(value, txt) <=> position = Front(txt)
           /\ TextLess(value, other) \/ TextLess(other, value) <=> position # Front(txt)
           /\ ~(TextLess(value, other) /\ TextLess(other, value))

\* Every key equal to one of the map's keys finds the value last assigned
\* through any of its equals, and no other key finds anything.
TableKept ==
  /\ NoneRepeatKeys(value)
  /\ \A key \in Keys :
       IF key \in DOMAIN position
       THEN ~IsNull(value, key) /\ At(value, key) = position[key]
       ELSE IsNull(value, key)

\* An InitOnce refuses init() exactly if it was given a value or took that of
\* another, and keeps the first one until it is moved.
OnceKept ==
  \A o \in Pair :
    /\ Accepts(value[o]) <=> position[o] = Nothing
    /\ position[o] # Nothing => value[o].v = position[o]

\* FixedString, StaticMap and InitOnce hold what their client thinks they do
\* after any sequence of calls: also when the text has NULs in it, the keys
\* are equal without being the same, and an InitOnce is made of one that was
\* never initialised (which counts as initialised from then on).
ValuesKept ==
  /\ kind = "text" => TextKept
  /\ kind = "table" => TableKept
  /\ kind = "once" => OnceKept
=============================================================================
