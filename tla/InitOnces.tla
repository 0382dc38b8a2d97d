----------------------------- MODULE InitOnces -----------------------------
(***************************************************************************)
(* InitOnce<Type> (core/inc/emdevif/core/utils/init_once.hpp): a value     *)
(* that can be initialised once.                                           *)
(***************************************************************************)

CONSTANTS Default,  \* what Type's default constructor makes
          MovedFrom \* what is left of a Type that was moved

NewOnce == [v |-> Default, isInit |-> FALSE]

\* explicit InitOnce(other_value)
MadeOnce(value) == [v |-> value, isInit |-> TRUE]

\* Faulty form of Initialised: the flag is not looked at.
InitialisedAgain(once, value) == MadeOnce(value)

\* init(other_value), and assignment of a value: Success, or AlreadyExists
Accepts(once) == ~once.isInit
Initialised(once, value) == IF Accepts(once) THEN MadeOnce(value) ELSE once

\* Copy and move construction: the copy counts as initialised.
CopyOnce(other) == MadeOnce(other.v)
LeftOnce(other) == [other EXCEPT !.v = MovedFrom]

\* Assignment of another InitOnce, which loses its value if it is moved and
\* the value was taken.
AssignedOnce(once, other) == Initialised(once, other.v)
LeftByAssign(once, other) == IF Accepts(once) THEN LeftOnce(other) ELSE other
=============================================================================
