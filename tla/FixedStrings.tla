---------------------------- MODULE FixedStrings ----------------------------
(***************************************************************************)
(* BasicFixedString<CharT, N> (core/inc/emdevif/core/data_container/       *)
(* fixed_string.hpp): N characters and a NUL behind them.  A string is the *)
(* sequence of its N + 1 places, and so is a literal.                      *)
(***************************************************************************)
EXTENDS Integers, SequencesExt

Nul == 0

\* view(): all N characters, NULs among them.
View(s) == Front(s)

\* Construction from a range of characters, which zero-initialises data_.
FromRange(chars) == Append(chars, Nul)

\* Construction from a literal of N + 1 places: its last place is asserted to
\* be NUL and not copied.
FromLiteral(txt) == Append(Front(txt), Nul)

\* operator+ with a string and with a character on either side
Concat(lhs, rhs) == FromRange(View(lhs) \o View(rhs))
ConcatChar(lhs, char) == FromRange(Append(View(lhs), char))
CharConcat(char, rhs) == FromRange(<<char>> \o View(rhs))

\* operator+ with a literal on the right, whose NUL comes with it ...
ConcatLiteral(lhs, txt) == FromLiteral(View(lhs) \o txt)

\* ... and on the left, whose NUL is left out.
LiteralConcat(txt, rhs) == FromLiteral(Front(txt) \o View(rhs) \o <<Nul>>)

\* swap(), place by place, the NUL as well; both are of one length.
Swapped(x, y) == <<[i \in DOMAIN x |-> y[i]], [i \in DOMAIN y |-> x[i]]>>

\* Comparison, with a string and with a literal
TextEquals(lhs, rhs) == View(lhs) = View(rhs)
TextEqualsLiteral(lhs, txt) == View(lhs) = Front(txt)

\* operator<=> of the views: the first difference decides, or the length.
Precedes(a, b) ==
  \/ IsStrictPrefix(a, b)
  \/ \E i \in DOMAIN a \cap DOMAIN b :
       a[i] < b[i] /\ \A j \in 1 .. i - 1 : a[j] = b[j]

TextLess(lhs, rhs) == Precedes(View(lhs), View(rhs))
=============================================================================
