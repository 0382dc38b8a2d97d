--------------------------- MODULE MCAsyncLogger ----------------------------
(***************************************************************************)
(* Small instances of AsyncLogger for TLC.                                 *)
(***************************************************************************)
EXTENDS AsyncLogger, TLC

CONSTANTS p1, p2

TwoProducers == {p1, p2}

\* Debug is below the default ignore level 2, Info is not.
Ordinary == {1, 2}
WithFatal == {1, 2, 5}

\* The producers are interchangeable; used where only invariants and action
\* properties are checked.
Symmetry == Permutations(TwoProducers)
=============================================================================
