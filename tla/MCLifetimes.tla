----------------------------- MODULE MCLifetimes -----------------------------
(***************************************************************************)
(* Instance of Lifetimes for TLC.  Nothing in the module tells one user,   *)
(* object of a class or address from another, so they are interchangeable. *)
(***************************************************************************)
EXTENDS Lifetimes, TLC

Symmetry == Permutations(Users) \cup Permutations(ThreadVars)
              \cup Permutations(ObjectVars) \cup Permutations(Addresses)
=============================================================================
