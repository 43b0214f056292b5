------------------------------- MODULE MCAuth -------------------------------
(***************************************************************************)
(* Auth on small instances.  Tasks and accounts are interchangeable, so    *)
(* the safety runs identify states that differ only in their names; the    *)
(* run with a liveness property does not use the symmetry.                 *)
(***************************************************************************)
EXTENDS Auth, TLC

Symmetry == Permutations(Tasks) \union Permutations(Accounts)
=============================================================================
