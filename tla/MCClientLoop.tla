---------------------------- MODULE MCClientLoop -----------------------------
(* TLC instances of ClientLoop. *)
EXTENDS ClientLoop, TLC

\* User threads are interchangeable.
Symmetry == Permutations(Users)

=============================================================================
