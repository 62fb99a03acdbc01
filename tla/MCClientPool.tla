---------------------------- MODULE MCClientPool -----------------------------
(* TLC instance of ClientPool. *)
EXTENDS ClientPool, TLC

\* Addresses whose hashes differ.
MCKey == [l \in Links |-> l]

\* A negative limit, and one below the default.
MCMaxNums == {-1, 1}

\* Threads are interchangeable, and so are addresses.
Symmetry == Permutations(Threads) \cup Permutations(Links)

=============================================================================
