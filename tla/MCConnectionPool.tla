-------------------------- MODULE MCConnectionPool --------------------------
(* Small instances of ConnectionPool for TLC. *)
EXTENDS ConnectionPool, TLC

CONSTANTS t1, t2, s1, s2

TwoTasks == {t1, t2}
TwoStates == {s1, s2}
Unlimited == -1

\* Goroutines and addresses are interchangeable.
Symmetry == Permutations(TwoTasks) \cup Permutations(TwoStates)
=============================================================================
