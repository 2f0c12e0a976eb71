------------------------- MODULE ApplyRollbackMC -------------------------
(* Instances of ApplyRollback for TLC. *)
EXTENDS ApplyRollback, TLC

CONSTANTS a, b, c1, c2, s1, s2

\* Every tab has a session of its own.
OwnSessions == (a :> s1) @@ (b :> s2)
\* A single tab.
OneTab == (a :> s1)

Symmetry == Permutations(Conns)
FileSymmetry == Permutations(Conns) \cup Permutations(Configs) \cup Permutations(Values)
=============================================================================
