----------------------------- MODULE MCLifecycle -----------------------------
(* Instances of Lifecycle for TLC: see the .cfg files. *)
EXTENDS LifecycleInv, TLC

\* Names, clients and ports are interchangeable.
Symmetry == Permutations(Names) \cup Permutations(Clients) \cup Permutations(Ports)

=============================================================================
