------------------------------ MODULE MCWorkRecord ------------------------------
(* Instances of WorkRecord for TLC: see the .cfg files. *)
EXTENDS WorkRecordInv, TLC

Sym == Permutations(Clients) \cup Permutations(Names)

=============================================================================
