------------------------------- MODULE MCDedup -------------------------------
(* Instances of Dedup for TLC. *)
EXTENDS Dedup, TLC

Symmetry == Permutations(Ino) \cup Permutations(Name) \cup Permutations(Data) \cup Permutations(Desc)

=============================================================================
