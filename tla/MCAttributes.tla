---------------------------- MODULE MCAttributes ----------------------------
(* Instances of Attributes for TLC. *)
EXTENDS Attributes, TLC

Symmetry == Permutations(Ino) \cup Permutations(Name) \cup Permutations(Thread) \cup Permutations(Value)

=============================================================================
