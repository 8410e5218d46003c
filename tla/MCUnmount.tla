------------------------------ MODULE MCUnmount ------------------------------
(* Instances of Unmount for TLC. *)
EXTENDS Unmount, TLC

Symmetry == Permutations(Obj) \cup Permutations(Thread) \cup Permutations(Desc)

=============================================================================
