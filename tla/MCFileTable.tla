----------------------------- MODULE MCFileTable -----------------------------
(* Instances of FileTable for TLC. *)
EXTENDS FileTable, TLC

Symmetry == Permutations(Obj) \cup Permutations(Thread) \cup Permutations(Desc)

=============================================================================
