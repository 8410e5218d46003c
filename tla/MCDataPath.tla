----------------------------- MODULE MCDataPath -----------------------------
(* Instances of DataPath for TLC. *)
EXTENDS DataPath, TLC

Symmetry == Permutations(Desc)

\* No two of its pages are equal, and the last is not full.
FirstSample == <<1, 0, 0, 1, 1>>

=============================================================================
