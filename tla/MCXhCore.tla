------------------------------ MODULE MCXhCore ------------------------------
(* Instances of XhCore, and of its refinement, for TLC. *)
EXTENDS XhCoreRefinement, TLC

\* Threads of one kind are interchangeable; used where no liveness is checked.
Symmetry == Permutations(Callers) \cup Permutations(Workers)
=============================================================================
