----------------------------- MODULE MCA64Hook ------------------------------
(* Instances of A64Hook for TLC. *)
EXTENDS A64Hook, TLC

Symmetric == Permutations(Hooks)
=============================================================================
