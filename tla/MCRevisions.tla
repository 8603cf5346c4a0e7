----------------------------- MODULE MCRevisions -----------------------------
(***************************************************************************)
(* Agent processes on one run directory; which process and which change it *)
(* is makes no difference to the invariants.                               *)
(***************************************************************************)
EXTENDS RevisionStore, TLC

Symmetry == Permutations(Agents) \cup Permutations(Changes)
=============================================================================
