-------------------------- MODULE MCWorkspaceAtlas --------------------------
(* Model checking of WorkspaceAtlas on small sets. *)
EXTENDS WorkspaceAtlas, TLC

(* Objects are interchangeable, and so are the slots of the compiles. *)
Symmetry == Permutations(Objects) \cup Permutations(Compiles)
=============================================================================
