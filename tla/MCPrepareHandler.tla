-------------------------- MODULE MCPrepareHandler --------------------------
(***************************************************************************)
(* PrepareHandler with interchangeable handles and frames.                 *)
(***************************************************************************)
EXTENDS PrepareHandler, TLC

Symmetry == Permutations(Handles) \cup Permutations(Frames)
=============================================================================
