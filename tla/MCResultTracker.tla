--------------------------- MODULE MCResultTracker ---------------------------
(***************************************************************************)
(* ResultTracker with interchangeable streams.                             *)
(***************************************************************************)
EXTENDS ResultTracker, TLC

Symmetry == Permutations(Streams)
=============================================================================
