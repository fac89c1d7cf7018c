--------------------------- MODULE MCCameraDevice ---------------------------
(***************************************************************************)
(* CameraDevice with every list of up to MaxList requests, interchangeable *)
(* clients and interchangeable streams.                                    *)
(***************************************************************************)
EXTENDS CameraDevice, TLC

CONSTANT MaxList

ListsOfRequests ==
  UNION {[1 .. n -> SUBSET Streams \ {{}}] : n \in 1 .. MaxList}

Symmetry == Permutations(Clients) \cup Permutations(Streams)
=============================================================================
