---------------------------- MODULE IdleNotifier ----------------------------
(***************************************************************************)
(* What Camera3Monitor promises to the client of its idle callback,        *)
(* whatever the number of monitored objects and however their transitions  *)
(* are queued: the composite state of the device is a two-valued level,    *)
(* every change of the level is remembered, and the changes are delivered  *)
(* one by one, in order, none invented, none merged and none dropped.      *)
(***************************************************************************)
EXTENDS Naturals

VARIABLES
  level,      (* composite state after every change recorded so far        *)
  backlog,    (* number of changes recorded and not yet delivered          *)
  told        (* what the last callback said                               *)

vars == <<level, backlog, told>>

Opposite(s) == IF s = "IDLE" THEN "ACTIVE" ELSE "IDLE"

Init ==
  /\ level = "IDLE"
  /\ backlog = 0
  /\ told = "IDLE"

(* The level flips and one more callback is due.                           *)
Change ==
  /\ level' = Opposite(level)
  /\ backlog' = backlog + 1
  /\ UNCHANGED told

(* The oldest due callback is made: it flips what the client was told.     *)
Deliver ==
  /\ backlog > 0
  /\ backlog' = backlog - 1
  /\ told' = Opposite(told)
  /\ UNCHANGED level

Next == Change \/ Deliver

Spec == Init /\ [][Next]_vars
=============================================================================
