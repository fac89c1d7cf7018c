----------------------------- MODULE BufferPool -----------------------------
(***************************************************************************)
(* What a camera stream promises about its image buffers, whatever it is   *)
(* configured to: every buffer has one owner at a time and passes only     *)
(* along the pipeline, from the stream to the HAL, from the HAL to the     *)
(* client or, when the HAL never got it, straight back, and from the       *)
(* client to the stream; memory is released all at once, and never under   *)
(* the HAL or the client.                                                  *)
(***************************************************************************)
CONSTANT Handles        (* what the allocator may hand out                 *)

VARIABLE owner          (* who has each of them                            *)

Owners == {"nobody", "stream", "hal", "client"}

Init == owner = [h \in Handles |-> "nobody"]

Pass(h, from, to) ==
  /\ owner[h] \in from
  /\ owner' = [owner EXCEPT ![h] = to]

(* A buffer is allocated ahead of its first use ...                        *)
Preallocate(h) == Pass(h, {"nobody"}, "stream")
(* ... or for it; it goes to the HAL with a request ...                    *)
Lend(h) == Pass(h, {"nobody", "stream"}, "hal")
(* ... to the client with its result, and back.                            *)
Deliver(h) == Pass(h, {"hal"}, "client")
GiveBack(h) == Pass(h, {"hal", "client"}, "stream")

ReleaseAll ==
  /\ \A h \in Handles : owner[h] \in {"nobody", "stream"}
  /\ owner' = [h \in Handles |-> "nobody"]

Next ==
  \/ \E h \in Handles : Preallocate(h) \/ Lend(h) \/ Deliver(h) \/ GiveBack(h)
  \/ ReleaseAll

Spec == Init /\ [][Next]_owner
=============================================================================
