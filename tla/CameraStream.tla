---------------------------- MODULE CameraStream ----------------------------
(***************************************************************************)
(* Camera3Stream (adaptor/camera_stream.cc): one output stream, its        *)
(* buffers and its standing with Camera3Monitor.  Every operation holds    *)
(* lock_ throughout and is one action, but for GetBuffer, whose wait for a *)
(* returned buffer gives the lock up.                                      *)
(*                                                                         *)
(* The HAL's answer to configureStreams is not written back to             *)
(* camera_stream_ or stream_max_buffers_: both keep the client's values,   *)
(* so that a reconfiguration always finds usage and count unchanged        *)
(* (EndConfigure, first condition) and keeps the buffers, and              *)
(* total_buffer_count_ is client_max_buffers_ once configured.             *)
(***************************************************************************)
EXTENDS Integers, Sequences, FiniteSets, Functions

CONSTANTS
  Handles,      (* buffers the allocator may return                        *)
  Frames,       (* frame numbers; one at the HAL is not used again         *)
  ClientMax     (* client_max_buffers_                                     *)

ASSUME StreamAssumption ==
  /\ IsFiniteSet(Handles)
  /\ "none" \notin Handles
  /\ ClientMax \in Nat \ {0}

VARIABLES
  status,        (* status_                                                *)
  total,         (* total_buffer_count_                                    *)
  pending,       (* pending_buffer_count_                                  *)
  buffers,       (* the handles in mem_alloc_buffers_ ...                  *)
  free,          (* ... and those among them whose value is true           *)
  slots,         (* mem_alloc_slots_, up to hw_buffer_allocated_           *)
  buffersMap,    (* buffers_map: the handle in each frame the HAL has, or  *)
                 (* "none"                                                 *)
  monitored,     (* monitor_id_ is valid                                   *)
  reported,      (* last state queued for that id, IDLE when it is new     *)
  streamActive,  (* is_stream_active_                                      *)
  prepared,      (* prepared_buffers_count_                                *)
  waiter,        (* the request handler's wait in GetBuffer                *)
  atClient,      (* handles the client has been called back with           *)
  drained        (* history: the device client has so far configured only  *)
                 (* between requests and with no buffer pending, which is  *)
                 (* what InternalPauseAndWaitLocked is there for           *)

vars == <<status, total, pending, buffers, free, slots, buffersMap, monitored,
          reported, streamActive, prepared, waiter, atClient, drained>>

Statuses == {"INITIALIZED", "CONFIG_ACTIVE", "RECONFIG_ACTIVE",
             "CONFIGURED", "PREPARE_ACTIVE", "destroyed"}
Configuring == {"CONFIG_ACTIVE", "RECONFIG_ACTIVE"}

Init ==
  /\ status = "INITIALIZED"
  /\ total = 0
  /\ pending = 0
  /\ buffers = {}
  /\ free = {}
  /\ slots = <<>>
  /\ buffersMap = [f \in Frames |-> "none"]
  /\ monitored = FALSE
  /\ reported = "IDLE"
  /\ streamActive = FALSE
  /\ prepared = 0
  /\ waiter = "none"
  /\ atClient = {}
  /\ drained = TRUE

Taken == buffers \ free
FramesAtHal == {f \in Frames : buffersMap[f] # "none"}

-----------------------------------------------------------------------------
(* Configuration, under the device client's lock.  A stream is prepared,   *)
(* torn down, closed or destroyed only if the request handler holds no     *)
(* request for it (Camera3RequestHandler::IsStreamActive), hence is not in *)
(* GetBuffer; reconfigured it may be at any time.                          *)

configUntouched == <<pending, prepared, waiter, atClient, buffersMap>>

(* The monitor is given up for the time of the configuration.              *)
BeginConfigure ==
  /\ status \in {"INITIALIZED", "CONFIGURED"}
  /\ status' = IF status = "INITIALIZED" THEN "CONFIG_ACTIVE"
               ELSE "RECONFIG_ACTIVE"
  /\ monitored' = FALSE
  /\ drained' = (drained /\ waiter = "none" /\ pending = 0)
  /\ UNCHANGED <<total, buffers, free, slots, reported, streamActive,
                 configUntouched>>

(* A first configuration starts with no buffer (ConfigureLocked) ...       *)
EndConfigure ==
  /\ status = "CONFIG_ACTIVE"
  /\ status' = "CONFIGURED"
  /\ monitored' = TRUE
  /\ reported' = "IDLE"
  /\ total' = ClientMax
  /\ buffers' = {}
  /\ free' = {}
  /\ slots' = <<>>
  /\ streamActive' = FALSE
  /\ pending' = 0
  /\ UNCHANGED <<prepared, waiter, atClient, buffersMap, drained>>

(* ... any later one changes nothing but the monitor id.                   *)
EndReconfigure ==
  /\ status = "RECONFIG_ACTIVE"
  /\ status' = "CONFIGURED"
  /\ monitored' = TRUE
  /\ reported' = "IDLE"
  /\ UNCHANGED <<total, buffers, free, slots, streamActive, drained,
                 configUntouched>>

AbortConfigure ==
  /\ status \in Configuring
  /\ status' = IF status = "RECONFIG_ACTIVE" THEN "CONFIGURED"
               ELSE "INITIALIZED"
  /\ UNCHANGED <<total, buffers, free, slots, monitored, reported, streamActive,
                 drained, configUntouched>>

(* Mutant: it does not.                                                    *)
CanClose_Always == status \in {"RECONFIG_ACTIVE", "CONFIGURED"}

(* CloseLocked refuses to free buffers that are out.                       *)
CanClose == status \in {"RECONFIG_ACTIVE", "CONFIGURED"} /\ pending = 0

(* Close leaves hw_buffer_allocated_ and the slots as they were.           *)
Close ==
  /\ waiter = "none"
  /\ CanClose
  /\ status' = IF status = "RECONFIG_ACTIVE" THEN "CONFIG_ACTIVE"
               ELSE "INITIALIZED"
  /\ buffers' = {}
  /\ free' = {}
  /\ UNCHANGED <<total, slots, monitored, reported, streamActive, drained,
                 configUntouched>>

(* The destructor: buffers that cannot be closed are never freed.          *)
Destroy ==
  /\ waiter = "none"
  /\ status # "destroyed"
  /\ status' = "destroyed"
  /\ monitored' = FALSE
  /\ buffers' = IF CanClose THEN {} ELSE buffers
  /\ free' = IF CanClose THEN {} ELSE free
  /\ UNCHANGED <<total, slots, reported, streamActive, drained, configUntouched>>

-----------------------------------------------------------------------------
(* Preparation, by Camera3PrepareHandler, and tear down.                   *)

prepareUntouched == <<total, pending, buffersMap, monitored, reported, waiter,
                      atClient, drained>>

BeginPrepare ==
  /\ waiter = "none"
  /\ status = "CONFIGURED"
  /\ ~streamActive
  /\ pending = 0
  /\ prepared' = 0
  /\ status' = "PREPARE_ACTIVE"
  /\ UNCHANGED <<buffers, free, slots, streamActive, prepareUntouched>>

(* One buffer is allocated and left free; the last one ends the            *)
(* preparation.  With no slot left or no memory nothing changes.           *)
PrepareBuffer(h) ==
  /\ status = "PREPARE_ACTIVE"
  /\ Len(slots) < total
  /\ h \notin buffers
  /\ buffers' = buffers \cup {h}
  /\ free' = free \cup {h}
  /\ slots' = Append(slots, h)
  /\ IF prepared + 1 < total
     THEN prepared' = prepared + 1 /\ UNCHANGED status
     ELSE prepared' = 0 /\ status' = "CONFIGURED"
  /\ UNCHANGED <<streamActive, prepareUntouched>>

EndPrepare ==
  /\ status = "PREPARE_ACTIVE"
  /\ prepared' = 0
  /\ status' = "CONFIGURED"
  /\ UNCHANGED <<buffers, free, slots, streamActive, prepareUntouched>>

TearDown ==
  /\ waiter = "none"
  /\ status = "CONFIGURED"
  /\ pending = 0
  /\ buffers' = IF slots # <<>> THEN {} ELSE buffers
  /\ free' = IF slots # <<>> THEN {} ELSE free
  /\ slots' = <<>>
  /\ streamActive' = FALSE
  /\ UNCHANGED <<status, prepared, prepareUntouched>>

-----------------------------------------------------------------------------
(* Buffers out to the HAL.                                                 *)

getUntouched == <<status, total, monitored, streamActive, prepared, atClient,
                  drained>>

(* GetBufferLocked for a request: a free buffer is reused, or with none a  *)
(* new one allocated; the first one out reports the stream ACTIVE, unless  *)
(* it is being configured.                                                 *)
CanGet == status \in Configuring \cup {"CONFIGURED", "PREPARE_ACTIVE"}

Reusable(h) == h \in free
Allocatable(h) == free = {} /\ Len(slots) < total /\ h \notin buffers

(* Mutant: ACTIVE is reported with the second buffer.                      *)
GetBufferLocked_SecondReports(f, h) ==
  /\ CanGet
  /\ Reusable(h) \/ Allocatable(h)
  /\ slots' = IF h \in buffers THEN slots ELSE Append(slots, h)
  /\ buffers' = buffers \cup {h}
  /\ free' = free \ {h}
  /\ buffersMap' = [buffersMap EXCEPT ![f] = h]
  /\ reported' = IF pending = 1 /\ status \notin Configuring /\ monitored
                 THEN "ACTIVE" ELSE reported
  /\ pending' = pending + 1
  /\ UNCHANGED getUntouched

GetBufferLocked(f, h) ==
  /\ CanGet
  /\ Reusable(h) \/ Allocatable(h)
  /\ slots' = IF h \in buffers THEN slots ELSE Append(slots, h)
  /\ buffers' = buffers \cup {h}
  /\ free' = free \ {h}
  /\ buffersMap' = [buffersMap EXCEPT ![f] = h]
  /\ reported' = IF pending = 0 /\ status \notin Configuring /\ monitored
                 THEN "ACTIVE" ELSE reported
  /\ pending' = pending + 1
  /\ UNCHANGED getUntouched

(* A handle is known to the allocator's map only while its slot is: the    *)
(* search of the slots always finds a reused one (SlotsMatch).             *)
GetBuffer(f, h) ==
  /\ waiter = "none"
  /\ status = "CONFIGURED"
  /\ pending # total
  /\ f \notin FramesAtHal
  /\ GetBufferLocked(f, h)
  /\ UNCHANGED waiter

StartWait ==
  /\ waiter = "none"
  /\ status = "CONFIGURED"
  /\ pending = total
  /\ waiter' = "waiting"
  /\ UNCHANGED <<pending, buffers, free, slots, buffersMap, reported, getUntouched>>

(* BUFFER_WAIT_TIMEOUT runs out: the request is skipped.                   *)
WaitTimesOut ==
  /\ waiter = "waiting"
  /\ waiter' = "none"
  /\ UNCHANGED <<pending, buffers, free, slots, buffersMap, reported, getUntouched>>

(* A wait that ended in a signal is not repeated: the requester takes a    *)
(* buffer whatever became of the stream meanwhile.                         *)
GetAfterWait(f, h) ==
  /\ waiter = "signalled"
  /\ f \notin FramesAtHal
  /\ GetBufferLocked(f, h)
  /\ waiter' = "none"

-----------------------------------------------------------------------------
(* Buffers back from the HAL.                                              *)

(* ReturnBufferToClient.  A buffer with an error status takes the same way *)
(* and is returned on the client's behalf.                                 *)
ReturnBufferToClient(f) ==
  /\ status # "destroyed"
  /\ f \in FramesAtHal
  /\ atClient' = atClient \cup {buffersMap[f]}
  /\ buffersMap' = [buffersMap EXCEPT ![f] = "none"]
  /\ streamActive' = TRUE
  /\ UNCHANGED <<status, total, pending, buffers, free, slots, monitored, reported,
                 prepared, waiter, drained>>

(* Mutant: the handle is not marked free.                                  *)
ReturnBuffer_NotFreed(h) ==
  /\ status \notin {"INITIALIZED", "destroyed"}
  /\ pending > 0
  /\ h \in buffers
  /\ pending' = pending - 1
  /\ reported' = IF pending = 1 /\ status \notin Configuring /\ monitored
                 THEN "IDLE" ELSE reported
  /\ waiter' = IF waiter = "waiting" THEN "signalled" ELSE waiter
  /\ UNCHANGED <<status, total, buffers, free, slots, monitored,
                 streamActive, prepared, drained>>

(* ReturnBuffer: the handle is free again, the last one back reports the   *)
(* stream IDLE, and one waiting requester is signalled.                    *)
ReturnBuffer(h) ==
  /\ status \notin {"INITIALIZED", "destroyed"}
  /\ pending > 0
  /\ h \in buffers
  /\ free' = free \cup {h}
  /\ pending' = pending - 1
  /\ reported' = IF pending = 1 /\ status \notin Configuring /\ monitored
                 THEN "IDLE" ELSE reported
  /\ waiter' = IF waiter = "waiting" THEN "signalled" ELSE waiter
  /\ UNCHANGED <<status, total, buffers, slots, monitored, streamActive,
                 prepared, drained>>

ClientReturns(h) ==
  /\ h \in atClient
  /\ ReturnBuffer(h)
  /\ atClient' = atClient \ {h}
  /\ UNCHANGED buffersMap

(* HandleErrorRequest: the request never reached the HAL.                  *)
HandleErrorRequest(f) ==
  /\ f \in FramesAtHal
  /\ ReturnBuffer(buffersMap[f])
  /\ buffersMap' = [buffersMap EXCEPT ![f] = "none"]
  /\ UNCHANGED atClient

-----------------------------------------------------------------------------
Next ==
  \/ BeginConfigure \/ EndConfigure \/ EndReconfigure \/ AbortConfigure
  \/ Close \/ Destroy
  \/ BeginPrepare \/ EndPrepare \/ TearDown
  \/ \E h \in Handles : PrepareBuffer(h) \/ ClientReturns(h)
  \/ StartWait \/ WaitTimesOut
  \/ \E f \in Frames, h \in Handles : GetBuffer(f, h) \/ GetAfterWait(f, h)
  \/ \E f \in Frames : ReturnBufferToClient(f) \/ HandleErrorRequest(f)

Spec == Init /\ [][Next]_vars

-----------------------------------------------------------------------------
TypeOK ==
  /\ status \in Statuses
  /\ total \in {0, ClientMax}
  /\ pending \in 0 .. ClientMax
  /\ buffers \subseteq Handles
  /\ free \subseteq buffers
  /\ slots \in Seq(Handles) /\ Len(slots) <= ClientMax
  /\ buffersMap \in [Frames -> Handles \cup {"none"}]
  /\ monitored \in BOOLEAN
  /\ reported \in {"IDLE", "ACTIVE"}
  /\ streamActive \in BOOLEAN
  /\ prepared \in 0 .. ClientMax
  /\ waiter \in {"none", "waiting", "signalled"}
  /\ atClient \subseteq Handles
  /\ drained \in BOOLEAN

(* Every buffer that is out is counted once and is in one place: in one    *)
(* frame at the HAL or with the client; and no other buffer is, so that    *)
(* none is freed or reused under either (GetBufferLocked, CloseLocked,     *)
(* TearDown, ReturnBufferLocked).                                          *)
OneHolder ==
  /\ pending = Cardinality(Taken)
  /\ \A f \in FramesAtHal : buffersMap[f] \in Taken \ atClient
  /\ \A h \in Taken \ atClient : \E f \in FramesAtHal : buffersMap[f] = h
  /\ \A f, g \in FramesAtHal : buffersMap[f] = buffersMap[g] => f = g
  /\ atClient \subseteq Taken

(* While buffers can be had, the slots list the handles of the map, each   *)
(* once and within the limit: the index sent to the HAL as bufferId is     *)
(* found, and is this buffer's alone.                                      *)
SlotsMatch ==
  CanGet /\ status # "CONFIG_ACTIVE" =>
    /\ Range(slots) = buffers
    /\ IsInjective(slots)
    /\ Len(slots) <= total

(* Camera3Monitor is told the truth while the device client drains the     *)
(* device before it configures: a monitored stream that is not being       *)
(* configured has last reported ACTIVE just when buffers are pending.      *)
ReportedTruthfully ==
  drained /\ monitored /\ status \notin Configuring =>
    (reported = "ACTIVE" <=> pending > 0)

(* What remains of it when a reconfiguration may come with buffers still   *)
(* pending, whose new id starts IDLE: ACTIVE is never left behind.         *)
NeverStuckActive == monitored /\ pending = 0 => reported = "IDLE"

(* The requester signalled by ReturnBuffer finds a free buffer although it *)
(* does not look again at what it waited for (GetBuffer, the if of line    *)
(* 421), so that it needs no memory either.                                *)
SignalMeansBuffer ==
  waiter = "signalled" => CanGet /\ free # {}

(* A preparation that runs to its end leaves every buffer of the stream    *)
(* allocated and free: total requests are then served without the          *)
(* allocator (PrepareBuffer, also after an earlier one was abandoned).     *)
PreparationComplete ==
  [][status = "PREPARE_ACTIVE" /\ status' = "CONFIGURED" /\ buffers' # buffers
       => Cardinality(free') = total]_vars

(* The stream is a buffer pool.                                            *)
Owner(h) ==
  CASE h \notin buffers -> "nobody"
    [] h \in free -> "stream"
    [] h \in Taken \ atClient -> "hal"
    [] h \in Taken \cap atClient -> "client"

Pool == INSTANCE BufferPool WITH owner <- [h \in Handles |-> Owner(h)]

ImplementsPool == Pool!Spec
=============================================================================
