---------------------------- MODULE ResultTracker ----------------------------
(***************************************************************************)
(* The result half of Camera3DeviceClient (adaptor/camera_device_client.cc,*)
(* MarkPendingRequest to RemovePendingRequestLocked): what the HAL sends   *)
(* for a frame, in any order - its shutter, its metadata, its buffers, its *)
(* errors - is put together and handed on to the client and the streams.   *)
(*                                                                         *)
(* Each handler holds pending_requests_lock_ from its first look at the    *)
(* vector to its last and is one action.  Metadata is one item per frame,  *)
(* and what is read from the queue is taken to be the frame's own: a block *)
(* left in it (NothingInside) would come out in its place.  A result that  *)
(* carries only some partial metadata is, for what is kept here, one       *)
(* without.  A frame number that was given out but not submitted is seen   *)
(* by nobody and left out.  The HAL returns no buffer it does not have.    *)
(***************************************************************************)
EXTENDS Integers, Sequences, FiniteSets

CONSTANTS
  MaxFrame,   (* bound on the frames submitted                             *)
  Streams,    (* output streams                                            *)
  Conducts,   (* how the HAL may behave: "any"how; "honest", keeping to    *)
              (* its contract, with shutters and metadata once each and in *)
              (* the order of the frames; "faultless", honest without an   *)
              (* error to report                                           *)
  Faults      (* the errors it may have to report: of "frame"s, of the     *)
              (* "device", both or none                                    *)

ASSUME TrackerAssumption ==
  /\ MaxFrame \in Nat
  /\ IsFiniteSet(Streams)
  /\ Conducts \subseteq {"any", "honest", "faultless"}
  /\ Faults \subseteq {"frame", "device"}

VARIABLES
  conduct,        (* the HAL's conduct, which never changes                *)
  next,           (* current_frame_number_: frames below it are submitted  *)
  registered,     (* keys of pending_requests_vector_                      *)
  requests,       (* its values; of an erased one, the value it had last   *)
  errorRequests,  (* keys of pending_error_requests_vector_                *)
  nextShutter,    (* next_shutter_frame_number_                            *)
  nextResult,     (* next_result_frame_number_                             *)
  deviceError,    (* SetErrorState was called                              *)
  shuttered,      (* frames announced by shutterCb                         *)
  results,        (* frames whose result was delivered, in that order      *)
  returned,       (* per frame, streams that got their buffer back         *)
  asked,          (* per frame, streams whose buffers the HAL was given    *)
  atHal,          (* per frame, streams whose buffers it still has         *)
  dueShutter,     (* frames whose shutter an honest HAL has to send yet ...*)
  dueMeta,        (* ... and whose metadata                                *)
  refused,        (* frames the HAL refused on submission                  *)
  lateError,      (* frames with an error reported after their last buffer *)
  inlineOnly,     (* frames whose metadata came inline, with an empty queue*)
  queueOnly       (* frames whose due metadata came by the queue alone     *)

tracker == <<registered, requests, errorRequests, nextShutter, nextResult,
             deviceError, shuttered, results, returned>>
hal == <<atHal, dueShutter, dueMeta>>
sent == <<inlineOnly, queueOnly>>
vars == <<conduct, next, tracker, asked, hal, refused, lateError, sent>>

Honest == conduct # "any"
MayReport(fault) == fault \in Faults /\ conduct # "faultless"

(* How a result may carry metadata: in its own field result, announced by  *)
(* fmqResultSize as a block in the result metadata queue, as both, or as a *)
(* block that cannot be read.  The code takes the field for its presence   *)
(* and the queue for its contents.                                         *)
Ways == {"none", "inline", "queue", "both", "torn"}

Present(way) == way \in {"inline", "both"}
Contents(way) == way = "both"

Frames == 0 .. MaxFrame - 1
Submitted == 0 .. next - 1

(* PendingRequest.  shutter, meta and failed stand for shutterTS # 0,      *)
(* isMetaPresent and status # 0; badBuffer: one of the pendingBuffers came *)
(* with an error status.                                                   *)
Request == [remaining : Nat, shutter : BOOLEAN, meta : BOOLEAN,
            failed : BOOLEAN, pendingMeta : BOOLEAN,
            pendingBuffers : SUBSET Streams, badBuffer : BOOLEAN]

NewRequest(n) ==
  [remaining |-> n, shutter |-> FALSE, meta |-> FALSE, failed |-> FALSE,
   pendingMeta |-> FALSE, pendingBuffers |-> {}, badBuffer |-> FALSE]

Init ==
  /\ conduct \in Conducts
  /\ next = 0
  /\ registered = {}
  /\ requests = [f \in Frames |-> NewRequest(0)]
  /\ errorRequests = {}
  /\ nextShutter = 0
  /\ nextResult = 0
  /\ deviceError = FALSE
  /\ shuttered = {}
  /\ results = <<>>
  /\ returned = [f \in Frames |-> {}]
  /\ asked = [f \in Frames |-> {}]
  /\ atHal = [f \in Frames |-> {}]
  /\ dueShutter = {}
  /\ dueMeta = {}
  /\ refused = {}
  /\ lateError = {}
  /\ inlineOnly = {}
  /\ queueOnly = {}

-----------------------------------------------------------------------------
(* The request handler submits: the frame is registered (mark_cb_) before  *)
(* processCaptureRequest is called, which may fail.                        *)

MarkPendingRequest(streams) ==
  /\ next \in Frames
  /\ next' = next + 1
  /\ registered' = registered \cup {next}
  /\ requests' = [requests EXCEPT ![next] = NewRequest(Cardinality(streams))]
  /\ UNCHANGED <<errorRequests, nextShutter, nextResult, shuttered, results,
                 returned, lateError, sent>>

Submit(streams) ==
  /\ MarkPendingRequest(streams)
  /\ asked' = [asked EXCEPT ![next] = streams]
  /\ atHal' = [atHal EXCEPT ![next] = streams]
  /\ dueShutter' = IF Honest THEN dueShutter \cup {next} ELSE dueShutter
  /\ dueMeta' = IF Honest THEN dueMeta \cup {next} ELSE dueMeta
  /\ UNCHANGED <<deviceError, refused>>

(* The buffers go back to their streams at once (HandleErrorRequest); the  *)
(* frame stays registered.                                                 *)
SubmitFails(streams) ==
  /\ MayReport("device")
  /\ MarkPendingRequest(streams)
  /\ deviceError' = TRUE
  /\ refused' = refused \cup {next}
  /\ UNCHANGED <<asked, hal>>

-----------------------------------------------------------------------------
(* Steps shared by the handlers of the HAL's callbacks.                    *)

SendCaptureResult_Unordered(f, send) ==
  IF send
  THEN results' = Append(results, f) /\ nextResult' = f + 1
  ELSE UNCHANGED <<results, nextResult>>

(* SendCaptureResult: in order of frames, or not at all.                   *)
SendCaptureResult(f, send) ==
  IF send /\ f >= nextResult
  THEN results' = Append(results, f) /\ nextResult' = f + 1
  ELSE UNCHANGED <<results, nextResult>>

OutOfOrder(f, send) == send /\ f < nextResult

Complete_BuffersOnly(r) == r.remaining = 0 /\ (r.failed \/ r.shutter)
Complete_Unfailing(r) == r.remaining = 0 /\ r.meta /\ r.shutter
Complete_Shutterless(r) == r.remaining = 0 /\ (r.failed \/ r.meta)

(* RemovePendingRequestLocked, the last step of both handlers: r is what   *)
(* the request has become, done the buffers returned so far.  A complete   *)
(* request is erased and its pending buffers returned; one that failed     *)
(* before it had everything is remembered.                                 *)
Complete(r) == r.remaining = 0 /\ (r.failed \/ (r.meta /\ r.shutter))

RemovePendingRequest(f, r, done) ==
  /\ registered' = IF Complete(r) THEN registered \ {f} ELSE registered
  /\ requests' = [requests EXCEPT ![f] =
       IF Complete(r) THEN [r EXCEPT !.pendingBuffers = {}] ELSE r]
  /\ returned' = [returned EXCEPT ![f] =
       IF Complete(r) THEN done \cup r.pendingBuffers ELSE done]
  /\ errorRequests' =
       IF Complete(r) /\ r.failed /\ ~(r.meta /\ r.shutter)
       THEN errorRequests \cup {f} ELSE errorRequests

-----------------------------------------------------------------------------
(* HandleCaptureResult for frame f: buffers bufs, the ones in bad with an  *)
(* error status, and the metadata that came this way.  While a flush is    *)
(* going on an error status does not count: such a call is one with bad =  *)
(* {}.                                                                     *)

(* No buffer and nothing in the field: the call is over before the queue   *)
(* is looked at.                                                           *)
NothingInside(bufs, way) == bufs = {} /\ way = "queue"

(* The block in the queue cannot be read: the whole result is dropped.     *)
UnreadableResult ==
  /\ deviceError' = TRUE
  /\ UNCHANGED <<registered, requests, errorRequests, nextShutter, nextResult,
                 shuttered, results, returned>>

(* Of a frame that is not registered everything is ignored; it is an error *)
(* unless the frame is known to have failed, which is then forgotten.      *)
IgnoreResult(f) ==
  /\ f \notin registered
  /\ errorRequests' = errorRequests \ {f}
  /\ deviceError' = (deviceError \/ f \notin errorRequests)
  /\ UNCHANGED <<registered, requests, nextShutter, nextResult, shuttered,
                 results, returned>>

(* Metadata seen before: the whole result is dropped.                      *)
RejectResult(f, meta) ==
  /\ f \in registered
  /\ meta /\ requests[f].meta
  /\ deviceError' = TRUE
  /\ UNCHANGED <<registered, requests, errorRequests, nextShutter, nextResult,
                 shuttered, results, returned>>

(* Before the shutter buffers and contents are kept, after it passed on.   *)
(* Metadata without contents counts all the same (isMetaPresent), and      *)
(* SendCaptureResult has nothing to send.                                  *)
TakeResult(f, bufs, bad, meta, full) ==
  /\ f \in registered
  /\ ~(meta /\ requests[f].meta)
  /\ LET r == requests[f]
         counted == [r EXCEPT !.remaining = @ - Cardinality(bufs),
                              !.meta = @ \/ meta]
     IN  IF r.shutter
         THEN /\ SendCaptureResult(f, full)
              /\ deviceError' = (deviceError \/ OutOfOrder(f, full))
              /\ RemovePendingRequest(f,
                   [counted EXCEPT !.failed = @ \/ bad # {}],
                   returned[f] \cup bufs)
         ELSE /\ RemovePendingRequest(f,
                   [counted EXCEPT !.pendingBuffers = @ \cup bufs,
                                   !.badBuffer = @ \/ bad # {},
                                   !.pendingMeta = @ \/ full],
                   returned[f])
              /\ UNCHANGED <<results, nextResult, deviceError>>
  /\ UNCHANGED <<nextShutter, shuttered>>

HandleCaptureResult(f, bufs, bad, way) ==
  \/ NothingInside(bufs, way) /\ UNCHANGED tracker
  \/ way = "torn" /\ UnreadableResult
  \/ /\ ~NothingInside(bufs, way) /\ way # "torn"
     /\ \/ IgnoreResult(f)
        \/ RejectResult(f, Present(way))
        \/ TakeResult(f, bufs, bad, Present(way), Contents(way))

-----------------------------------------------------------------------------
(* NotifyShutter for frame f.                                              *)

UnknownShutter(f) ==
  /\ f \notin registered
  /\ deviceError' = TRUE
  /\ UNCHANGED <<registered, requests, errorRequests, nextShutter, nextResult,
                 shuttered, results, returned>>

(* The client is called before the order is checked.                       *)
LateShutter(f) ==
  /\ f \in registered
  /\ f < nextShutter
  /\ shuttered' = shuttered \cup {f}
  /\ deviceError' = TRUE
  /\ UNCHANGED <<registered, requests, errorRequests, nextShutter, nextResult,
                 results, returned>>

TakeShutter_Twice(f, flushing) ==
  /\ f \in registered
  /\ f >= nextShutter
  /\ shuttered' = shuttered \cup {f}
  /\ nextShutter' = f + 1
  /\ LET r == requests[f]
     IN  /\ SendCaptureResult(f, r.pendingMeta)
         /\ deviceError' = (deviceError \/ OutOfOrder(f, r.pendingMeta))
         /\ RemovePendingRequest(f,
              [r EXCEPT !.shutter = TRUE, !.failed = @ \/ r.badBuffer],
              returned[f] \cup r.pendingBuffers)

(* What was kept is passed on; returning a buffer with an error status     *)
(* makes the request a failed one, unless a flush is going on.             *)
TakeShutter(f, flushing) ==
  /\ f \in registered
  /\ f >= nextShutter
  /\ shuttered' = shuttered \cup {f}
  /\ nextShutter' = f + 1
  /\ LET r == requests[f]
     IN  /\ SendCaptureResult(f, r.pendingMeta)
         /\ deviceError' = (deviceError \/ OutOfOrder(f, r.pendingMeta))
         /\ RemovePendingRequest(f,
              [r EXCEPT !.shutter = TRUE,
                        !.failed = @ \/ (r.badBuffer /\ ~flushing),
                        !.pendingBuffers = {}],
              returned[f] \cup r.pendingBuffers)

NotifyShutter(f) ==
  \/ UnknownShutter(f)
  \/ LateShutter(f)
  \/ \E flushing \in BOOLEAN : TakeShutter(f, flushing)

-----------------------------------------------------------------------------
(* NotifyError: the request is marked, never erased.                       *)
NotifyError(f) ==
  /\ IF f \in registered
     THEN /\ requests' = [requests EXCEPT ![f].failed = TRUE]
          /\ lateError' = IF Honest /\ requests[f].remaining = 0
                          THEN lateError \cup {f} ELSE lateError
     ELSE UNCHANGED <<requests, lateError>>
  /\ UNCHANGED <<registered, errorRequests, nextShutter, nextResult,
                 deviceError, shuttered, results, returned>>

-----------------------------------------------------------------------------
(* The HAL.                                                                *)

FirstOf(f, due) == f \in due /\ \A g \in due : f <= g

MaySendMeta(f) == IF Honest THEN FirstOf(f, dueMeta) ELSE f \in Submitted
MaySendShutter(f) == IF Honest THEN FirstOf(f, dueShutter) ELSE f \in Submitted

(* An honest HAL may send metadata any way but torn.                       *)
HalResult(f, bufs, bad, way) ==
  /\ bufs \subseteq atHal[f] /\ bad \subseteq bufs
  /\ bufs # {} \/ way # "none"
  /\ way # "none" => MaySendMeta(f)
  /\ Honest => way # "torn"
  /\ bad # {} => MayReport("frame")
  /\ atHal' = [atHal EXCEPT ![f] = @ \ bufs]
  /\ dueMeta' = IF way # "none" THEN dueMeta \ {f} ELSE dueMeta
  /\ inlineOnly' = IF way = "inline" THEN inlineOnly \cup {f} ELSE inlineOnly
  /\ queueOnly' = IF way = "queue" /\ f \in dueMeta THEN queueOnly \cup {f}
                                                   ELSE queueOnly
  /\ HandleCaptureResult(f, bufs, bad, way)
  /\ UNCHANGED <<next, asked, dueShutter, refused, lateError>>

HalShutter(f) ==
  /\ MaySendShutter(f)
  /\ dueShutter' = dueShutter \ {f}
  /\ NotifyShutter(f)
  /\ UNCHANGED <<next, asked, atHal, dueMeta, refused, lateError, sent>>

(* ERROR_REQUEST: nothing but the buffers will come any more.              *)
HalFailsRequest(f) ==
  /\ MayReport("frame")
  /\ Honest => f \in dueShutter \cap dueMeta
  /\ dueShutter' = dueShutter \ {f}
  /\ dueMeta' = dueMeta \ {f}
  /\ NotifyError(f)
  /\ UNCHANGED <<next, asked, atHal, refused, sent>>

(* ERROR_RESULT: the metadata will not come.                               *)
HalFailsResult(f) ==
  /\ MayReport("frame")
  /\ Honest => f \in dueMeta
  /\ dueMeta' = dueMeta \ {f}
  /\ NotifyError(f)
  /\ UNCHANGED <<next, asked, atHal, dueShutter, refused, sent>>

(* ERROR_BUFFER: announces a buffer with an error status.                  *)
HalFailsBuffer(f) ==
  /\ MayReport("frame")
  /\ atHal[f] # {}
  /\ NotifyError(f)
  /\ UNCHANGED <<next, asked, hal, refused, sent>>

(* ERROR_DEVICE, and whatever else makes the client give the device up.    *)
HalFailsDevice ==
  /\ MayReport("device")
  /\ ~deviceError
  /\ deviceError' = TRUE
  /\ UNCHANGED <<next, registered, requests, errorRequests, nextShutter,
                 nextResult, shuttered, results, returned, asked, hal, refused,
                 lateError, sent>>

(* WaitUntilDrainedLocked ends by forgetting the failed frames.            *)
ForgetErrors ==
  /\ errorRequests # {}
  /\ errorRequests' = {}
  /\ UNCHANGED <<next, registered, requests, nextShutter, nextResult,
                 deviceError, shuttered, results, returned, asked, hal, refused,
                 lateError, sent>>

HalAnswers ==
  \E f \in Submitted :
    \/ HalShutter(f)
    \/ \E bufs \in SUBSET atHal[f], way \in Ways :
         \E bad \in SUBSET bufs : HalResult(f, bufs, bad, way)

HalFails ==
  \/ HalFailsDevice
  \/ \E f \in Submitted :
       HalFailsRequest(f) \/ HalFailsResult(f) \/ HalFailsBuffer(f)

Next ==
  /\ UNCHANGED conduct
  /\ \/ \E streams \in SUBSET Streams \ {{}} :
          Submit(streams) \/ SubmitFails(streams)
     \/ HalAnswers
     \/ HalFails
     \/ ForgetErrors

Spec == Init /\ [][Next]_vars

(* An honest HAL answers in the end what it was given.                     *)
FairSpec == Spec /\ WF_vars(Honest /\ HalAnswers /\ UNCHANGED conduct)

-----------------------------------------------------------------------------
TypeOK ==
  /\ next \in 0 .. MaxFrame
  /\ registered \subseteq Frames
  /\ requests \in [Frames -> Request]
  /\ errorRequests \subseteq Frames
  /\ nextShutter \in 0 .. MaxFrame
  /\ nextResult \in 0 .. MaxFrame
  /\ deviceError \in BOOLEAN
  /\ shuttered \subseteq Frames
  /\ results \in Seq(Frames)
  /\ returned \in [Frames -> SUBSET Streams]
  /\ asked \in [Frames -> SUBSET Streams]
  /\ atHal \in [Frames -> SUBSET Streams]
  /\ dueShutter \subseteq Frames
  /\ dueMeta \subseteq Frames
  /\ refused \subseteq Frames
  /\ lateError \subseteq Frames
  /\ inlineOnly \subseteq Frames
  /\ queueOnly \subseteq Frames

(* A buffer is given back to its stream at most once, whatever the HAL     *)
(* does: what has gone back is neither kept nor still at the HAL           *)
(* (NotifyShutter clears pendingBuffers before RemovePendingRequestLocked  *)
(* returns what it finds there).                                           *)
ReturnedOnce ==
  \A f \in Frames :
    /\ returned[f] \cap requests[f].pendingBuffers = {}
    /\ (returned[f] \cup requests[f].pendingBuffers) \cap atHal[f] = {}

(* No buffer is lost: what an honest HAL was given it still has, or the    *)
(* registered request keeps it, or its stream has it back, errors or not.  *)
Kept(f) == IF f \in registered THEN requests[f].pendingBuffers ELSE {}

NoneLost ==
  Honest => \A f \in Frames : asked[f] = atHal[f] \cup Kept(f) \cup returned[f]

(* Both together: buffers are neither doubled nor lost.                    *)
BuffersConserved == ReturnedOnce /\ NoneLost

(* Results reach the client in strictly increasing frame order, each after *)
(* its frame's shutter, whatever the HAL does (SendCaptureResult).         *)
ResultsInOrder ==
  /\ \A i, j \in 1 .. Len(results) : i < j => results[i] < results[j]
  /\ \A i \in 1 .. Len(results) : results[i] \in shuttered

(* A frame is forgotten only when it is complete: unless it failed, or the *)
(* device did, the client has its shutter, its buffers and, if it came     *)
(* with contents, its result (RemovePendingRequestLocked).  Of a frame     *)
(* whose metadata came inline, with nothing in the queue, the client never *)
(* gets a result.                                                          *)
HasResult(f) == \E i \in 1 .. Len(results) : results[i] = f

NothingForgotten ==
  \A f \in Submitted \ registered :
    requests[f].failed \/ deviceError \/
      /\ f \in shuttered
      /\ HasResult(f) \/ f \in inlineOnly
      /\ returned[f] = asked[f]

(* A HAL that keeps to the contract and reports no error is never accused  *)
(* of one: neither order nor number of its answers makes SET_ERR fire.     *)
HonestHalNotBlamed == conduct = "faultless" => ~deviceError

(* Liveness: the frames that an honest HAL accepted are all settled and    *)
(* forgotten in the end (no more than MaxFrame are submitted).  Not so one *)
(* whose last news was an error, as NotifyError erases nothing, nor one    *)
(* whose metadata came by the queue alone, which HandleCaptureResult does  *)
(* not count as metadata.                                                  *)
EveryFrameSettles ==
  Honest ~> registered \subseteq refused \cup lateError \cup queueOnly
=============================================================================
