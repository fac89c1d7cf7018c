---------------------------- MODULE PrepareHandler ----------------------------
(***************************************************************************)
(* Camera3PrepareHandler (adaptor/camera_prepare_handler.cc) composed with *)
(* a stream it prepares: CameraStream is "this", and "other" stands for    *)
(* any other stream the handler may have, reduced to whether it is in      *)
(* preparation.  The handler's thread allocates buffers outside lock_;     *)
(* every section it runs under lock_ is one action.                        *)
(*                                                                         *)
(* Prepare holds lock_ while it joins the previous thread and starts a new *)
(* one, as ThreadHelper promises: joined once, after it has ended.  The    *)
(* device client's lock_ is held around it, so that no stream is           *)
(* configured, closed, torn down or given a buffer back meanwhile.         *)
(*                                                                         *)
(* The client deletes no stream, nor the device, while the thread is       *)
(* preparing that stream: the code does not look (DeleteStream,            *)
(* ~Camera3DeviceClient).                                                  *)
(***************************************************************************)
EXTENDS CameraStream

VARIABLES
  queue,          (* streams_                                              *)
  current,        (* prepared_stream_                                      *)
  abort,          (* abort_prepare_                                        *)
  prepareRunning, (* prepare_running_                                      *)
  worker,         (* the thread: "none" when not joinable, "ended" when    *)
                  (* ThreadLoop returned false, else where it is           *)
  starting,       (* the stream of a Prepare that holds lock_              *)
  closing,        (* ~Camera3DeviceClient has called Clear                 *)
  otherPreparing, (* the other stream is in STATUS_PREPARE_ACTIVE          *)
  stranded        (* history: streams whose Prepare could start no thread  *)

handlerVars == <<queue, current, abort, prepareRunning, worker, starting,
                 closing, otherPreparing, stranded>>

Working == {"top", "prepare", "failed", "report"}

HandlerInit ==
  /\ Init
  /\ queue = <<>>
  /\ current = "none"
  /\ abort = FALSE
  /\ prepareRunning = FALSE
  /\ worker = "none"
  /\ starting = "none"
  /\ closing = FALSE
  /\ otherPreparing = FALSE
  /\ stranded = {}

-----------------------------------------------------------------------------
(* BeginPrepare and EndPrepare of stream s; the latter changes nothing     *)
(* unless s is in preparation.                                             *)
BeginOf(s) ==
  IF s = "this"
  THEN BeginPrepare /\ UNCHANGED otherPreparing
  ELSE ~otherPreparing /\ otherPreparing' = TRUE /\ UNCHANGED vars

EndOf(S) ==
  /\ IF "this" \in S /\ status = "PREPARE_ACTIVE"
     THEN EndPrepare ELSE UNCHANGED vars
  /\ otherPreparing' = (otherPreparing /\ "other" \notin S)

(* Camera3DeviceClient::Prepare: queued at once for a thread that runs ... *)
Prepare(s) ==
  /\ starting = "none" /\ ~closing
  /\ BeginOf(s)
  /\ IF prepareRunning
     THEN queue' = Append(queue, s) /\ UNCHANGED starting
     ELSE starting' = s /\ UNCHANGED queue
  /\ UNCHANGED <<current, abort, prepareRunning, worker, closing, stranded>>

(* ... or for one that is started when the last one has been joined.       *)
StartThread ==
  /\ starting # "none"
  /\ worker \notin Working
  /\ worker' = "top"
  /\ abort' = FALSE
  /\ prepareRunning' = TRUE
  /\ queue' = Append(queue, starting)
  /\ starting' = "none"
  /\ UNCHANGED <<vars, current, closing, otherPreparing, stranded>>

(* Run fails: the client is called back, and the stream stays as it is.    *)
StartFails ==
  /\ starting # "none"
  /\ worker \notin Working
  /\ worker' = "none"
  /\ stranded' = stranded \cup {starting}
  /\ starting' = "none"
  /\ UNCHANGED <<vars, queue, current, abort, prepareRunning, closing,
                 otherPreparing>>

(* Mutant: the queue is dropped, its streams are not told.                 *)
Clear_QueueOnly ==
  /\ starting = "none" /\ ~closing
  /\ closing' = TRUE
  /\ queue' = <<>>
  /\ abort' = TRUE
  /\ UNCHANGED <<vars, current, prepareRunning, worker, starting,
                 otherPreparing, stranded>>

(* Clear, called by the destructor of the device client.                   *)
Clear ==
  /\ starting = "none" /\ ~closing
  /\ closing' = TRUE
  /\ EndOf(Range(queue))
  /\ queue' = <<>>
  /\ abort' = TRUE
  /\ UNCHANGED <<current, prepareRunning, worker, starting, stranded>>

(* The handler's own destructor: the thread is joined, and whatever is     *)
(* left is ended.                                                          *)
DestroyHandler ==
  /\ closing /\ starting = "none"
  /\ worker \notin Working
  /\ worker' = "none"
  /\ EndOf(Range(queue) \cup {current})
  /\ queue' = <<>>
  /\ current' = "none"
  /\ abort' = TRUE
  /\ UNCHANGED <<prepareRunning, starting, closing, stranded>>

-----------------------------------------------------------------------------
(* ThreadLoop.  It is not told of an exit: it ends when it is out of work. *)

AtTop == worker = "top" /\ starting = "none"

TakeStream ==
  /\ AtTop /\ current = "none" /\ queue # <<>>
  /\ current' = Head(queue)
  /\ queue' = Tail(queue)
  /\ worker' = "prepare"
  /\ UNCHANGED <<vars, abort, prepareRunning, starting, closing,
                 otherPreparing, stranded>>

(* Mutant: prepare_running_ is left set.                                   *)
OutOfWork_StillRunning ==
  /\ AtTop /\ current = "none" /\ queue = <<>>
  /\ worker' = "ended"
  /\ UNCHANGED <<vars, queue, current, abort, prepareRunning, starting,
                 closing, otherPreparing, stranded>>

OutOfWork ==
  /\ AtTop /\ current = "none" /\ queue = <<>>
  /\ prepareRunning' = FALSE
  /\ worker' = "ended"
  /\ UNCHANGED <<vars, queue, current, abort, starting, closing,
                 otherPreparing, stranded>>

AbortPrepared ==
  /\ AtTop /\ current # "none" /\ abort
  /\ EndOf({current})
  /\ current' = "none"
  /\ abort' = FALSE
  /\ UNCHANGED <<queue, prepareRunning, worker, starting, closing, stranded>>

GoOn ==
  /\ AtTop /\ current # "none" /\ ~abort
  /\ worker' = "prepare"
  /\ UNCHANGED <<vars, queue, current, abort, prepareRunning, starting,
                 closing, otherPreparing, stranded>>

workUntouched == <<queue, current, abort, prepareRunning, starting, closing,
                   stranded>>

(* PrepareBuffer, outside lock_: one buffer more, or the last one.         *)
PrepareThis ==
  /\ worker = "prepare" /\ current = "this"
  /\ \E h \in Handles : PrepareBuffer(h)
  /\ worker' = IF status' = "PREPARE_ACTIVE" THEN "top" ELSE "report"
  /\ UNCHANGED <<otherPreparing, workUntouched>>

PrepareOther ==
  /\ worker = "prepare" /\ current = "other"
  /\ \/ worker' = "top" /\ UNCHANGED otherPreparing
     \/ worker' = "report" /\ otherPreparing' = FALSE
  /\ UNCHANGED <<vars, workUntouched>>

PrepareFails ==
  /\ worker = "prepare"
  /\ worker' = "failed"
  /\ UNCHANGED <<vars, otherPreparing, workUntouched>>

EndFailed ==
  /\ worker = "failed"
  /\ EndOf({current})
  /\ worker' = "report"
  /\ UNCHANGED workUntouched

(* The prepared callback, whatever became of the preparation.              *)
ReportPrepared ==
  /\ worker = "report" /\ starting = "none"
  /\ current' = "none"
  /\ worker' = "top"
  /\ UNCHANGED <<vars, queue, abort, prepareRunning, starting, closing,
                 otherPreparing, stranded>>

ThreadStep ==
  \/ TakeStream \/ OutOfWork \/ AbortPrepared \/ GoOn
  \/ PrepareThis \/ PrepareOther \/ PrepareFails \/ EndFailed
  \/ ReportPrepared

-----------------------------------------------------------------------------
(* What else happens to the stream, from CameraStream; the first group     *)
(* under the device client's lock.                                         *)

InHands(s) == s \in Range(queue) \cup {current, starting}

StreamStep ==
  /\ \/ /\ starting = "none"
        /\ \/ BeginConfigure \/ EndConfigure \/ EndReconfigure
           \/ AbortConfigure \/ Close \/ TearDown
           \/ ~InHands("this") /\ Destroy
           \/ \E h \in Handles : ClientReturns(h)
     \/ StartWait \/ WaitTimesOut
     \/ \E f \in Frames, h \in Handles : GetBuffer(f, h) \/ GetAfterWait(f, h)
     \/ \E f \in Frames : ReturnBufferToClient(f) \/ HandleErrorRequest(f)
  /\ UNCHANGED handlerVars

HandlerNext ==
  \/ \E s \in {"this", "other"} : Prepare(s)
  \/ StartThread \/ StartFails \/ Clear \/ DestroyHandler
  \/ ThreadStep
  \/ StreamStep

HandlerSpec == HandlerInit /\ [][HandlerNext]_<<vars, handlerVars>>

-----------------------------------------------------------------------------
HandlerTypeOK ==
  /\ queue \in Seq({"this", "other"})
  /\ current \in {"none", "this", "other"}
  /\ abort \in BOOLEAN /\ prepareRunning \in BOOLEAN
  /\ worker \in Working \cup {"none", "ended"}
  /\ starting \in {"none", "this", "other"}
  /\ closing \in BOOLEAN /\ otherPreparing \in BOOLEAN
  /\ stranded \subseteq {"this", "other"}

Preparing(s) ==
  \/ starting = s \/ s \in Range(queue)
  \/ current = s /\ worker # "report"

(* A stream is in preparation just while the handler will still end its    *)
(* preparation, and is queued once: none is left in PREPARE_ACTIVE, where  *)
(* it serves no request and cannot be configured, by a failed allocation,  *)
(* an abort, or a second Prepare in the moment between the last buffer and *)
(* the callback; but by a thread that could not be started                 *)
(* (camera_prepare_handler.cc:75-83).                                      *)
PreparingIsKnown ==
  /\ IsInjective(queue)
  /\ Preparing("this") => status = "PREPARE_ACTIVE"
  /\ status = "PREPARE_ACTIVE" => Preparing("this") \/ "this" \in stranded
  /\ Preparing("other") => otherPreparing
  /\ otherPreparing => Preparing("other") \/ "other" \in stranded

(* A stream in the handler's hands has a thread that works on it: no       *)
(* Prepare relies on one that has already found the list empty             *)
(* (prepare_running_, camera_prepare_handler.cc:71, 114).                  *)
QueueIsServed ==
  /\ queue # <<>> \/ current # "none" => worker \in Working
  /\ prepareRunning <=> worker \in Working
=============================================================================
