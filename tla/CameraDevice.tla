---------------------------- MODULE CameraDevice ----------------------------
(***************************************************************************)
(* The control side of Camera3DeviceClient (camera_device_client.cc) with  *)
(* the thread of Camera3RequestHandler (camera_request_handler.cc):        *)
(* client threads create and delete streams, submit requests, flush and    *)
(* wait for idleness while the handler feeds the HAL.                      *)
(*                                                                         *)
(* Camera3Monitor appears as what CameraMonitor is shown to implement      *)
(* (IdleNotifier): a level that is ACTIVE while some holder is, and        *)
(* callbacks (NotifyStatus) that deliver its changes one by one, later.    *)
(* Camera3Stream appears as its pending buffers (CameraStream has the      *)
(* rest).  Every handler of the device client holds lock_ except while it  *)
(* waits in WaitUntilStateThenRelock.                                      *)
(***************************************************************************)
EXTENDS Naturals, Sequences

CONSTANTS
  Clients,      (* threads of the client                                   *)
  Streams,      (* ids of streams                                          *)
  Lists,        (* lists of requests a client may submit; a request is the *)
                (* set of its streams                                      *)
  Buffers,      (* buffers of a stream                                     *)
  Batch,        (* batch_size_                                             *)
  MaxQueue,     (* bound on requests queued by clients                     *)
  MaxBacklog,   (* bound on callbacks due when a client calls              *)
  Faults        (* what may go wrong: "timeout" of a wait, "configure" and *)
                (* "submit" refused by the HAL, "device" errors; "client"  *)
                (* mistakes; and "stale", calls made while callbacks of    *)
                (* the monitor are still due                               *)

ASSUME DeviceAssumption ==
  /\ "handler" \notin Streams /\ "nobody" \notin Clients
  /\ Lists \subseteq Seq(SUBSET Streams)
  /\ \A list \in Lists : list # <<>> /\ \A i \in DOMAIN list : list[i] # {}
  /\ Buffers \in Nat \ {0} /\ Batch \in Nat \ {0}

VARIABLES
  state,        (* state_ *)
  reconfig,     (* reconfig_ *)
  streams,      (* streams_ *)
  deleted,      (* deleted_streams_ *)
  configured,   (* streams that GetBuffer accepts *)
  monitored,    (* streams that hold a monitor id *)
  pauseNotify   (* pause_state_notify_ *)

VARIABLES
  requests,     (* requests_ *)
  streaming,    (* streaming_requests_ *)
  current,      (* streams of current_request_, {} when there is none *)
  frame,        (* current_frame_number_ % batch_size_ *)
  hpc,          (* where the handler's ThreadLoop is *)
  togglePause,  (* toggle_pause_state_ *)
  paused        (* paused_state_ *)

VARIABLES
  pending,      (* pending_buffer_count_ of each stream *)
  out,          (* of these, the buffers that the client will return *)
  active,       (* holders whose last transition was ACTIVE *)
  told,         (* what NotifyStatus was last called with *)
  backlog       (* calls of NotifyStatus that are due *)

VARIABLES
  pc,           (* where each client is *)
  seen,         (* clients whose wait is over: the state was entered *)
  subject,       (* the stream it creates or deletes *)
  lock          (* holder of lock_ between two steps, or "nobody" *)

device == <<reconfig, streams, deleted, configured, monitored>>
queues == <<requests, streaming, frame>>
pause == <<togglePause, paused>>
buffers == <<pending, out>>
monitor == <<active, told, backlog>>
clients == <<pc, seen, subject, lock>>

vars == <<state, device, pauseNotify, queues, current, hpc, pause, buffers,
          monitor, clients>>

States == {"NOT_CONFIGURED", "CONFIGURED", "RUNNING", "ERROR"}
Live == States \ {"ERROR"}

WaitsForIdle == {"drain", "createPause", "deletePause"}
WaitsForRunning == {"submit", "resume"}
Waits == WaitsForIdle \cup WaitsForRunning
HandlerPcs == {"pause", "get", "submit", "sent"}

Matches(label, s) ==
  \/ label \in WaitsForRunning /\ s = "RUNNING"
  \/ label \in WaitsForIdle /\ s # "RUNNING"

Init ==
  /\ state = "NOT_CONFIGURED" /\ reconfig = TRUE
  /\ streams = {} /\ deleted = {} /\ configured = {} /\ monitored = {}
  /\ pauseNotify = FALSE
  /\ requests = <<>> /\ streaming = <<>> /\ current = {} /\ frame = 0
  /\ hpc = "pause" /\ togglePause = FALSE /\ paused = TRUE
  /\ pending = [s \in Streams |-> 0] /\ out = [s \in Streams |-> 0]
  /\ active = {} /\ told = "IDLE" /\ backlog = 0
  /\ pc = [c \in Clients |-> "out"]
  /\ seen = {}
  /\ subject = [c \in Clients |-> "none"]
  /\ lock = "nobody"

-----------------------------------------------------------------------------
(* The monitor: transitions queued by its holders and by the release of    *)
(* ids change the level, and each change makes one more callback due.      *)
Report(holders) ==
  /\ active' = holders
  /\ backlog' = IF (holders = {}) = (active = {}) THEN backlog
                ELSE backlog + 1
  /\ UNCHANGED told

(* state_ becomes s (InternalUpdateStatusLocked: everyone waiting is woken *)
(* and finds s in current_state_updates_).                                 *)
Update(s) ==
  /\ state' = s
  /\ seen' = {d \in Clients : d \in seen \/ Matches(pc[d], s)}

(* At the end of its step client c is at label with state_ = s: it waits,  *)
(* keeping lock_ if the state is already the right one, or has left.       *)
Go(c, label, s) ==
  /\ state' = s
  /\ pc' = [pc EXCEPT ![c] = label]
  /\ seen' = {d \in Clients : IF d = c THEN Matches(label, s)
                               ELSE d \in seen \/ Matches(pc[d], s)}
  /\ lock' = IF Matches(label, s) THEN c ELSE "nobody"

(* SetErrorStateLockedV, up to the new state.                              *)
PauseOnError == togglePause' = (state # "ERROR" \/ togglePause)

(* The monitor's callback.  The idle callback of the client, which follows *)
(* unless pause_state_notify_ is set, is not modelled.                     *)
NotifyStatus ==
  /\ backlog > 0 /\ lock = "nobody"
  /\ backlog' = backlog - 1
  /\ told' = IF told = "IDLE" THEN "ACTIVE" ELSE "IDLE"
  /\ IF state \in {"RUNNING", "CONFIGURED"}
     THEN Update(IF told' = "IDLE" THEN "CONFIGURED" ELSE "RUNNING")
     ELSE UNCHANGED <<state, seen>>
  /\ UNCHANGED <<device, pauseNotify, queues, current, hpc, pause, buffers,
                 active, pc, subject, lock>>

-----------------------------------------------------------------------------
(* The request handler's thread.                                           *)

handlerUntouched == <<state, device, pauseNotify, clients>>

(* WaitOnPause: a batch is completed first; pausing is reported once.      *)
WaitOnPause ==
  /\ hpc = "pause"
  /\ togglePause /\ frame = 0
  /\ ~paused
  /\ paused' = TRUE
  /\ Report(active \ {"handler"})
  /\ UNCHANGED <<queues, current, hpc, togglePause, buffers, handlerUntouched>>

(* Mutant: the rest of a batch is not sent during a pause.                 *)
PassPause_MidBatch ==
  /\ hpc = "pause"
  /\ ~togglePause
  /\ hpc' = "get"
  /\ UNCHANGED <<queues, current, pause, buffers, monitor, handlerUntouched>>

PassPause ==
  /\ hpc = "pause"
  /\ ~togglePause \/ frame # 0
  /\ hpc' = "get"
  /\ UNCHANGED <<queues, current, pause, buffers, monitor, handlerUntouched>>

Numbered(n) == frame' = (frame + n) % Batch

(* Mutant: taking a request is not reported.                               *)
TakeRequest_Silent(request, rest) ==
  /\ requests' = rest
  /\ Numbered(1)
  /\ paused' = FALSE
  /\ current' = request
  /\ hpc' = "submit"
  /\ UNCHANGED <<streaming, togglePause, monitor, buffers, handlerUntouched>>

(* GetRequest with something to do: it is reported to the monitor, even    *)
(* if a pause was requested since WaitOnPause.                             *)
TakeRequest(request, rest) ==
  /\ requests' = rest
  /\ Numbered(1)
  /\ Report(IF paused THEN active \cup {"handler"} ELSE active)
  /\ paused' = FALSE
  /\ current' = request
  /\ hpc' = "submit"
  /\ UNCHANGED <<streaming, togglePause, buffers, handlerUntouched>>

GetRequest ==
  /\ hpc = "get"
  /\ \/ requests # <<>> /\ TakeRequest(Head(requests), Tail(requests))
     \/ /\ requests = <<>> /\ streaming # <<>>
        /\ TakeRequest(Head(streaming), Tail(streaming))

(* GetRequest after WAIT_TIMEOUT with nothing to do.                       *)
GetNothing ==
  /\ hpc = "get"
  /\ requests = <<>> /\ streaming = <<>>
  /\ paused' = TRUE
  /\ Report(IF paused THEN active ELSE active \ {"handler"})
  /\ hpc' = "pause"
  /\ UNCHANGED <<queues, current, togglePause, buffers, handlerUntouched>>

Available(s) == s \in configured /\ pending[s] < Buffers

(* Mutant: streams do not report the buffers they give away.               *)
Submit_Unreported ==
  /\ hpc = "submit"
  /\ \A s \in current : Available(s)
  /\ pending' = [s \in Streams |-> pending[s] + IF s \in current THEN 1 ELSE 0]
  /\ out' = [s \in Streams |-> out[s] + IF s \in current THEN 1 ELSE 0]
  /\ hpc' = "sent"
  /\ UNCHANGED <<queues, current, pause, monitor, handlerUntouched>>

(* SubmitRequest: one buffer of each stream goes to the HAL ...            *)
Submit ==
  /\ hpc = "submit"
  /\ \A s \in current : Available(s)
  /\ pending' = [s \in Streams |-> pending[s] + IF s \in current THEN 1 ELSE 0]
  /\ out' = [s \in Streams |-> out[s] + IF s \in current THEN 1 ELSE 0]
  /\ Report(active \cup (current \cap monitored))
  /\ hpc' = "sent"
  /\ UNCHANGED <<queues, current, pause, handlerUntouched>>

(* ... and current_request_ is cleared.                                    *)
Submitted ==
  /\ hpc = "sent"
  /\ current' = {}
  /\ hpc' = "pause"
  /\ UNCHANGED <<queues, pause, buffers, monitor, handlerUntouched>>

(* GetBuffer fails for one stream, which is not configured or has had no   *)
(* buffer for a second: HandleErrorRequest finds no buffer in the request, *)
(* and those got from the streams before are lost.                         *)
GetBufferFails ==
  /\ hpc = "submit"
  /\ \E got \in SUBSET current :
       /\ \E s \in current \ got : s \notin configured \/ "timeout" \in Faults
       /\ \A s \in got : Available(s)
       /\ pending' = [s \in Streams |-> pending[s] + IF s \in got THEN 1 ELSE 0]
       /\ Report(active \cup (got \cap monitored))
  /\ current' = {}
  /\ hpc' = "pause"
  /\ UNCHANGED <<queues, pause, out, handlerUntouched>>

(* The HAL refuses the request: SIG_ERROR, then the buffers are returned   *)
(* at once.                                                                *)
SubmitFails ==
  /\ "submit" \in Faults
  /\ hpc = "submit" /\ lock = "nobody"
  /\ \A s \in current : Available(s)
  /\ PauseOnError
  /\ Update("ERROR")
  /\ current' = {}
  /\ hpc' = "pause"
  /\ UNCHANGED <<device, pauseNotify, queues, paused, buffers, monitor, pc,
                 subject, lock>>

HandlerStep ==
  \/ WaitOnPause \/ PassPause \/ GetRequest \/ GetNothing
  \/ Submit \/ Submitted \/ GetBufferFails \/ SubmitFails

-----------------------------------------------------------------------------
(* Buffers on their way back, and errors of the device.                    *)

(* ReturnStreamBuffer: the last buffer makes its stream idle.              *)
ReturnStreamBuffer(s) ==
  /\ out[s] > 0 /\ lock = "nobody"
  /\ state \in {"CONFIGURED", "RUNNING"} /\ s \in streams
  /\ out' = [out EXCEPT ![s] = @ - 1]
  /\ pending' = [pending EXCEPT ![s] = @ - 1]
  /\ Report(IF pending[s] = 1 /\ s \in monitored THEN active \ {s} ELSE active)
  /\ UNCHANGED <<queues, current, hpc, pause, handlerUntouched>>

(* The same refused: the buffer stays pending for ever.                    *)
ReturnRefused(s) ==
  /\ out[s] > 0 /\ lock = "nobody"
  /\ state \notin {"CONFIGURED", "RUNNING"} \/ s \notin streams
  /\ out' = [out EXCEPT ![s] = @ - 1]
  /\ UNCHANGED <<pending, queues, current, hpc, pause, monitor,
                 handlerUntouched>>

SetErrorState ==
  /\ "device" \in Faults
  /\ lock = "nobody" /\ state # "ERROR"
  /\ togglePause' = TRUE
  /\ Update("ERROR")
  /\ UNCHANGED <<device, pauseNotify, queues, current, hpc, paused, buffers,
                 monitor, pc, subject, lock>>

-----------------------------------------------------------------------------
(* The client's calls.                                                     *)

Enters(c) ==
  /\ pc[c] = "out" /\ lock = "nobody"
  /\ backlog <= IF "stale" \in Faults THEN MaxBacklog ELSE 0

(* The wait of c at label is over and c has lock_.                         *)
Resumes(c, label) == pc[c] = label /\ c \in seen /\ lock \in {"nobody", c}

Uses(s, list) == \E i \in DOMAIN list : s \in list[i]

(* Mutant: the request being submitted is forgotten.                       *)
IsStreamActive_Queued(s) == Uses(s, requests) \/ Uses(s, streaming)

(* Camera3RequestHandler::IsStreamActive.                                  *)
IsStreamActive(s) == s \in current \/ Uses(s, requests) \/ Uses(s, streaming)

(* next_stream_id_ moves on only when CreateStream succeeds: the id of one *)
(* whose configuration failed after its pause stays registered and the     *)
(* next call puts a new object under it (KeyedVector::add, external).  The *)
(* model gives that call another id; it also reuses an id that has left no *)
(* trace, and lets a client reserve its id before its pause.               *)
Fresh(s) ==
  /\ \A c \in Clients : subject[c] # s
  /\ s \notin streams \cup deleted \cup active
  /\ pending[s] = 0 /\ out[s] = 0 /\ ~IsStreamActive(s)

(* ConfigureStreamsLocked with streams all and reconfig_ set: every stream *)
(* gives up its monitor id, and gets a new one if the HAL agrees.          *)
CanConfigure == state \in {"NOT_CONFIGURED", "CONFIGURED"}

HalConfigures(all) ==
  /\ CanConfigure
  /\ configured' = all /\ monitored' = all
  /\ deleted' = {} /\ reconfig' = FALSE
  /\ Report(active \ (all \cup deleted))

HalRefuses(all) ==
  /\ "configure" \in Faults
  /\ CanConfigure
  /\ configured' = configured \cap all /\ monitored' = {}
  /\ reconfig' = TRUE
  /\ Report(active \ all)
  /\ UNCHANGED deleted

NotIdle(all) ==
  /\ ~CanConfigure
  /\ configured' = configured \cap all /\ monitored' = monitored \cap all
  /\ reconfig' = TRUE
  /\ UNCHANGED <<deleted, monitor>>

(* InternalPauseAndWaitLocked.                                             *)
InternalPauseAndWait(c, label) ==
  /\ togglePause' = TRUE
  /\ pauseNotify' = TRUE
  /\ Go(c, label, state)

(* Mutant: it waits for STATE_RUNNING even if nothing is pending.          *)
InternalResume_Always(c, s) ==
  /\ togglePause' = FALSE
  /\ Go(c, "resume", s)
  /\ UNCHANGED pauseNotify

(* InternalResumeLocked, with state_ = s.                                  *)
InternalResume(c, s) ==
  /\ togglePause' = FALSE
  /\ IF requests = <<>> /\ streaming = <<>>
     THEN Go(c, "out", s)
     ELSE Go(c, "resume", s)
  /\ UNCHANGED pauseNotify

(* Mutant: captures continue although the streams were not configured      *)
(* because the device is not idle.                                         *)
ReconfigureAndResume_NotIdle(c, all) ==
  \/ HalConfigures(all) /\ InternalResume(c, "CONFIGURED")
  \/ HalRefuses(all) /\ Go(c, "out", "NOT_CONFIGURED")
                     /\ UNCHANGED <<togglePause, pauseNotify>>
  \/ NotIdle(all) /\ InternalResume(c, state)

(* The end of CreateStream and DeleteStream: captures continue only if the *)
(* streams could be configured.                                            *)
ReconfigureAndResume(c, all) ==
  \/ HalConfigures(all) /\ InternalResume(c, "CONFIGURED")
  \/ HalRefuses(all) /\ Go(c, "out", "NOT_CONFIGURED")
                     /\ UNCHANGED <<togglePause, pauseNotify>>
  \/ NotIdle(all) /\ Go(c, "out", state)
                  /\ UNCHANGED <<togglePause, pauseNotify>>

callUntouched == <<queues, current, hpc, paused, buffers>>

(* CreateStream: at once when idle, else after a pause.                    *)
CreateStream(c) ==
  /\ Enters(c)
  /\ CanConfigure
  /\ \E s \in Streams : Fresh(s) /\ streams' = streams \cup {s}
  /\ reconfig' = TRUE
  /\ UNCHANGED <<state, deleted, configured, monitored, pauseNotify,
                 togglePause, callUntouched, monitor, clients>>

CreatePauses(c) ==
  /\ Enters(c)
  /\ state = "RUNNING"
  /\ \E s \in Streams : Fresh(s) /\ subject' = [subject EXCEPT ![c] = s]
  /\ InternalPauseAndWait(c, "createPause")
  /\ UNCHANGED <<device, callUntouched, monitor>>

CreateResumes(c) ==
  /\ Resumes(c, "createPause")
  /\ streams' = streams \cup {subject[c]}
  /\ subject' = [subject EXCEPT ![c] = "none"]
  /\ ReconfigureAndResume(c, streams')
  /\ UNCHANGED callUntouched

(* The new stream is refused (CaclulateBlobSize): the pause remains.       *)
CreateGivesUp(c) ==
  /\ "client" \in Faults
  /\ Resumes(c, "createPause")
  /\ subject' = [subject EXCEPT ![c] = "none"]
  /\ Go(c, "out", state)
  /\ UNCHANGED <<device, pauseNotify, togglePause, callUntouched, monitor>>

(* What a careful client deletes: a stream no request uses, and whose      *)
(* buffers are back.                                                       *)
Deletable(s) ==
  \/ "client" \in Faults
  \/ s \in streams /\ ~IsStreamActive(s) /\ pending[s] = 0

DeletePauses(c) ==
  /\ Enters(c)
  /\ state \in Live
  /\ \E s \in Streams : Deletable(s) /\ subject' = [subject EXCEPT ![c] = s]
  /\ InternalPauseAndWait(c, "deletePause")
  /\ UNCHANGED <<device, callUntouched, monitor>>

(* Close, which fails when buffers are out, only decides about memory.     *)
DeleteResumes(c) ==
  /\ Resumes(c, "deletePause")
  /\ subject[c] \in streams /\ ~IsStreamActive(subject[c])
  /\ streams' = streams \ {subject[c]}
  /\ subject' = [subject EXCEPT ![c] = "none"]
  /\ IF streams' # {}
     THEN ReconfigureAndResume(c, streams')
     ELSE /\ InternalResume(c, state)
          /\ configured' = {} /\ monitored' = {}
          /\ UNCHANGED <<reconfig, deleted, monitor>>
  /\ UNCHANGED callUntouched

(* An unknown stream, or one still in use: the pause remains.              *)
DeleteGivesUp(c) ==
  /\ Resumes(c, "deletePause")
  /\ subject[c] \notin streams \/ IsStreamActive(subject[c])
  /\ subject' = [subject EXCEPT ![c] = "none"]
  /\ Go(c, "out", state)
  /\ UNCHANGED <<device, pauseNotify, togglePause, callUntouched, monitor>>

(* DeleteStream with cache: no pause; the object lives until the next      *)
(* configuration.                                                          *)
DeleteCached(c) ==
  /\ Enters(c)
  /\ state \in Live
  /\ \E s \in streams :
       /\ Deletable(s) /\ ~IsStreamActive(s)
       /\ streams' = streams \ {s}
       /\ configured' = configured \ {s} /\ monitored' = monitored \ {s}
       /\ deleted' = deleted \cup {s}
  /\ reconfig' = (reconfig \/ state # "RUNNING")
  /\ UNCHANGED <<state, pauseNotify, togglePause, callUntouched, monitor,
                 clients>>

ConfigureStreams(c) ==
  /\ Enters(c)
  /\ reconfig
  /\ \/ HalConfigures(streams) /\ Go(c, "out", "CONFIGURED")
     \/ HalRefuses(streams) /\ Go(c, "out", "NOT_CONFIGURED")
  /\ UNCHANGED <<streams, pauseNotify, togglePause, callUntouched, subject>>

(* QueueRequestList, SetRepeatingRequests, and their Resume with the       *)
(* monitor's holders being before.                                         *)
Queue(list, repeating) ==
  IF repeating THEN streaming' = list /\ UNCHANGED <<requests, frame>>
               ELSE requests' = requests \o list /\ UNCHANGED <<streaming, frame>>

(* Mutant: the monitor hears of new requests only when one is taken.       *)
ResumeHandler_Later(holders) ==
  /\ Report(holders)
  /\ UNCHANGED paused

ResumeHandler(holders) ==
  /\ Report(IF togglePause THEN holders ELSE holders \cup {"handler"})
  /\ paused' = (togglePause /\ paused)

(* SubmitRequestList on configured streams: queued, then c waits for       *)
(* STATE_RUNNING.                                                          *)
Accepts(c, list, repeating) ==
  /\ Enters(c)
  /\ \A i \in DOMAIN list : list[i] \subseteq streams
  /\ ~repeating => Len(requests) + Len(list) <= MaxQueue
  /\ Queue(list, repeating)
  /\ UNCHANGED <<streams, pauseNotify, current, hpc, togglePause, buffers,
                 subject>>

SubmitRequestList(c, list, repeating) ==
  /\ Accepts(c, list, repeating)
  /\ state \in {"CONFIGURED", "RUNNING"} /\ ~reconfig
  /\ ResumeHandler(active)
  /\ Go(c, "submit", state)
  /\ UNCHANGED <<reconfig, deleted, configured, monitored>>

(* The same, after the streams were configured on the way                  *)
(* (GenerateCaptureRequestLocked) ...                                      *)
ConfigureAndSubmit(c, list, repeating) ==
  /\ Accepts(c, list, repeating)
  /\ reconfig /\ CanConfigure
  /\ configured' = streams /\ monitored' = streams
  /\ deleted' = {} /\ reconfig' = FALSE
  /\ ResumeHandler(active \ (streams \cup deleted))
  /\ Go(c, "submit", "CONFIGURED")

(* ... or refused because that failed.                                     *)
SubmitRefused(c) ==
  /\ Enters(c)
  /\ reconfig /\ streams # {}
  /\ HalRefuses(streams)
  /\ Go(c, "out", "NOT_CONFIGURED")
  /\ UNCHANGED <<streams, pauseNotify, togglePause, callUntouched, subject>>

CancelRequest(c) ==
  /\ Enters(c)
  /\ state \in Live
  /\ streaming # <<>>
  /\ streaming' = <<>>
  /\ UNCHANGED <<state, device, pauseNotify, requests, frame, current, hpc,
                 pause, buffers, monitor, clients>>

(* Flush: requests not yet taken get their frame numbers and fail; then c  *)
(* waits, without lock_, until the current one is submitted.               *)
Flush(c) ==
  /\ Enters(c)
  /\ Numbered(Len(requests))
  /\ requests' = <<>> /\ streaming' = <<>>
  /\ pc' = [pc EXCEPT ![c] = "flush"]
  /\ UNCHANGED <<state, device, pauseNotify, current, hpc, pause, buffers,
                 monitor, seen, subject, lock>>

FlushReturns(c) ==
  /\ pc[c] = "flush" /\ lock = "nobody"
  /\ current = {} \/ "timeout" \in Faults
  /\ pc' = [pc EXCEPT ![c] = "out"]
  /\ UNCHANGED <<state, device, pauseNotify, queues, current, hpc, pause,
                 buffers, monitor, seen, subject, lock>>

(* WaitUntilIdle.  A careful client has cancelled its streaming request.   *)
WaitUntilIdle(c) ==
  /\ Enters(c)
  /\ state # "NOT_CONFIGURED"
  /\ "client" \in Faults \/ streaming = <<>>
  /\ Go(c, "drain", state)
  /\ UNCHANGED <<device, pauseNotify, togglePause, callUntouched, monitor,
                 subject>>

(* The waits that end well with nothing left to do.                        *)
WaitUntilIdleReturns(c) ==
  /\ Resumes(c, "drain")
  /\ Go(c, "out", state)
  /\ UNCHANGED <<device, pauseNotify, togglePause, callUntouched, monitor,
                 subject>>

SubmitReturns(c) ==
  /\ Resumes(c, "submit")
  /\ Go(c, "out", state)
  /\ UNCHANGED <<device, pauseNotify, togglePause, callUntouched, monitor,
                 subject>>

ResumeReturns(c) ==
  /\ Resumes(c, "resume")
  /\ pauseNotify' = FALSE
  /\ Go(c, "out", state)
  /\ UNCHANGED <<device, togglePause, callUntouched, monitor, subject>>

(* A wait times out: AddRequestListLocked ignores it, everyone else sets   *)
(* the error state.                                                        *)
TimesOut(c) ==
  /\ "timeout" \in Faults
  /\ pc[c] \in Waits /\ c \notin seen /\ lock = "nobody"
  /\ IF pc[c] = "submit"
     THEN Go(c, "out", state) /\ UNCHANGED togglePause
     ELSE Go(c, "out", "ERROR") /\ PauseOnError
  /\ pauseNotify' = (pauseNotify /\ pc[c] # "resume")
  /\ subject' = [subject EXCEPT ![c] = "none"]
  /\ UNCHANGED <<device, callUntouched, monitor>>

Call(c) ==
  \/ CreateStream(c) \/ CreatePauses(c) \/ DeletePauses(c) \/ DeleteCached(c)
  \/ ConfigureStreams(c) \/ SubmitRefused(c) \/ CancelRequest(c) \/ Flush(c)
  \/ WaitUntilIdle(c)
  \/ \E list \in Lists, repeating \in BOOLEAN :
       \/ SubmitRequestList(c, list, repeating)
       \/ ConfigureAndSubmit(c, list, repeating)

Proceed(c) ==
  \/ CreateResumes(c) \/ CreateGivesUp(c) \/ DeleteResumes(c)
  \/ DeleteGivesUp(c) \/ FlushReturns(c) \/ WaitUntilIdleReturns(c)
  \/ SubmitReturns(c) \/ ResumeReturns(c)

Next ==
  \/ NotifyStatus
  \/ HandlerStep
  \/ \E s \in Streams : ReturnStreamBuffer(s) \/ ReturnRefused(s)
  \/ SetErrorState
  \/ \E c \in Clients : Call(c) \/ Proceed(c) \/ TimesOut(c)

Spec == Init /\ [][Next]_vars

(* The monitor and the handler are threads that poll, the HAL and the      *)
(* client return buffers in the end, and a woken client goes on.  Nothing  *)
(* obliges a client to call, nor a wait to time out.                       *)
FairSpec ==
  /\ Spec
  /\ WF_vars(NotifyStatus) /\ WF_vars(HandlerStep)
  /\ \A s \in Streams : WF_vars(ReturnStreamBuffer(s))
  /\ \A c \in Clients : WF_vars(Proceed(c))

-----------------------------------------------------------------------------
TypeOK ==
  /\ state \in States /\ reconfig \in BOOLEAN /\ pauseNotify \in BOOLEAN
  /\ streams \subseteq Streams /\ deleted \subseteq Streams
  /\ configured \subseteq streams /\ monitored \subseteq streams
  /\ requests \in Seq(SUBSET Streams) /\ streaming \in Seq(SUBSET Streams)
  /\ current \subseteq Streams /\ frame \in 0 .. Batch - 1
  /\ hpc \in HandlerPcs
  /\ togglePause \in BOOLEAN /\ paused \in BOOLEAN
  /\ pending \in [Streams -> Nat] /\ out \in [Streams -> Nat]
  /\ \A s \in Streams : out[s] <= pending[s] /\ pending[s] <= Buffers
  /\ active \subseteq Streams \cup {"handler"}
  /\ told \in {"IDLE", "ACTIVE"} /\ backlog \in Nat
  /\ pc \in [Clients -> Waits \cup {"out", "flush"}]
  /\ seen \subseteq Clients
  /\ subject \in [Clients -> Streams \cup {"none"}]
  /\ \A c \in Clients : pc[c] = "createPause" => subject[c] \in Streams
  /\ lock \in Clients \cup {"nobody"}

Busy == hpc \in {"submit", "sent"}

(* A request on its way to the HAL is known to the monitor, and what the   *)
(* handler last told the monitor is its paused_state_, whichever thread    *)
(* changed it (Resume, GetRequest, WaitOnPause).                           *)
WorkIsReported ==
  /\ Busy => "handler" \in active
  /\ "handler" \in active <=> ~paused

(* STATE_RUNNING means that the last callback of the monitor said ACTIVE;  *)
(* and if the HAL never refuses a configuration, STATE_CONFIGURED that it  *)
(* said IDLE, through every pause and reconfiguration (NotifyStatus,       *)
(* ConfigureStreamsLocked).                                                *)
StateIsTold ==
  /\ state = "RUNNING" => told = "ACTIVE"
  /\ "configure" \notin Faults /\ state \in {"NOT_CONFIGURED", "CONFIGURED"}
       => told = "IDLE"

(* No request refers to a stream that was deleted: CaptureRequest holds    *)
(* plain pointers (DeleteStream, IsStreamActive, SubmitRequestList).       *)
RequestsUseStreams ==
  \A s \in Streams :
    s \in current \/ Uses(s, requests) \/ Uses(s, streaming) => s \in streams

(* A device in error takes no more requests: its handler stays paused, or  *)
(* has none.  SetErrorStateLockedV pauses it once, at the first error, and *)
(* nothing pauses it again; an error may come while CreateStream or        *)
(* DeleteStream waits for its own pause, which then goes on to its         *)
(* reconfiguration, and DeleteStream of the last stream resumes the        *)
(* handler in any state (InternalResumeLocked).                            *)
StopsOnError ==
  state = "ERROR" => togglePause \/ (requests = <<>> /\ streaming = <<>>)

Drained == ~Busy /\ \A s \in Streams : pending[s] = 0

(* The HAL's streams are configured only when it has no request and no     *)
(* buffer is out, which is what every pause is for                         *)
(* (InternalPauseAndWaitLocked).                                           *)
ConfiguredWhenDrained ==
  [][\A c \in Clients :
       \/ CreateResumes(c) \/ DeleteResumes(c) \/ ConfigureStreams(c)
       \/ (\E list \in Lists, repeating \in BOOLEAN :
             ConfigureAndSubmit(c, list, repeating))
       => Drained]_vars

(* When WaitUntilIdle returns, everything submitted has been processed     *)
(* (camera_test.cpp waits for it before it deletes its streams).           *)
IdleMeansDone ==
  [][\A c \in Clients : WaitUntilIdleReturns(c) => Drained /\ requests = <<>>]_vars

(* assert(state_ != STATE_RUNNING), after the pause of CreateStream.       *)
PauseMeansNotRunning ==
  [][\A c \in Clients : CreateResumes(c) => state # "RUNNING"]_vars

(* No wait depends on its timeout to end.                                  *)
CallsReturn ==
  \A c \in Clients : pc[c] # "out" ~> pc[c] = "out"

(* The handler never rests while it has requests to process.               *)
WorkIsServed ==
  []<>(Busy \/ (requests = <<>> /\ streaming = <<>>))
=============================================================================
