----------------------------- MODULE UmdCamera -----------------------------
(***************************************************************************)
(* The daemon's camera object (umd-daemon/daemon/umd-camera.cpp): the      *)
(* callbacks of the USB gadget post messages, the camera thread serves     *)
(* them, the video loop gives buffers back that the camera's stream        *)
(* callback handed to the gadget, and the destructor ends it all.          *)
(*                                                                         *)
(* Threads: the gadget's (host), the camera thread (cam), the video loop   *)
(* (loop), the stream callbacks, one per buffer, and the one that runs the *)
(* destructor (owner).  Camera3DeviceClient is reduced to what its calls   *)
(* answer: a stream, a repeating request, the buffers it may hand out, an  *)
(* error state it never leaves, and two of its locks.  A callback of the   *)
(* HAL has pending_requests_lock_ and may wait for lock_; the camera       *)
(* thread, when it has waited for the device to drain, has lock_ and waits *)
(* for pending_requests_lock_.                                             *)
(***************************************************************************)
EXTENDS Naturals, Sequences, FiniteSets, SequencesExt

CONSTANTS
  Buffers,    \* handles of the stream's buffers (STREAM_BUFFER_COUNT of them)
  Values,     \* values the host gives a control
  NoRequest,  \* no request repeats
  Default,    \* the value of the default request template
  MaxMsgs,    \* bound: messages waiting in mMsg
  Faults      \* what may go wrong in the device client: "configure" and
              \* "submit" fail, a serious "device" error

ASSUME UmdAssumption ==
  /\ IsFiniteSet(Buffers)
  /\ Default \in Values
  /\ MaxMsgs \in Nat \ {0}
  /\ Faults \subseteq {"configure", "submit", "device"}

Messages == {"start", "stop", "submit", "terminate"}

VARIABLES
  active,     \* mActive
  msgs,       \* mMsg
  setup,      \* mVsetup: "good", or "bad" in size or format
  request,    \* mRequest.metadata
  hasStream,  \* mRequest.streamIds is not empty
  requestOk,  \* mRequestId is the id of the repeating request
  locked,     \* mCameraMutex is held by the camera thread
  cam,        \* program counter of cameraThreadHandler
  ending,     \* CAMERA_TERMINATE is being served: running becomes false
  host,       \* program counter of the gadget's thread
  streaming,  \* the host's last video callback was enable
  loop,       \* mVideoBufferThread: "none", where the loop is, or "ended"
  vqueue,     \* mVideoBufferQueue
  held,       \* buffers the loop has popped and not yet given back
  called,     \* stream callbacks past their test of mActive
  crossed,    \* what a callback that has pending_requests_lock_ wants lock_
              \* for, when the camera thread has that and wants the other:
              \* "no" such callback, the "return" of a buffer, an "error"
  mapped,     \* buffers mapped into the process
  pool,       \* buffers the device client may hand to StreamCb
  repeating,  \* the metadata of the repeating request
  flowing,    \* requests were made since the device was last drained
  device,     \* the device client's state: "ok" or "error"
  recording,  \* the audio recorder was told to start and not yet to stop
  owner,      \* program counter of the destructor
  crashed     \* a joinable std::thread was assigned to: std::terminate

hostVars  == <<host, streaming, setup>>
devVars   == <<pool, repeating, flowing, device>>
bufVars   == <<vqueue, held, called, crossed, mapped>>
reqVars   == <<request, hasStream, requestOk>>
vars == <<active, msgs, setup, request, hasStream, requestOk, locked, cam,
          ending, host, streaming, loop, vqueue, held, called,
          crossed, mapped, pool, repeating, flowing, device, recording, owner,
          crashed>>

LoopPCs == {"test", "size", "pop", "return"}

TypeOK ==
  /\ active \in BOOLEAN
  /\ msgs \in Seq(Messages)
  /\ setup \in {"bad", "good"}
  /\ request \in Values
  /\ hasStream \in BOOLEAN /\ requestOk \in BOOLEAN /\ locked \in BOOLEAN
  /\ cam \in {"pop", "start", "configure", "request", "submit", "stop",
              "drain", "forget", "join", "delete", "ended"}
  /\ ending \in BOOLEAN
  /\ host \in {"idle", "enable", "disable", "control", "gone"}
  /\ streaming \in BOOLEAN
  /\ loop \in LoopPCs \cup {"none", "ended"}
  /\ vqueue \in Seq(Buffers)
  /\ held \in SUBSET Buffers /\ called \in SUBSET Buffers
  /\ crossed \in {"no", "return", "error"}
  /\ mapped \in SUBSET Buffers /\ pool \in SUBSET Buffers
  /\ repeating \in Values \cup {NoRequest}
  /\ flowing \in BOOLEAN
  /\ device \in {"ok", "error"}
  /\ recording \in BOOLEAN
  /\ owner \in {"run", "terminate", "join", "free", "done"}
  /\ crashed \in BOOLEAN

\* The object after Initialize succeeded; the constructor leaves mActive
\* uninitialised.
Init ==
  /\ active \in BOOLEAN
  /\ msgs = <<>>
  /\ setup = "bad"
  /\ request = Default
  /\ hasStream = FALSE /\ requestOk = FALSE /\ locked = FALSE
  /\ cam = "pop" /\ ending = FALSE
  /\ host = "idle" /\ streaming = FALSE
  /\ loop = "none" /\ vqueue = <<>>
  /\ held = {} /\ called = {} /\ crossed = "no"
  /\ mapped = {} /\ pool = {}
  /\ repeating = NoRequest /\ flowing = FALSE /\ device = "ok"
  /\ recording = FALSE
  /\ owner = "run" /\ crashed = FALSE

Push(m) == Len(msgs) < MaxMsgs /\ msgs' = Append(msgs, m)

-----------------------------------------------------------------------------
(* The gadget's thread.  Enable and disable take no lock.                   *)

SetupVideoStream ==
  /\ host = "idle" /\ ~locked
  /\ setup' \in {"bad", "good"}
  /\ UNCHANGED <<active, msgs, reqVars, locked, cam, ending, host, streaming,
                 loop, bufVars, devVars, recording, owner, crashed>>

\* The host alternates enable and disable.
EnablePush ==
  /\ host = "idle" /\ ~streaming
  /\ Push("start")
  /\ host' = "enable" /\ streaming' = TRUE
  /\ UNCHANGED <<active, setup, reqVars, locked, cam, ending, loop,
                 bufVars, devVars, recording, owner, crashed>>

EnableActive ==
  /\ host = "enable"
  /\ active' = TRUE /\ host' = "idle"
  /\ UNCHANGED <<msgs, setup, reqVars, locked, cam, ending, streaming,
                 loop, bufVars, devVars, recording, owner, crashed>>

DisablePush ==
  /\ host = "idle" /\ streaming
  /\ Push("stop")
  /\ host' = "disable" /\ streaming' = FALSE
  /\ UNCHANGED <<active, setup, reqVars, locked, cam, ending, loop,
                 bufVars, devVars, recording, owner, crashed>>

DisableActive ==
  /\ host = "disable"
  /\ active' = FALSE /\ host' = "idle"
  /\ UNCHANGED <<msgs, setup, reqVars, locked, cam, ending, streaming,
                 loop, bufVars, devVars, recording, owner, crashed>>

\* handleVideoControl copies the metadata under the lock, gives the lock up,
\* and later stores the copy with the host's value v in it.  Metadata is
\* reduced to that value: the one other writer, InitCameraParamsLocked, sets a
\* tag of its own.
ControlGet ==
  /\ host = "idle" /\ ~locked
  /\ host' = "control"
  /\ UNCHANGED <<active, msgs, setup, reqVars, locked, cam, ending, streaming,
                 loop, bufVars, devVars, recording, owner, crashed>>

(* Mutant: no message is posted when one is waiting anyway.                 *)
ControlSet_Coalesced(v) ==
  /\ host = "control" /\ ~locked
  /\ request' = v
  /\ IF msgs = <<>> THEN Push("submit") ELSE UNCHANGED msgs
  /\ host' = "idle"
  /\ UNCHANGED <<active, setup, hasStream, requestOk, locked, cam, ending,
                 streaming, loop, bufVars, devVars, recording, owner, crashed>>

ControlSet(v) ==
  /\ host = "control" /\ ~locked
  /\ request' = v
  /\ Push("submit")
  /\ host' = "idle"
  /\ UNCHANGED <<active, setup, hasStream, requestOk, locked, cam, ending,
                 streaming, loop, bufVars, devVars, recording, owner,
                 crashed>>

\* A GET_REQUEST stores nothing.
ControlRead ==
  /\ host = "control" /\ host' = "idle"
  /\ UNCHANGED <<active, msgs, setup, reqVars, locked, cam, ending, streaming,
                 loop, bufVars, devVars, recording, owner, crashed>>

-----------------------------------------------------------------------------
(* The camera thread.                                                       *)

PopMessage ==
  /\ cam = "pop" /\ msgs # <<>> /\ ~crashed
  /\ LET m == Head(msgs) IN
       /\ cam' = IF m = "terminate" THEN "stop" ELSE m
       /\ ending' = (m = "terminate")
  /\ msgs' = Tail(msgs)
  /\ locked' = TRUE
  /\ UNCHANGED <<active, setup, reqVars, hostVars, loop, bufVars, devVars,
                 recording, owner, crashed>>

\* The handler ends, and the lock with it.
Finish ==
  /\ cam' = IF ending THEN "ended" ELSE "pop"
  /\ locked' = FALSE

\* CameraStart: the thread first, then the checks.
StartLoop ==
  /\ cam = "start"
  /\ crashed' = (loop # "none")
  /\ loop' = "test"
  /\ IF setup = "good"
     THEN cam' = "configure" /\ UNCHANGED locked
     ELSE Finish
  /\ UNCHANGED <<active, msgs, hostVars, reqVars, ending, bufVars, devVars,
                 recording, owner>>

\* CreateStream and EndConfigure; a stream whose configuration fails stays
\* in mRequest.streamIds.
Configure ==
  /\ cam = "configure"
  /\ \/ /\ device = "ok"
        /\ hasStream' = TRUE
        /\ pool' = Buffers \ (ToSet(vqueue) \cup held \cup called)
        /\ \/ cam' = "request" /\ UNCHANGED locked
           \/ "configure" \in Faults /\ Finish
     \/ /\ device = "error" \/ "configure" \in Faults
        /\ Finish /\ UNCHANGED <<hasStream, pool>>
  /\ UNCHANGED <<active, msgs, hostVars, request, requestOk, ending, loop,
                 bufVars, repeating, flowing, device, recording, owner,
                 crashed>>

\* SubmitRequest with the streaming flag; it fails without a stream.
SubmitRequest(meta) ==
  \/ /\ device = "ok" /\ hasStream
     /\ repeating' = meta /\ flowing' = TRUE /\ requestOk' = TRUE
  \/ /\ device = "error" \/ ~hasStream \/ "submit" \in Faults
     /\ requestOk' = FALSE /\ UNCHANGED <<repeating, flowing>>

\* InitCameraParamsLocked posts a message of its own, then the first request;
\* the recorder is started when it went through.
FirstRequest ==
  /\ cam = "request"
  /\ msgs' = Append(msgs, "submit")
  /\ SubmitRequest(request)
  /\ recording' = (recording \/ requestOk')
  /\ Finish
  /\ UNCHANGED <<active, hostVars, request, hasStream, ending, loop, bufVars,
                 pool, device, owner, crashed>>

CameraSubmitRequest ==
  /\ cam = "submit"
  /\ SubmitRequest(request)
  /\ Finish
  /\ UNCHANGED <<active, msgs, hostVars, request, hasStream, ending, loop,
                 bufVars, pool, device, recording, owner, crashed>>

\* CameraStop: the recorder, then nothing more if no loop was started;
\* CancelRequest knows only the id of the repeating request.
StopBegin ==
  /\ cam = "stop"
  /\ recording' = FALSE
  /\ IF loop = "none"
     THEN Finish /\ UNCHANGED repeating
     ELSE /\ cam' = "drain" /\ UNCHANGED locked
          /\ repeating' = IF device = "ok" /\ requestOk THEN NoRequest
                                                       ELSE repeating
  /\ UNCHANGED <<active, msgs, hostVars, reqVars, ending, loop, bufVars, pool,
                 flowing, device, owner, crashed>>

AllReturned == vqueue = <<>> /\ held = {} /\ called = {}

(* Mutant: the camera is not waited for.                                    *)
WaitIdle_Skipped ==
  /\ cam = "drain" /\ cam' = "join"
  /\ UNCHANGED <<active, msgs, hostVars, reqVars, locked, ending, loop, bufVars,
                 devVars, recording, owner, crashed>>

\* WaitUntilIdle: drained, or given up after five seconds, which puts the
\* device client into its error state; either way it has lock_ now.
WaitIdle ==
  /\ cam = "drain"
  /\ cam' = "forget"
  /\ \/ /\ repeating = NoRequest /\ AllReturned
        /\ flowing' = FALSE /\ UNCHANGED device
     \/ /\ flowing
        /\ device' = "error" /\ UNCHANGED flowing
  /\ UNCHANGED <<active, msgs, hostVars, reqVars, locked, ending, loop, bufVars,
                 pool, repeating, recording, owner, crashed>>

\* No callback of the HAL has pending_requests_lock_, and lock_ is free.
NoCallback == called = {} /\ crossed = "no"
LockFree == cam # "forget"

\* pending_error_requests_vector_.clear, and lock_ is given up.
ForgetErrors ==
  /\ cam = "forget" /\ NoCallback
  /\ cam' = "join"
  /\ UNCHANGED <<active, msgs, hostVars, reqVars, locked, ending, loop, bufVars,
                 devVars, recording, owner, crashed>>

(* Mutant: mVideoBufferThread is not reset after the join.                  *)
JoinLoop_KeepsThread ==
  /\ cam = "join" /\ loop = "ended"
  /\ cam' = "delete"
  /\ UNCHANGED <<active, msgs, hostVars, reqVars, locked, ending, loop, bufVars,
                 devVars, recording, owner, crashed>>

JoinLoop ==
  /\ cam = "join" /\ loop = "ended"
  /\ loop' = "none" /\ cam' = "delete"
  /\ UNCHANGED <<active, msgs, hostVars, reqVars, locked, ending, bufVars,
                 devVars, recording, owner, crashed>>

\* DeleteStream fails in the error state and is only logged.
DeleteStreams ==
  /\ cam = "delete"
  /\ hasStream' = FALSE
  /\ pool' = IF device = "ok" THEN {} ELSE pool
  /\ Finish
  /\ UNCHANGED <<active, msgs, hostVars, request, requestOk, ending, loop,
                 bufVars, repeating, flowing, device, recording, owner,
                 crashed>>

-----------------------------------------------------------------------------
(* The stream callback.                                                     *)

\* ReturnStreamBuffer: refused in the error state and for a stream that is no
\* longer there.
Returned(S) == IF device = "ok" /\ hasStream THEN pool \cup S
                                          ELSE pool \ S

\* A callback that gives a buffer back has pending_requests_lock_ already.
GiveBack(b) ==
  IF LockFree THEN pool' = Returned({b}) /\ UNCHANGED crossed
              ELSE pool' = pool \ {b} /\ crossed' = "return"

StreamCbTest(b) ==
  /\ NoCallback
  /\ flowing /\ b \in pool
  /\ IF active
     THEN /\ called' = {b} /\ mapped' = mapped \cup {b}
          /\ pool' = pool \ {b} /\ UNCHANGED crossed
     ELSE /\ mapped' = mapped \ {b} /\ GiveBack(b)
          /\ UNCHANGED called
  /\ UNCHANGED <<active, msgs, hostVars, reqVars, locked, cam, ending, loop,
                 vqueue, held, repeating, flowing, device, recording, owner,
                 crashed>>

\* Submitted to the gadget and queued for the loop ...
StreamCbSubmit(b) ==
  /\ b \in called
  /\ called' = called \ {b} /\ vqueue' = Append(vqueue, b)
  /\ UNCHANGED <<active, msgs, hostVars, reqVars, locked, cam, ending, loop,
                 held, crossed, mapped, devVars, recording, owner, crashed>>

\* ... or, when it cannot be mapped or read, given straight back.
StreamCbFail(b) ==
  /\ b \in called
  /\ called' = called \ {b} /\ mapped' = mapped \ {b}
  /\ GiveBack(b)
  /\ UNCHANGED <<active, msgs, hostVars, reqVars, locked, cam, ending, loop,
                 vqueue, held, repeating, flowing, device, recording, owner,
                 crashed>>

-----------------------------------------------------------------------------
(* The video loop: while (mActive || queue.size()).                         *)

LoopGoto(from, to) ==
  /\ loop = from /\ loop' = to
  /\ UNCHANGED <<active, msgs, hostVars, reqVars, locked, cam, ending,
                 devVars, called, crossed, recording, owner, crashed>>

LoopTest ==
  /\ LoopGoto("test", IF active THEN "pop" ELSE "size")
  /\ UNCHANGED <<vqueue, held, mapped>>

LoopSize ==
  /\ LoopGoto("size", IF vqueue # <<>> THEN "pop" ELSE "ended")
  /\ UNCHANGED <<vqueue, held, mapped>>

LoopPop ==
  /\ LoopGoto("pop", "return")
  /\ vqueue # <<>>
  /\ held' = {Head(vqueue)} /\ vqueue' = Tail(vqueue)
  /\ UNCHANGED mapped

(* Mutant: a timeout retries the pop.                                       *)
LoopTimeout_Retries ==
  /\ LoopGoto("pop", "pop")
  /\ vqueue = <<>>
  /\ UNCHANGED <<vqueue, held, mapped>>

LoopTimeout ==
  /\ LoopGoto("pop", "test")
  /\ vqueue = <<>>
  /\ UNCHANGED <<vqueue, held, mapped>>

(* Mutant: the buffer is unmapped and forgotten.                            *)
LoopReturn_Forgets ==
  /\ loop = "return" /\ loop' = "test" /\ LockFree
  /\ held' = {} /\ mapped' = mapped \ held
  /\ UNCHANGED <<active, msgs, hostVars, reqVars, locked, cam, ending, vqueue,
                 called, crossed, devVars, recording, owner,
                 crashed>>

\* The gadget is done with the buffer: unmapped, returned to the stream.
LoopReturn ==
  /\ loop = "return" /\ loop' = "test" /\ LockFree
  /\ held' = {} /\ mapped' = mapped \ held
  /\ pool' = Returned(held)
  /\ UNCHANGED <<active, msgs, hostVars, reqVars, locked, cam, ending, vqueue,
                 called, crossed, repeating, flowing, device, recording,
                 owner, crashed>>

\* SET_ERR on the HAL's behalf, by a thread that finds lock_ free.
DeviceError ==
  /\ "device" \in Faults /\ LockFree
  /\ device = "ok" /\ device' = "error"
  /\ UNCHANGED <<active, msgs, hostVars, reqVars, locked, cam, ending, loop,
                 bufVars, pool, repeating, flowing, recording, owner, crashed>>

\* The handler of a result or a shutter has pending_requests_lock_ already:
\* when lock_ is taken it waits for a thread that waits for it.
BlameHal ==
  /\ "device" \in Faults /\ ~LockFree /\ NoCallback
  /\ crossed' = "error"
  /\ UNCHANGED <<active, msgs, hostVars, reqVars, locked, cam, ending, loop,
                 vqueue, held, called, mapped, devVars, recording, owner, crashed>>

-----------------------------------------------------------------------------
(* The destructor.                                                          *)

Deactivate ==
  /\ owner = "run" /\ owner' = "terminate"
  /\ active' = FALSE
  /\ UNCHANGED <<msgs, hostVars, reqVars, locked, cam, ending, loop, bufVars,
                 devVars, recording, crashed>>

PushTerminate ==
  /\ owner = "terminate" /\ owner' = "join"
  /\ msgs' = Append(msgs, "terminate")
  /\ UNCHANGED <<active, hostVars, reqVars, locked, cam, ending, loop, bufVars,
                 devVars, recording, crashed>>

JoinCamera ==
  /\ owner = "join" /\ cam = "ended"
  /\ owner' = "free" /\ recording' = FALSE
  /\ UNCHANGED <<active, msgs, hostVars, reqVars, locked, cam, ending, loop,
                 bufVars, devVars, crashed>>

\* umd_gadget_free ends the gadget's thread, between two callbacks.
FreeGadget ==
  /\ owner = "free" /\ owner' = "done"
  /\ host = "idle" /\ host' = "gone"
  /\ UNCHANGED <<active, msgs, setup, streaming, reqVars, locked, cam,
                 ending, loop, bufVars, devVars, recording, crashed>>

-----------------------------------------------------------------------------
Gadget == \/ SetupVideoStream \/ EnablePush \/ EnableActive
          \/ DisablePush \/ DisableActive
          \/ ControlGet \/ \E v \in Values : ControlSet(v) \/ ControlRead
CameraThread == \/ PopMessage \/ StartLoop \/ Configure \/ FirstRequest
                \/ CameraSubmitRequest \/ StopBegin \/ WaitIdle
                \/ ForgetErrors \/ JoinLoop \/ DeleteStreams
EndCallback(b) == StreamCbSubmit(b) \/ StreamCbFail(b)
Callback(b) == StreamCbTest(b) \/ EndCallback(b)
Blame == DeviceError \/ BlameHal
VideoLoop == LoopTest \/ LoopSize \/ LoopPop \/ LoopTimeout \/ LoopReturn
Destructor == Deactivate \/ PushTerminate \/ JoinCamera \/ FreeGadget

\* std::terminate ends every thread.
Next ==
  /\ ~crashed
  /\ \/ Gadget \/ CameraThread \/ VideoLoop \/ Destructor
     \/ \E b \in Buffers : Callback(b)
     \/ Blame

Spec == Init /\ [][Next]_vars

\* The daemon's threads are scheduled, a wait for the gadget or for a message
\* returns, and a callback of the gadget or the HAL that was begun goes on.
\* Nothing is asked of the host, nor of the camera.
FairSpec ==
  /\ Spec
  /\ WF_vars(CameraThread) /\ WF_vars(VideoLoop)
  /\ WF_vars(EnableActive) /\ WF_vars(DisableActive)
  /\ WF_vars(\E b \in Buffers : EndCallback(b))
  /\ WF_vars(PushTerminate \/ JoinCamera)

-----------------------------------------------------------------------------
(* Properties.                                                              *)

\* No std::thread is assigned to or destroyed while it is joinable, which
\* would end the daemon: CAMERA_START always finds the loop of the previous
\* start joined, and so does the end of the destructor (lines 969, 1065).
NoThreadAbandoned ==
  ~crashed /\ (owner \in {"free", "done"} => loop = "none")

\* The last metadata the host stored is what the repeating request uses, or a
\* message that will submit it is waiting: no interleaving of controls with
\* start and stop loses one (lines 236, 985, 1080, 1113).
ControlsApplied ==
  device = "ok" /\ requestOk /\ repeating # NoRequest /\ cam # "submit"
    => repeating = request \/ "submit" \in ToSet(msgs)

\* Once the camera thread has served the last stop, or has ended, there is no
\* stream, loop or recording; and unless the device client is in error the
\* camera is silent and the gadget has every buffer given back, so that the
\* gadget may be freed (lines 82, 1038).
Closed ==
  /\ ~hasStream /\ loop = "none" /\ ~recording
  /\ device = "ok" => /\ repeating = NoRequest /\ ~flowing
                      /\ AllReturned /\ mapped = {}
StoppedMeansClosed ==
  cam = "ended" \/ (cam = "pop" /\ ~streaming /\ "stop" \notin ToSet(msgs))
    => Closed

\* Where the camera thread and a callback of the HAL each have the lock the
\* other waits for; no device client in order, with a HAL it finds no fault
\* with, gets there.
LockedOut == crossed = "error" \/ (crossed = "return" /\ device = "error")

\* CAMERA_STOP, once it waits for the device client, comes to its end, and so
\* does the destructor's join: unless the host has enabled the video again
\* meanwhile, or a callback of a client in error takes lock_ and
\* pending_requests_lock_ in the other order (lines 942, 1065;
\* camera_device_client.cc:1117, 1421, 1954).
Stopping == {"drain", "forget", "join"}
StopsUnlessReenabled ==
  /\ (cam \in Stopping) ~> (cam \notin Stopping \/ active \/ LockedOut)
  /\ (owner = "join") ~> (owner # "join" \/ active \/ LockedOut)

\* A buffer queued for the loop is given back to the stream, unless the device
\* client is in error; but a loop that looked at mActive before
\* enableVideoStream set it has ended for good (lines 190, 191, 941).
QueuedBuffersReturn ==
  \A b \in Buffers :
    (b \in ToSet(vqueue)) ~>
      (b \in pool \/ device = "error" \/ (loop = "ended" /\ active))
=============================================================================
