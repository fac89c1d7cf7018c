# iot-media: a verification project

TLA+ models of the concurrent parts of this repository - the camera adaptor
(`src/umd-daemon/camera`), the USB media daemon built on it
(`src/umd-daemon/daemon`), and recorder, camera, decoders and HDMI sound of the
application `APPS/qmedia` - with their TLC configurations and theorems about them checked by TLAPS. The
definitions are translated from the source; `PROJECT.json` maps each one to
the lines it stands for. Paths below are relative to
`src/umd-daemon/camera/adaptor/` unless they say otherwise.

## 1. Inventory

The repository holds two programs: `umd-daemon`, a C++ daemon that feeds a USB
video gadget from the camera and an audio gadget from the microphone, and
`APPS/qmedia`, an Android demo application in Java.

### The camera adaptor

Threads: any number of client threads, the threads of the camera HAL's
callbacks, and three threads of its own, each a `ThreadHelper`: the monitor, the
request handler and the prepare handler.

| Component | State | Operations | Talks to |
|---|---|---|---|
| `ThreadHelper` (`utils/camera_thread.*`) | `state_`, `thread_` | Run, RequestExit, RequestExitAndWait, MainLoop | is the base of the three threads |
| `Camera3Monitor` | `monitor_states_`, `input_queue_`, `composite_state_`, `updated_states_` | Acquire/ReleaseMonitor, ChangeStateToIdle/Active, ThreadLoop | streams and request handler queue transitions; calls `NotifyStatus` of the device client |
| `Camera3Stream` | `status_`, `mem_alloc_buffers_`, slots, `buffers_map`, `pending_buffer_count_` | configure, prepare, tear down, close; GetBuffer, ReturnBufferToClient, ReturnBuffer | allocator, monitor, client's stream callback |
| `Camera3RequestHandler` | `requests_`, `streaming_requests_`, `current_request_`, `toggle_pause_state_`, `paused_state_` | queue, repeat, clear, pause; ThreadLoop: WaitOnPause, GetRequest, SubmitRequest | streams (GetBuffer), HAL, monitor |
| `Camera3DeviceClient`: control | `state_`, `streams_`, `deleted_streams_`, `reconfig_`, `pause_state_notify_` | OpenCamera, CreateStream, DeleteStream, ConfigureStreams, SubmitRequestList, CancelRequest, Flush, WaitUntilIdle | everything above |
| `Camera3DeviceClient`: results | `pending_requests_vector_`, `pending_error_requests_vector_`, `next_*_frame_number_` | MarkPendingRequest, HandleCaptureResult, NotifyShutter, NotifyError | HAL callbacks, client callbacks, streams |
| `Camera3PrepareHandler` | `streams_`, `current_stream_`, `abort_prepare_` | Prepare, Clear, ThreadLoop | streams, client's prepared callback |
| allocator (`camera/memory`) | none of its own | AllocBuffer, FreeBuffer, map | wraps a HIDL service |

What makes it hard: callbacks of the HAL, of the client and of the monitor
interleave under five kinds of mutex; state is read, the lock given up in a
timed wait, and used afterwards; every wait times out and is retried; a
reconfiguration pauses a pipeline that has buffers out; a notification of
idleness is delivered some time after it was true.

What makes it correct: a buffer has one holder and comes back exactly once; every
frame gets one result, in order; the client is told idle and active in
alternation, and is told the truth when things settle; nothing waits for ever;
threads are joined exactly once.

### The daemon and the application

| Component | State | Hard part |
|---|---|---|
| `UmdCamera` (`umd-daemon/daemon/umd-camera.*`) | message queue, `mActive`, video buffer queue, current metadata | start/stop messages against USB callbacks, a join under a mutex, two locks of the device client taken in both orders |
| `handleVideoControl` of the same object | metadata of the request; zoom, pan and tilt in static variables | conversions in fixed width there and back, a GET that writes |
| `AudioRecorder`, `AudioStream` (`audio-*.cpp`) | buffer queue with condition variable | lost wake-up, stop against the stream loop |
| `MessageQ` (`message_queue.h`) | a queue with condition variable | none beyond its lock |
| qmedia: `MediaCodecRecorder` | three threads, muxer and encoders | run/stop flags read and cleared by other threads |
| qmedia: `CameraBase` | camera, session, open/close semaphore, background thread | callbacks against a close, a permit that is given back too early, twice or never |
| qmedia: `HDMIinAudioPlayback` | two threads, their flags, a queue, a semaphore | a stop that should wait for both threads to have begun |
| qmedia: `MediaCodecDecoder`, `VideoComposer`, `FrameSync` | a thread per decoder, the composition thread, counts of frames | notifications before the wait, a poll on the user interface's thread |
| qmedia: `HomeFragment` | button, settings, surface, life cycle | one thread drives all of the above, in the order the user likes |

## 2. Plan

Done, in order of importance:

| Module | Models | Abstract specification | Proofs |
|---|---|---|---|
| `CameraMonitor` | `Camera3Monitor` | `IdleNotifier` | `CameraMonitor_proofs` |
| `ThreadHelper` | `ThreadHelper` | | `ThreadHelper_proofs` |
| `CameraStream` | `Camera3Stream` | `BufferPool` | `CameraStream_proofs` |
| `PrepareHandler` | `Camera3PrepareHandler`, composed with one `CameraStream` | | `CameraStream_proofs` |
| `ResultTracker` | `Camera3DeviceClient`, results | | `ResultTracker_proofs` |
| `CameraDevice` | `Camera3DeviceClient`, control, with the thread of `Camera3RequestHandler` | | `CameraDevice_proofs` |
| `UmdCamera` | `UmdCamera`, `MessageQ`, and the two locks of the device client | | `UmdCamera_proofs` |
| `VideoControls` | `UmdCamera::handleVideoControl`, the values | | `UmdCamera_proofs` |
| `AudioCapture` | `AudioRecorder`, `AudioStream` | | `AudioCapture_proofs` |
| `MediaCodecRecorder` | qmedia `MediaCodecRecorder` | | `Qmedia_proofs` |
| `HomeFragment`, with `CameraBase`, `HDMIinAudioPlayback`, `VideoComposer` | qmedia: the primary display, its camera, HDMI sound, decoders and composition | | `Qmedia_proofs` |

The composition goes by promises where a component can be said in a few lines:
`CameraMonitor` is shown to implement `IdleNotifier`, and `CameraDevice` has that
specification's two steps, written out in `Report` and `NotifyStatus`, in the
place of the monitor;
`PrepareHandler` uses its thread as `ThreadHelper` promises, joined once and after
its end; `UmdCamera` uses the device client only through what its calls answer
and which locks they hold. It goes by EXTENDS where two components share state:
`PrepareHandler` is `CameraStream` with one more thread, and `HomeFragment` calls
the actions of the three modules it extends. `MCPrepareHandler`,
`MCResultTracker`, `MCCameraDevice` and `MCVideoControls` add symmetry and the
sets of inputs for TLC; the other modules are instantiated by their `.cfg` alone.

Left, and why:

1. Request ids (`next_request_id_`, `repeating_requests_`, what `CancelRequest` is
   given): a counter and a map under `lock_`, which decide return values only.
2. The last step of the liveness properties as theorems: their cores are proved
   (section 5), fairness and ENABLED are out of the prover's reach.

## 3. The modules and the code

Conventions: a handler that holds its mutex from its first look at the state to
its last is one action; where the code gives a mutex up, or reads shared state
without one, the action ends. A `pc` variable says where a thread is. A wait
with a timeout is a step that may be taken when its condition holds and another
that may be taken at any time. Names are those of the source; a comment marks
the definitions of the form `X_Y`, deliberately wrong variants of `X` that
`PROJECT.json` pairs with the property that rejects them.

The paragraphs follow the table above.

**CameraMonitor.** Variables are the members of the class and `owed` (callers
between `lock_` and `input_lock_`), `wanted` (what each holder asked for last)
and `told` (what the callback said last). `AcquireMonitor`, `ReleaseMonitor`,
`SignalUpdate`, `ChangeState` and `RequestExit` are the callers' steps;
`StartWait`, `StopOnExit`, `BeginPass`, `ApplyKnown`, `SkipUnknown`, `EndPass`,
`Notify`, `EndNotify` the stages of `ThreadLoop`. A pass holds both mutexes, so
callers do not move during it; the callbacks are made outside them.

**IdleNotifier.** A level, a count of changes not yet delivered, and what was
last delivered: a change flips the level, a delivery flips what was told. That
the two agree when nothing is due is its invariant.

**ThreadHelper.** `state_` is read and written under a mutex of its own, so the
entry points are sequences of steps of a controller `c` that holds `lock_`:
`EnterX` takes it, `WaitState`, `Join`, `Deactivate`, `Spawn`, `SpawnFails`,
`Activate`, `AskToIdle`, `Return` follow. `kind` is rigid and says whose
`ThreadLoop` it is: the monitor's and the request handler's stop only when asked
(`Polling`), the prepare handler's may end by itself. The request handler's comes
to `ExitPending` only through `WaitOnPause`, which while `paused` returns true,
when its wait times out as when an exit is pending (camera_request_handler.cc:246,
601-612): `PassPause` is the way through, `TogglePause` whoever pauses the
handler and lets it go, `ThreadLoopGoesOn` and `ThreadLoopEnds` what follows the
look at `ExitPending`.

**CameraStream.** One stream. `buffers`, `free`, `slots` and `buffersMap` are
`mem_alloc_buffers_` and its flags, `mem_alloc_slots_` and `buffers_map`;
`monitored` and `reported` are what the stream told the monitor. `GetBuffer` is
the only operation that gives its lock up: `StartWait`, `WaitTimesOut`,
`GetAfterWait`. `drained` is history: it was never reconfigured with buffers out.
`GetAfterWait` translates the single `if` around the wait (line 421): the
condition is not looked at again.

**PrepareHandler.** `queue`, `current`, `abort` and `prepareRunning` are
`streams_`, `prepared_stream_`, `abort_prepare_` and `prepare_running_`; `worker`
is where the thread is. `Prepare` puts the stream into PREPARE_ACTIVE and either
queues it or, `prepare_running_` being false, goes on to join the thread that is
ending and to start another (`StartThread`, `StartFails`), holding `lock_`
throughout: `starting` says so, and every section of `ThreadLoop` under `lock_`
waits for it. `PrepareThis` is `PrepareBuffer` of the stream, outside that lock.
`StreamStep` is everything else that happens to a stream; the actions the device
client runs under its own `lock_` do not happen while a `Prepare` holds that. A
second stream ("other") is reduced to whether it is in preparation. `Clear` is
called by the device client's destructor only, so its `abort_prepare_` cannot
survive into a later preparation.

**BufferPool.** Each buffer has one owner - nobody, the stream, the HAL, the
client - and moves only along the pipeline; memory is released all at once.

**ResultTracker.** The vectors of pending and failed requests and the two frame
counters, with the HAL's side as ghost state: what it was asked (`asked`), still
has (`atHal`) and owes (`dueShutter`, `dueMeta`). Metadata comes one of five
`Ways`: not at all, in the field `result`, as a block in the result metadata queue
(`fmqResultSize`), as both, or as a block that cannot be read. `HandleCaptureResult`
asks the field whether there is any (`Present`) and takes it from the queue
(`Contents`), so only the fourth way does what the client expects; `inlineOnly` and
`queueOnly` remember the frames that came one of the two others. The rigid `conduct` is how the
HAL behaves: `any` sends what it likes in any order and number, `honest` keeps
to its contract but may report errors, `faultless` has none to report.

**CameraDevice.** `device` and `queues` are the members of the device client and
of the request handler. Handlers of the client hold `lock_` until they wait in
`WaitUntilStateThenRelock`, where the module splits them: `CreatePauses`,
`CreateResumes` and so on. `seen` is that function's list of states since the
wait began. An id that a failed `CreateStream` leaves registered is used again by
the next call in the code; the model gives that call another one (`Fresh`). The
handler's loop is `WaitOnPause` or `PassPause`, `GetRequest` or
`GetNothing`, `Submit`, `Submitted`. `Init` is the device after `OpenCamera`,
with `reconfig_` set. `Faults` switches on what may go wrong.

**UmdCamera.** The gadget's callbacks (`host`), the camera thread (`cam`), the
loop that gives buffers back (`loop`), the stream callbacks (`called`, `mapped`)
and the thread that runs the destructor (`owner`). `EnablePush` and
`EnableActive` are two steps because `enableVideoStream` takes no lock.
`ControlGet` and `ControlSet` are the two critical sections of
`handleVideoControl`. `crashed` is `std::terminate`. CAMERA_STOP waits for the
device client to drain; in its error state that ends at once and goes on to clear
the failed requests (`ForgetErrors`), for which it takes
`pending_requests_lock_` while it has `lock_`. A callback of the HAL has the first
and may want the second, to return a buffer or to report an error: `crossed` says
that one does.

**VideoControls.** The metadata as functions of the control, the crop and the
three statics, with words of constant width. `Encode` and `Decode` are the
pairs `SetX` and `GetX`, truncation included; `Show` and `ZoomOf` are the
geometry of `SetZoom` and `GetZoom`. The code computes them in doubles and
floats: a truncated quotient may be one less than the exact one where that is an
integer and the divisor is not represented (`Quotients`), and `GetZoom`'s result
is any value within a relative error of 1 / `Precision`, so both choose among
several. The host gets its answers by `Answer`; `asked`, `shown` (the
magnification the crop was made with) and `fits` (whether what `GetZoom` computed
since the last zoom fitted 16 bits) are history.

**AudioCapture.** The caller of `Start` and `Stop` (`ctl`), the recording thread
(`rec`) and the stream thread (`loop`), with the buffers in use and the messages
between them. `GetBufferFull` and `WaitForBuffer` are two steps: `GetBuffer`
looks under one mutex and waits on another. `missed` is history: a notification
came between the two.

**MediaCodecRecorder.** One `pc` per thread; `codec`, `muxer`, `tracks` and
`count` are the objects and `mMuxerTrackCount`. `audio` is rigid, settled by the
constructor. `late` is history: threads whose `run()` set its flag after
`stop()` had cleared it. The flags that are plain Java fields are taken as
eventually visible.

**CameraBase, HDMIinAudioPlayback, VideoComposer, HomeFragment.** The user
interface's thread is a list of calls still to make (`todo`) and, inside a call,
where it is: `request` in closeCamera, `asked` in start and stop of the sound,
`stage` in the decoders' start and stop, the composer's constructor and
FrameSync. A handler puts the calls on the list (`Toggle`, `OnPause`, ...), each
call is a `Step`; another event comes only when the list is empty and nothing is
under way (`Idle`), but the surface may be made anew inside closeCamera's
`setFormat` (`MayRenewSurface`). Camera callbacks run on `background`, the two
sound threads are `at`, the decoders `decoder`, the composition thread
`composer`. Java's exceptions nobody catches are `thrown`, `overflow` and
`wrecked`; a Java semaphore is a number. `hasty`, `faulted`, `refused`, `tardy`,
`lost`, `overdue` are history, and say which race a property allows for.

## 4. The runs

Every property is rejected for at least one deliberately wrong variant of a
definition, listed in `PROJECT.json` under `mutants`.

| Run | Question | Bounds and why they are enough | Distinct states |
|---|---|---|---|
| `monitor` | Is a quiet monitor truthful, do its callbacks alternate, are holders' last wishes told, is an exit honoured? | Two ids and a queue of two: two holders can disagree, one can release with the other's transition queued, a pass can meet two transitions of one id. | 47 thousand |
| `thread` | Can racing controllers join or overwrite a `std::thread` wrongly, or wait for ever? | Three controllers: one inside, one that overtakes, one that waits; all three kinds of loop, paused or not at any time. | 6528 |
| `prepare` | Has each buffer one holder, does a signalled waiter find one, is the monitor told the truth, is it a `BufferPool`, with the prepare handler at work? Is each stream in preparation in that handler's hands, and queued for a thread that runs? | Four handles and frames and a client that may hold three, so that the limit, not the supply, decides; two streams, so that one is queued behind the other. | 33 thousand with symmetry |
| `tracker` | Are buffers conserved, results ordered, frames settled, an innocent HAL not blamed? | Two frames on two streams: order, overtaking and partial returns need two of each. Each result may come in each of the five ways. | 677 thousand (3 minutes) |
| `device_any` | Whatever clients, HAL and timing do: does the monitor know of work, do requests use live streams, does a device in error stop? | Two clients, two streams, lists of one, one buffer, one callback due at most when a client calls: every pair of handlers meets in every wait. | 1.7 million with symmetry |
| `device_prompt` | With a client that calls only when no callback is due: is configuration done only when drained, does WaitUntilIdle mean done, does every call return without its timeout, is work served? | One client, two streams, lists and batches of two: a pause can come in the middle of a batch. | 55 thousand |
| `device_stale` | And with a client that does not wait for callbacks? No: a pause ends in STATE_RUNNING. | One client suffices. | |
| `umd` | Is no thread abandoned, no control lost, nothing left open by a stop; do joins return, do buffers come back? | One buffer on its way, two values, two messages: three of the four kinds of message may meet, and each later buffer behaves as the first. | 600 thousand |
| `controls` | Does each control read back as it was set, does a pan keep the picture? | Words of 4, 11 and 12 bits and a sensor of 40 by 30, so that values on both sides of each width occur; controls other than zoom, pan and tilt do not touch each other, so two of them in one behaviour suffice (`FewControls`); a precision of one word, the least `ControlsAssumption` allows. | 8730 |
| `audio` | Are card and gadget apart, do threads die before what they use, does Stop return? | Four buffers, the number the daemon uses is a parameter of the constructor; one is filled, one is read, two wait. | 6559 |
| `home` | Is off what the button says is off, does stop wait for the sound's threads, does every handler return? | Two permits, so that one can be too many; a queue of one; two rounds, so that a round can meet the permit the last one left; two decoders; FrameSync's limit two (the code: 10) and surfaces of three frames, so that one input can be full while another is awaited. | 453 thousand |
| `recorder` | Does the muxer start once with all tracks, is nothing used after its release, does stop() return? | None: the model is finite. | 1967 |

`CHECK_DEADLOCK FALSE` is said where the system may stop: the monitor, a helper
and the daemon end, a client may call nothing more, a HAL may have answered
everything, a buffer may wait for a device that failed, and an exception ends the
application. `recorder` and `controls` have no such state.

### Fairness

Only threads and what the code bounds by a timeout are scheduled; no caller is
obliged to call, and no wait to time out.

- `monitor`: the monitor's thread (`ThreadLoop` waits with a timeout and is
  called in a loop) and a caller that has left one mutex and goes on to the next.
- `thread`: the holder of `lock_` proceeds; a loop that polls comes to
  `ExitPending`, because every wait inside a `ThreadLoop` is timed, but for the
  request handler's while it is paused. The fairness of `PassPause` is weak: a
  pause that is lifted for a moment may go unnoticed.
- `tracker`: an honest HAL answers what it was given.
- `device_prompt`: monitor and request handler, which poll; HAL and client,
  which return buffers; a woken client.
- `umd`: the camera thread and the video loop, and a callback of the gadget or of
  the HAL, or a destructor, once begun. Nothing is asked of the host or of the camera.
- `audio`: both threads and a Stop once begun.
- `recorder`: the same, and strong fairness of `DequeueInput`: the microphone's
  thread polls for an input buffer with a timeout, and the encoder has one free
  now and then, not always.
- `home`: the user interface's thread goes on with a handler it has begun, the
  camera's background thread and the sound's, decoders' and composition's threads
  run, and the camera service answers an open. Nobody has to press the button,
  and the service need not fail.

The liveness properties are weakened by exactly what the code does not rule
out: `ExitHonoured` asks that the callers fall silent (the exit flag is read
only after a wait), `EntryPointsReturn` that the request handler is not paused for
good or again and again, `StopsUnlessReenabled` allows for a host that enables again
before the join, `StopReturns` for the notification the recording thread may
miss, `RecordingEnds` for a `run()` that starts after `stop()` cleared its flag,
`EveryFrameSettles` for a frame whose last news was an error or whose metadata came
by the queue only, `HandlersReturn` for
the five places where the user interface's thread may really wait for ever
(`Hung`, each named with its line), `StopsUnlessReenabled` also for the two locks
taken in both orders when the device client is in error (`LockedOut`).

## 5. What is proved

Every theorem holds for all values of the constants under the assumptions named
beside them in the modules (`BoundsAssumption`, `NobodyAssumption`,
`StreamAssumption`, `TrackerAssumption`, `DeviceAssumption`, `UmdAssumption`,
`ControlsAssumption`, `AudioAssumption`, `ComposerAssumption`): sets are finite, bounds are natural numbers, marker values
are not members. Unless a line says so, the argument is an inductive invariant,
one step per action.

- **CameraMonitor.** `TypeCorrect`; `BookkeepingHolds` (ids, owners and pending
  signals agree) supports `CompositeIsFresh`: the composite state is stale only
  when an id was released and a second look is owed or flagged, and never IDLE
  under an applied ACTIVE. `NotificationsDoAlternate` follows from how a pass
  appends a change only when the composite changed. `NoRequestIsLost` relates
  queue, applied states and `wanted`. `QuietIsTruthful` combines them: none of
  them alone is about what the client hears. `ImplementsIdleNotifier` maps each
  step to a change, a delivery or a stutter. `PassesDoEnd`: a measure of the
  thread's way to the end of its pass falls with each of its steps and is not
  touched by callers.
- **ThreadHelper.** `ThreadIsHandledSafely` for any number of controllers and
  both kinds of loop; `PolledStatesMeanWhatTheySay` for loops that poll. Both
  rest on an invariant over `state`, `loop` and the step of the lock's holder.
  `EntryPointsAreNotStuck`: for loops that poll, the holder of `lock_` can go on,
  or waits for a thread that was asked to end and can take a step towards it, or
  for a request handler that is kept paused. `EntryPointsAreBounded`: there are at
  most 23 steps to go, the holder's and the thread's, and each leaves one fewer,
  however many controllers race.
- **CameraStream.** One invariant ties count, map, slots and `buffersMap`
  together; from it `BuffersHaveOneHolder`, `SlotsAlwaysMatch`,
  `SignalAlwaysMeansBuffer`, `PreparationCompletes`, `IsNeverStuckActive`,
  `DrainedReportsAreTrue`, and `ImplementsBufferPool`, whose refinement mapping
  computes a buffer's owner from the map and the client's set.
- **PrepareHandler.** `HandlerKeepsStream`: with the handler at work a stream takes
  only steps of `CameraStream`, so all theorems about streams hold of it too.
  `PreparingIsAlwaysKnown` and `QueueIsAlwaysServed` rest on one invariant over
  the queue, the flag and the thread; the first also needs that a queue of
  distinct streams loses one with its head.
- **ResultTracker.** `BuffersAreConserved` from `BuffersComeBackOnce` (any HAL)
  and `NoBufferIsLost` (an honest one); `ResultsKeepOrder` (any HAL);
  `FramesAreFinished`, which says of which frames no result comes (those whose
  metadata was inline only); `HonestHalIsNotBlamed`, whose invariant says how far the
  counters may lag behind what a faultless HAL has yet to send. `UnsettledIsOwed`:
  a frame that is registered still is one an honest HAL has something to send
  for, but for a refused request, a late error or metadata that came by the queue
  only; `AnswersComeToAnEnd`: each of
  its answers leaves fewer, and only a submission adds one.
- **CameraDevice.** `WorkAlwaysReported`, `NoRequestDangles`, `StateAlwaysTold`
  and `ErrorStopsTheDevice`, under all faults. The last needs that no request is
  empty and that each uses only streams there are: the one resume that does not
  ask for the state comes when the last stream is gone, and so the last request.
  `ConfiguredWhenIdle`, `IdleIsDone`
  and `PauseStopsTheDevice` assume `Prompt`: one client, and `Faults` empty, so
  that it calls only when no callback is due. Their invariant (`PromptInv`) says
  when state_ can be believed: the callbacks due are the changes not yet told
  (`Agrees`, a parity); a stream with buffers out is active (`Knows`); a handler
  that is paused with work to do is held by a toggle before `WaitOnPause`, or was
  resumed and has told nobody yet (`Halts`); and while a client waits for idleness
  no callback is due before the level falls and one afterwards (`Waiting`), so
  that the first IDLE it is woken by is true. A second invariant for the same
  client (`Served`) says that the streams of the requests in the handler are
  configured and have room, that a buffer out is counted, registered and
  accepted, that STATE_RUNNING is on its way when work is, and that the lock is
  kept by those who may keep it; from it `NoBufferRefused` and `DeviceIsNotStuck`:
  every wait of a call, a Flush or the handler has somebody who will end it.
- **UmdCamera.** `NoThreadIsAbandoned` needs an invariant about the messages
  still to come: two starts always have a stop between them, a start that waits
  while a loop lives has a stop before it, and with streaming off every start
  has a stop behind it. `StoppedIsClosed` builds on it; `ControlsAreApplied`
  stands alone. None of these depends on what the device client's locks do.
  `LocksCrossInError` does: the two locks are wanted in both orders only with the
  device in error; and `CameraIsNotStuck`: but for that, the camera thread goes
  on, or waits for a callback or for a buffer loop that can.
- **VideoControls.** `HostReadsBack`: for all widths, among them C++'s, and all
  host values; the lemmas are about remainders (`ExactProduct`,
  `NumericRoundTrip`). `ControlsKeepPicture`: for all widths, sensors and
  precisions the assumption allows; the lemmas bound truncated quotients
  (`QuotientBounds`), what a GET measures of a crop (`MeasuredBounds`) and where
  pan and tilt may move it (`ShiftedInside`); the invariant relates crop and
  magnification through `shown`.
- **AudioCapture.** `BuffersStayApart`, `ResourcesDoOutliveThreads`; from one more
  invariant (`Lively`) `NoBufferLost`, `NobodyWaitsInVain` and `StopIsNotStuck`:
  the only wait nobody ends is that for the missed notification.
- **MediaCodecRecorder.** `MuxerIsUsedInOrder`, `NothingIsUsedAfterRelease`;
  `StopComesToAnEnd`: a thread `stop` awaits waits itself only for the muxer's lock,
  whose holder is about to give it back, or for a time stamp, which the
  microphone's thread is on its way to (its flag is cleared only after the video
  thread was joined: `Ending`); and a thread whose flag stays cleared is at most
  six steps from its end.
- **HomeFragment.** `OffIsOff` and `ThreadsAreWaitedFor`, from one invariant
  (`HomeInv`): what the list of calls may be and what it says of the parts it has
  yet to start or stop (`Order`); a count of permits (`Tickets`: two, one more for
  each round that has ended, one less for each thread yet to begin), from which
  it follows that `stop` is overtaken by no more threads than rounds have ended;
  where the sound's threads may be in each step of start and stop (`Rounds`); the
  six configurations of camera, permit, callbacks and background thread as long
  as none of the named races happened (`CameraInv`); and that decoders before
  `turn` are quiet (`DecoderInv`). Each of the three modules keeps its part, and
  the display's steps keep the parts of all. `HandlersAreNotStuck` needs a second
  one (`KeptOn`), again by parts: a permit of the camera is there or owed by
  somebody who can give it (`CameraOn`), flags stay cleared while `stop` joins
  (`Cleared`), and the composition thread and the decoder that is joined are such
  that the wait ends (`DecodersOn`).

Theorems that state a property no run lists: `NotificationsDoAlternate`,
`NoRequestIsLost`, `SlotsAlwaysMatch`, `PreparationCompletes`, `IsNeverStuckActive`,
`StateAlwaysTold` and the `TypeCorrect` of several modules are what the listed
ones rest on; `PauseStopsTheDevice` states for a prompt client the property that
`device_stale` shows violated for another. All were checked with TLC, on the
instance of the module's run, before they were proved.

### Liveness: what is proved and what is only model-checked

Every invariant and action property of the passing runs is a theorem. The other
properties, eleven, are liveness: `EventuallyTold`, `ExitHonoured`,
`EntryPointsReturn`, `EveryFrameSettles`, `CallsReturn`, `WorkIsServed`,
`StopsUnlessReenabled`, `QueuedBuffersReturn`, `StopReturns`, `RecordingEnds`,
`HandlersReturn`. That a fair behaviour reaches its end needs ENABLED and weak
fairness, which the prover does not handle, so they stay with TLC. What such an
argument rests on needs no fairness and is proved: that nobody is ever stuck,
stated with the guards of the steps in place of ENABLED, and, for some, that each
step leaves fewer to go.

| Property | Nobody is stuck | Every step is one fewer |
|---|---|---|
| `EventuallyTold`, `ExitHonoured` | the thread has no wait without a timeout | `PassesDoEnd` |
| `EntryPointsReturn` | `EntryPointsAreNotStuck` | `EntryPointsAreBounded` |
| `EveryFrameSettles` | `UnsettledIsOwed` | `AnswersComeToAnEnd` |
| `CallsReturn`, `WorkIsServed` | `DeviceIsNotStuck`, `NoBufferRefused` | model-checked only |
| `StopsUnlessReenabled`, `QueuedBuffersReturn` | `CameraIsNotStuck`, `LocksCrossInError` | model-checked only |
| `StopReturns` | `StopIsNotStuck`, `NobodyWaitsInVain` | model-checked only |
| `RecordingEnds` | `StopComesToAnEnd` | `StopComesToAnEnd` |
| `HandlersReturn` | `HandlersAreNotStuck` | model-checked only |

None of these theorems is meant to say that a property holds: a thread that is
never stuck may still go round for ever, which TLC excludes on the instances.

## 6. What the code does otherwise than it says

`device_stale`: a callback of the monitor that is still due ends the wait of
`InternalPauseAndWaitLocked`, the next one sets STATE_RUNNING again, and
`assert(state_ != STATE_RUNNING)` fails (camera_device_client.cc:764, 1868).

Seen while reading, and contradicted by no line that says otherwise, or covered
by an exception of a property above. In the adaptor:

- `RequestExit` reads `kActive`, a thread that ends by itself sets `kIdle`, and
  `RequestExit` overwrites it with `kToIdle` (`camera/utils/camera_thread.cc:86-89,
  153`), so that `RequestExitAndWait` waits for ever. Only the prepare handler's
  thread ends by itself, and the device client's destructor calls both on it
  (camera_device_client.cc:105); the daemon never prepares a stream.
  `StatesMeanWhatTheySay` and `EntryPointsReturn` are about the other threads.
- A request handler that is left paused never ends: `WaitOnPause` returns true when
  an exit is pending too, and `ThreadLoop` then returns true without asking
  (camera_request_handler.cc:246, 609). SET_ERR pauses it for good
  (camera_device_client.cc:1854), as do the error exits of `CreateStream` and
  `DeleteStream` (772, 588, 596). The handler's destructor calls `RequestExitAndWait`
  (line 60), which then waits for ever, holding the helper's `lock_`.
- A result with its metadata inline and nothing in the result metadata queue marks
  the frame as complete, and the client never gets a result; one by the queue only
  does not mark it, and the frame is never erased; one by the queue only and
  without buffers is not even read, so that its block comes out for a later frame
  (camera_device_client.cc:1074, 1088, 1157, 1193).
- `CreateStream` whose configuration fails after the pause leaves the new stream
  registered and does not move `next_stream_id_` on (camera_device_client.cc:784,
  799): the next stream gets the same id.
- `DeleteStream` of the last stream resumes the handler in any state, STATE_ERROR
  included (camera_device_client.cc:620). `ErrorStopsTheDevice` says why it does no
  harm.
- A frame that failed is erased with its last buffer; its shutter, still owed,
  then counts as an invalid frame number and takes the device to STATE_ERROR
  (camera_device_client.cc:1333, 1469), where `HandleCaptureResult` ignores such a
  late answer. A HAL that owes no shutter for a failed request does not meet it.
- `SET_ERR` and `ReturnStreamBuffer` inside a callback take `lock_` while
  `pending_requests_lock_` is held (camera_device_client.cc:1117, 1421),
  `WaitUntilDrainedLocked` takes them in the other order in STATE_ERROR (1954):
  a deadlock, `LockedOut` in `umd`.
- `NotifyError` and a refused request do not try to remove the frame
  (camera_device_client.cc:1262): with all its buffers back it stays registered for
  ever, as a drain clears only the vector of failed frames (1957).
- `pause_state_notify_` stays set when `InternalResumeLocked` finds nothing to
  resume (camera_device_client.cc:1984, 1870): the client gets no idle callback
  until a later resume succeeds.
- The device client's destructor and `DeleteStream` do not ask whether the prepare
  thread still works on a stream (camera_device_client.cc:105-110, 606).
- `Camera3Monitor`'s wake-up signal is sent after its mutex was released and its
  exit request sends none: only the timed wait makes up for it
  (camera_monitor.cc:110, 133).
- `Run` sets `kActive` after the thread was started (`camera_thread.cc:78`).
- A preparation that was aborted leaves its buffers allocated
  (camera_stream.cc:288); the next one takes them into account.
- The composed result is not cleared when a result is refused
  (camera_device_client.cc:1143).
- `TogglePause` looks at the queues under `pause_lock_`, not under the lock that
  guards them (camera_request_handler.cc:223).
- `umd-camera.cpp:605`: a control copies the metadata and stores the copy later;
  a tag set by `InitCameraParamsLocked` in between is lost. The host's own value
  is not (`ControlsApplied`).
- `umd-camera.cpp:884` tests an unsigned index for being negative; line 81 calls
  the audio recorder in the destructor even when none was made.
- `GetContrast` answers with 50 more than `SetContrast` was given
  (umd-camera.cpp:259-281, `Offset` in `VideoControls`), and a GET of the zoom
  replaces the magnification by one computed from the truncated crop, which later
  pans use (umd-camera.cpp:790).

In qmedia:

- `MediaCodecRecorder.mPresentationTimeUs` is never reset
  (MediaCodecRecorder.java:388): the first frames of a recording may carry the
  last time of the one before.
- `onOpened` gives the permit back before it sets `mCameraDevice`
  (CameraBase.java:85): a close in between leaves the camera open, or the session
  is created on null. An open that throws keeps the permit, and the next close
  waits for ever (line 175).
- After `onPause` has dropped `mHDMIinAudioPlayback` a start calls null
  (HomeFragment.java:194, 252); a button pressed before there is a surface turns
  its flag, and the stop that follows runs over decoders that were never started,
  whose thread is null (MediaCodecDecoder.java:104); a new surface replaces
  `mCameraBase`, open or not (line 291).
- The playback thread gives back a permit more than was taken
  (HDMIinAudioPlayback.java:155), so that from the second round on `stop` may clear
  flags that the threads then set.
- `VideoComposer`'s constructor starts its thread before it waits for its
  notification (VideoComposer.java:451-455); `FrameSync.notifyFrame` polls on the
  user interface's thread, which alone can count the frame another input is
  awaited for (InputComposerSurface.java:54).

Several hazards in `PROJECT.json` name one of the races above. A property that
allows for the race by name (`hasty`, `late`, `missed`, `Stranded`, `Hung`,
`drained`, `lateError`, `inlineOnly`, `queueOnly`, `paused`) does not show that it
cannot happen, but that nothing else leads to the same end; the hazard's note
says so.

## 7. What is not modelled

- In what is modelled: that a metadata block left in the queue is read in the
  place of a later one (`ResultTracker` takes what is read to be the frame's own),
  and the 2.5 seconds in which `startCamera` would still take a permit
  (CameraBase.java:170; `StartCamera` throws at once when there is none). Neither
  decides a property: a result is a result whatever it says, and where the permit
  comes in time the model has the same behaviour with the call made later.

- Opening and closing the device, input streams (`CreateInputStream` repeats
  `CreateStream`'s pause; no program here uses one), `TearDown` of the device
  client, request ids, partial metadata (`HandlePartialResult`).
- Contents: metadata other than the video controls', formats, layouts, sizes, time
  stamps, mixer controls, encoder parameters, pictures. They shape what is sent,
  not who waits for whom.
- `camera_condition.h` (a wrapper of pthread calls), the buffer allocator
  (`camera_memory_interface.h`, `allocator_hidl_interface.cc`: they wrap a HIDL
  service), `camera_recorder_params.h` (types and their printing), vendor tags, HAL
  module loading, `main.cpp`: no state of their own. `camera_test` is a client of
  the adaptor and was read for how it is used.
- qmedia's secondary displays (`PresentationBase`, which does for one display what
  `HomeFragment` does), its modes that encode what OpenGL ES composed or leave the
  composition to SurfaceFlinger, `SettingsFragment` and `SettingsUtil` (they only store what
  `mode` stands for), and the drawing of `CompositionRenderer`: sequential code
  that the Android framework drives.
