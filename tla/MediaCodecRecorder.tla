------------------------- MODULE MediaCodecRecorder -------------------------
(***************************************************************************)
(* The recorder of the qmedia application (APPS/qmedia, MediaCodecRecorder *)
(* .java).  start() creates a muxer and starts a thread for the video      *)
(* encoder and, when an HDMI input gives audio, one for the audio encoder  *)
(* and one that feeds it from the microphone; stop() ends them in turn and *)
(* releases the muxer.  The activity alternates start and stop.            *)
(***************************************************************************)
EXTENDS Naturals

Encoders == {"video", "audio"}
Threads == Encoders \cup {"mic"}

VARIABLES
  audio,    \* mIsAudioEnabled, settled by the constructor
  ui,       \* where the caller of start and stop is
  pc,       \* where each thread is; "ended" also before it was created
  running,  \* mVideoEncoderRunning, mAudioEncoderRunning, mAudioRecorderRunning
  codec,    \* the encoders
  lock,     \* who holds mMuxerLock
  muxer,    \* mMuxer: "created" if mMuxerCreated, "started" if mMuxerStarted
  tracks,   \* the tracks added to mMuxer
  count,    \* mMuxerTrackCount
  stamped,  \* mPresentationTimeUs # -1
  late      \* history: threads that set their flag after it had been cleared

muxVars == <<lock, muxer, tracks, count>>
vars == <<audio, ui, pc, running, codec, muxVars, stamped, late>>

TypeOK ==
  /\ audio \in BOOLEAN
  /\ ui \in {"idle", "startEncoder", "startMic", "recording",
             "joinVideo", "joinAudio", "release"}
  /\ pc \in [Threads -> {"new", "test", "dequeue", "lock", "track", "stamp",
                         "write", "read", "release", "ended"}]
  /\ running \in [Threads -> BOOLEAN]
  /\ codec \in [Encoders -> {"started", "released"}]
  /\ lock \in Encoders \cup {"none"}
  /\ muxer \in {"none", "created", "started"}
  /\ tracks \in SUBSET Encoders
  /\ count \in 0..2
  /\ stamped \in BOOLEAN
  /\ late \in SUBSET Threads

\* After the constructor, whose trial run of the video encoder is over.
Init ==
  /\ audio \in BOOLEAN
  /\ ui = "idle"
  /\ pc = [t \in Threads |-> "ended"]
  /\ running = [t \in Threads |-> FALSE]
  /\ codec = [e \in Encoders |-> "released"]
  /\ lock = "none" /\ muxer = "none" /\ tracks = {} /\ count = 0
  /\ stamped = FALSE /\ late = {}

-----------------------------------------------------------------------------
(* start() and stop().                                                      *)

StartVideo ==
  /\ ui = "idle"
  /\ ui' = IF audio THEN "startEncoder" ELSE "recording"
  /\ muxer' = "created" /\ tracks' = {}
  /\ codec' = [codec EXCEPT !["video"] = "started"]
  /\ pc' = [pc EXCEPT !["video"] = "new"]
  /\ UNCHANGED <<audio, running, lock, count, stamped, late>>

StartEncoder ==
  /\ ui = "startEncoder" /\ ui' = "startMic"
  /\ codec' = [codec EXCEPT !["audio"] = "started"]
  /\ pc' = [pc EXCEPT !["audio"] = "new"]
  /\ UNCHANGED <<audio, running, muxVars, stamped, late>>

StartMic ==
  /\ ui = "startMic" /\ ui' = "recording"
  /\ pc' = [pc EXCEPT !["mic"] = "new"]
  /\ UNCHANGED <<audio, running, codec, muxVars, stamped, late>>

Stop ==
  /\ ui = "recording" /\ ui' = "joinVideo"
  /\ running' = [running EXCEPT !["video"] = FALSE]
  /\ UNCHANGED <<audio, pc, codec, muxVars, stamped, late>>

(* Mutant: both flags of the audio threads are cleared.                     *)
JoinVideo_ClearsBoth ==
  /\ ui = "joinVideo" /\ pc["video"] = "ended"
  /\ ui' = IF audio THEN "joinAudio" ELSE "release"
  /\ running' = IF audio THEN [running EXCEPT !["mic"] = FALSE, !["audio"] = FALSE]
                         ELSE running
  /\ UNCHANGED <<audio, pc, codec, muxVars, stamped, late>>

\* Only the microphone's thread is told; it tells the audio encoder's.
JoinVideo ==
  /\ ui = "joinVideo" /\ pc["video"] = "ended"
  /\ ui' = IF audio THEN "joinAudio" ELSE "release"
  /\ running' = IF audio THEN [running EXCEPT !["mic"] = FALSE] ELSE running
  /\ UNCHANGED <<audio, pc, codec, muxVars, stamped, late>>

JoinAudio ==
  /\ ui = "joinAudio" /\ ui' = "release"
  /\ pc["audio"] = "ended" /\ pc["mic"] = "ended"
  /\ UNCHANGED <<audio, pc, running, codec, muxVars, stamped, late>>

(* Mutant: the count of tracks is not reset.                                *)
ReleaseMuxer_KeepsCount ==
  /\ ui = "release" /\ ui' = "idle"
  /\ muxer' = "none" /\ tracks' = {} /\ late' = {}
  /\ UNCHANGED <<audio, pc, running, codec, lock, count, stamped>>

\* mPresentationTimeUs keeps the time of the recording that ends.
ReleaseMuxer ==
  /\ ui = "release" /\ ui' = "idle"
  /\ muxer' = "none" /\ tracks' = {} /\ count' = 0 /\ late' = {}
  /\ UNCHANGED <<audio, pc, running, codec, lock, stamped>>

-----------------------------------------------------------------------------
(* What the three threads have in common: run() sets the flag of its loop   *)
(* and looks at it in every round.                                          *)

Goto(t, from, to) ==
  /\ pc[t] = from /\ pc' = [pc EXCEPT ![t] = to]
  /\ UNCHANGED <<audio, ui>>

\* The flag of thread t was cleared for good: by stop(), or, for the audio
\* encoder, by the end of the microphone's thread.
Told(t) == CASE t = "video" -> ui = "joinVideo"
             [] t = "mic"   -> ui = "joinAudio"
             [] t = "audio" -> ui = "joinAudio" /\ pc["mic"] = "ended"

Begin(t) ==
  /\ Goto(t, "new", "test")
  /\ running' = [running EXCEPT ![t] = TRUE]
  /\ late' = IF Told(t) THEN late \cup {t} ELSE late
  /\ UNCHANGED <<codec, muxVars, stamped>>

Test(t) ==
  /\ Goto(t, "test", IF running[t] THEN "dequeue" ELSE "release")
  /\ UNCHANGED <<running, codec, muxVars, stamped, late>>

\* No buffer within TIMEOUT_USEC.
DequeueNothing(t) ==
  /\ Goto(t, "dequeue", "test")
  /\ UNCHANGED <<running, codec, muxVars, stamped, late>>

-----------------------------------------------------------------------------
(* The encoders' threads.                                                   *)

\* An encoder reports its output format once, before its first buffer.
FormatChanged(e) ==
  /\ e \notin tracks
  /\ Goto(e, "dequeue", "lock")
  /\ UNCHANGED <<running, codec, muxVars, stamped, late>>

LockMuxer(e) ==
  /\ lock = "none" /\ lock' = e
  /\ Goto(e, "lock", "track")
  /\ UNCHANGED <<running, codec, muxer, tracks, count, stamped, late>>

\* The muxer starts with the last track expected; mMuxerLock is given back.
AddTrack(e) ==
  /\ Goto(e, "track", "test")
  /\ lock' = "none"
  /\ IF muxer = "none"
     THEN UNCHANGED <<muxer, tracks, count>>
     ELSE /\ count' = count + 1 /\ tracks' = tracks \cup {e}
          /\ muxer' = IF count' = (IF audio THEN 2 ELSE 1) THEN "started"
                                                           ELSE muxer
  /\ UNCHANGED <<running, codec, stamped, late>>

\* A buffer is dropped while the muxer is not started (mMuxerStarted is read
\* without the lock and is not volatile), when it has no contents, and, of the
\* audio, when it is not newer than the last.  With audio a video frame waits
\* for a time stamp first.
DropBuffer(e) ==
  /\ e \in tracks
  /\ Goto(e, "dequeue", "test")
  /\ UNCHANGED <<running, codec, muxVars, stamped, late>>

TakeBuffer(e) ==
  /\ e \in tracks /\ muxer = "started"
  /\ Goto(e, "dequeue", IF e = "video" /\ audio THEN "stamp" ELSE "write")
  /\ UNCHANGED <<running, codec, muxVars, stamped, late>>

\* while (mPresentationTimeUs == -1L) {}
StampFrame ==
  /\ stamped
  /\ Goto("video", "stamp", "write")
  /\ UNCHANGED <<running, codec, muxVars, stamped, late>>

WriteSampleData(e) ==
  /\ Goto(e, "write", "test")
  /\ UNCHANGED <<running, codec, muxVars, stamped, late>>

ReleaseEncoder(e) ==
  /\ Goto(e, "release", "ended")
  /\ running' = [running EXCEPT ![e] = FALSE]
  /\ codec' = [codec EXCEPT ![e] = "released"]
  /\ UNCHANGED <<muxVars, stamped, late>>

-----------------------------------------------------------------------------
(* The microphone's thread.                                                 *)

DequeueInput ==
  /\ Goto("mic", "dequeue", "read")
  /\ UNCHANGED <<running, codec, muxVars, stamped, late>>

(* Mutant: the time stamp is kept to the microphone's thread.               *)
ReadAudio_Untimed ==
  /\ Goto("mic", "read", "test")
  /\ UNCHANGED <<running, codec, muxVars, stamped, late>>

\* The buffer is filled, its time noted, and given to the encoder.
ReadAudio ==
  /\ Goto("mic", "read", "test")
  /\ stamped' = TRUE
  /\ UNCHANGED <<running, codec, muxVars, late>>

EndMic ==
  /\ Goto("mic", "release", "ended")
  /\ running' = [running EXCEPT !["audio"] = FALSE]
  /\ UNCHANGED <<codec, muxVars, stamped, late>>

-----------------------------------------------------------------------------
Starting == StartVideo \/ StartEncoder \/ StartMic
Stopping == JoinVideo \/ JoinAudio \/ ReleaseMuxer
Looping(t) == Begin(t) \/ Test(t) \/ DequeueNothing(t)
EncoderThread(e) == \/ Looping(e) \/ FormatChanged(e) \/ LockMuxer(e)
                    \/ AddTrack(e) \/ DropBuffer(e) \/ TakeBuffer(e)
                    \/ WriteSampleData(e) \/ ReleaseEncoder(e)
VideoThread == EncoderThread("video") \/ StampFrame
AudioThread == EncoderThread("audio")
MicThread == Looping("mic") \/ DequeueInput \/ ReadAudio \/ EndMic

Next == Starting \/ Stop \/ Stopping \/ VideoThread \/ AudioThread \/ MicThread

Spec == Init /\ [][Next]_vars

\* Every thread is scheduled, and the audio encoder has a free input buffer now
\* and then; nobody has to start or stop.
FairSpec ==
  /\ Spec
  /\ WF_vars(Stopping) /\ WF_vars(VideoThread) /\ WF_vars(AudioThread)
  /\ WF_vars(MicThread) /\ SF_vars(DequeueInput)

-----------------------------------------------------------------------------
(* Properties.                                                              *)

\* The muxer is started once, with every track the recording has, gets no track
\* afterwards, and samples only of its own tracks while it is started; two
\* threads and a count that stop() resets decide this (lines 351-366, 380-392,
\* 429-437, 451).
MuxerUsedInOrder ==
  /\ muxer = "started" => tracks = (IF audio THEN Encoders ELSE {"video"})
  /\ \A e \in Encoders :
       /\ pc[e] = "track" => muxer = "created" /\ e \notin tracks
       /\ pc[e] = "write" => muxer = "started" /\ e \in tracks

\* No thread uses an encoder that was released, the microphone's thread, which
\* uses an encoder another thread releases, included; a stop() that has
\* returned leaves no thread, encoder or muxer (lines 222-247, 278, 481, 509).
NothingUsedAfterRelease ==
  /\ \A e \in Encoders : pc[e] # "ended" => codec[e] = "started"
  /\ pc["mic"] # "ended" => codec["audio"] = "started"
  /\ ui = "idle" => /\ \A t \in Threads : pc[t] = "ended"
                    /\ \A e \in Encoders : codec[e] = "released"
                    /\ muxer = "none" /\ lock = "none"

\* stop() returns, unless a thread was so slow to begin that its run() set the
\* flag of its loop after it had been cleared (lines 280, 288, 340, 417, 479,
\* 509): that thread never ends.
RecordingEnds == (ui = "joinVideo") ~> (ui = "idle" \/ late # {})
=============================================================================
