---------------------------- MODULE AudioCapture ----------------------------
(***************************************************************************)
(* AudioRecorder and the AudioStream it owns (umd-daemon/daemon/           *)
(* audio-recorder.cpp, audio-stream.cpp).  A recording thread fills        *)
(* buffers from the sound card and queues them; a stream thread hands them *)
(* to the daemon's callback and frees them.  Both live from Start to Stop, *)
(* which one thread at a time calls.                                       *)
(***************************************************************************)
EXTENDS Naturals, Sequences

CONSTANT N  \* mBuffersCount

ASSUME AudioAssumption == N \in Nat \ {0}

Bufs == 1..N
NoBuf == 0

VARIABLES
  ctl,        \* where the caller of Start and Stop is
  mixer,      \* mMixer is open
  pcm,        \* mPcm is open
  stream,     \* mAudioStream exists, with its buffers
  recording,  \* mRecording
  rec,        \* the recording thread: "none", where it is, or "ended"
  buffer,     \* AudioThreadHandler: the buffer it fills
  inUse,      \* mBuffersMap
  msgs,       \* mMsg of the stream: <<type, buffer>>
  running,    \* StreamLoopHandler: running
  loop,       \* the stream thread: "none", where it is, or "ended"
  current,    \* the buffer of the message the stream thread handles
  missed      \* history: the last notify found nobody waiting, though the
              \* recording thread had decided to wait

recVars    == <<rec, buffer>>
streamVars == <<stream, inUse, msgs>>
loopVars   == <<running, loop, current>>
vars == <<ctl, mixer, pcm, stream, recording, rec, buffer, inUse, msgs,
          running, loop, current, missed>>

Messages == {"submit", "return", "end"} \X (Bufs \cup {NoBuf})

TypeOK ==
  /\ ctl \in {"out", "started", "join", "release", "end", "joinStream"}
  /\ mixer \in BOOLEAN /\ pcm \in BOOLEAN /\ stream \in BOOLEAN
  /\ recording \in BOOLEAN /\ running \in BOOLEAN /\ missed \in BOOLEAN
  /\ rec \in {"none", "test", "get", "unlocked", "wait", "read", "ended"}
  /\ buffer \in Bufs \cup {NoBuf} /\ current \in Bufs \cup {NoBuf}
  /\ inUse \in SUBSET Bufs
  /\ msgs \in Seq(Messages)
  /\ loop \in {"none", "test", "pop", "callback", "erase", "notify", "ended"}

Init ==
  /\ ctl = "out"
  /\ mixer = FALSE /\ pcm = FALSE /\ stream = FALSE
  /\ recording = FALSE /\ running = FALSE /\ missed = FALSE
  /\ rec = "none" /\ loop = "none"
  /\ buffer = NoBuf /\ current = NoBuf
  /\ inUse = {} /\ msgs = <<>>

-----------------------------------------------------------------------------
(* Start and Stop.                                                          *)

\* Start opens the mixer, then the card, then creates the stream and both
\* threads; what was opened before a failure stays open until Stop.
StartFails ==
  /\ ctl = "out" /\ ctl' = "started"
  /\ \E opened \in {<<FALSE, FALSE>>, <<TRUE, FALSE>>, <<TRUE, TRUE>>} :
       mixer' = opened[1] /\ pcm' = opened[2]
  /\ UNCHANGED <<recording, recVars, streamVars, loopVars, missed>>

Start ==
  /\ ctl = "out" /\ ctl' = "started"
  /\ mixer' = TRUE /\ pcm' = TRUE /\ stream' = TRUE
  /\ running' = TRUE /\ loop' = "test"
  /\ recording' = TRUE /\ rec' = "test"
  /\ UNCHANGED <<buffer, inUse, msgs, current, missed>>

\* Stop is also called when nothing was started.
Stop ==
  /\ ctl \in {"out", "started"} /\ ctl' = "join"
  /\ recording' = FALSE
  /\ UNCHANGED <<mixer, pcm, recVars, streamVars, loopVars, missed>>

(* Mutant: the recording thread is told to end but not joined.              *)
JoinRecorder_Skipped ==
  /\ ctl = "join" /\ ctl' = "release"
  /\ UNCHANGED <<mixer, pcm, recording, recVars, streamVars, loopVars, missed>>

JoinRecorder ==
  /\ ctl = "join" /\ rec \in {"none", "ended"}
  /\ ctl' = "release"
  /\ rec' = "none" /\ buffer' = NoBuf
  /\ UNCHANGED <<mixer, pcm, recording, streamVars, loopVars, missed>>

Release ==
  /\ ctl = "release"
  /\ mixer' = FALSE /\ pcm' = FALSE
  /\ ctl' = IF stream THEN "end" ELSE "out"
  /\ UNCHANGED <<recording, recVars, streamVars, loopVars, missed>>

\* ~AudioStream.
EndStream ==
  /\ ctl = "end" /\ ctl' = "joinStream"
  /\ msgs' = Append(msgs, <<"end", NoBuf>>)
  /\ UNCHANGED <<mixer, pcm, recording, recVars, stream, inUse, loopVars, missed>>

JoinStream ==
  /\ ctl = "joinStream" /\ loop = "ended"
  /\ ctl' = "out"
  /\ loop' = "none" /\ stream' = FALSE /\ inUse' = {} /\ missed' = FALSE
  /\ UNCHANGED <<mixer, pcm, recording, recVars, msgs, running, current>>

-----------------------------------------------------------------------------
(* The recording thread.                                                    *)

RecGoto(from, to) ==
  /\ rec = from /\ rec' = to
  /\ UNCHANGED <<ctl, mixer, pcm, stream, recording, loopVars>>

RecTest ==
  /\ RecGoto("test", IF recording THEN "get" ELSE "ended")
  /\ UNCHANGED <<buffer, inUse, msgs, missed>>

\* GetBuffer: the first buffer that is free, under mMutex ...
GetBuffer ==
  /\ RecGoto("get", "read")
  /\ \E b \in Bufs :
       /\ b \notin inUse /\ \A c \in 1..(b - 1) : c \in inUse
       /\ buffer' = b /\ inUse' = inUse \cup {b}
  /\ UNCHANGED <<msgs, missed>>

\* ... or, when all are in use, mMutex is given up, ...
GetBufferFull ==
  /\ RecGoto("get", "unlocked")
  /\ inUse = Bufs
  /\ UNCHANGED <<buffer, inUse, msgs, missed>>

\* ... mConditionMutex taken, and a notification waited for.
WaitForBuffer ==
  /\ RecGoto("unlocked", "wait")
  /\ UNCHANGED <<buffer, inUse, msgs, missed>>

\* The standard allows a wait to end by itself.
SpuriousWake ==
  /\ RecGoto("wait", "get")
  /\ missed' = FALSE
  /\ UNCHANGED <<buffer, inUse, msgs>>

\* pcm_read filled the buffer ...
SubmitBuffer ==
  /\ RecGoto("read", "test")
  /\ msgs' = Append(msgs, <<"submit", buffer>>)
  /\ buffer' = NoBuf
  /\ UNCHANGED <<inUse, missed>>

\* ... or failed, which ends the thread.
ReturnBuffer ==
  /\ RecGoto("read", "ended")
  /\ msgs' = Append(msgs, <<"return", buffer>>)
  /\ buffer' = NoBuf
  /\ UNCHANGED <<inUse, missed>>

-----------------------------------------------------------------------------
(* The stream thread: while (running || mMsg.size()).                       *)

LoopGoto(from, to) ==
  /\ loop = from /\ loop' = to
  /\ UNCHANGED <<ctl, mixer, pcm, stream, recording, buffer>>

LoopTest ==
  /\ LoopGoto("test", IF running \/ msgs # <<>> THEN "pop" ELSE "ended")
  /\ UNCHANGED <<rec, inUse, msgs, running, current, missed>>

(* Mutant: a buffer is freed when its message is taken.                     *)
LoopPop_Frees ==
  /\ msgs # <<>>
  /\ msgs' = Tail(msgs)
  /\ LET type == Head(msgs)[1] IN
       /\ LoopGoto("pop", CASE type = "submit" -> "callback"
                            [] type = "return" -> "erase"
                            [] OTHER -> "test")
       /\ running' = (running /\ type # "end")
  /\ current' = Head(msgs)[2]
  /\ inUse' = inUse \ {current'}
  /\ UNCHANGED <<rec, missed>>

LoopPop ==
  /\ msgs # <<>>
  /\ msgs' = Tail(msgs)
  /\ LET type == Head(msgs)[1] IN
       /\ LoopGoto("pop", CASE type = "submit" -> "callback"
                            [] type = "return" -> "erase"
                            [] OTHER -> "test")
       /\ running' = (running /\ type # "end")
  /\ current' = Head(msgs)[2]
  /\ UNCHANGED <<rec, inUse, missed>>

\* onAudioBuffer: the gadget has read the buffer when it returns.
OnAudioBuffer ==
  /\ LoopGoto("callback", "erase")
  /\ UNCHANGED <<rec, inUse, msgs, running, current, missed>>

EraseBuffer ==
  /\ LoopGoto("erase", "notify")
  /\ inUse' = inUse \ {current} /\ current' = NoBuf
  /\ UNCHANGED <<rec, msgs, running, missed>>

(* Mutant: nobody is notified.                                              *)
NotifyAll_Silent ==
  /\ LoopGoto("notify", "test")
  /\ UNCHANGED <<rec, inUse, msgs, running, current, missed>>

\* notify_all, without a lock: a recording thread that has seen all buffers in
\* use and is not yet waiting does not hear it.
NotifyAll ==
  /\ LoopGoto("notify", "test")
  /\ rec' = IF rec = "wait" THEN "get" ELSE rec
  /\ missed' = (rec = "unlocked")
  /\ UNCHANGED <<inUse, msgs, running, current>>

-----------------------------------------------------------------------------
Caller == StartFails \/ Start \/ Stop
Stopping == JoinRecorder \/ Release \/ EndStream \/ JoinStream
Recorder == RecTest \/ GetBuffer \/ GetBufferFull \/ WaitForBuffer
            \/ SubmitBuffer \/ ReturnBuffer
StreamLoop == LoopTest \/ LoopPop \/ OnAudioBuffer \/ EraseBuffer \/ NotifyAll

Next == Caller \/ Stopping \/ Recorder \/ SpuriousWake \/ StreamLoop

Spec == Init /\ [][Next]_vars

\* The threads are scheduled, pcm_read and the callback return; nobody has to
\* call, and no wait has to end by itself.
FairSpec == Spec /\ WF_vars(Stopping) /\ WF_vars(Recorder) /\ WF_vars(StreamLoop)

-----------------------------------------------------------------------------
(* Properties.                                                              *)

\* The buffer the sound card is written to is not one that the gadget reads or
\* that waits to be read, and no buffer waits twice (lines 82, 127).
Waiting(b) == \E i \in 1..Len(msgs) : msgs[i][2] = b
BuffersApart ==
  /\ rec = "read" => buffer \in inUse /\ buffer # current /\ ~Waiting(buffer)
  /\ loop \in {"callback", "erase"} => current \in inUse /\ ~Waiting(current)
  /\ \A b \in Bufs \ inUse : ~Waiting(b)
  /\ \A i, j \in 1..Len(msgs) : msgs[i][2] = msgs[j][2] => i = j

\* The card is open as long as the recording thread lives, the buffers exist as
\* long as either thread does; a Stop that has returned leaves no thread, no
\* open device and no buffer that was filled but not delivered
\* (recorder lines 147-173, stream lines 43-53).
ResourcesOutliveThreads ==
  /\ rec \in {"test", "get", "unlocked", "wait", "read"} => pcm /\ stream
  /\ loop \notin {"none", "ended"} => stream
  /\ ctl = "out" => /\ rec = "none" /\ loop = "none"
                    /\ ~mixer /\ ~pcm /\ ~stream /\ msgs = <<>>

\* The one way a Stop does not return: the recording thread missed the last
\* notification, and waits although every buffer is free (lines 82-88, 141).
Stranded == rec = "wait" /\ missed /\ inUse = {} /\ msgs = <<>>
StopReturns == (ctl = "join") ~> (ctl = "out" \/ []Stranded)
=============================================================================
