---------------------------- MODULE Qmedia_proofs ----------------------------
(***************************************************************************)
(* The recorder: with and without audio, in every interleaving of the      *)
(* three threads with start() and stop(), types, the order in which the    *)
(* muxer is used, the lifetime of the encoders, and why stop() returns.    *)
(*                                                                         *)
(* The display: whatever the user, the camera service, the threads of the  *)
(* sound and of the decoders do, what is left when its button says Start,  *)
(* for which threads stop() waits, and why a handler is never stuck.       *)
(***************************************************************************)
EXTENDS MediaCodecRecorder, HomeFragment, FiniteSetTheorems, SequenceTheorems,
        TLAPS

\* What mMuxerLock and the count of tracks keep.
Tracks ==
  /\ \A e \in Encoders : /\ pc[e] = "track" <=> lock = e
                         /\ pc[e] \in {"lock", "track"} => e \notin tracks
                         /\ pc[e] \in {"stamp", "write"} =>
                              e \in tracks /\ muxer = "started"
  /\ count = (IF "video" \in tracks THEN 1 ELSE 0)
             + (IF "audio" \in tracks THEN 1 ELSE 0)
  /\ muxer = "none" <=> ui = "idle"
  /\ ui = "idle" => tracks = {}
  /\ muxer = "started" <=> count = (IF audio THEN 2 ELSE 1)

\* Which threads there are, and that the audio encoder's outlives the
\* microphone's: only the end of that one clears its flag.
Lives ==
  /\ \A e \in Encoders : pc[e] # "ended" <=> codec[e] = "started"
  /\ ui \in {"idle", "joinAudio", "release"} => pc["video"] = "ended"
  /\ ui \in {"idle", "startEncoder", "release"} =>
       pc["audio"] = "ended" /\ pc["mic"] = "ended"
  /\ ui = "startMic" => pc["mic"] = "ended"
  /\ ui = "startMic" \/ pc["mic"] # "ended" =>
       /\ pc["audio"] \notin {"release", "ended"}
       /\ pc["audio"] = "new" \/ running["audio"]
  /\ ~audio => /\ ui \notin {"startEncoder", "startMic", "joinAudio"}
               /\ pc["audio"] = "ended" /\ pc["mic"] = "ended"
               /\ "audio" \notin tracks

Inv == TypeOK /\ Tracks /\ Lives

LEMMA InitInv == Init => Inv
<1> SUFFICES ASSUME Init PROVE Inv
  OBVIOUS
<1>1. TypeOK
  <2>1. running \in [Threads -> BOOLEAN] /\ audio \in BOOLEAN /\ stamped \in BOOLEAN
    BY Zenon DEF Init
  <2> QED
    BY <2>1 DEF Init, TypeOK, Encoders, Threads
<1>2. /\ \A t \in Threads : pc[t] = "ended"
      /\ \A e \in Encoders : codec[e] = "released" /\ e \in Threads
  BY DEF Init, Encoders, Threads
<1>3. Tracks
  BY <1>2 DEF Init, Tracks, Encoders
<1>4. Lives
  BY <1>2 DEF Init, Lives, Encoders, Threads
<1> QED
  BY <1>1, <1>3, <1>4 DEF Inv

LEMMA StartStopKeepsInv == Inv /\ (Starting \/ Stop \/ Stopping) => Inv'
<1> SUFFICES ASSUME Inv, Starting \/ Stop \/ Stopping PROVE Inv'
  OBVIOUS
<1> USE DEF Inv, Encoders, Threads, muxVars
<1>1. CASE StartVideo
  BY <1>1 DEF StartVideo, TypeOK, Tracks, Lives
<1>2. CASE StartEncoder
  BY <1>2 DEF StartEncoder, TypeOK, Tracks, Lives
<1>3. CASE StartMic
  BY <1>3 DEF StartMic, TypeOK, Tracks, Lives
<1>4. CASE Stop
  BY <1>4 DEF Stop, TypeOK, Tracks, Lives
<1>5. CASE JoinVideo
  BY <1>5 DEF JoinVideo, TypeOK, Tracks, Lives
<1>6. CASE JoinAudio
  BY <1>6 DEF JoinAudio, TypeOK, Tracks, Lives
<1>7. CASE ReleaseMuxer
  BY <1>7 DEF ReleaseMuxer, TypeOK, Tracks, Lives
<1> QED
  BY <1>1, <1>2, <1>3, <1>4, <1>5, <1>6, <1>7 DEF Starting, Stopping

LEMMA LoopKeepsInv ==
  ASSUME Inv, NEW t \in Threads, Looping(t)
  PROVE  Inv'
<1> USE DEF Inv, Encoders, Threads, muxVars, Goto
<1>1. CASE Begin(t)
  BY <1>1 DEF Begin, TypeOK, Tracks, Lives
<1>2. CASE Test(t)
  BY <1>2 DEF Test, TypeOK, Tracks, Lives
<1>3. CASE DequeueNothing(t)
  BY <1>3 DEF DequeueNothing, TypeOK, Tracks, Lives
<1> QED
  BY <1>1, <1>2, <1>3 DEF Looping

LEMMA EncoderKeepsInv ==
  ASSUME Inv, NEW e \in Encoders, EncoderThread(e)
  PROVE  Inv'
<1> USE DEF Inv, Encoders, Threads, muxVars, Goto
<1>1. CASE FormatChanged(e)
  BY <1>1 DEF FormatChanged, TypeOK, Tracks, Lives
<1>2. CASE LockMuxer(e)
  BY <1>2 DEF LockMuxer, TypeOK, Tracks, Lives
<1>3. CASE AddTrack(e)
  <2>1. /\ pc' = [pc EXCEPT ![e] = "test"] /\ pc[e] = "track" /\ ui # "idle"
        /\ lock = e /\ lock' = "none" /\ e \notin tracks
        /\ UNCHANGED <<audio, ui, running, codec, stamped, late>>
    BY <1>3 DEF AddTrack, Tracks, Lives
  <2>2. /\ count' = count + 1 /\ tracks' = tracks \cup {e}
        /\ muxer' = IF count' = (IF audio THEN 2 ELSE 1) THEN "started" ELSE muxer
    BY <1>3, <2>1 DEF AddTrack, Tracks
  <2>3. /\ count \in 0..1 /\ count' \in 1..2 /\ muxer = "created"
        /\ e = "audio" => audio
    BY <2>1, <2>2 DEF TypeOK, Tracks, Lives
  <2>4. TypeOK'
    BY <2>1, <2>2, <2>3 DEF TypeOK
  <2>5. Tracks'
    BY <2>1, <2>2, <2>3 DEF TypeOK, Tracks
  <2>6. Lives'
    BY <2>1, <2>2, <2>3 DEF TypeOK, Lives
  <2> QED
    BY <2>4, <2>5, <2>6
<1>4. CASE DropBuffer(e)
  BY <1>4 DEF DropBuffer, TypeOK, Tracks, Lives
<1>5. CASE TakeBuffer(e)
  BY <1>5 DEF TakeBuffer, TypeOK, Tracks, Lives
<1>6. CASE WriteSampleData(e)
  BY <1>6 DEF WriteSampleData, TypeOK, Tracks, Lives
<1>7. CASE ReleaseEncoder(e)
  BY <1>7 DEF ReleaseEncoder, TypeOK, Tracks, Lives
<1> QED
  BY <1>1, <1>2, <1>3, <1>4, <1>5, <1>6, <1>7, LoopKeepsInv DEF EncoderThread

LEMMA MicKeepsInv == Inv /\ (StampFrame \/ MicThread) => Inv'
<1> SUFFICES ASSUME Inv, StampFrame \/ MicThread PROVE Inv'
  OBVIOUS
<1> USE DEF Inv, Encoders, Threads, muxVars, Goto
<1>1. CASE StampFrame
  BY <1>1 DEF StampFrame, TypeOK, Tracks, Lives
<1>2. CASE DequeueInput
  BY <1>2 DEF DequeueInput, TypeOK, Tracks, Lives
<1>3. CASE ReadAudio
  BY <1>3 DEF ReadAudio, TypeOK, Tracks, Lives
<1>4. CASE EndMic
  BY <1>4 DEF EndMic, TypeOK, Tracks, Lives
<1> QED
  BY <1>1, <1>2, <1>3, <1>4, LoopKeepsInv DEF MicThread

LEMMA NextKeepsInv == Inv /\ [Next]_vars => Inv'
<1> SUFFICES ASSUME Inv, [Next]_vars PROVE Inv'
  OBVIOUS
<1>1. CASE UNCHANGED vars
  BY <1>1 DEF vars, muxVars, Inv, TypeOK, Tracks, Lives
<1> QED
  BY <1>1, StartStopKeepsInv, EncoderKeepsInv, MicKeepsInv
     DEF Next, VideoThread, AudioThread, Encoders

LEMMA Invariance == Spec => []Inv
BY InitInv, NextKeepsInv, PTL DEF Spec

-----------------------------------------------------------------------------
(* The types of the recorder's state.                                       *)
THEOREM TypeCorrect == Spec => []TypeOK
<1>1. Inv => TypeOK
  BY DEF Inv
<1> QED
  BY <1>1, Invariance, PTL

(* The muxer is started once, with every track, and samples go only to its  *)
(* own tracks while it is started.                                          *)
THEOREM MuxerIsUsedInOrder == Spec => []MuxerUsedInOrder
<1>1. Inv => MuxerUsedInOrder
  <2> SUFFICES ASSUME Inv PROVE MuxerUsedInOrder
    OBVIOUS
  <2>1. muxer = "started" => tracks = (IF audio THEN Encoders ELSE {"video"})
    <3>1. tracks \subseteq Encoders /\ audio \in BOOLEAN
      BY Zenon DEF Inv, TypeOK
    <3>2. CASE audio
      <4> SUFFICES ASSUME muxer = "started" PROVE tracks = Encoders
        BY <3>2, Zenon
      <4>1. "video" \in tracks /\ "audio" \in tracks
        BY <3>2 DEF Inv, Tracks
      <4> QED
        BY <3>1, <4>1 DEF Encoders
    <3>3. CASE ~audio
      <4> SUFFICES ASSUME muxer = "started" PROVE tracks = {"video"}
        BY <3>3, Zenon
      <4>1. "video" \in tracks /\ "audio" \notin tracks
        BY <3>3 DEF Inv, Tracks, Lives
      <4> QED
        BY <3>1, <4>1 DEF Encoders
    <3> QED
      BY <3>1, <3>2, <3>3
  <2>2. ASSUME NEW e \in Encoders, pc[e] = "track"
        PROVE  muxer = "created" /\ e \notin tracks
    <3>1. e \notin tracks /\ muxer # "none"
      BY <2>2 DEF Inv, Tracks, Lives, Encoders
    <3>2. e = "audio" => audio
      BY <2>2 DEF Inv, Lives
    <3> QED
      BY <2>1, <3>1, <3>2 DEF Inv, TypeOK, Encoders
  <2>3. ASSUME NEW e \in Encoders, pc[e] = "write"
        PROVE  muxer = "started" /\ e \in tracks
    BY <2>3 DEF Inv, Tracks
  <2> QED
    BY <2>1, <2>2, <2>3 DEF MuxerUsedInOrder
<1> QED
  BY <1>1, Invariance, PTL

(* No thread uses an encoder that was released, and a stop() that has       *)
(* returned leaves nothing behind.                                          *)
THEOREM NothingIsUsedAfterRelease == Spec => []NothingUsedAfterRelease
<1>1. Inv => NothingUsedAfterRelease
  BY DEF Inv, TypeOK, Tracks, Lives, NothingUsedAfterRelease, Encoders, Threads
<1> QED
  BY <1>1, Invariance, PTL

-----------------------------------------------------------------------------
(* The way to the end of a recording.                                       *)

\* How far a thread is from its end once its flag stays cleared.
Ahead(t) ==
  CASE pc[t] = "ended" -> 0 [] pc[t] = "release" -> 1 [] pc[t] = "test" -> 2
    [] pc[t] \in {"write", "read", "track"} -> 3
    [] pc[t] \in {"stamp", "lock"} -> 4 [] pc[t] = "dequeue" -> 5
    [] pc[t] = "new" -> 6

\* A flag that was cleared stays so but for a late thread; and until stop() has
\* joined the video thread, the microphone's goes round its loop.
Ending ==
  /\ \A t \in Threads : Told(t) /\ t \notin late /\ pc[t] # "new" => ~running[t]
  /\ audio /\ ui \in {"recording", "joinVideo"} =>
       \/ pc["mic"] = "new"
       \/ running["mic"] /\ pc["mic"] \in {"test", "dequeue", "read"}
  /\ pc["mic"] \notin {"lock", "track", "stamp", "write"}
  /\ pc["audio"] \notin {"read", "stamp"} /\ pc["video"] # "read"
  /\ pc["video"] = "stamp" => audio

Ends == Inv /\ Ending

\* Where a thread may have to wait, and for which threads stop() does.
Waits(t) == (pc[t] = "lock" /\ lock # "none") \/ (pc[t] = "stamp" /\ ~stamped)
Awaited(t) == \/ ui = "joinVideo" /\ t = "video"
              \/ ui = "joinAudio" /\ t \in {"audio", "mic"}

\* A thread that stop() waits for and that waits itself, waits for one that is
\* about to give mMuxerLock back, or for the microphone's, on its way to a stamp.
StopGoesOn ==
  \A t \in Threads : Awaited(t) /\ Waits(t) =>
    IF pc[t] = "lock" THEN pc[lock] = "track"
    ELSE \/ pc["mic"] = "new"
         \/ running["mic"] /\ pc["mic"] \in {"test", "dequeue", "read"}

\* Each step of a thread whose flag stop() has cleared brings it nearer to its end.
ThreadsRunOut ==
  [][\A t \in Threads :
       Told(t) /\ t \notin late' /\ pc'[t] # pc[t] => Ahead(t)' < Ahead(t)]_vars

LEMMA EndingFromStart == Init => Ending
BY Zenon DEF Init, Ending, Told, Threads, Encoders

LEMMA CallerKeepsEnding ==
  Inv /\ Ending /\ (Starting \/ Stop \/ Stopping) => Ending'
<1> SUFFICES ASSUME Inv, Ending, Starting \/ Stop \/ Stopping PROVE Ending'
  OBVIOUS
<1> USE DEF Inv, Ending, Told, Encoders, Threads, muxVars
<1>1. CASE StartVideo
  BY <1>1 DEF StartVideo, TypeOK, Lives
<1>2. CASE StartEncoder
  BY <1>2 DEF StartEncoder, TypeOK, Lives
<1>3. CASE StartMic
  BY <1>3 DEF StartMic, TypeOK, Lives
<1>4. CASE Stop
  BY <1>4 DEF Stop, TypeOK
<1>5. CASE JoinVideo
  BY <1>5 DEF JoinVideo, TypeOK
<1>6. CASE JoinAudio
  BY <1>6 DEF JoinAudio, TypeOK
<1>7. CASE ReleaseMuxer
  BY <1>7 DEF ReleaseMuxer, TypeOK
<1> QED
  BY <1>1, <1>2, <1>3, <1>4, <1>5, <1>6, <1>7 DEF Starting, Stopping

LEMMA LoopKeepsEnding ==
  ASSUME Inv, Ending, NEW t \in Threads, Looping(t)
  PROVE  Ending'
<1> USE DEF Inv, Ending, Told, Encoders, Threads, Goto
<1>1. CASE Begin(t)
  BY <1>1 DEF Begin, TypeOK, Lives
<1>2. CASE Test(t)
  BY <1>2 DEF Test, TypeOK, Lives
<1>3. CASE DequeueNothing(t)
  BY <1>3 DEF DequeueNothing, TypeOK, Lives
<1> QED
  BY <1>1, <1>2, <1>3 DEF Looping

LEMMA EncoderKeepsEnding ==
  ASSUME Inv, Ending, NEW e \in Encoders, EncoderThread(e)
  PROVE  Ending'
<1> USE DEF Inv, Ending, Told, Encoders, Threads, Goto
<1>1. CASE FormatChanged(e) \/ LockMuxer(e) \/ AddTrack(e)
  BY <1>1 DEF FormatChanged, LockMuxer, AddTrack, TypeOK
<1>2. CASE DropBuffer(e) \/ TakeBuffer(e) \/ WriteSampleData(e)
  BY <1>2 DEF DropBuffer, TakeBuffer, WriteSampleData, TypeOK
<1>3. CASE ReleaseEncoder(e)
  BY <1>3 DEF ReleaseEncoder, TypeOK
<1> QED
  BY <1>1, <1>2, <1>3, LoopKeepsEnding DEF EncoderThread

LEMMA MicKeepsEnding == Inv /\ Ending /\ (StampFrame \/ MicThread) => Ending'
<1> SUFFICES ASSUME Inv, Ending, StampFrame \/ MicThread PROVE Ending'
  OBVIOUS
<1> USE DEF Inv, Ending, Told, Encoders, Threads, Goto
<1>1. CASE StampFrame \/ DequeueInput \/ ReadAudio
  BY <1>1 DEF StampFrame, DequeueInput, ReadAudio, TypeOK
<1>2. CASE EndMic
  BY <1>2 DEF EndMic, TypeOK
<1> QED
  BY <1>1, <1>2, LoopKeepsEnding DEF MicThread

LEMMA NextKeepsEnds == Ends /\ [Next]_vars => Ends'
<1> SUFFICES ASSUME Ends, [Next]_vars PROVE Ends'
  OBVIOUS
<1>1. Inv'
  BY NextKeepsInv DEF Ends
<1>2. CASE UNCHANGED vars
  <2>1. UNCHANGED <<audio, ui, pc, running, late>>
    BY <1>2 DEF vars
  <2>2. Ending'
    BY <2>1, Zenon DEF Ends, Ending, Told
  <2> QED
    BY <1>1, <2>2 DEF Ends
<1>3. CASE Next
  <2>1. Inv /\ Ending /\ "video" \in Encoders /\ "audio" \in Encoders
    BY DEF Ends, Encoders
  <2>2. \A e \in Encoders : EncoderThread(e) => Ending'
    BY <2>1, EncoderKeepsEnding
  <2>3. Ending'
    BY <1>3, <2>1, <2>2, CallerKeepsEnding, MicKeepsEnding, Zenon
       DEF Next, VideoThread, AudioThread
  <2> QED
    BY <1>1, <2>3 DEF Ends
<1> QED
  BY <1>1, <1>2, <1>3 DEF Ends

LEMMA EndsInvariance == Spec => []Ends
BY InitInv, EndingFromStart, NextKeepsEnds, PTL DEF Spec, Ends

\* Whose step a step is.
LEMMA StepNearsEnd ==
  ASSUME Ends, [Next]_vars, NEW t \in Threads,
         Told(t), t \notin late', pc'[t] # pc[t]
  PROVE  Ahead(t)' < Ahead(t)
<1> USE DEF Ends, Inv, Ending, Encoders, Threads, muxVars
<1>1. Next
  BY DEF vars
<1>2. CASE Starting \/ Stop \/ Stopping
  <2>1. ui \in {"joinVideo", "joinAudio"}
    BY DEF Told
  <2> QED
    BY <1>2, <2>1 DEF Starting, Stop, Stopping, StartVideo, StartEncoder, StartMic,
                      JoinVideo, JoinAudio, ReleaseMuxer
<1>3. ASSUME NEW q \in Threads, NEW from, NEW to, Goto(q, from, to)
      PROVE  q = t /\ pc[t] = from /\ pc'[t] = to
  BY <1>3 DEF Goto, TypeOK
<1>4. CASE \E q \in Threads : Looping(q)
  <2>1. PICK q \in Threads : Looping(q)
    BY <1>4
  <2>2. CASE Begin(q)
    BY <1>3, <2>2 DEF Begin, Ahead
  <2>3. CASE Test(q)
    <3>1. q = t /\ pc[t] = "test"
          /\ pc'[t] = (IF running[t] THEN "dequeue" ELSE "release")
          /\ late' = late
      BY <1>3, <2>3 DEF Test
    <3> QED
      BY <3>1 DEF Ahead
  <2>4. CASE DequeueNothing(q)
    BY <1>3, <2>4 DEF DequeueNothing, Ahead
  <2> QED
    BY <2>1, <2>2, <2>3, <2>4 DEF Looping
<1>5. CASE \E e \in Encoders : EncoderThread(e)
  <2>1. PICK e \in Encoders : EncoderThread(e)
    BY <1>5
  <2>2. CASE FormatChanged(e) \/ LockMuxer(e) \/ AddTrack(e)
    BY <1>3, <2>2 DEF FormatChanged, LockMuxer, AddTrack, Ahead
  <2>3. CASE DropBuffer(e) \/ WriteSampleData(e) \/ ReleaseEncoder(e)
    BY <1>3, <2>3 DEF DropBuffer, WriteSampleData, ReleaseEncoder, Ahead
  <2>4. CASE TakeBuffer(e)
    <3>1. pc[t] = "dequeue" /\ pc'[t] \in {"stamp", "write"}
      BY <1>3, <2>4 DEF TakeBuffer
    <3> QED
      BY <3>1 DEF Ahead
  <2> QED
    BY <1>4, <2>1, <2>2, <2>3, <2>4 DEF EncoderThread
<1>6. CASE StampFrame \/ MicThread
  <2>1. CASE StampFrame
    BY <1>3, <2>1 DEF StampFrame, Ahead
  <2>2. CASE Looping("mic")
    BY <1>4, <2>2
  <2>3. CASE DequeueInput \/ ReadAudio \/ EndMic
    <3>1. \/ pc[t] = "dequeue" /\ pc'[t] = "read"
          \/ pc[t] = "read" /\ pc'[t] = "test"
          \/ pc[t] = "release" /\ pc'[t] = "ended"
      BY <1>3, <2>3 DEF DequeueInput, ReadAudio, EndMic
    <3> QED
      BY <3>1 DEF Ahead
  <2> QED
    BY <1>6, <2>1, <2>2, <2>3 DEF MicThread
<1> QED
  BY <1>1, <1>2, <1>5, <1>6 DEF Next, VideoThread, AudioThread

(* Why stop() returns but for a late thread: whom it waits for can go on or *)
(* waits for one that can, and gets nearer to its end with each step, at    *)
(* most six.                                                                *)
THEOREM StopComesToAnEnd == Spec => ThreadsRunOut /\ []StopGoesOn
<1>1. Ends => StopGoesOn
  <2> SUFFICES ASSUME Ends, NEW t \in Threads, Awaited(t), Waits(t)
               PROVE  IF pc[t] = "lock" THEN pc[lock] = "track"
                      ELSE \/ pc["mic"] = "new"
                           \/ /\ running["mic"]
                              /\ pc["mic"] \in {"test", "dequeue", "read"}
    BY DEF StopGoesOn
  <2>1. CASE pc[t] = "lock"
    <3>1. lock # "none" /\ lock \in Encoders
      BY <2>1 DEF Waits, Ends, Inv, TypeOK
    <3> QED
      BY <2>1, <3>1 DEF Ends, Inv, Tracks
  <2>2. CASE pc[t] # "lock"
    <3>1. pc[t] = "stamp"
      BY <2>2 DEF Waits
    <3>2. t = "video" /\ audio /\ ui = "joinVideo"
      BY <3>1 DEF Ends, Ending, Threads, Encoders, Awaited
    <3> QED
      BY <2>2, <3>2 DEF Ends, Ending
  <2> QED
    BY <2>1, <2>2
<1>2. Ends /\ [Next]_vars =>
        [\A t \in Threads :
           Told(t) /\ t \notin late' /\ pc'[t] # pc[t] => Ahead(t)' < Ahead(t)]_vars
  BY StepNearsEnd
<1> QED
  BY <1>1, <1>2, EndsInvariance, PTL DEF Spec, ThreadsRunOut

-----------------------------------------------------------------------------
(* HomeFragment: what a handler has left to do, from each of its steps on.  *)
StartsAudio == {<<"startCamera", "startAudio">>, <<"startAudio">>}
StartsCamera == {<<"startCamera">>, <<"startCamera", "startAudio">>}
StopsAudio == {<<"stopAudio", "closeCamera">>, <<"stopAudio", "forgetAudio">>,
               <<"stopAudio", "forgetAudio", "closeCamera", "forgetCamera">>}
ClosesNext == {<<"closeCamera">>, <<"closeCamera", "forgetCamera">>}
ForgetsAudio == {<<"forgetAudio">>,
                 <<"forgetAudio", "closeCamera", "forgetCamera">>}
OfDecoders == {<<"compose">>, <<"startDecoders">>, <<"stopDecoders">>}

Todos == StartsAudio \cup StartsCamera \cup StopsAudio \cup ClosesNext
         \cup ForgetsAudio \cup OfDecoders \cup {<<>>, <<"forgetCamera">>}

ClosesCamera ==
  ClosesNext \cup {<<"stopAudio", "closeCamera">>,
                   <<"stopAudio", "forgetAudio", "closeCamera", "forgetCamera">>,
                   <<"forgetAudio", "closeCamera", "forgetCamera">>}
ForgetsCamera ==
  {<<"forgetCamera">>, <<"closeCamera", "forgetCamera">>,
   <<"stopAudio", "forgetAudio", "closeCamera", "forgetCamera">>,
   <<"forgetAudio", "closeCamera", "forgetCamera">>}

\* Which list a step is taken from, and which it leaves.
PopOf(t) ==
  /\ Head(t) = "startCamera" =>
       t \in StartsCamera /\ Tail(t) \in {<<>>, <<"startAudio">>}
  /\ Head(t) = "startAudio" => t \in StartsAudio /\ Tail(t) = <<>>
  /\ Head(t) = "stopAudio" =>
       t \in StopsAudio /\ Tail(t) \in ClosesNext \cup ForgetsAudio
  /\ Head(t) = "forgetAudio" =>
       t \in ForgetsAudio /\ Tail(t) \in {<<>>} \cup ClosesNext
  /\ Head(t) = "closeCamera" =>
       t \in ClosesNext /\ Tail(t) \in {<<>>, <<"forgetCamera">>}
  /\ Head(t) = "forgetCamera" => t = <<"forgetCamera">> /\ Tail(t) = <<>>
  /\ Head(t) \in {"compose", "startDecoders", "stopDecoders"} =>
       t = <<Head(t)>> /\ Tail(t) = <<>>
  /\ Head(t) # "closeCamera" => (Tail(t) \in ClosesCamera <=> t \in ClosesCamera)
  /\ Tail(t) \in ForgetsCamera => t \in ForgetsCamera
  /\ Tail(t) \in StartsAudio => t \in StartsAudio
  /\ Tail(t) \in Todos
  /\ Tail(t) \notin StartsCamera \cup StopsAudio \cup OfDecoders

LEMMA PopLists == \A t \in Todos \ {<<>>} : PopOf(t)
<1> SUFFICES ASSUME NEW t \in Todos \ {<<>>} PROVE PopOf(t)
  OBVIOUS
<1> USE DEF Todos, StartsAudio, StartsCamera, StopsAudio, ClosesNext,
            ForgetsAudio, OfDecoders, ClosesCamera, ForgetsCamera, PopOf
<1>1. CASE t = <<"startCamera">>
  BY <1>1
<1>2. CASE t = <<"startCamera", "startAudio">>
  BY <1>2
<1>3. CASE t = <<"startAudio">>
  BY <1>3
<1>4. CASE t = <<"stopAudio", "closeCamera">>
  BY <1>4
<1>5. CASE t = <<"stopAudio", "forgetAudio">>
  BY <1>5
<1>6. CASE t = <<"stopAudio", "forgetAudio", "closeCamera", "forgetCamera">>
  BY <1>6
<1>7. CASE t = <<"closeCamera">>
  BY <1>7
<1>8. CASE t = <<"closeCamera", "forgetCamera">>
  BY <1>8
<1>9. CASE t = <<"forgetAudio">>
  BY <1>9
<1>10. CASE t = <<"forgetAudio", "closeCamera", "forgetCamera">>
  BY <1>10
<1>11. CASE t = <<"forgetCamera">>
  BY <1>11
<1>12. CASE t = <<"compose">>
  BY <1>12
<1>13. CASE t = <<"startDecoders">>
  BY <1>13
<1>14. CASE t = <<"stopDecoders">>
  BY <1>14
<1> QED
  BY <1>1, <1>2, <1>3, <1>4, <1>5, <1>6, <1>7, <1>8, <1>9, <1>10, <1>11,
     <1>12, <1>13, <1>14

\* The lists that matter are told apart.
LEMMA ListsApart ==
  /\ <<>> \notin StartsAudio \cup StartsCamera \cup StopsAudio \cup ClosesCamera
                 \cup ForgetsCamera \cup OfDecoders
  /\ StopsAudio \cap (StartsAudio \cup StartsCamera) = {}
  /\ ForgetsAudio \cap (StartsAudio \cup StartsCamera \cup StopsAudio) = {}
  /\ ClosesNext \cap (StartsAudio \cup StartsCamera \cup StopsAudio) = {}
  /\ ClosesCamera \cap (StartsAudio \cup StartsCamera) = {}
  /\ ForgetsCamera \cap (StartsAudio \cup StartsCamera) = {}
  /\ OfDecoders \cap (StartsAudio \cup StartsCamera \cup StopsAudio
                      \cup ForgetsCamera \cup ClosesCamera) = {}
BY DEF StartsAudio, StartsCamera, StopsAudio, ClosesNext, ForgetsAudio,
       OfDecoders, ClosesCamera, ForgetsCamera

-----------------------------------------------------------------------------
(* The invariant of the display.                                            *)

HomeTypes ==
  /\ mode \in Cameras \cup {"decode"}
  /\ started \in BOOLEAN /\ hasAudio \in BOOLEAN
  /\ base \in {"none", "this", "new"}
  /\ todo \in Todos
AudioTypes ==
  /\ asked \in {"none", "launch", "acquire", "joinRecord", "joinPlayback", "release"}
  /\ hdmi \in BOOLEAN
  /\ tickets \in Nat /\ rounds \in Nat
  /\ looping \in [Roles -> BOOLEAN]
  /\ at \in [Roles -> {"new", "test", "use", "ended"}]
  /\ sound \in [Roles -> BOOLEAN]
  /\ tardy \in SUBSET Roles
DecoderTypes ==
  /\ stage \in {"none", "started", "wait", "start", "stop", "join", "notify"}
  /\ turn \in Inputs
  /\ composer \in {"none", "setup", "await"}
  /\ decoder \in [Inputs -> {"none", "new", "run", "ended"}]

\* A handler starts what was stopped and stops what was started.
Order ==
  /\ todo \in StartsAudio => ~hdmi /\ asked = "none" /\ mode = "camera3"
  /\ todo \in StartsCamera => request = "none" /\ mode # "decode"
  /\ todo \in StartsAudio \cup StartsCamera => started /\ base # "none"
  /\ todo \in OfDecoders => mode = "decode"
  /\ todo = <<"startDecoders">> => started
  /\ todo \in ForgetsCamera => ~started
  /\ hdmi => /\ hasAudio /\ base # "none" /\ mode = "camera3"
             /\ (started /\ todo = <<>>) \/ todo \in StopsAudio

\* Permits: two, one more for each round that has ended, one less for each thread
\* that has not begun.
Unborn(r) == IF at[r] = "new" THEN 1 ELSE 0
Late(r) == IF r \in tardy THEN 1 ELSE 0
Joining == asked \in {"joinRecord", "joinPlayback"}
Tickets ==
  /\ tickets = (rounds + 2) - (Unborn("record") + Unborn("playback"))
  /\ Joining => Unborn("record") + Unborn("playback")
                + Late("record") + Late("playback") <= rounds

\* A thread that set its flag after stop() had cleared it never ends, nor does
\* stop(); and the threads live between start() and the joins.
Rounds ==
  /\ \A r \in tardy : Joining /\ at[r] \in {"test", "use"} /\ looping[r]
  /\ asked = "launch" => hdmi
  /\ asked \notin {"none", "launch"} => ~hdmi
  /\ asked = "launch" \/ (asked = "none" /\ ~hdmi) =>
       \A r \in Roles : at[r] = "ended"
  /\ asked \in {"joinPlayback", "release"} => at["record"] = "ended"
  /\ asked = "release" => at["playback"] = "ended"
  /\ \A r \in Roles : sound[r] <=> (hdmi \/ asked # "none")

\* Where the camera may be.
Resting == /\ camera = "closed" /\ background = "none" /\ looper = "idle"
           /\ due = {} /\ ~device /\ permits = 1
Unstarted == /\ camera = "closed" /\ background = "none" /\ looper = "idle"
             /\ due = {} /\ ~device /\ permits = 0
Awaiting == /\ background = "alive" /\ looper = "idle" /\ ~device
            /\ due \subseteq {"onOpened", "onError"} /\ permits = 0
            /\ "onOpened" \in due => camera = "open"
Open == /\ background = "alive" /\ camera = "open"
        /\ due \subseteq {"onConfigured", "onError"}
        /\ looper = "opened" \/ (looper \in {"idle", "create"} /\ device)
Closed == /\ background # "none" /\ camera = "closed" /\ looper = "idle"
          /\ ~device /\ due \subseteq {"onConfigured", "onClosed"}
          /\ permits = (IF "onClosed" \in due THEN 0 ELSE 1)

\* As long as nothing happened that the property allows for.
Orderly == ~hasty /\ ~faulted /\ ~thrown
CameraInv ==
  /\ request \in {"none", "acquire"} =>
       Resting \/ Awaiting \/ (Open /\ permits = 1)
  /\ request = "shut" => Unstarted \/ (Open /\ permits = 0)
  /\ request = "await" => Unstarted \/ Closed
  /\ request = "join" => Closed /\ permits = 1
  /\ request = "none" /\ ~started /\ todo \notin ClosesCamera => Resting
  /\ todo \in StartsCamera => Resting
  /\ base = "none" => Resting /\ request = "none"
  /\ request \in {"none", "acquire", "shut", "await", "join"}

Quiet(i) == decoder[i] \in {"none", "ended"}
DecoderInv ==
  /\ composer = "none" =>
       /\ stage \notin {"start", "stop", "join"}
       /\ \A i \in Inputs : decoder[i] = "none"
  /\ stage = "start" => started
  /\ stage \in {"stop", "join"} => \A i \in Inputs : i < turn => Quiet(i)
  /\ ~started /\ todo # <<"stopDecoders">> /\ stage \notin {"stop", "join"} =>
       \A i \in Inputs : Quiet(i)
  /\ mode # "decode" => composer = "none"
  /\ mode = "decode" => base = "none"

HomeInv ==
  /\ HomeTypes /\ AudioTypes /\ DecoderTypes
  /\ Order /\ Tickets /\ Rounds
  /\ Orderly => CameraInv
  /\ ~wrecked => DecoderInv

LEMMA HomeInitInv == HomeInit => HomeInv
<1> SUFFICES ASSUME HomeInit PROVE HomeInv
  OBVIOUS
<1> USE DEF HomeInit
<1>1. HomeTypes
  BY DEF HomeTypes, Todos
<1>2. AudioTypes
  <2>1. /\ looping \in [Roles -> BOOLEAN] /\ sound \in [Roles -> BOOLEAN]
        /\ hdmi \in BOOLEAN
        /\ at \in [Roles -> {"new", "test", "use", "ended"}]
    BY Zenon DEF AudioInit
  <2> QED
    BY <2>1 DEF AudioInit, AudioTypes
<1>3. DecoderTypes
  BY ComposerAssumption DEF ComposerInit, DecoderTypes, Inputs
<1>4. Order
  BY ListsApart DEF Order, AudioInit
<1>5. Tickets
  <2>1. at["record"] = "ended" /\ at["playback"] = "ended" /\ tickets = 2 /\ rounds = 0
    BY DEF AudioInit, Roles
  <2>2. ~Joining
    BY DEF AudioInit, Joining
  <2> QED
    BY <2>1, <2>2 DEF Tickets, Unborn
<1>8. Rounds
  BY Zenon DEF AudioInit, Rounds, Joining
<1>6. CameraInv
  BY ListsApart DEF CameraInit, NewCameraBase, CameraInv, Resting
<1>7. DecoderInv
  BY DEF ComposerInit, DecoderInv, Quiet, Cameras
<1> QED
  BY <1>1, <1>2, <1>3, <1>4, <1>5, <1>6, <1>7, <1>8 DEF HomeInv

LEMMA JoinOnes == ASSUME NEW a, NEW b PROVE <<a>> \o <<b>> = <<a, b>>
<1> DEFINE s == <<a>>
           t == <<b>>
           u == <<a, b>>
           E == {a, b}
<1>1. s \in Seq(E) /\ t \in Seq(E) /\ u \in Seq(E)
  OBVIOUS
<1>2. /\ Len(s) = 1 /\ Len(t) = 1 /\ Len(u) = 2
      /\ s[1] = a /\ t[1] = b /\ u[1] = a /\ u[2] = b
  OBVIOUS
<1> HIDE DEF s, t, u, E
<1>3. /\ s \o t \in Seq(E) /\ Len(s \o t) = 2
      /\ \A i \in 1 .. 2 : (s \o t)[i] = u[i]
  BY <1>1, <1>2, ConcatProperties, SMTT(30)
<1>4. s \o t = u
  BY <1>1, <1>2, <1>3, SeqEqual, Zenon
<1> QED
  BY <1>4 DEF s, t, u

LEMMA JoinTwos ==
  ASSUME NEW a, NEW b, NEW c, NEW d
  PROVE  <<a, b>> \o <<c, d>> = <<a, b, c, d>>
<1> DEFINE s == <<a, b>>
           t == <<c, d>>
           u == <<a, b, c, d>>
           E == {a, b, c, d}
<1>1. s \in Seq(E) /\ t \in Seq(E) /\ u \in Seq(E)
  OBVIOUS
<1>2. /\ Len(s) = 2 /\ Len(t) = 2 /\ Len(u) = 4
      /\ s[1] = a /\ s[2] = b /\ t[1] = c /\ t[2] = d
      /\ u[1] = a /\ u[2] = b /\ u[3] = c /\ u[4] = d
  OBVIOUS
<1> HIDE DEF s, t, u, E
<1> DEFINE z == s \o t
<1>3. /\ z \in Seq(E) /\ Len(z) = 2 + 2
      /\ \A i \in 1 .. 2 + 2 : z[i] = IF i <= 2 THEN s[i] ELSE t[i - 2]
  <2>1. /\ z \in Seq(E) /\ Len(z) = Len(s) + Len(t)
        /\ \A i \in 1 .. Len(s) + Len(t) :
             z[i] = IF i <= Len(s) THEN s[i] ELSE t[i - Len(s)]
    BY <1>1, ConcatProperties, Zenon
  <2> QED
    BY <1>2, <2>1, Zenon
<1> HIDE DEF z
<1>5. z[1] = a /\ z[2] = b /\ z[3] = c /\ z[4] = d
  BY <1>2, <1>3
<1>6. Len(z) = Len(u) /\ \A i \in 1 .. Len(z) : z[i] = u[i]
  BY <1>2, <1>3, <1>5
<1>4. s \o t = u
  BY <1>1, <1>3, <1>6, SeqEqual, Zenon DEF z
<1> QED
  BY <1>4 DEF s, t, u

\* The lists of the handlers.
PauseList ==
  WhenAudio("stopAudio") \o WhenAudio("forgetAudio")
  \o (IF base = "none" THEN <<>> ELSE <<"closeCamera", "forgetCamera">>)

LEMMA HandlerLists ==
  /\ StartAll = IF mode = "decode" THEN <<"startDecoders">>
                ELSE IF base = "none" THEN <<>>
                ELSE IF mode = "camera3" THEN <<"startCamera", "startAudio">>
                ELSE <<"startCamera">>
  /\ StopAll = IF mode = "decode" THEN <<"stopDecoders">>
               ELSE IF base = "none" THEN <<>>
               ELSE IF mode = "camera3" THEN <<"stopAudio", "closeCamera">>
               ELSE <<"closeCamera">>
  /\ PauseList = IF mode = "camera3"
                 THEN IF base = "none" THEN <<"stopAudio", "forgetAudio">>
                      ELSE <<"stopAudio", "forgetAudio", "closeCamera", "forgetCamera">>
                 ELSE IF base = "none" THEN <<>>
                      ELSE <<"closeCamera", "forgetCamera">>
<1>1. \A a, b : <<a>> \o <<b>> = <<a, b>>
  BY JoinOnes
<1>2. \A a, b : <<a, b>> \o <<>> = <<a, b>>
  OBVIOUS
<1>5. \A a, b, c, d : <<a, b>> \o <<c, d>> = <<a, b, c, d>>
  BY JoinTwos
<1>6. \A a : <<a>> \o <<>> = <<a>> /\ <<>> \o <<a>> = <<a>>
  OBVIOUS
<1>7. \A a, b : <<>> \o <<a, b>> = <<a, b>>
  OBVIOUS
<1>8. <<>> \o <<>> = <<>>
  OBVIOUS
<1>3. CASE mode = "camera3"
  <2>1. \A w : WhenAudio(w) = <<w>>
    BY <1>3 DEF WhenAudio
  <2>2. /\ <<"startCamera">> \o WhenAudio("startAudio")
             = <<"startCamera", "startAudio">>
        /\ WhenAudio("stopAudio") \o <<"closeCamera">>
             = <<"stopAudio", "closeCamera">>
        /\ WhenAudio("stopAudio") \o WhenAudio("forgetAudio")
             = <<"stopAudio", "forgetAudio">>
    BY <1>1, <2>1, Zenon
  <2>3. CASE base = "none"
    BY <1>2, <1>3, <2>2, <2>3 DEF StartAll, StopAll, PauseList
  <2>4. CASE base # "none"
    BY <1>3, <1>5, <2>2, <2>4 DEF StartAll, StopAll, PauseList
  <2> QED
    BY <2>3, <2>4
<1>4. CASE mode # "camera3"
  <2>1. \A w : WhenAudio(w) = <<>>
    BY <1>4 DEF WhenAudio
  <2> QED
    BY <1>4, <1>6, <1>7, <1>8, <2>1, Zenon DEF StartAll, StopAll, PauseList
<1> QED
  BY <1>3, <1>4

\* What an event finds, and a step.
LEMMA EventFrame ==
  ASSUME UserEvent
  PROVE  /\ UNCHANGED <<cameraVars, audioVars, composerVars, mode, hasAudio>>
         /\ todo = <<>> /\ request = "none" /\ asked = "none" /\ stage = "none"
BY DEF UserEvent, Toggle, OnPause, OnResume, SurfaceCreated, SurfaceDestroyed,
       Handler, Idle, Returned

LEMMA StepFrame ==
  ASSUME HomeTypes, NEW w, Step(w)
  PROVE  /\ UNCHANGED <<mode, started>>
         /\ request = "none" /\ asked = "none" /\ stage = "none"
         /\ Head(todo) = w /\ todo' = Tail(todo) /\ PopOf(todo)
         /\ todo # <<>> /\ todo \in Todos
BY PopLists DEF HomeTypes, Step, Returned

LEMMA EventKeepsOrder ==
  ASSUME HomeTypes, Order, UserEvent PROVE HomeTypes' /\ Order'
<1>1. /\ UNCHANGED <<hdmi, asked, request, mode, hasAudio>>
      /\ todo = <<>> /\ request = "none" /\ asked = "none"
  BY EventFrame DEF cameraVars, audioVars
<1>2. CASE OnResume \/ SurfaceDestroyed
  BY <1>1, <1>2, ListsApart
     DEF OnResume, SurfaceDestroyed, Handler, HomeTypes, Order, Todos
<1>3. CASE SurfaceCreated
  <2>1. /\ todo' = <<>> \/ (todo' = <<"compose">> /\ mode = "decode")
        /\ started' = started
        /\ base' = (IF mode \in Cameras THEN "new" ELSE base)
    BY <1>3, Zenon DEF SurfaceCreated, Handler
  <2>2. todo' \in Todos /\ (todo' = <<>> \/ todo' \in OfDecoders)
        /\ todo' # <<"startDecoders">>
    BY <2>1 DEF Todos, OfDecoders
  <2> QED
    BY <1>1, <2>1, <2>2, ListsApart DEF HomeTypes, Order
<1>4. CASE Toggle
  <2>1. /\ started' = ~started /\ base' = base
        /\ todo' = IF started THEN StopAll ELSE StartAll
    BY <1>4, Zenon DEF Toggle, Handler
  <2>2. CASE started
    <3>1. todo' \in {<<>>, <<"stopDecoders">>, <<"stopAudio", "closeCamera">>,
                     <<"closeCamera">>}
          /\ (todo' = <<"stopDecoders">> => mode = "decode")
          /\ (base # "none" /\ mode = "camera3" => todo' \in StopsAudio)
      BY <2>1, <2>2, HandlerLists DEF StopsAudio
    <3>2. /\ todo' \in Todos
          /\ todo' \notin StartsAudio \cup StartsCamera \cup ForgetsCamera
          /\ todo' \in OfDecoders => todo' = <<"stopDecoders">>
          /\ todo' # <<"startDecoders">>
      BY <3>1 DEF Todos, StopsAudio, ClosesNext, OfDecoders, StartsAudio,
                  StartsCamera, ForgetsCamera
    <3> QED
      BY <1>1, <2>1, <2>2, <3>1, <3>2 DEF HomeTypes, Order
  <2>3. CASE ~started
    <3>1. ~hdmi
      BY <1>1, <2>3, ListsApart DEF Order
    <3>2. /\ todo' \in {<<>>, <<"startDecoders">>, <<"startCamera">>,
                        <<"startCamera", "startAudio">>}
          /\ todo' = <<"startDecoders">> => mode = "decode"
          /\ todo' = <<"startCamera">> => mode # "decode" /\ base # "none"
          /\ todo' = <<"startCamera", "startAudio">> =>
               mode = "camera3" /\ base # "none"
      BY <2>1, <2>3, HandlerLists
    <3>3. /\ todo' \in Todos
          /\ todo' \in StartsAudio => todo' = <<"startCamera", "startAudio">>
          /\ todo' \in StartsCamera =>
               todo' \in {<<"startCamera">>, <<"startCamera", "startAudio">>}
          /\ todo' \in OfDecoders => todo' = <<"startDecoders">>
          /\ todo' \notin ForgetsCamera
      BY <3>2 DEF Todos, OfDecoders, StartsAudio, StartsCamera, ForgetsCamera
    <3> QED
      BY <1>1, <2>1, <2>3, <3>1, <3>2, <3>3 DEF HomeTypes, Order
  <2> QED
    BY <2>2, <2>3
<1>5. CASE OnPause
  <2>1. /\ started' = FALSE /\ base' = base
        /\ todo' = IF started THEN IF mode = "decode" THEN StopAll ELSE PauseList
                   ELSE <<>>
    BY <1>5, Zenon DEF OnPause, Handler, PauseList
  <2>2. CASE started
    <3>1. /\ todo' \in {<<>>, <<"stopDecoders">>, <<"stopAudio", "forgetAudio">>,
               <<"stopAudio", "forgetAudio", "closeCamera", "forgetCamera">>,
               <<"closeCamera", "forgetCamera">>}
          /\ todo' = <<"stopDecoders">> => mode = "decode"
          /\ mode = "camera3" => todo' \in StopsAudio
      BY <2>1, <2>2, HandlerLists DEF StopsAudio
    <3>2. /\ todo' \in Todos
          /\ todo' \notin StartsAudio \cup StartsCamera
          /\ todo' \in OfDecoders => todo' = <<"stopDecoders">>
          /\ todo' # <<"startDecoders">>
      BY <3>1 DEF Todos, StopsAudio, ClosesNext, OfDecoders, StartsAudio,
                  StartsCamera
    <3> QED
      BY <1>1, <2>1, <2>2, <3>1, <3>2 DEF HomeTypes, Order
  <2>3. CASE ~started
    BY <1>1, <2>1, <2>3, ListsApart DEF HomeTypes, Order
  <2> QED
    BY <2>2, <2>3 DEF HomeTypes
<1> QED
  BY <1>2, <1>3, <1>4, <1>5 DEF UserEvent

LEMMA CallKeepsOrder ==
  ASSUME HomeTypes, AudioTypes, Order, Rounds, CallStep
  PROVE  HomeTypes' /\ Order'
<1> USE DEF HomeTypes, Order
<1>1. CASE UseNewCamera
  <2>1. /\ UNCHANGED <<hdmi, asked, mode, hasAudio, started, todo, request>>
        /\ base = "new" /\ base' = "this"
    BY <1>1 DEF UseNewCamera, Renew, audioVars
  <2> QED
    BY <2>1
<1>2. CASE CallCamera
  <2>1. /\ UNCHANGED <<hdmi, asked, hasAudio>> /\ base = "this"
    BY <1>2 DEF CallCamera, audioVars
  <2>2. CASE Step("startCamera") /\ StartCamera /\ UNCHANGED base
    <3>1. request' = request
      BY <2>2 DEF StartCamera
    <3>2. /\ UNCHANGED <<mode, started>> /\ todo \in StartsCamera /\ todo' \in Todos
          /\ todo' \in {<<>>, <<"startAudio">>}
          /\ todo' \in StartsAudio => todo \in StartsAudio
          /\ todo' \notin StartsCamera
      BY <2>2, StepFrame DEF PopOf
    <3>3. ~hdmi
      BY <3>2, ListsApart
    <3>4. /\ todo' \notin OfDecoders \cup ForgetsCamera
          /\ todo' # <<"startDecoders">>
      BY <3>2 DEF OfDecoders, ForgetsCamera
    <3> QED
      BY <2>1, <2>2, <3>1, <3>2, <3>3, <3>4
  <2>3. CASE Step("closeCamera") /\ ClearSurface /\ MayRenewSurface
    <3>1. base' \in {"this", "new"}
      BY <2>1, <2>3 DEF MayRenewSurface
    <3>2. /\ UNCHANGED <<mode, started>> /\ todo \in ClosesNext /\ todo' \in Todos
          /\ todo' \in {<<>>, <<"forgetCamera">>}
          /\ todo' \in ForgetsCamera => todo \in ForgetsCamera
      BY <2>3, StepFrame DEF PopOf
    <3>3. ~hdmi
      BY <3>2, ListsApart DEF ClosesNext
    <3>4. /\ todo' \notin OfDecoders \cup StartsAudio \cup StartsCamera
          /\ todo' # <<"startDecoders">>
      BY <3>2 DEF OfDecoders, StartsAudio, StartsCamera
    <3> QED
      BY <2>1, <3>1, <3>2, <3>3, <3>4
  <2> QED
    BY <1>2, <2>2, <2>3 DEF CallCamera
<1>3. CASE ForgetCamera
  <2>1. /\ UNCHANGED <<hdmi, asked, request, hasAudio, mode, started>>
        /\ base' = "none" /\ todo = <<"forgetCamera">> /\ todo' = <<>>
    BY <1>3, StepFrame DEF ForgetCamera, audioVars, cameraVars, PopOf
  <2>2. ~hdmi
    BY <2>1 DEF StopsAudio
  <2> QED
    BY <2>1, <2>2, ListsApart DEF Todos
<1>4. CASE CallAudio
  <2>1. UNCHANGED <<request, base, hasAudio>>
    BY <1>4 DEF CallAudio
  <2>2. CASE Step("startAudio")
    <3>1. /\ UNCHANGED <<mode, started>> /\ todo \in StartsAudio /\ todo' = <<>>
      BY <2>2, StepFrame DEF PopOf
    <3>2. hasAudio \/ hdmi' = hdmi
      BY <1>4, <2>2, <2>2, StepFrame DEF CallAudio, audioVars, Step
    <3> QED
      BY <2>1, <3>1, <3>2, ListsApart DEF Todos
  <2>3. CASE Step("stopAudio")
    <3>1. /\ UNCHANGED <<mode, started>> /\ todo \in StopsAudio
          /\ todo' \in ClosesNext \cup ForgetsAudio /\ todo' \in Todos
          /\ todo' \in ForgetsCamera => todo \in ForgetsCamera
      BY <2>3, StepFrame DEF PopOf
    <3>2. ~hdmi'
      BY <1>4, <2>3, StepFrame DEF CallAudio, StopAudio, audioVars, Step
    <3>3. todo' \notin StartsAudio \cup StartsCamera \cup OfDecoders
      BY <3>1, ListsApart DEF OfDecoders, ClosesNext, ForgetsAudio, StartsAudio, StartsCamera
    <3>4. todo' # <<"startDecoders">>
      BY <3>3 DEF OfDecoders
    <3> QED
      BY <2>1, <3>1, <3>2, <3>3, <3>4
  <2> QED
    BY <1>4, <2>2, <2>3 DEF CallAudio
<1>5. CASE ForgetAudio
  <2>1. /\ UNCHANGED <<hdmi, asked, request, base, mode, started>>
        /\ hasAudio' = FALSE /\ todo \in ForgetsAudio
        /\ todo' \in {<<>>} \cup ClosesNext /\ todo' \in Todos
        /\ todo' \in ForgetsCamera => todo \in ForgetsCamera
    BY <1>5, StepFrame DEF ForgetAudio, audioVars, cameraVars, PopOf
  <2>2. ~hdmi
    BY <2>1, ListsApart DEF ForgetsAudio
  <2>3. /\ todo' \notin StartsAudio \cup StartsCamera \cup OfDecoders
        /\ todo' # <<"startDecoders">>
    BY <2>1 DEF OfDecoders, ClosesNext, StartsAudio, StartsCamera
  <2> QED
    BY <2>1, <2>2, <2>3
<1>6. CASE CallDecoders
  <2>1. UNCHANGED <<hdmi, asked, request, base, hasAudio>>
    BY <1>6 DEF CallDecoders, audioVars, cameraVars
  <2>2. PICK w \in {"compose", "startDecoders", "stopDecoders"} : Step(w)
    BY <1>6 DEF CallDecoders
  <2>3. /\ UNCHANGED <<mode, started>> /\ todo = <<w>> /\ todo' = <<>>
    BY <2>2, StepFrame DEF PopOf
  <2>4. ~hdmi
    BY <2>2, <2>3 DEF StopsAudio
  <2> QED
    BY <2>1, <2>3, <2>4, ListsApart DEF Todos
<1>7. CASE Closing /\ UNCHANGED <<audioVars, composerVars, homeVars>>
  <2>1. UNCHANGED <<hdmi, asked, base, hasAudio, mode, started, todo>>
    BY <1>7 DEF audioVars, homeVars
  <2>2. request # "none"
    BY <1>7 DEF Closing, AcquireClose, CloseDevice, ClosedInTime, ClosedTooLate,
                JoinBackground
  <2> QED
    BY <2>1, <2>2
<1>8. CASE AudioCaller /\ UNCHANGED <<cameraVars, composerVars, homeVars>>
  <2>1. UNCHANGED <<request, base, hasAudio, mode, started, todo>>
    BY <1>8 DEF cameraVars, homeVars
  <2>2. asked # "none" /\ hdmi' = hdmi
    BY <1>8 DEF AudioCaller, LaunchThreads, ClearFlags, JoinRecord, JoinPlayback,
                JoinThread, ReleaseSound
  <2> QED
    BY <2>1, <2>2
<1>9. CASE DecoderCaller /\ UNCHANGED <<cameraVars, audioVars, homeVars>>
  BY <1>9 DEF cameraVars, audioVars, homeVars
<1> QED
  BY <1>1, <1>2, <1>3, <1>4, <1>5, <1>6, <1>7, <1>8, <1>9 DEF CallStep

LEMMA ThreadsKeepOrder ==
  ASSUME HomeTypes, Order,
         \/ \E i \in Inputs : OnFrameAvailable(i)
         \/ InCamera(Callbacks) \/ InCamera(Service)
         \/ InAudio(RecordThread) \/ InAudio(PlaybackThread)
         \/ InDecoders(CompositionThread)
         \/ \E i \in Inputs : InDecoders(DecoderThread(i))
  PROVE  HomeTypes' /\ Order'
<1>1. UNCHANGED <<homeVars, hdmi, asked, request>>
  <2>1. CASE \E i \in Inputs : OnFrameAvailable(i)
    BY <2>1 DEF OnFrameAvailable, cameraVars, audioVars
  <2>2. CASE InCamera(Callbacks) \/ InCamera(Service)
    BY <2>2 DEF InCamera, Callbacks, Service, audioVars, OnOpened, SetDevice,
                CreateSession, OnConfigured, OnError, OnClosed, CameraOpens,
                CameraFails
  <2>3. CASE InAudio(RecordThread) \/ InAudio(PlaybackThread)
    BY <2>3 DEF InAudio, RecordThread, PlaybackThread, cameraVars, BeginThread,
                TestRecord, ReadAudioData, TakeData, WriteAudioData, EndPlayback
  <2>4. CASE \/ InDecoders(CompositionThread)
             \/ \E i \in Inputs : InDecoders(DecoderThread(i))
    BY <2>4 DEF InDecoders, cameraVars, audioVars
  <2> QED
    BY <2>1, <2>2, <2>3, <2>4
<1> QED
  BY <1>1 DEF homeVars, HomeTypes, Order

AudioSafe == AudioTypes /\ Tickets /\ Rounds

LEMMA StillAudio ==
  ASSUME AudioSafe, UNCHANGED audioVars PROVE AudioSafe'
BY DEF AudioSafe, audioVars, AudioTypes, Tickets, Rounds, Unborn, Late, Joining

LEMMA StartKeepsAudio ==
  ASSUME AudioSafe, ~hdmi, FindDevice PROVE AudioSafe'
<1> USE DEF AudioSafe, FindDevice
<1>1. \A r \in Roles : at[r] = "ended"
  BY DEF Rounds
<1>2. AudioTypes'
  <2>1. hdmi' \in BOOLEAN /\ sound' \in [Roles -> BOOLEAN]
    BY Zenon DEF AudioTypes
  <2>2. asked' \in {"launch", "none"}
    OBVIOUS
  <2> QED
    BY <2>1, <2>2 DEF AudioTypes
<1>3. Tickets'
  BY DEF Tickets, Unborn, Late, Joining
<1>4. /\ \A r \in Roles : sound'[r] <=> hdmi'
      /\ asked' = (IF hdmi' THEN "launch" ELSE "none")
  OBVIOUS
<1>5. tardy = {}
  BY DEF Rounds, AudioTypes, Joining
<1> QED
  BY <1>1, <1>2, <1>3, <1>4, <1>5 DEF Rounds

LEMMA StopKeepsAudio ==
  ASSUME AudioSafe, StopAudio PROVE AudioSafe'
<1> USE DEF AudioSafe, StopAudio
<1>1. AudioTypes'
  BY DEF AudioTypes
<1>2. Tickets'
  BY DEF Tickets, Unborn, Late, Joining
<1>3. tardy = {}
  BY DEF Rounds, AudioTypes, Joining
<1>4. \A r \in Roles : sound[r] <=> hdmi
  BY DEF Rounds
<1>5. CASE hdmi
  BY <1>1, <1>2, <1>3, <1>4, <1>5 DEF Rounds, AudioTypes
<1>6. CASE ~hdmi
  BY <1>1, <1>2, <1>3, <1>4, <1>6 DEF Rounds, AudioTypes
<1> QED
  BY <1>5, <1>6

LEMMA CallerKeepsAudio ==
  ASSUME AudioSafe, AudioCaller PROVE AudioSafe'
<1> USE DEF AudioSafe
<1>1. CASE LaunchThreads
  <2> USE <1>1 DEF LaunchThreads
  <2>1. hdmi /\ tardy = {} /\ \A r \in Roles : at[r] = "ended" /\ sound[r]
    BY DEF Rounds, AudioTypes, Joining
  <2>2. at' = [r \in Roles |-> "new"]
    OBVIOUS
  <2>3. AudioTypes'
    BY <2>2 DEF AudioTypes
  <2>4. /\ at["record"] = "ended" /\ at["playback"] = "ended"
        /\ at'["record"] = "new" /\ at'["playback"] = "new"
    BY <2>1, <2>2 DEF Roles
  <2>5. Tickets'
    BY <2>4 DEF Tickets, Unborn, Late, Joining, AudioTypes
  <2> QED
    BY <2>1, <2>3, <2>5 DEF Rounds
<1>2. CASE ClearFlags
  <2> USE <1>2 DEF ClearFlags
  <2>1. AudioTypes'
    BY DEF AudioTypes
  <2>2. tardy = {}
    BY DEF Rounds, AudioTypes, Joining
  <2>3. Tickets'
    BY <2>2 DEF Tickets, Unborn, Late, Joining, AudioTypes
  <2> QED
    BY <2>1, <2>2, <2>3 DEF Rounds, Joining
<1>3. CASE JoinRecord
  <2> USE <1>3 DEF JoinRecord, JoinThread
  <2>1. AudioTypes' /\ Tickets'
    BY DEF AudioTypes, Tickets, Unborn, Late, Joining
  <2> QED
    BY <2>1 DEF Rounds, Joining
<1>4. CASE JoinPlayback
  <2> USE <1>4 DEF JoinPlayback, JoinThread
  <2>1. AudioTypes' /\ Tickets'
    BY DEF AudioTypes, Tickets, Unborn, Late, Joining
  <2>2. at["record"] = "ended" /\ at["playback"] = "ended" /\ tardy = {}
    BY DEF Rounds, AudioTypes, Roles
  <2> QED
    BY <2>1, <2>2 DEF Rounds, Joining
<1>5. CASE ReleaseSound
  <2> USE <1>5 DEF ReleaseSound
  <2>1. \A r \in Roles : at[r] = "ended"
    BY DEF Rounds, Roles
  <2>2. tardy = {} /\ ~hdmi
    BY DEF Rounds, AudioTypes, Joining
  <2>3. AudioTypes'
    BY DEF AudioTypes
  <2>4. Tickets'
    BY DEF Tickets, Unborn, Late, Joining
  <2> QED
    BY <2>1, <2>2, <2>3, <2>4 DEF Rounds
<1> QED
  BY <1>1, <1>2, <1>3, <1>4, <1>5 DEF AudioCaller

LEMMA ThreadsKeepAudio ==
  ASSUME AudioSafe, RecordThread \/ PlaybackThread PROVE AudioSafe'
<1> USE DEF AudioSafe
<1>1. ASSUME NEW q \in Roles, BeginThread(q) PROVE AudioSafe'
  <2> USE <1>1 DEF BeginThread
  <2>1. /\ at[q] = "new" /\ at'[q] = "test" /\ looping'[q]
        /\ \A r \in Roles \ {q} : at'[r] = at[r] /\ looping'[r] = looping[r]
    BY DEF AudioTypes
  <2>2. AudioTypes'
    <3>1. /\ at' \in [Roles -> {"new", "test", "use", "ended"}]
          /\ looping' \in [Roles -> BOOLEAN]
      BY DEF AudioTypes
    <3>2. tardy' \in SUBSET Roles /\ tickets' \in Nat
      BY DEF AudioTypes
    <3> QED
      BY <3>1, <3>2 DEF AudioTypes
  <2>3. q \notin tardy
    BY <2>1 DEF Rounds
  <2>4. Tickets'
    BY <2>1, <2>3 DEF Tickets, Unborn, Late, Joining, AudioTypes, Roles
  <2> QED
    BY <2>1, <2>2, <2>4 DEF Rounds, Joining, AudioTypes, Roles
<1>2. ASSUME NEW q \in Roles, NEW pc1, NEW pc2,
             at[q] = pc1, at' = [at EXCEPT ![q] = pc2],
             pc1 \in {"test", "use"}, pc2 \in {"test", "use"},
             UNCHANGED <<asked, hdmi, tickets, looping, sound, tardy, rounds>>
      PROVE  AudioSafe'
  <2>1. /\ at'[q] \in {"test", "use"}
        /\ \A r \in Roles \ {q} : at'[r] = at[r]
    BY <1>2 DEF AudioTypes
  <2>2. AudioTypes'
    BY <1>2 DEF AudioTypes
  <2>3. Tickets'
    BY <1>2, <2>1 DEF Tickets, Unborn, Late, Joining, AudioTypes, Roles
  <2> QED
    BY <1>2, <2>1, <2>2, <2>3 DEF Rounds, Joining, AudioTypes, Roles
<1>3. CASE TestRecord
  <2>1. CASE looping["record"]
    BY <1>2, <1>3, <2>1 DEF TestRecord, Roles
  <2>2. CASE ~looping["record"]
    <3> USE <1>3, <2>2 DEF TestRecord
    <3>1. /\ at["record"] = "test" /\ at'["record"] = "ended"
          /\ at'["playback"] = at["playback"]
      BY DEF AudioTypes, Roles
    <3>2. AudioTypes'
      BY DEF AudioTypes
    <3>3. Tickets'
      BY <3>1 DEF Tickets, Unborn, Late, Joining, AudioTypes
    <3>4. "record" \notin tardy
      BY DEF Rounds
    <3> QED
      BY <3>1, <3>2, <3>3, <3>4 DEF Rounds, Joining, AudioTypes, Roles
  <2> QED
    BY <2>1, <2>2
<1>4. CASE ReadAudioData
  BY <1>2, <1>4 DEF ReadAudioData, Roles
<1>5. CASE TakeData
  BY <1>2, <1>5 DEF TakeData, Roles
<1>6. CASE WriteAudioData
  BY <1>2, <1>6 DEF WriteAudioData, Roles
<1>7. CASE EndPlayback
  <2> USE <1>7 DEF EndPlayback
  <2>1. /\ at["playback"] = "test" /\ at'["playback"] = "ended"
        /\ at'["record"] = at["record"]
    BY DEF AudioTypes, Roles
  <2>2. AudioTypes'
    <3>1. at' \in [Roles -> {"new", "test", "use", "ended"}]
      BY DEF AudioTypes
    <3>2. tickets' \in Nat /\ rounds' \in Nat
      BY DEF AudioTypes
    <3> QED
      BY <3>1, <3>2 DEF AudioTypes
  <2>3. Tickets'
    BY <2>1 DEF Tickets, Unborn, Late, Joining, AudioTypes
  <2>4. "playback" \notin tardy
    BY DEF Rounds
  <2> QED
    BY <2>1, <2>2, <2>3, <2>4 DEF Rounds, Joining, AudioTypes, Roles
<1> QED
  BY <1>1, <1>3, <1>4, <1>5, <1>6, <1>7 DEF RecordThread, PlaybackThread, Roles

DecodersSafe == DecoderTypes /\ (~wrecked => DecoderInv)

LEMMA DecodersKeepSafe ==
  ASSUME HomeTypes, DecodersSafe, ~wrecked, UNCHANGED homeVars,
         DecoderCaller \/ CompositionThread \/ \E i \in Inputs : DecoderThread(i)
  PROVE  DecodersSafe'
<1> USE DEF DecodersSafe
<1> DecoderInv /\ DecoderTypes
  OBVIOUS
<1>1. UNCHANGED <<mode, started, base, todo>>
  BY DEF homeVars
<1>2. Instances \in Nat \ {0} /\ Inputs = 1..Instances /\ turn \in 1..Instances /\ 1 \in Inputs
  BY ComposerAssumption DEF Inputs, DecoderTypes
<1>3. CASE WaitForSetup \/ NotifyFrame
  BY <1>1, <1>2, <1>3 DEF WaitForSetup, NotifyFrame, threadVars, DecoderTypes,
                          DecoderInv, Quiet
<1>4. CASE StartDecoder
  <2>1. DecoderTypes'
    BY <1>2, <1>4 DEF StartDecoder, Further, DecoderTypes
  <2>2. started /\ composer # "none" /\ stage' \in {"none", "start"}
        /\ UNCHANGED <<composer, wrecked>>
    BY <1>4 DEF StartDecoder, Further, DecoderInv
  <2> QED
    BY <1>1, <2>1, <2>2 DEF DecoderInv
<1>5. CASE StopDecoder
  <2>1. DecoderTypes' /\ composer # "none" /\ composer' = composer
        /\ stage = "stop" /\ stage' = "join" /\ turn' = turn /\ decoder' = decoder
    BY <1>5 DEF StopDecoder, DecoderTypes, DecoderInv
  <2> QED
    BY <1>1, <2>1 DEF DecoderInv, Quiet
<1>6. CASE JoinDecoder
  <2>1. /\ UNCHANGED <<composer, decoder, wrecked>> /\ stage = "join"
        /\ \A i \in Inputs : i <= turn => Quiet(i)
    BY <1>2, <1>6 DEF JoinDecoder, threadVars, DecoderInv, Quiet
  <2>2. \/ turn = Instances /\ stage' = "none" /\ turn' = 1
        \/ turn # Instances /\ stage' = "stop" /\ turn' = turn + 1
    BY <1>6 DEF JoinDecoder, Further
  <2>3. DecoderTypes'
    BY <1>2, <2>1, <2>2 DEF DecoderTypes
  <2>4. stage' = "none" => \A i \in Inputs : Quiet(i)
    BY <1>2, <2>1, <2>2
  <2>5. stage' = "stop" => \A i \in Inputs : i < turn' => Quiet(i)
    BY <1>2, <2>1, <2>2
  <2> QED
    BY <1>1, <2>1, <2>2, <2>3, <2>4, <2>5 DEF DecoderInv, Quiet
<1>7. CASE FinishSetup
  BY <1>1, <1>7 DEF FinishSetup, frameVars, DecoderTypes, DecoderInv, Quiet
<1>8. CASE AwaitFrame
  BY <1>1, <1>8 DEF AwaitFrame, DecoderTypes, DecoderInv, Quiet
<1>9. ASSUME NEW i \in Inputs, DecoderThread(i) PROVE DecodersSafe'
  <2>1. CASE RunDecoder(i)
    <3>1. DecoderTypes' /\ UNCHANGED <<stage, turn, composer, wrecked>>
      BY <2>1 DEF RunDecoder, DecoderTypes
    <3>2. ~Quiet(i) /\ decoder[i] # "none" /\ \A j \in Inputs \ {i} : decoder'[j] = decoder[j]
      BY <2>1 DEF RunDecoder, Quiet, DecoderTypes
    <3> QED
      BY <1>1, <3>1, <3>2 DEF DecoderInv, Quiet
  <2>2. CASE EndDecoder(i)
    <3>1. DecoderTypes' /\ UNCHANGED <<stage, turn, composer, wrecked>>
      BY <2>2 DEF EndDecoder, threadVars, frameVars, DecoderTypes
    <3>2. decoder[i] # "none" /\ decoder'[i] = "ended"
          /\ \A j \in Inputs \ {i} : decoder'[j] = decoder[j]
      BY <2>2 DEF EndDecoder, DecoderTypes
    <3> QED
      BY <1>1, <3>1, <3>2 DEF DecoderInv, Quiet
  <2>3. CASE RenderFrame(i)
    BY <1>1, <2>3 DEF RenderFrame, threadVars, DecoderTypes, DecoderInv, Quiet
  <2> QED
    BY <1>9, <2>1, <2>2, <2>3 DEF DecoderThread
<1> QED
  BY <1>3, <1>4, <1>5, <1>6, <1>7, <1>8, <1>9
     DEF DecoderCaller, CompositionThread

LEMMA DisplayKeepsDecoders ==
  ASSUME HomeTypes, Order, DecodersSafe, ~wrecked,
         UserEvent \/ UseNewCamera \/ CallCamera \/ ForgetCamera \/ CallAudio
         \/ ForgetAudio \/ CallDecoders \/ \E i \in Inputs : OnFrameAvailable(i)
  PROVE  DecodersSafe'
<1> USE DEF DecodersSafe
<1> DecoderInv /\ DecoderTypes
  OBVIOUS
<1>1. 1 \in Inputs
  BY ComposerAssumption DEF Inputs
<1>2. CASE UserEvent
  <2>1. /\ UNCHANGED <<stage, turn, composer, decoder, wrecked, mode>>
        /\ todo = <<>> /\ stage = "none"
    BY <1>2, EventFrame DEF composerVars, threadVars
  <2>2. mode = "decode" => base' = "none"
    BY <1>2 DEF UserEvent, Toggle, OnPause, OnResume, SurfaceCreated,
                SurfaceDestroyed, DecoderInv, Cameras
  <2>3. composer = "none" \/ started
        \/ (~started /\ \A i \in Inputs : Quiet(i))
    BY <2>1 DEF DecoderInv, HomeTypes
  <2>4. mode = "decode" /\ started /\ ~started' => todo' = <<"stopDecoders">>
    BY <1>2, HandlerLists DEF UserEvent, Toggle, OnPause, OnResume, SurfaceCreated,
                SurfaceDestroyed, Handler
  <2>5. ~started /\ todo # <<"stopDecoders">> => \A i \in Inputs : Quiet(i)
    BY <2>1 DEF DecoderInv
  <2>6. composer = "none" => \A i \in Inputs : Quiet(i)
    BY DEF DecoderInv, Quiet
  <2>7. mode # "decode" => composer = "none"
    BY DEF DecoderInv
  <2> QED
    BY <2>1, <2>2, <2>4, <2>5, <2>6, <2>7 DEF DecoderInv, DecoderTypes, Quiet, HomeTypes
<1>3. CASE UseNewCamera \/ CallCamera \/ ForgetCamera \/ CallAudio \/ ForgetAudio
  <2>1. /\ UNCHANGED <<stage, turn, composer, decoder, wrecked, mode, started>>
        /\ mode = "decode" => base' = "none"
    BY <1>3 DEF UseNewCamera, CallCamera, ForgetCamera, CallAudio, ForgetAudio,
                composerVars, threadVars, Step, DecoderInv
  <2>2. /\ todo # <<"stopDecoders">>
        /\ todo' # <<"stopDecoders">>
    <3>1. CASE UseNewCamera
      BY <3>1 DEF UseNewCamera
    <3>2. CASE CallCamera \/ ForgetCamera \/ CallAudio \/ ForgetAudio
      <4>1. PICK w \in {"startCamera", "closeCamera", "forgetCamera", "startAudio",
                        "stopAudio", "forgetAudio"} : Step(w)
        BY <3>2 DEF CallCamera, ForgetCamera, CallAudio, ForgetAudio
      <4>2. Head(todo) = w /\ todo' \notin OfDecoders
        BY <4>1, StepFrame DEF PopOf
      <4> QED
        BY <4>2 DEF OfDecoders
    <3> QED
      BY <1>3, <3>1, <3>2
  <2> QED
    BY <2>1, <2>2 DEF DecoderInv, DecoderTypes, Quiet
<1>4. CASE CallDecoders
  <2>1. UNCHANGED base
    BY <1>4 DEF CallDecoders
  <2>2. CASE Step("compose") /\ Construct
    <3>1. mode = "decode" /\ todo = <<"compose">> /\ todo' = <<>>
          /\ UNCHANGED <<mode, started>> /\ stage = "none"
      BY <2>2, StepFrame DEF PopOf, Order, OfDecoders
    <3>2. /\ UNCHANGED <<turn, decoder, wrecked>> /\ stage' = "started" /\ composer' = "setup"
      BY <2>2 DEF Construct, frameVars
    <3>3. ~started => \A i \in Inputs : Quiet(i)
      BY <3>1 DEF DecoderInv
    <3> QED
      BY <2>1, <3>1, <3>2, <3>3 DEF DecoderInv, DecoderTypes, Quiet
  <2>3. CASE composer # "none" /\ Step("startDecoders") /\ Enter("start", 1)
    <3>1. started /\ mode = "decode" /\ todo' = <<>> /\ UNCHANGED <<mode, started>>
      BY <2>3, StepFrame DEF PopOf, Order, OfDecoders
    <3>2. UNCHANGED <<composer, decoder, wrecked>> /\ stage' = "start" /\ turn' = 1
      BY <2>3 DEF Enter, threadVars
    <3> QED
      BY <1>1, <2>1, <2>3, <3>1, <3>2 DEF DecoderInv, DecoderTypes
  <2>4. CASE composer # "none" /\ Step("stopDecoders") /\ Enter("stop", 1)
    <3>1. mode = "decode" /\ UNCHANGED <<mode, started>>
      BY <2>4, StepFrame DEF PopOf, Order, OfDecoders
    <3>2. UNCHANGED <<composer, decoder, wrecked>> /\ stage' = "stop" /\ turn' = 1
      BY <2>4 DEF Enter, threadVars
    <3>3. \A i \in Inputs : ~(i < 1)
      BY DEF Inputs
    <3> QED
      BY <1>1, <2>1, <2>4, <3>1, <3>2, <3>3 DEF DecoderInv, DecoderTypes
  <2>5. CASE /\ composer = "none" /\ UNCHANGED composerVars
             /\ Step("startDecoders") \/ Step("stopDecoders")
    <3>1. UNCHANGED <<mode, started>>
      BY <2>5, StepFrame
    <3>2. UNCHANGED <<stage, turn, composer, decoder, wrecked>>
      BY <2>5 DEF composerVars, threadVars
    <3> QED
      BY <2>1, <2>5, <3>1, <3>2 DEF DecoderInv, DecoderTypes, Quiet
  <2> QED
    BY <1>4, <2>2, <2>3, <2>4, <2>5 DEF CallDecoders
<1>5. ASSUME NEW i \in Inputs, OnFrameAvailable(i) PROVE DecodersSafe'
  <2>1. /\ UNCHANGED <<composer, decoder, wrecked, mode, started, todo, base>>
        /\ stage = "none" /\ stage' = "notify" /\ turn' = i
    BY <1>5 DEF OnFrameAvailable, Idle, Returned, threadVars, homeVars
  <2> QED
    BY <2>1 DEF DecoderInv, DecoderTypes, Quiet
<1> QED
  BY <1>2, <1>3, <1>4, <1>5

CameraSafe == Orderly => CameraInv

LEMMA CameraKeepsSafe ==
  ASSUME Order, CameraSafe, ~thrown, UNCHANGED homeVars,
         Closing \/ Callbacks \/ Service
  PROVE  CameraSafe'
<1> SUFFICES ASSUME Orderly' PROVE CameraInv'
  BY DEF CameraSafe
<1>1. UNCHANGED <<started, todo, base>>
  BY DEF homeVars
<1>2. ~hasty /\ ~faulted
  <2>1. CASE Closing
    <3>1. CASE CloseDevice
      BY <3>1 DEF CloseDevice, Orderly
    <3>2. CASE ClosedTooLate
      BY <3>2 DEF ClosedTooLate, QuitBackground, Orderly
    <3>3. CASE AcquireClose \/ ClosedInTime \/ JoinBackground
      BY <3>3 DEF AcquireClose, ClosedInTime, QuitBackground, JoinBackground,
                  Orderly, histories
    <3> QED
      BY <2>1, <3>1, <3>2, <3>3 DEF Closing
  <2>2. CASE Callbacks
    BY <2>2 DEF Callbacks, OnOpened, SetDevice, CreateSession, OnConfigured,
                OnError, OnClosed, Orderly, histories
  <2>3. CASE Service
    BY <2>3 DEF Service, CameraOpens, CameraFails, Orderly, histories
  <2> QED
    BY <2>1, <2>2, <2>3
<1>3. CameraInv
  BY <1>2 DEF CameraSafe, Orderly
<1> USE DEF CameraInv, Resting, Unstarted, Awaiting, Open, Closed
<1>4. CASE AcquireClose
  <2>1. /\ UNCHANGED <<background, looper, due, camera, device>>
        /\ request = "acquire" /\ request' = "shut"
        /\ permits > 0 /\ permits' = permits - 1
    BY <1>4 DEF AcquireClose, serviceVars
  <2>2. Resting \/ (Open /\ permits = 1)
    BY <1>3, <2>1
  <2>3. base # "none" /\ todo \notin StartsCamera
    BY <1>3, <2>1 DEF Order
  <2> QED
    BY <1>1, <2>1, <2>2, <2>3
<1>5. CASE CloseDevice
  <2>1. looper = "idle"
    BY <1>5 DEF CloseDevice, Orderly
  <2> QED
    BY <1>1, <1>3, <1>5, <2>1 DEF CloseDevice, Shut
<1>6. CASE ClosedInTime
  <2>1. background # "none" /\ background' = "quitting"
    BY <1>6 DEF ClosedInTime, QuitBackground, Orderly
  <2> QED
    BY <1>1, <1>3, <1>6, <2>1 DEF ClosedInTime, QuitBackground
<1>7. CASE ClosedTooLate
  BY <1>3, <1>7 DEF ClosedTooLate, QuitBackground, Orderly
<1>8. CASE JoinBackground
  BY <1>1, <1>3, <1>8 DEF JoinBackground
<1>9. CASE OnOpened
  <2>1. Awaiting
    BY <1>3, <1>9 DEF OnOpened, Calling
  <2> QED
    BY <1>1, <1>3, <1>9, <2>1 DEF OnOpened, Calling
<1>10. CASE SetDevice
  BY <1>1, <1>3, <1>10 DEF SetDevice
<1>11. CASE CreateSession
  BY <1>1, <1>3, <1>11 DEF CreateSession, Orderly
<1>12. CASE OnConfigured
  BY <1>1, <1>3, <1>12 DEF OnConfigured, Calling
<1>13. CASE OnError
  BY <1>13 DEF OnError, Orderly
<1>14. CASE OnClosed
  BY <1>1, <1>3, <1>14 DEF OnClosed, Calling
<1>15. CASE CameraOpens
  BY <1>1, <1>3, <1>15 DEF CameraOpens, Post
<1>16. CASE CameraFails
  BY <1>1, <1>3, <1>16 DEF CameraFails, Post
<1> QED
  BY <1>4, <1>5, <1>6, <1>7, <1>8, <1>9, <1>10, <1>11, <1>12, <1>13, <1>14,
     <1>15, <1>16 DEF Closing, Callbacks, Service

LEMMA StillCamera ==
  ASSUME CameraSafe, UNCHANGED cameraVars, UNCHANGED <<started, base>>,
         todo' \in ClosesCamera <=> todo \in ClosesCamera,
         todo' \notin StartsCamera
  PROVE  CameraSafe'
BY DEF CameraSafe, Orderly, CameraInv, cameraVars, serviceVars, histories,
       Resting, Unstarted, Awaiting, Open, Closed

LEMMA DisplayKeepsCamera ==
  ASSUME HomeTypes, Order, CameraSafe, ~thrown, DecodersSafe, ~wrecked,
         UserEvent \/ UseNewCamera \/ CallCamera \/ ForgetCamera \/ CallAudio
         \/ ForgetAudio \/ CallDecoders
  PROVE  CameraSafe'
<1>1. CASE UserEvent
  <2>1. /\ UNCHANGED cameraVars /\ todo = <<>> /\ request = "none"
        /\ todo \notin ClosesCamera
    BY <1>1, EventFrame, ListsApart
  <2> SUFFICES ASSUME Orderly' PROVE CameraInv'
    BY DEF CameraSafe
  <2>2. Orderly /\ CameraInv
    BY <2>1 DEF Orderly, CameraSafe, cameraVars, histories
  <2>3. ~started \/ base = "none" => Resting
    BY <2>1, <2>2 DEF CameraInv, HomeTypes
  <2>4. base' = "none" => base = "none"
    BY <1>1 DEF UserEvent, Toggle, OnPause, OnResume, SurfaceCreated, SurfaceDestroyed
  <2>5. todo' \in StartsCamera => ~started
    <3>1. CASE Toggle
      <4>1. started => todo' = StopAll
        BY <3>1 DEF Toggle, Handler
      <4>2. started => todo' \in {<<>>, <<"stopDecoders">>,
                                  <<"stopAudio", "closeCamera">>, <<"closeCamera">>}
        BY <4>1, HandlerLists
      <4> QED
        BY <4>2 DEF StartsCamera
    <3>2. CASE OnPause
      <4>1. todo' = IF started THEN IF mode = "decode" THEN StopAll ELSE PauseList
                    ELSE <<>>
        BY <3>2, Zenon DEF OnPause, Handler, PauseList
      <4>2. todo' \in {<<>>, <<"stopDecoders">>, <<"stopAudio", "forgetAudio">>,
               <<"stopAudio", "forgetAudio", "closeCamera", "forgetCamera">>,
               <<"closeCamera", "forgetCamera">>}
        BY <4>1, HandlerLists
      <4> QED
        BY <4>2 DEF StartsCamera
    <3>3. CASE OnResume \/ SurfaceCreated \/ SurfaceDestroyed
      <4>1. todo' \in {<<>>, <<"compose">>}
        BY <3>3 DEF OnResume, SurfaceCreated, SurfaceDestroyed, Handler
      <4> QED
        BY <4>1 DEF StartsCamera
    <3> QED
      BY <1>1, <3>1, <3>2, <3>3 DEF UserEvent
  <2>6. ~started' /\ todo' \notin ClosesCamera => Resting
    <3> SUFFICES ASSUME started, base # "none", ~started', todo' \notin ClosesCamera
                 PROVE  Resting
      BY <2>3 DEF HomeTypes
    <3>1. mode # "decode"
      BY DEF DecodersSafe, DecoderInv
    <3>2. CASE Toggle
      <4>1. todo' = StopAll
        BY <3>2 DEF Toggle, Handler
      <4>2. todo' \in {<<"stopAudio", "closeCamera">>, <<"closeCamera">>}
        BY <3>1, <4>1, HandlerLists
      <4> QED
        BY <4>2 DEF ClosesCamera, ClosesNext
    <3>3. CASE OnPause
      <4>1. todo' = PauseList
        BY <3>1, <3>3, Zenon DEF OnPause, Handler, PauseList
      <4>2. todo' \in {<<"stopAudio", "forgetAudio", "closeCamera", "forgetCamera">>,
                       <<"closeCamera", "forgetCamera">>}
        BY <4>1, HandlerLists
      <4> QED
        BY <4>2 DEF ClosesCamera, ClosesNext
    <3> QED
      BY <1>1, <3>2, <3>3 DEF UserEvent, OnResume, SurfaceCreated, SurfaceDestroyed
  <2>7. Resting => Resting'
    BY <2>1 DEF Resting, cameraVars, serviceVars
  <2>8. \/ Resting' \/ Awaiting' \/ (Open /\ permits = 1)'
    BY <2>1, <2>2 DEF CameraInv, Resting, Awaiting, Open, cameraVars, serviceVars
  <2> QED
    BY <2>1, <2>3, <2>4, <2>5, <2>6, <2>7, <2>8 DEF CameraInv, cameraVars
<1>2. CASE UseNewCamera
  BY <1>2 DEF UseNewCamera, Renew, CameraSafe, CameraInv, Resting
<1>3. CASE CallCamera
  <2> SUFFICES ASSUME Orderly' PROVE CameraInv'
    BY DEF CameraSafe
  <2>1. ~hasty /\ ~faulted /\ base = "this" /\ base' \in {"this", "new"}
    BY <1>3 DEF CallCamera, StartCamera, ClearSurface, histories, Orderly,
                MayRenewSurface
  <2>2. CameraInv
    BY <2>1 DEF CameraSafe, Orderly
  <2>3. CASE Step("startCamera") /\ StartCamera
    <3>1. started /\ started' = started /\ todo \in StartsCamera
          /\ todo' \notin StartsCamera
      BY <2>3, StepFrame DEF PopOf, Order
    <3>2. Resting
      BY <2>2, <3>1 DEF CameraInv
    <3> QED
      BY <2>1, <2>3, <3>1, <3>2 DEF StartCamera, CameraInv, Resting, Awaiting
  <2>4. CASE Step("closeCamera") /\ ClearSurface
    <3>1. todo' \notin StartsCamera
      BY <2>4, StepFrame DEF PopOf
    <3>2. request = "none" /\ request' = "acquire" /\ UNCHANGED <<permits, serviceVars, device>>
      BY <2>4 DEF ClearSurface
    <3> QED
      BY <2>1, <2>2, <3>1, <3>2
         DEF CameraInv, Resting, Awaiting, Open, serviceVars
  <2> QED
    BY <1>3, <2>3, <2>4 DEF CallCamera
<1>4. CASE ForgetCamera
  <2>1. /\ UNCHANGED cameraVars /\ base' = "none" /\ started' = started
        /\ todo = <<"forgetCamera">> /\ todo' = <<>> /\ request = "none"
    BY <1>4, StepFrame DEF ForgetCamera, PopOf
  <2>2. /\ ~started /\ todo \notin ClosesCamera /\ todo' \notin StartsCamera
    BY <2>1 DEF Order, ForgetsCamera, ClosesCamera, ClosesNext, StartsCamera
  <2> SUFFICES ASSUME Orderly' PROVE CameraInv'
    BY DEF CameraSafe
  <2>3. Orderly /\ CameraInv
    BY <2>1 DEF Orderly, CameraSafe, cameraVars, histories
  <2>4. Resting
    BY <2>1, <2>2, <2>3 DEF CameraInv
  <2> QED
    BY <2>1, <2>2, <2>4 DEF CameraInv, Resting, cameraVars, serviceVars
<1>5. CASE ForgetAudio \/ CallDecoders
  <2>1. PICK w \in {"forgetAudio", "compose", "startDecoders", "stopDecoders"} : Step(w)
    BY <1>5 DEF ForgetAudio, CallDecoders
  <2>2. PopOf(todo) /\ Head(todo) = w /\ todo' = Tail(todo) /\ started' = started
    BY <2>1, StepFrame
  <2>3. /\ todo' \in ClosesCamera <=> todo \in ClosesCamera
        /\ todo' \notin StartsCamera
    BY <2>2 DEF PopOf
  <2>4. UNCHANGED cameraVars /\ base' = base
    BY <1>5 DEF ForgetAudio, CallDecoders
  <2> QED
    BY <2>2, <2>3, <2>4, StillCamera
<1>6. CASE CallAudio
  <2>1. PICK w \in {"startAudio", "stopAudio"} : Step(w)
    BY <1>6 DEF CallAudio
  <2>5. PopOf(todo) /\ Head(todo) = w /\ todo' = Tail(todo) /\ started' = started
    BY <2>1, StepFrame
  <2>2. /\ todo' \in ClosesCamera <=> todo \in ClosesCamera
        /\ todo' \notin StartsCamera /\ started' = started /\ base' = base
    BY <1>6, <2>5 DEF PopOf, CallAudio
  <2>3. UNCHANGED <<request, permits, serviceVars, device, histories>>
    BY <1>6 DEF CallAudio
  <2> SUFFICES ASSUME Orderly' PROVE CameraInv'
    BY DEF CameraSafe
  <2>4. CameraInv
    BY <2>3 DEF CameraSafe, Orderly, histories
  <2> QED
    BY <2>2, <2>3, <2>4 DEF CameraInv, Resting, Unstarted, Awaiting, Open, Closed,
                            serviceVars
<1> QED
  BY <1>1, <1>2, <1>3, <1>4, <1>5, <1>6


LEMMA SteadyCamera ==
  ASSUME CameraSafe, UNCHANGED cameraVars, UNCHANGED <<started, base, todo>>
  PROVE  CameraSafe'
BY DEF CameraSafe, Orderly, CameraInv, cameraVars, serviceVars, histories,
       Resting, Unstarted, Awaiting, Open, Closed

LEMMA SteadyDecoders ==
  ASSUME DecodersSafe, UNCHANGED composerVars, UNCHANGED homeVars
  PROVE  DecodersSafe'
BY DEF DecodersSafe, DecoderTypes, DecoderInv, Quiet, composerVars, threadVars,
       homeVars

LEMMA InvParts ==
  /\ HomeInv <=> HomeTypes /\ Order /\ AudioSafe /\ CameraSafe /\ DecodersSafe
  /\ HomeInv' <=> (HomeTypes /\ Order /\ AudioSafe /\ CameraSafe /\ DecodersSafe)'
BY DEF HomeInv, AudioSafe, CameraSafe, DecodersSafe

-----------------------------------------------------------------------------
LEMMA DisplayKeepsInv ==
  ASSUME HomeInv, ~Crashed,
         UserEvent \/ UseNewCamera \/ CallCamera \/ ForgetCamera \/ CallAudio
         \/ ForgetAudio \/ CallDecoders
  PROVE  HomeInv'
<1>1. HomeTypes /\ Order /\ AudioSafe /\ CameraSafe /\ DecodersSafe
  BY InvParts
<1>2. ~thrown /\ ~wrecked
  BY DEF Crashed
<1>3. HomeTypes' /\ Order'
  BY <1>1, EventKeepsOrder, CallKeepsOrder DEF CallStep, AudioSafe
<1>4. CameraSafe'
  BY <1>1, <1>2, DisplayKeepsCamera
<1>5. DecodersSafe'
  BY <1>1, <1>2, DisplayKeepsDecoders
<1>6. AudioSafe'
  <2>1. CASE UserEvent
    BY <1>1, <2>1, EventFrame, StillAudio
  <2>2. CASE UseNewCamera \/ CallCamera \/ ForgetCamera \/ ForgetAudio \/ CallDecoders
    BY <1>1, <2>2, StillAudio
       DEF UseNewCamera, CallCamera, ForgetCamera, ForgetAudio, CallDecoders
  <2>3. CASE CallAudio
    <3>1. CASE Step("startAudio") /\ FindDevice
      <4>1. todo \in StartsAudio
        BY <1>1, <3>1, StepFrame DEF PopOf
      <4> QED
        BY <1>1, <3>1, <4>1, StartKeepsAudio DEF Order
    <3>2. CASE StopAudio
      BY <1>1, <3>2, StopKeepsAudio
    <3>3. CASE UNCHANGED audioVars
      BY <1>1, <3>3, StillAudio
    <3> QED
      BY <2>3, <3>1, <3>2, <3>3 DEF CallAudio
  <2> QED
    BY <2>1, <2>2, <2>3
<1> QED
  BY <1>3, <1>4, <1>5, <1>6, InvParts

LEMMA ThreadsKeepInv ==
  ASSUME HomeInv, ~Crashed,
         \/ Closing /\ UNCHANGED <<audioVars, composerVars, homeVars>>
         \/ AudioCaller /\ UNCHANGED <<cameraVars, composerVars, homeVars>>
         \/ DecoderCaller /\ UNCHANGED <<cameraVars, audioVars, homeVars>>
         \/ \E i \in Inputs : OnFrameAvailable(i)
         \/ InCamera(Callbacks) \/ InCamera(Service)
         \/ InAudio(RecordThread) \/ InAudio(PlaybackThread)
         \/ InDecoders(CompositionThread)
         \/ \E i \in Inputs : InDecoders(DecoderThread(i))
  PROVE  HomeInv'
<1>1. HomeTypes /\ Order /\ AudioSafe /\ CameraSafe /\ DecodersSafe
  BY InvParts
<1>2. ~thrown /\ ~wrecked
  BY DEF Crashed
<1>3. HomeTypes' /\ Order'
  BY <1>1, CallKeepsOrder, ThreadsKeepOrder DEF CallStep, AudioSafe
<1>4. CASE /\ Closing \/ Callbacks \/ Service
           /\ UNCHANGED <<audioVars, composerVars, homeVars>>
  BY <1>1, <1>2, <1>3, <1>4, StillAudio, SteadyDecoders, CameraKeepsSafe, InvParts
<1>5. CASE /\ AudioCaller \/ RecordThread \/ PlaybackThread
           /\ UNCHANGED <<cameraVars, composerVars, homeVars>>
  <2>1. AudioSafe'
    BY <1>1, <1>5, CallerKeepsAudio, ThreadsKeepAudio
  <2>2. UNCHANGED <<started, base, todo>>
    BY <1>5 DEF homeVars
  <2> QED
    BY <1>1, <1>3, <1>5, <2>1, <2>2, SteadyCamera, SteadyDecoders, InvParts
<1>6. CASE /\ \/ DecoderCaller \/ CompositionThread
              \/ \E i \in Inputs : DecoderThread(i)
           /\ UNCHANGED <<cameraVars, audioVars, homeVars>>
  <2>1. DecodersSafe'
    BY <1>1, <1>2, <1>6, DecodersKeepSafe
  <2>2. UNCHANGED <<started, base, todo>>
    BY <1>6 DEF homeVars
  <2> QED
    BY <1>1, <1>3, <1>6, <2>1, <2>2, SteadyCamera, StillAudio, InvParts
<1>7. CASE \E i \in Inputs : OnFrameAvailable(i)
  <2>1. UNCHANGED <<cameraVars, audioVars, homeVars>>
    BY <1>7 DEF OnFrameAvailable
  <2>2. UNCHANGED <<started, base, todo>>
    BY <2>1 DEF homeVars
  <2>3. DecodersSafe'
    BY <1>1, <1>2, <1>7, DisplayKeepsDecoders
  <2> QED
    BY <1>1, <1>3, <2>1, <2>2, <2>3, SteadyCamera, StillAudio, InvParts
<1> QED
  BY <1>4, <1>5, <1>6, <1>7 DEF InCamera, InAudio, InDecoders

LEMMA HomeNextKeepsInv == HomeInv /\ [HomeNext]_allVars => HomeInv'
<1> SUFFICES ASSUME HomeInv, [HomeNext]_allVars PROVE HomeInv'
  OBVIOUS
<1>1. CASE UNCHANGED allVars
  <2>1. UNCHANGED <<cameraVars, audioVars, composerVars, homeVars>>
    BY <1>1 DEF allVars
  <2>2. UNCHANGED <<started, base, todo, mode, hasAudio, hdmi, asked, request>>
    BY <2>1 DEF homeVars, audioVars, cameraVars
  <2>3. HomeTypes' /\ Order'
    BY <2>2, InvParts DEF HomeTypes, Order
  <2> QED
    BY <2>1, <2>2, <2>3, StillAudio, SteadyCamera, SteadyDecoders, InvParts
<1>2. CASE ~Crashed /\ (UserEvent \/ CallStep)
  BY <1>2, DisplayKeepsInv, ThreadsKeepInv DEF CallStep
<1>3. CASE \/ ~Crashed /\ \E i \in Inputs : OnFrameAvailable(i)
           \/ InCamera(Callbacks) \/ InCamera(Service)
           \/ InAudio(RecordThread) \/ InAudio(PlaybackThread)
           \/ InDecoders(CompositionThread)
           \/ \E i \in Inputs : InDecoders(DecoderThread(i))
  <2>1. ~Crashed
    BY <1>3 DEF InCamera, InAudio, InDecoders
  <2> QED
    BY <1>3, <2>1, ThreadsKeepInv
<1> QED
  BY <1>1, <1>2, <1>3 DEF HomeNext

LEMMA HomeInvariance == HomeSpec => []HomeInv
BY HomeInitInv, HomeNextKeepsInv, PTL DEF HomeSpec

-----------------------------------------------------------------------------
LEMMA TardyCounted ==
  tardy \in SUBSET Roles => Cardinality(tardy) = Late("record") + Late("playback")
<1> SUFFICES ASSUME tardy \in SUBSET Roles
             PROVE  Cardinality(tardy) = Late("record") + Late("playback")
  OBVIOUS
<1>1. CASE tardy = {}
  BY <1>1, FS_EmptySet DEF Late
<1> DEFINE Alone(r) == IsFiniteSet({r}) /\ Cardinality({r}) = 1
<1>0. Alone("record") /\ Alone("playback")
  BY FS_Singleton
<1>2. CASE tardy = {"record"}
  BY <1>2, <1>0 DEF Late
<1>3. CASE tardy = {"playback"}
  BY <1>3, <1>0 DEF Late
<1>4. CASE tardy = {"record", "playback"}
  <2>1. tardy = {"record"} \cup {"playback"} /\ "playback" \notin {"record"}
    BY <1>4
  <2>3. Cardinality({"record"} \cup {"playback"}) = 2
    BY <2>1, <1>0, FS_AddElement
  <2> QED
    BY <1>4, <2>1, <2>3 DEF Late
<1> QED
  BY <1>1, <1>2, <1>3, <1>4 DEF Roles

\* Whatever user, threads, camera and service do, no thread of the HDMI sound
\* reads or writes after its release, and no more threads begin behind the back
\* of stop() than rounds have ended before it (HDMIinAudioPlayback.java:126-175).
THEOREM ThreadsAreWaitedFor == HomeSpec => []StopWaitsForThreads
<1>1. HomeInv => StopWaitsForThreads
  <2> SUFFICES ASSUME HomeInv PROVE StopWaitsForThreads
    OBVIOUS
  <2>1. AudioTypes /\ Tickets /\ Rounds
    BY DEF HomeInv
  <2>2. \A r \in Roles : at[r] = "use" => sound[r]
    <3> SUFFICES ASSUME NEW r \in Roles, at[r] = "use" PROVE sound[r]
      OBVIOUS
    <3>1. sound[r] <=> hdmi \/ asked # "none"
      BY <2>1 DEF Rounds
    <3> QED
      BY <2>1, <3>1 DEF Rounds
  <2>3. Late("record") + Late("playback") <= rounds
    <3>1. CASE Joining
      BY <2>1, <3>1 DEF Tickets, AudioTypes, Unborn, Late
    <3>2. CASE ~Joining
      BY <2>1, <3>2 DEF Rounds, AudioTypes, Late
    <3> QED
      BY <3>1, <3>2
  <2>4. Cardinality(tardy) <= rounds
    BY <2>1, <2>3, TardyCounted DEF AudioTypes
  <2> QED
    BY <2>2, <2>4 DEF StopWaitsForThreads
<1> QED
  BY <1>1, HomeInvariance, PTL

\* Once the button says Start again and its handler has returned, camera, sound
\* and decoders are at rest, but for what the service or a close in the midst of
\* onOpened may leave (CameraBase.java:170-209, HomeFragment.java).
THEOREM OffIsOff == HomeSpec => []OffMeansOff
<1>1. HomeInv => OffMeansOff
  <2> SUFFICES ASSUME HomeInv, Idle, ~started, ~Crashed
               PROVE  /\ ~hasty /\ ~faulted => camera = "closed" /\ background = "none"
                      /\ \A r \in Roles : at[r] = "ended" /\ ~sound[r]
                      /\ \A i \in Inputs : decoder[i] \in {"none", "ended"}
    BY DEF OffMeansOff
  <2>1. /\ todo = <<>> /\ request = "none" /\ asked = "none" /\ stage = "none"
        /\ ~thrown /\ ~wrecked
    BY DEF Idle, Returned, Crashed
  <2>2. todo \notin ClosesCamera \cup StopsAudio /\ todo # <<"stopDecoders">>
    BY <2>1, ListsApart DEF OfDecoders
  <2>3. ~hasty /\ ~faulted => camera = "closed" /\ background = "none"
    BY <2>1, <2>2 DEF HomeInv, Orderly, CameraInv, Resting
  <2>4. ~hdmi
    BY <2>2 DEF HomeInv, Order
  <2>5. \A r \in Roles : at[r] = "ended" /\ ~sound[r]
    BY <2>1, <2>4 DEF HomeInv, Rounds
  <2>6. \A i \in Inputs : decoder[i] \in {"none", "ended"}
    BY <2>1, <2>2 DEF HomeInv, DecoderInv, Quiet
  <2> QED
    BY <2>3, <2>5, <2>6
<1> QED
  BY <1>1, HomeInvariance, PTL

-----------------------------------------------------------------------------
(* Why a handler of the display goes on.                                    *)

\* mCameraOpenCloseLock has a permit, or somebody owes it one; callbacks that
\* are due find a thread to run them.
PermitComes ==
  \/ refused \/ permits > 0
  \/ camera = "opening" /\ background = "alive"
  \/ {"onOpened", "onError", "onClosed"} \cap due # {}
CameraOn ==
  /\ request \in {"none", "acquire", "shut", "await", "join"}
  /\ permits \in Nat
  /\ looper \in {"idle", "opened", "create"}
  /\ due \subseteq {"onOpened", "onError", "onClosed", "onConfigured"}
  /\ request \in {"none", "acquire"} => PermitComes
  /\ request = "join" => permits > 0 /\ background # "none"
  /\ background = "none" => /\ looper = "idle"
                            /\ request # "await" => due = {}

\* While stop() joins, the flags of the threads are cleared but for late ones.
Cleared ==
  Joining => \A r \in Roles : at[r] # "new" /\ r \notin tardy => ~looping[r]

\* The thread a constructor waits for has yet to be ready, the decoder stop()
\* joins is there and was told, and frames come of decoders that were composed.
DecodersOn ==
  /\ input \in Inputs
  /\ counted \in [Inputs -> 0..Limit]
  /\ playing \in [Inputs -> BOOLEAN]
  /\ stage \in {"started", "wait"} /\ ~lost => composer = "setup"
  /\ stage = "join" => /\ decoder[turn] # "none"
                       /\ decoder[turn] = "run" /\ playing[turn] => turn \in overdue
  /\ composer = "none" => stage # "notify" /\ \A i \in Inputs : posted[i] = 0

BaseThere == todo \in ClosesCamera => base # "none"

\* What the parts keep as long as nothing is thrown.
KeptOn ==
  /\ ~thrown => CameraOn
  /\ Cleared
  /\ ~wrecked => DecodersOn
  /\ BaseThere

LEMMA KeptOnFromStart == HomeInit => KeptOn
<1> SUFFICES ASSUME HomeInit PROVE KeptOn
  OBVIOUS
<1>1. CameraOn
  BY DEF HomeInit, CameraInit, NewCameraBase, CameraOn, PermitComes
<1>2. Cleared
  BY DEF HomeInit, AudioInit, Cleared, Joining
<1>3. DecodersOn
  <2>1. playing \in [Inputs -> BOOLEAN] /\ counted \in [Inputs -> {0}]
    BY Zenon DEF HomeInit, ComposerInit
  <2>2. counted \in [Inputs -> 0..Limit]
    BY <2>1, ComposerAssumption
  <2> QED
    BY <2>1, <2>2, ComposerAssumption DEF HomeInit, ComposerInit, DecodersOn, Inputs
<1>4. BaseThere
  BY ListsApart DEF HomeInit, BaseThere
<1> QED
  BY <1>1, <1>2, <1>3, <1>4 DEF KeptOn

LEMMA CameraStaysOn ==
  ASSUME CameraOn, ~thrown, Closing \/ Callbacks \/ Service, ~thrown'
  PROVE  CameraOn'
<1> USE DEF CameraOn, PermitComes, serviceVars, histories
<1>1. CASE AcquireClose
  BY <1>1 DEF AcquireClose
<1>2. CASE CloseDevice
  BY <1>2 DEF CloseDevice, Shut
<1>3. CASE ClosedInTime
  BY <1>3 DEF ClosedInTime, QuitBackground
<1>4. CASE ClosedTooLate
  <2>1. /\ permits' = 1 /\ request' = "join" /\ UNCHANGED <<looper, due>>
        /\ background' = "quitting"
    BY <1>4 DEF ClosedTooLate, QuitBackground
  <2> QED
    BY <2>1
<1>5. CASE JoinBackground
  BY <1>5 DEF JoinBackground
<1>6. CASE OnOpened
  BY <1>6 DEF OnOpened, Calling
<1>7. CASE SetDevice
  BY <1>7 DEF SetDevice
<1>8. CASE CreateSession
  BY <1>8 DEF CreateSession
<1>9. CASE OnConfigured
  BY <1>9 DEF OnConfigured, Calling
<1>10. CASE OnError
  BY <1>10 DEF OnError, Calling, Shut
<1>11. CASE OnClosed
  BY <1>11 DEF OnClosed, Calling
<1>12. CASE CameraOpens
  BY <1>12 DEF CameraOpens, Post
<1>13. CASE CameraFails
  BY <1>13 DEF CameraFails, Post
<1> QED
  BY <1>1, <1>2, <1>3, <1>4, <1>5, <1>6, <1>7, <1>8, <1>9, <1>10, <1>11,
     <1>12, <1>13 DEF Closing, Callbacks, Service

LEMMA AudioStaysCleared ==
  ASSUME AudioTypes, Cleared,
         \/ FindDevice \/ StopAudio \/ AudioCaller
         \/ RecordThread \/ PlaybackThread \/ UNCHANGED audioVars
  PROVE  Cleared'
<1> USE DEF Cleared, Joining
<1>1. CASE FindDevice \/ StopAudio
  BY <1>1 DEF FindDevice, StopAudio
<1>2. CASE LaunchThreads \/ ReleaseSound \/ JoinPlayback
  BY <1>2 DEF LaunchThreads, ReleaseSound, JoinPlayback, JoinThread
<1>3. CASE ClearFlags
  BY <1>3 DEF ClearFlags
<1>4. CASE JoinRecord \/ UNCHANGED audioVars
  <2>1. UNCHANGED <<at, looping, tardy>> /\ (Joining' => Joining)
    BY <1>4 DEF JoinRecord, JoinThread, audioVars
  <2> QED
    BY <2>1
<1>5. ASSUME NEW q \in Roles, BeginThread(q) PROVE Cleared'
  BY <1>5 DEF BeginThread, AudioTypes
<1>6. CASE TestRecord \/ ReadAudioData \/ TakeData \/ WriteAudioData \/ EndPlayback
  <2>1. /\ UNCHANGED <<asked, looping, tardy>>
        /\ \E q \in Roles : /\ at[q] # "new"
                            /\ \A r \in Roles \ {q} : at'[r] = at[r]
    BY <1>6 DEF TestRecord, ReadAudioData, TakeData, WriteAudioData, EndPlayback,
                AudioTypes, Roles
  <2> QED
    BY <2>1
<1> QED
  BY <1>1, <1>2, <1>3, <1>4, <1>5, <1>6
     DEF AudioCaller, RecordThread, PlaybackThread, Roles

LEMMA DecodersStayOn ==
  ASSUME DecoderTypes, DecoderInv, DecodersOn, ~wrecked, ~wrecked',
         \/ Construct \/ Enter("start", 1) \/ Enter("stop", 1) \/ DecoderCaller
         \/ CompositionThread \/ \E i \in Inputs : DecoderThread(i)
         \/ \E i \in Inputs : OnFrameAvailable(i)
         \/ UNCHANGED composerVars
  PROVE  DecodersOn'
<1> USE DEF DecodersOn, DecoderTypes, frameVars, threadVars
<1>0. Instances \in Nat \ {0} /\ Inputs = 1..Instances
  BY ComposerAssumption DEF Inputs
<1>1. CASE Construct \/ WaitForSetup
  BY <1>1 DEF Construct, WaitForSetup
<1>2. CASE Enter("start", 1) \/ Enter("stop", 1)
  BY <1>2 DEF Enter
<1>3. CASE StartDecoder
  <2>1. stage' \in {"none", "start"}
        /\ UNCHANGED <<frameVars, composer, input, playing, lost>>
    BY <1>3 DEF StartDecoder, Further
  <2> QED
    BY <2>1
<1>4. CASE StopDecoder
  BY <1>4 DEF StopDecoder
<1>5. CASE JoinDecoder
  <2>1. stage' \in {"none", "stop"} /\ UNCHANGED <<frameVars, threadVars, lost>>
    BY <1>5 DEF JoinDecoder, Further
  <2> QED
    BY <2>1
<1>6. CASE NotifyFrame
  <2>1. counted[turn] \in 0..Limit /\ counted[turn] < Limit /\ Limit \in Nat
    BY <1>6, ComposerAssumption DEF NotifyFrame
  <2>2. counted[turn] + 1 \in 0..Limit
    BY <2>1
  <2>3. counted' \in [Inputs -> 0..Limit]
    BY <1>6, <2>2 DEF NotifyFrame
  <2>4. stage' = "none" /\ UNCHANGED <<posted, threadVars>>
    BY <1>6 DEF NotifyFrame
  <2> QED
    BY <2>3, <2>4
<1>7. CASE FinishSetup
  BY <1>7 DEF FinishSetup
<1>8. CASE AwaitFrame
  <2>1. input' \in Inputs
    BY <1>0, <1>8 DEF AwaitFrame
  <2>2. counted' \in [Inputs -> 0..Limit]
    BY <1>8, ComposerAssumption DEF AwaitFrame
  <2>3. composer = "await" /\ UNCHANGED <<stage, turn, composer, decoder, playing,
                                          lost, overdue>>
    BY <1>8 DEF AwaitFrame
  <2> QED
    BY <2>1, <2>2, <2>3
<1>9. ASSUME NEW i \in Inputs, DecoderThread(i) PROVE DecodersOn'
  <2>1. composer # "none"
    BY <1>9 DEF DecoderThread, RunDecoder, RenderFrame, EndDecoder, DecoderInv
  <2>2. CASE RunDecoder(i)
    BY <2>1, <2>2 DEF RunDecoder
  <2>3. CASE RenderFrame(i)
    BY <2>1, <2>3 DEF RenderFrame
  <2>4. CASE EndDecoder(i)
    BY <2>1, <2>4 DEF EndDecoder
  <2> QED
    BY <1>9, <2>2, <2>3, <2>4 DEF DecoderThread
<1>10. ASSUME NEW i \in Inputs, OnFrameAvailable(i) PROVE DecodersOn'
  <2>1. composer # "none" /\ stage' = "notify"
        /\ UNCHANGED <<counted, input, playing, composer>>
    BY <1>10 DEF OnFrameAvailable
  <2> QED
    BY <2>1
<1>11. CASE UNCHANGED composerVars
  <2>1. UNCHANGED <<stage, turn, counted, posted, composer, input, decoder, playing,
                    lost, overdue>>
    BY <1>11 DEF composerVars
  <2> QED
    BY <2>1, Zenon
<1> QED
  BY <1>1, <1>2, <1>3, <1>4, <1>5, <1>6, <1>7, <1>8, <1>9, <1>10, <1>11
     DEF DecoderCaller, CompositionThread

LEMMA BaseStaysThere ==
  ASSUME HomeTypes, BaseThere, ~Crashed, HomeNext PROVE BaseThere'
<1> USE DEF BaseThere
<1>1. CASE UserEvent
  <2>1. base' = base \/ base' = "new"
    BY <1>1 DEF UserEvent, Toggle, OnPause, OnResume, SurfaceCreated, SurfaceDestroyed
  <2>2. CASE base = "none"
    <3>1. todo' \in {<<>>, <<"compose">>, <<"startDecoders">>, <<"stopDecoders">>,
                     <<"stopAudio", "forgetAudio">>}
      <4>1. todo' \in {<<>>, <<"compose">>} \cup {StopAll, StartAll, PauseList}
        BY <1>1, Zenon
           DEF UserEvent, Toggle, OnPause, OnResume, SurfaceCreated,
               SurfaceDestroyed, Handler, PauseList
      <4> QED
        BY <2>2, <4>1, HandlerLists
    <3> QED
      BY <3>1 DEF ClosesCamera, ClosesNext
  <2> QED
    BY <2>1, <2>2
<1>2. ASSUME NEW w, Step(w), base' # "none" \/ base' = base PROVE BaseThere'
  <2>1. todo' \in ClosesCamera => todo \in ClosesCamera
    <3>3. PopOf(todo) /\ Head(todo) = w /\ todo' = Tail(todo)
      BY <1>2, StepFrame
    <3>1. w # "closeCamera" => (todo' \in ClosesCamera <=> todo \in ClosesCamera)
      BY <3>3, Zenon DEF PopOf
    <3>2. w = "closeCamera" => todo' \in {<<>>, <<"forgetCamera">>}
      BY <1>2, StepFrame DEF PopOf
    <3> QED
      BY <3>1, <3>2 DEF ClosesCamera, ClosesNext
  <2> QED
    BY <1>2, <2>1
<1>3. CASE UseNewCamera
  BY <1>3 DEF UseNewCamera
<1>4. CASE CallCamera
  <2>1. base' # "none"
    BY <1>4 DEF CallCamera, MayRenewSurface
  <2> QED
    BY <1>2, <1>4, <2>1 DEF CallCamera
<1>5. CASE ForgetCamera
  <2>1. todo' = <<>>
    BY <1>5, StepFrame DEF ForgetCamera, PopOf
  <2> QED
    BY <2>1, ListsApart
<1>6. CASE CallAudio \/ ForgetAudio \/ CallDecoders
  BY <1>2, <1>6 DEF CallAudio, ForgetAudio, CallDecoders
<1>7. CASE UNCHANGED homeVars
  BY <1>7 DEF homeVars
<1> QED
  BY <1>1, <1>3, <1>4, <1>5, <1>6, <1>7
     DEF HomeNext, CallStep, InCamera, InAudio, InDecoders, OnFrameAvailable

LEMMA DisplayKeepsOn ==
  ASSUME HomeInv, KeptOn, ~Crashed, HomeNext PROVE KeptOn'
<1>1. HomeTypes /\ AudioTypes /\ DecoderTypes /\ DecoderInv /\ ~thrown /\ ~wrecked
      /\ CameraOn /\ Cleared /\ DecodersOn /\ BaseThere
  BY DEF HomeInv, KeptOn, Crashed
<1>2. BaseThere'
  BY <1>1, BaseStaysThere
<1>3. ~thrown' => CameraOn'
  <2>1. CASE UNCHANGED <<request, permits, serviceVars, refused>>
    BY <1>1, <2>1 DEF CameraOn, PermitComes, serviceVars
  <2>2. CASE Renew
    BY <1>1, <2>2 DEF Renew, CameraOn, PermitComes
  <2>3. CASE StartCamera
    BY <1>1, <2>3 DEF StartCamera, CameraOn, PermitComes
  <2>4. CASE ClearSurface
    BY <1>1, <2>4 DEF ClearSurface, CameraOn, PermitComes, serviceVars, histories
  <2>5. CASE Closing \/ Callbacks \/ Service
    BY <1>1, <2>5, CameraStaysOn
  <2>6. \/ UNCHANGED <<request, permits, serviceVars, refused>>
        \/ Renew \/ StartCamera \/ ClearSurface \/ Closing \/ Callbacks \/ Service
    <3>1. CASE UserEvent
      BY <3>1, EventFrame DEF cameraVars, histories
    <3>2. CASE CallStep
      BY <3>2 DEF CallStep, UseNewCamera, CallCamera, ForgetCamera, CallAudio,
                  ForgetAudio, CallDecoders, cameraVars, histories
    <3> QED
      BY <3>1, <3>2 DEF HomeNext, InCamera, InAudio, InDecoders, OnFrameAvailable,
                        cameraVars, histories
  <2> QED
    BY <2>1, <2>2, <2>3, <2>4, <2>5, <2>6
<1>4. Cleared'
  <2>1. \/ FindDevice \/ StopAudio \/ AudioCaller
        \/ RecordThread \/ PlaybackThread \/ UNCHANGED audioVars
    <3>1. CASE UserEvent
      BY <3>1, EventFrame
    <3>2. CASE CallStep
      BY <3>2 DEF CallStep, UseNewCamera, CallCamera, ForgetCamera, CallAudio,
                  ForgetAudio, CallDecoders
    <3> QED
      BY <3>1, <3>2 DEF HomeNext, InCamera, InAudio, InDecoders, OnFrameAvailable
  <2> QED
    BY <1>1, <2>1, AudioStaysCleared
<1>5. ~wrecked' => DecodersOn'
  <2>1. \/ Construct \/ Enter("start", 1) \/ Enter("stop", 1) \/ DecoderCaller
        \/ CompositionThread \/ \E i \in Inputs : DecoderThread(i)
        \/ \E i \in Inputs : OnFrameAvailable(i)
        \/ UNCHANGED composerVars
    <3>1. CASE UserEvent
      BY <3>1, EventFrame
    <3>2. CASE CallStep
      BY <3>2 DEF CallStep, UseNewCamera, CallCamera, ForgetCamera, CallAudio,
                  ForgetAudio, CallDecoders
    <3> QED
      BY <3>1, <3>2 DEF HomeNext, InCamera, InAudio, InDecoders
  <2> QED
    BY <1>1, <2>1, DecodersStayOn
<1> QED
  BY <1>2, <1>3, <1>4, <1>5 DEF KeptOn

LEMMA KeptOnInvariance == HomeSpec => [](HomeInv /\ KeptOn)
<1>1. HomeInv /\ KeptOn /\ [HomeNext]_allVars => (HomeInv /\ KeptOn)'
  <2> SUFFICES ASSUME HomeInv, KeptOn, [HomeNext]_allVars PROVE KeptOn'
    BY HomeNextKeepsInv
  <2>1. CASE HomeNext
    <3>1. ~Crashed
      BY <2>1 DEF HomeNext, InCamera, InAudio, InDecoders
    <3> QED
      BY <2>1, <3>1, DisplayKeepsOn
  <2>2. CASE UNCHANGED allVars
    <3>1. UNCHANGED <<request, permits, background, looper, due, camera, thrown,
                      refused, asked, at, looping, tardy, stage, turn, counted,
                      posted, composer, input, decoder, playing, wrecked, lost,
                      overdue, todo, base>>
      BY <2>2 DEF allVars, cameraVars, serviceVars, histories, audioVars,
                  composerVars, frameVars, threadVars, homeVars
    <3> QED
      BY <3>1, Zenon DEF KeptOn, CameraOn, PermitComes, Cleared, Joining, DecodersOn,
                         BaseThere
  <2> QED
    BY <2>1, <2>2
<1> QED
  BY <1>1, HomeInitInv, KeptOnFromStart, PTL DEF HomeSpec

\* Whether each thread has a step: the callbacks' thread, those of the sound, the
\* composition's, the decoders', and the user interface's in a call.
CallbackDue == looper # "idle" \/ (background # "none" /\ due # {})
SoundWorks(r) == \/ at[r] \in {"new", "use"}
                 \/ at[r] = "test" /\ (r = "record" \/ ~looping[r] \/ queued > 0)
ComposerWorks == \/ composer = "setup"
                 \/ composer = "await" /\ counted[input] > 0
DecoderWorks(i) == \/ decoder[i] = "new"
                   \/ decoder[i] = "run" /\ (playing[i] => unconsumed[i] < Capacity)
CallerWorks ==
  /\ request = "acquire" => permits > 0
  /\ request = "join" => looper = "idle" /\ due = {}
  /\ asked \in {"launch", "acquire"} => tickets >= 2
  /\ asked = "joinRecord" => at["record"] = "ended"
  /\ asked = "joinPlayback" => at["playback"] = "ended"
  /\ stage # "wait"
  /\ stage = "join" => decoder[turn] = "ended"
  /\ stage = "notify" => counted[turn] < Limit
  /\ Returned => /\ todo # <<>>
                 /\ Head(todo) \in {"startCamera", "closeCamera"} => base # "none"

\* A handler goes on itself or waits for a thread, or the service, that can.
HandlersGoOn ==
  ~Idle /\ ~Crashed /\ ~Hung =>
    \/ CallerWorks
    \/ /\ request \in {"acquire", "join"}
       /\ CallbackDue \/ (camera = "opening" /\ background = "alive")
    \/ asked = "acquire" /\ \E r \in Roles : at[r] = "new"
    \/ asked = "joinRecord" /\ SoundWorks("record")
    \/ asked = "joinPlayback" /\ SoundWorks("playback")
    \/ stage = "wait" /\ composer = "setup"
    \/ stage = "join" /\ DecoderWorks(turn)
    \/ stage = "notify" /\ ComposerWorks

(* Why a handler returns: but for the places the property names, and unless *)
(* the application ends, the user interface's thread never waits for a      *)
(* thread that waits too (CameraBase.java:170-209, HDMIinAudioPlayback.java:*)
(* 120-190, MediaCodecDecoder.java:101-130, VideoComposer.java:451-455).    *)
THEOREM HandlersAreNotStuck == HomeSpec => []HandlersGoOn
<1>1. HomeInv /\ KeptOn => HandlersGoOn
  <2> SUFFICES ASSUME HomeInv, KeptOn, ~Idle, ~Crashed, ~Hung, ~CallerWorks
               PROVE  HandlersGoOn
    BY DEF HandlersGoOn
  <2>1. /\ HomeTypes /\ AudioTypes /\ DecoderTypes /\ Order /\ Tickets /\ Rounds
        /\ DecoderInv /\ CameraOn /\ Cleared /\ DecodersOn /\ BaseThere
    BY DEF HomeInv, KeptOn, Crashed
  <2>2. CASE request = "acquire" /\ permits = 0
    <3>1. ~refused
      BY <2>2 DEF Hung
    <3>2. CallbackDue \/ (camera = "opening" /\ background = "alive")
      BY <2>1, <2>2, <3>1 DEF CameraOn, PermitComes, CallbackDue
    <3> QED
      BY <2>2, <3>2 DEF HandlersGoOn
  <2>3. CASE request = "join" /\ ~(looper = "idle" /\ due = {})
    BY <2>1, <2>3 DEF CameraOn, CallbackDue, HandlersGoOn
  <2>4. CASE asked = "launch" /\ tickets < 2
    BY <2>1, <2>4 DEF Rounds, Tickets, Unborn, AudioTypes, Roles
  <2>5. CASE asked = "acquire" /\ tickets < 2
    <3>1. at["record"] = "new" \/ at["playback"] = "new"
      BY <2>1, <2>5 DEF Tickets, Unborn, AudioTypes
    <3> QED
      BY <2>5, <3>1 DEF HandlersGoOn, Roles
  <2>6. CASE asked = "joinRecord" /\ at["record"] # "ended"
    BY <2>1, <2>6 DEF AudioTypes, SoundWorks, HandlersGoOn, Roles
  <2>7. CASE asked = "joinPlayback" /\ at["playback"] # "ended"
    <3>1. tardy = {}
      BY <2>7 DEF Hung
    <3> QED
      BY <2>1, <2>7, <3>1 DEF Cleared, Joining, AudioTypes, SoundWorks, HandlersGoOn,
                              Roles
  <2>8. CASE stage = "wait"
    <3>1. ~lost
      BY <2>8 DEF Hung
    <3> QED
      BY <2>1, <2>8, <3>1 DEF DecodersOn, HandlersGoOn
  <2>9. CASE stage = "join" /\ decoder[turn] # "ended"
    <3>1. turn \notin overdue
      BY <2>9 DEF Hung
    <3>2. decoder[turn] \in {"new", "run"} /\ (decoder[turn] = "run" => ~playing[turn])
      BY <2>1, <2>9, <3>1 DEF DecodersOn, DecoderTypes
    <3> QED
      BY <2>9, <3>2 DEF DecoderWorks, HandlersGoOn
  <2>10. CASE stage = "notify" /\ ~(counted[turn] < Limit)
    <3>1. counted[turn] = Limit /\ counted[input] \in Nat /\ Limit \in Nat \ {0}
      BY <2>1, <2>10, ComposerAssumption DEF DecodersOn, DecoderTypes
    <3>2. counted[input] > 0
      BY <2>10, <3>1 DEF Hung
    <3>3. composer \in {"setup", "await"}
      BY <2>1, <2>10 DEF DecodersOn, DecoderTypes
    <3> QED
      BY <2>10, <3>2, <3>3 DEF ComposerWorks, HandlersGoOn
  <2>11. Returned => /\ todo # <<>>
                     /\ Head(todo) \in {"startCamera", "closeCamera"} => base # "none"
    <3> SUFFICES ASSUME Returned
                 PROVE  /\ todo # <<>>
                        /\ Head(todo) \in {"startCamera", "closeCamera"} => base # "none"
      OBVIOUS
    <3>1. todo # <<>>
      BY DEF Idle
    <3>2. PopOf(todo)
      BY <2>1, <3>1, PopLists DEF HomeTypes
    <3>3. Head(todo) = "startCamera" => base # "none"
      BY <2>1, <3>2 DEF PopOf, Order
    <3>4. Head(todo) = "closeCamera" => base # "none"
      BY <2>1, <3>2 DEF PopOf, BaseThere, ClosesCamera
    <3> QED
      BY <3>1, <3>3, <3>4
  <2>12. permits \in Nat /\ tickets \in Nat
    BY <2>1 DEF CameraOn, AudioTypes
  <2> QED
    BY <2>2, <2>3, <2>4, <2>5, <2>6, <2>7, <2>8, <2>9, <2>10, <2>11, <2>12
       DEF CallerWorks
<1> QED
  BY <1>1, KeptOnInvariance, PTL
=============================================================================
