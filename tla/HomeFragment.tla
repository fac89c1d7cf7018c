---------------------------- MODULE HomeFragment ----------------------------
(***************************************************************************)
(* The primary display of the qmedia application (APPS/qmedia, fragments/  *)
(* HomeFragment.java), from the creation of its view on.  Button, onPause, *)
(* onResume and the surface's callbacks run on the user interface's thread *)
(* and call camera, sound and decoders, which have threads of their own.   *)
(*                                                                         *)
(* mode is what the settings ask for: a camera, camera "3" with the sound  *)
(* of the HDMI input, or decoders composed with OpenGL ES.  The recorder   *)
(* of camera "3" is MediaCodecRecorder, the secondary displays are left    *)
(* out.                                                                    *)
(***************************************************************************)
EXTENDS CameraBase, HDMIinAudioPlayback, VideoComposer, Sequences, FiniteSets

Cameras == {"camera", "camera3"}

VARIABLES
  mode,     \* the settings
  resumed,  \* between onResume and onPause
  surface,  \* whether there is one
  started,  \* mPrimaryDisplayStarted
  base,     \* mCameraBase: "none", the object of CameraBase, or a new one
  hasAudio, \* mHDMIinAudioPlayback # null
  todo      \* what the handler on the user interface's thread has yet to do

homeVars == <<mode, resumed, surface, started, base, hasAudio, todo>>
allVars == <<cameraVars, audioVars, composerVars, homeVars>>

HomeTypeOK ==
  /\ CameraTypeOK /\ AudioTypeOK /\ ComposerTypeOK
  /\ mode \in Cameras \cup {"decode"}
  /\ {resumed, surface, started, hasAudio} \subseteq BOOLEAN
  /\ base \in {"none", "this", "new"}

\* After onCreateView and onViewCreated.
HomeInit ==
  /\ CameraInit /\ AudioInit /\ ComposerInit
  /\ mode \in Cameras \cup {"decode"}
  /\ resumed = FALSE /\ surface = FALSE /\ started = FALSE
  /\ base = "none" /\ hasAudio = (mode = "camera3")
  /\ todo = <<>>

-----------------------------------------------------------------------------
(* The user interface's thread does one thing at a time.                   *)

Crashed == thrown \/ overflow \/ wrecked

Returned == request = "none" /\ asked = "none" /\ stage = "none"

Idle == todo = <<>> /\ Returned

Handler(steps) ==
  /\ Idle /\ todo' = steps
  /\ UNCHANGED <<cameraVars, audioVars, composerVars>>

WhenAudio(step) == IF mode = "camera3" THEN <<step>> ELSE <<>>

StartAll ==
  IF mode = "decode" THEN <<"startDecoders">>
  ELSE IF base = "none" THEN <<>>
  ELSE <<"startCamera">> \o WhenAudio("startAudio")

StopAll ==
  IF mode = "decode" THEN <<"stopDecoders">>
  ELSE IF base = "none" THEN <<>>
  ELSE WhenAudio("stopAudio") \o <<"closeCamera">>

\* The button, there even before there is a surface, turns the flag over
\* whether or not there is something to start or stop.
Toggle ==
  /\ resumed
  /\ ~started => rounds < MaxRounds
  /\ started' = ~started
  /\ Handler(IF started THEN StopAll ELSE StartAll)
  /\ UNCHANGED <<mode, resumed, surface, base, hasAudio>>

OnPause ==
  /\ resumed /\ resumed' = FALSE
  /\ started' = FALSE
  /\ LET camera3 == WhenAudio("stopAudio") \o WhenAudio("forgetAudio")
         steps == IF mode = "decode" THEN StopAll
                  ELSE camera3 \o (IF base = "none" THEN <<>>
                                   ELSE <<"closeCamera", "forgetCamera">>)
     IN  Handler(IF started THEN steps ELSE <<>>)
  /\ UNCHANGED <<mode, surface, base, hasAudio>>

OnResume ==
  /\ ~resumed /\ resumed' = TRUE
  /\ Handler(<<>>)
  /\ UNCHANGED <<mode, surface, started, base, hasAudio>>

\* Decoders are created with their first surface only.
SurfaceCreated ==
  /\ resumed /\ ~surface /\ surface' = TRUE
  /\ base' = IF mode \in Cameras THEN "new" ELSE base
  /\ Handler(IF mode = "decode" /\ composer = "none" THEN <<"compose">> ELSE <<>>)
  /\ UNCHANGED <<mode, resumed, started, hasAudio>>

SurfaceDestroyed ==
  /\ ~resumed /\ surface /\ surface' = FALSE
  /\ Handler(<<>>)
  /\ UNCHANGED <<mode, resumed, started, base, hasAudio>>

-----------------------------------------------------------------------------
(* The next step of a handler.                                             *)

Step(what) ==
  /\ todo # <<>> /\ Returned
  /\ Head(todo) = what /\ todo' = Tail(todo)
  /\ UNCHANGED <<mode, resumed, surface, started>>

\* mCameraBase is read here: after a new surface it is another object.
UseNewCamera ==
  /\ todo # <<>> /\ Returned /\ Head(todo) \in {"startCamera", "closeCamera"}
  /\ base = "new" /\ base' = "this"
  /\ Renew
  /\ UNCHANGED <<audioVars, composerVars, mode, resumed, surface, started,
                 hasAudio, todo>>

\* Another format makes the view create its surface anew, if there is one: the
\* callback replaces mCameraBase while the old object's closeCamera runs.
MayRenewSurface ==
  base' \in {base} \cup (IF surface /\ holder THEN {"new"} ELSE {})

CallCamera ==
  /\ base = "this"
  /\ \/ Step("startCamera") /\ StartCamera /\ UNCHANGED base
     \/ Step("closeCamera") /\ ClearSurface /\ MayRenewSurface
  /\ UNCHANGED <<audioVars, composerVars, hasAudio>>

ForgetCamera ==
  /\ Step("forgetCamera") /\ base' = "none"
  /\ UNCHANGED <<cameraVars, audioVars, composerVars, hasAudio>>

\* start() of null, once onPause has forgotten the object, is a null pointer;
\* stop() asks before.
CallAudio ==
  /\ \/ hasAudio /\ Step("startAudio") /\ FindDevice /\ UNCHANGED thrown
     \/ hasAudio /\ Step("stopAudio") /\ StopAudio /\ UNCHANGED thrown
     \/ ~hasAudio /\ Step("startAudio") /\ thrown' = TRUE /\ UNCHANGED audioVars
     \/ ~hasAudio /\ Step("stopAudio") /\ UNCHANGED <<audioVars, thrown>>
  /\ UNCHANGED <<request, permits, serviceVars, device, session, holder, histories,
                 composerVars, base, hasAudio>>

ForgetAudio ==
  /\ Step("forgetAudio") /\ hasAudio' = FALSE
  /\ UNCHANGED <<cameraVars, audioVars, composerVars, base>>

\* Before the decoders are created their list is empty.
CallDecoders ==
  /\ \/ Step("compose") /\ Construct
     \/ composer # "none" /\ Step("startDecoders") /\ Enter("start", 1)
     \/ composer # "none" /\ Step("stopDecoders") /\ Enter("stop", 1)
     \/ composer = "none" /\ Step("startDecoders") /\ UNCHANGED composerVars
     \/ composer = "none" /\ Step("stopDecoders") /\ UNCHANGED composerVars
  /\ UNCHANGED <<cameraVars, audioVars, base, hasAudio>>

\* A frame that waits to be told, when the thread has nothing else to do.
OnFrameAvailable(i) ==
  /\ Idle /\ posted[i] > 0
  /\ posted' = [posted EXCEPT ![i] = @ - 1]
  /\ stage' = "notify" /\ turn' = i
  /\ UNCHANGED <<counted, unconsumed, threadVars, wrecked, lost, overdue,
                 cameraVars, audioVars, homeVars>>

-----------------------------------------------------------------------------
CallStep ==
  \/ UseNewCamera \/ CallCamera \/ ForgetCamera
  \/ CallAudio \/ ForgetAudio \/ CallDecoders
  \/ Closing /\ UNCHANGED <<audioVars, composerVars, homeVars>>
  \/ AudioCaller /\ UNCHANGED <<cameraVars, composerVars, homeVars>>
  \/ DecoderCaller /\ UNCHANGED <<cameraVars, audioVars, homeVars>>

UserEvent == Toggle \/ OnPause \/ OnResume \/ SurfaceCreated \/ SurfaceDestroyed

InCamera(A) == A /\ ~Crashed /\ UNCHANGED <<audioVars, composerVars, homeVars>>
InAudio(A) == A /\ ~Crashed /\ UNCHANGED <<cameraVars, composerVars, homeVars>>
InDecoders(A) == A /\ ~Crashed /\ UNCHANGED <<cameraVars, audioVars, homeVars>>

HomeNext ==
  \/ ~Crashed /\ UserEvent
  \/ ~Crashed /\ CallStep
  \/ ~Crashed /\ \E i \in Inputs : OnFrameAvailable(i)
  \/ InCamera(Callbacks) \/ InCamera(Service)
  \/ InAudio(RecordThread) \/ InAudio(PlaybackThread)
  \/ InDecoders(CompositionThread)
  \/ \E i \in Inputs : InDecoders(DecoderThread(i))

HomeSpec == HomeInit /\ [][HomeNext]_allVars

\* Every thread goes on, and the service answers an open; nobody has to press
\* the button, and the service need not fail.
FairHomeSpec ==
  /\ HomeSpec
  /\ WF_allVars(~Crashed /\ CallStep)
  /\ WF_allVars(InCamera(Callbacks)) /\ WF_allVars(InCamera(CameraOpens))
  /\ WF_allVars(InAudio(RecordThread)) /\ WF_allVars(InAudio(PlaybackThread))
  /\ WF_allVars(InDecoders(CompositionThread))
  /\ \A i \in Inputs : WF_allVars(InDecoders(DecoderThread(i)))

-----------------------------------------------------------------------------
(* Properties.                                                             *)

\* When the button says Start and its handler has returned, the camera of the
\* object used last is closed and its thread has ended, sound and decoders are
\* released and their threads have ended; but the camera may stay open when it
\* was closed between the two statements of onOpened that release the permit and
\* set the device, or when the service failed or was slow (CameraBase.java:85-87,
\* 194-209, HDMIinAudioPlayback.java:162-192, MediaCodecDecoder.java:101-107).
OffMeansOff ==
  Idle /\ ~started /\ ~Crashed =>
    /\ ~hasty /\ ~faulted => camera = "closed" /\ background = "none"
    /\ \A r \in Roles : at[r] = "ended" /\ ~sound[r]
    /\ \A i \in Inputs : decoder[i] \in {"none", "ended"}

\* No thread reads or writes sound that was released; and stop() is overtaken by
\* no more threads than rounds have ended before, each of which left a permit
\* too many: in the first round by none (HDMIinAudioPlayback.java:126, 134, 147,
\* 155, 167-174).
StopWaitsForThreads ==
  /\ \A r \in Roles : at[r] = "use" => sound[r]
  /\ Cardinality(tardy) <= rounds

\* Where the user interface's thread may wait for ever.
Hung ==
  \/ request = "acquire" /\ refused
  \/ asked \in {"joinRecord", "joinPlayback"} /\ tardy # {}
  \/ stage = "wait" /\ lost
  \/ stage = "join" /\ turn \in overdue
  \/ stage = "notify" /\ counted[turn] = Limit /\ input # turn /\ counted[input] = 0

\* Every handler returns, or the application ends with an exception; unless an
\* open was refused and its permit lost, a thread sets the flag that stop() has
\* cleared, the composition thread is ready before its maker waits, or one input
\* has its fill of frames while another is awaited (CameraBase.java:170-176,
\* HDMIinAudioPlayback.java:133, MediaCodecDecoder.java:126, VideoComposer.java:
\* 451-455, InputComposerSurface.java:54).
HandlersReturn == ~Idle ~> (Idle \/ Crashed \/ Hung)
=============================================================================
