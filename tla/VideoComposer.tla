--------------------------- MODULE VideoComposer ---------------------------
(***************************************************************************)
(* Decoders whose pictures are composed into one (APPS/qmedia,             *)
(* MediaCodecDecoder.java, opengles/VideoComposer.java and                 *)
(* InputComposerSurface.java).  Every decoder renders on a thread of its   *)
(* own into an input surface; the surface tells of the frame on the user   *)
(* interface's thread, which counts it in a FrameSync; the composition     *)
(* thread awaits a frame of every input in turn and draws.                 *)
(*                                                                         *)
(* External: a surface holds Capacity frames, a decoder that has no room   *)
(* tries again.                                                            *)
(***************************************************************************)
EXTENDS Naturals

CONSTANTS
  Instances,  \* mInstances
  Limit,      \* FrameSync.mSize
  Capacity

ASSUME ComposerAssumption ==
  /\ Instances \in Nat \ {0}
  /\ Limit \in Nat \ {0} /\ Capacity \in Nat

Inputs == 1..Instances

VARIABLES
  stage,       \* where the caller of constructor, start, stop, notifyFrame is
  turn,        \* the decoder, or input, it is at
  composer,    \* the composition thread
  input,       \* the input it awaits
  counted,     \* FrameSync.mCount of each input
  posted,      \* onFrameAvailable calls the user interface's thread owes
  unconsumed,  \* frames a surface holds
  decoder,     \* where each decoder's thread is
  playing,     \* mVideoDecoderRunning
  wrecked,     \* a null pointer nobody catches: stop() without a start()
  lost,        \* history: notifyAll found nobody waiting
  overdue      \* history: decoders that began when stop() had cleared the flag

frameVars == <<counted, posted, unconsumed>>
threadVars == <<composer, input, decoder, playing>>
composerVars == <<stage, turn, frameVars, threadVars, wrecked, lost, overdue>>

ComposerTypeOK ==
  /\ stage \in {"none", "started", "wait", "start", "stop", "join", "notify"}
  /\ turn \in Inputs /\ input \in Inputs
  /\ composer \in {"none", "setup", "await"}
  /\ counted \in [Inputs -> 0..Limit]
  /\ {posted, unconsumed} \subseteq [Inputs -> 0..Capacity]
  /\ decoder \in [Inputs -> {"none", "new", "run", "ended"}]
  /\ playing \in [Inputs -> BOOLEAN]
  /\ {wrecked, lost} \subseteq BOOLEAN /\ overdue \in SUBSET Inputs

ComposerInit ==
  /\ stage = "none" /\ turn = 1 /\ composer = "none" /\ input = 1
  /\ counted = [i \in Inputs |-> 0]
  /\ posted = [i \in Inputs |-> 0]
  /\ unconsumed = [i \in Inputs |-> 0]
  /\ decoder = [i \in Inputs |-> "none"]
  /\ playing = [i \in Inputs |-> FALSE]
  /\ wrecked = FALSE /\ lost = FALSE /\ overdue = {}

-----------------------------------------------------------------------------
(* On the user interface's thread.                                         *)

Enter(what, i) ==
  /\ stage = "none" /\ stage' = what /\ turn' = i
  /\ UNCHANGED <<frameVars, threadVars, wrecked, lost, overdue>>

\* The constructor starts the thread, and only then takes the lock and waits.
Construct ==
  /\ stage = "none" /\ stage' = "started"
  /\ composer' = "setup"
  /\ UNCHANGED <<turn, frameVars, input, decoder, playing, wrecked, lost, overdue>>

WaitForSetup ==
  /\ stage = "started" /\ stage' = "wait"
  /\ UNCHANGED <<turn, frameVars, threadVars, wrecked, lost, overdue>>

\* The next decoder, or the call returns.
Further(what) ==
  IF turn = Instances THEN stage' = "none" /\ turn' = 1
                      ELSE stage' = what /\ turn' = turn + 1

StartDecoder ==
  /\ stage = "start" /\ Further("start")
  /\ decoder' = [decoder EXCEPT ![turn] = "new"]
  /\ UNCHANGED <<frameVars, composer, input, playing, wrecked, lost, overdue>>

StopDecoder ==
  /\ stage = "stop" /\ stage' = "join"
  /\ playing' = [playing EXCEPT ![turn] = FALSE]
  /\ wrecked' = (decoder[turn] = "none")
  /\ UNCHANGED <<turn, frameVars, composer, input, decoder, lost, overdue>>

JoinDecoder ==
  /\ stage = "join" /\ decoder[turn] = "ended" /\ Further("stop")
  /\ UNCHANGED <<frameVars, threadVars, wrecked, lost, overdue>>

\* Polls while the input's count is at its limit.
NotifyFrame ==
  /\ stage = "notify" /\ stage' = "none" /\ turn' = 1
  /\ counted[turn] < Limit
  /\ counted' = [counted EXCEPT ![turn] = @ + 1]
  /\ UNCHANGED <<posted, unconsumed, threadVars, wrecked, lost, overdue>>

-----------------------------------------------------------------------------
(* The composition thread, which never ends.                               *)

FinishSetup ==
  /\ composer = "setup" /\ composer' = "await"
  /\ IF stage = "wait" THEN stage' = "none" /\ lost' = lost
                       ELSE stage' = stage /\ lost' = TRUE
  /\ UNCHANGED <<turn, frameVars, input, decoder, playing, wrecked, overdue>>

\* waitFrame and updateTexImage, until the count is down to 0; then the next
\* input, and after the last drawFrame and swapBuffers.
AwaitFrame ==
  /\ composer = "await" /\ counted[input] > 0
  /\ counted' = [counted EXCEPT ![input] = @ - 1]
  /\ unconsumed' = [unconsumed EXCEPT ![input] = @ - 1]
  /\ input' = IF counted[input] = 1 THEN (input % Instances) + 1 ELSE input
  /\ UNCHANGED <<stage, turn, posted, composer, decoder, playing, wrecked, lost,
                 overdue>>

-----------------------------------------------------------------------------
(* The decoders' threads.                                                  *)

RunDecoder(i) ==
  /\ decoder[i] = "new" /\ decoder' = [decoder EXCEPT ![i] = "run"]
  /\ playing' = [playing EXCEPT ![i] = TRUE]
  /\ overdue' = IF stage = "join" /\ turn = i THEN overdue \cup {i} ELSE overdue
  /\ UNCHANGED <<stage, turn, frameVars, composer, input, wrecked, lost>>

RenderFrame(i) ==
  /\ decoder[i] = "run" /\ playing[i]
  /\ unconsumed[i] < Capacity
  /\ unconsumed' = [unconsumed EXCEPT ![i] = @ + 1]
  /\ posted' = [posted EXCEPT ![i] = @ + 1]
  /\ UNCHANGED <<stage, turn, counted, threadVars, wrecked, lost, overdue>>

\* At the end of the clip, which comes out only if there is room, or after
\* stop(): the thread releases codec and extractor.
EndDecoder(i) ==
  /\ decoder[i] = "run" /\ (playing[i] => unconsumed[i] < Capacity)
  /\ decoder' = [decoder EXCEPT ![i] = "ended"]
  /\ UNCHANGED <<stage, turn, frameVars, composer, input, playing, wrecked, lost, overdue>>

DecoderCaller == \/ WaitForSetup \/ StartDecoder
                 \/ StopDecoder \/ JoinDecoder \/ NotifyFrame
CompositionThread == FinishSetup \/ AwaitFrame
DecoderThread(i) == RunDecoder(i) \/ RenderFrame(i) \/ EndDecoder(i)
=============================================================================
