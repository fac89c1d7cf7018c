------------------------ MODULE HDMIinAudioPlayback ------------------------
(***************************************************************************)
(* Playback of the sound of an HDMI input (APPS/qmedia, HDMIinAudioPlayback*)
(* .java): one thread records and queues, one dequeues and plays, and a    *)
(* semaphore is to make stop() wait until both have begun.  The one array  *)
(* all elements of the queue share is not modelled, only their number.     *)
(***************************************************************************)
EXTENDS Naturals

CONSTANTS
  QueueSize,   \* AUDIO_QUEUE_SIZE
  MaxRounds    \* bound: no start once so many playback threads have ended

Roles == {"record", "playback"}

VARIABLES
  asked,       \* where the caller of start and stop is
  hdmi,        \* mHDMIDevice # null
  tickets,     \* mRecordPlaybackSemaphore
  looping,     \* isAudioRecordThreadRunning, isAudioPlaybackThreadRunning
  at,          \* where each thread is
  queued,      \* mAudioQueue.size()
  sound,       \* mAudioRecorder and mAudioTrack: of a role, released or not
  overflow,    \* add() threw: the queue was full
  tardy,       \* history: threads that began when stop() had cleared the flags
  rounds       \* history: playback threads that have ended

audioVars == <<asked, hdmi, tickets, looping, at, queued, sound, overflow, tardy, rounds>>

AudioTypeOK ==
  /\ asked \in {"none", "launch", "acquire",
                "joinRecord", "joinPlayback", "release"}
  /\ hdmi \in BOOLEAN /\ overflow \in BOOLEAN
  /\ tickets \in Nat
  /\ looping \in [Roles -> BOOLEAN]
  /\ at \in [Roles -> {"new", "test", "use", "ended"}]
  /\ queued \in 0..QueueSize
  /\ sound \in [Roles -> BOOLEAN]
  /\ tardy \in SUBSET Roles /\ rounds \in Nat

AudioInit ==
  /\ asked = "none" /\ hdmi = FALSE
  /\ tickets = 2
  /\ looping = [r \in Roles |-> FALSE]
  /\ at = [r \in Roles |-> "ended"]
  /\ queued = 0
  /\ sound = [r \in Roles |-> FALSE]
  /\ overflow = FALSE /\ tardy = {} /\ rounds = 0

-----------------------------------------------------------------------------
(* start().                                                                *)

\* With no HDMI device among the inputs nothing is started.
FindDevice ==
  /\ asked = "none"
  /\ hdmi' \in {hdmi, TRUE}
  /\ asked' = IF hdmi' THEN "launch" ELSE "none"
  /\ sound' = [r \in Roles |-> hdmi']
  /\ UNCHANGED <<tickets, looping, at, queued, overflow, tardy, rounds>>

LaunchThreads ==
  /\ asked = "launch" /\ asked' = "none"
  /\ tickets >= 2 /\ tickets' = tickets - 2
  /\ at' = [r \in Roles |-> "new"]
  /\ UNCHANGED <<hdmi, looping, queued, sound, overflow, tardy, rounds>>

(* stop().                                                                 *)

StopAudio ==
  /\ asked = "none"
  /\ asked' = IF hdmi THEN "acquire" ELSE "none"
  /\ hdmi' = FALSE
  /\ UNCHANGED <<tickets, looping, at, queued, sound, overflow, tardy, rounds>>

(* Mutant: the flags are cleared without waiting for the threads.          *)
ClearFlags_Blindly ==
  /\ asked = "acquire" /\ asked' = "joinRecord"
  /\ looping' = [r \in Roles |-> FALSE]
  /\ UNCHANGED <<hdmi, tickets, at, queued, sound, overflow, tardy, rounds>>

\* Both permits at once, and back again.
ClearFlags ==
  /\ asked = "acquire" /\ asked' = "joinRecord"
  /\ tickets >= 2
  /\ looping' = [r \in Roles |-> FALSE]
  /\ UNCHANGED <<hdmi, tickets, at, queued, sound, overflow, tardy, rounds>>

JoinThread(r, here, next) ==
  /\ asked = here /\ asked' = next
  /\ at[r] = "ended"
  /\ UNCHANGED <<hdmi, tickets, looping, at, queued, sound, overflow, tardy, rounds>>

JoinRecord == JoinThread("record", "joinRecord", "joinPlayback")
JoinPlayback == JoinThread("playback", "joinPlayback", "release")

ReleaseSound ==
  /\ asked = "release" /\ asked' = "none"
  /\ queued' = 0
  /\ sound' = [r \in Roles |-> FALSE]
  /\ UNCHANGED <<hdmi, tickets, looping, at, overflow, tardy, rounds>>

-----------------------------------------------------------------------------
(* The threads.                                                            *)

BeginThread(r) ==
  /\ at[r] = "new" /\ at' = [at EXCEPT ![r] = "test"]
  /\ looping' = [looping EXCEPT ![r] = TRUE]
  /\ tickets' = tickets + 1
  /\ tardy' = IF asked \in {"joinRecord", "joinPlayback"} THEN tardy \cup {r} ELSE tardy
  /\ UNCHANGED <<asked, hdmi, queued, sound, overflow, rounds>>

TestRecord ==
  /\ at["record"] = "test"
  /\ at' = [at EXCEPT !["record"] = IF looping["record"] THEN "use" ELSE "ended"]
  /\ UNCHANGED <<asked, hdmi, tickets, looping, queued, sound, overflow, tardy, rounds>>

ReadAudioData ==
  /\ at["record"] = "use" /\ at' = [at EXCEPT !["record"] = "test"]
  /\ overflow' = (queued = QueueSize)
  /\ queued' = IF queued = QueueSize THEN queued ELSE queued + 1
  /\ UNCHANGED <<asked, hdmi, tickets, looping, sound, tardy, rounds>>

TakeData ==
  /\ at["playback"] = "test" /\ looping["playback"]
  /\ queued > 0 /\ queued' = queued - 1
  /\ at' = [at EXCEPT !["playback"] = "use"]
  /\ UNCHANGED <<asked, hdmi, tickets, looping, sound, overflow, tardy, rounds>>

WriteAudioData ==
  /\ at["playback"] = "use" /\ at' = [at EXCEPT !["playback"] = "test"]
  /\ UNCHANGED <<asked, hdmi, tickets, looping, queued, sound, overflow, tardy, rounds>>

\* Once more than was acquired: every round leaves one permit too many.
EndPlayback ==
  /\ at["playback"] = "test" /\ ~looping["playback"]
  /\ at' = [at EXCEPT !["playback"] = "ended"]
  /\ tickets' = tickets + 1 /\ rounds' = rounds + 1
  /\ UNCHANGED <<asked, hdmi, looping, queued, sound, overflow, tardy>>

AudioCaller == \/ LaunchThreads \/ ClearFlags
               \/ JoinRecord \/ JoinPlayback \/ ReleaseSound
RecordThread == BeginThread("record") \/ TestRecord \/ ReadAudioData
PlaybackThread == BeginThread("playback") \/ TakeData \/ WriteAudioData \/ EndPlayback
=============================================================================
