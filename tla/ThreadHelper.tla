---------------------------- MODULE ThreadHelper ----------------------------
(***************************************************************************)
(* ThreadHelper (utils/camera_thread.h, camera_thread.cc): the base class  *)
(* of the adaptor's three threads.  Controllers call Run, RequestExit and  *)
(* RequestExitAndWait, one at a time under lock_; the thread they control  *)
(* runs MainLoop.  The state variable is read and written under another    *)
(* mutex, state_lock_, held for a single access: between the GetState of a *)
(* controller and its ChangeState the thread may change the state itself.  *)
(***************************************************************************)
CONSTANT
  Controllers    (* threads that call the three entry points               *)

VARIABLES
  state,    (* state_                                                      *)
  lock,     (* holder of lock_, or "nobody"                                *)
  pc,       (* where each controller is                                    *)
  loop,     (* thread_: "none" when not joinable; "running" in MainLoop;   *)
            (* "looking" in a ThreadLoop that is about to read ExitPending;*)
            (* "leaving" once one returned false; "done" when finished     *)
  kind,     (* whose thread it is, of Kinds                                *)
  paused    (* WaitOnPause of the request handler lets nobody by:          *)
            (* toggle_pause_state_, outside a batch                        *)

vars == <<state, lock, pc, loop, kind, paused>>

(* The thread of a Camera3Monitor, Camera3RequestHandler or                *)
(* Camera3PrepareHandler.  The first two end only when they have seen      *)
(* ExitPending.  The last also ends by itself when out of work, though not *)
(* during Run, whose caller holds the lock that its ThreadLoop takes first.*)
Kinds == {"monitor", "handler", "prepare"}

Polling == kind # "prepare"

States == {"kActive", "kToIdle", "kIdle", "kInactive"}

(* Outside an entry point or about to take lock_; inside, holding it.      *)
Outside == {"out", "Run", "RequestExit", "RequestExitAndWait"}
Inside == {"runWait", "runJoin", "runInactive", "spawn", "runActive",
           "toIdle", "toIdleJoin", "waitIdle", "join", "inactive"}

Loops == {"none", "running", "looking", "leaving", "done"}

ASSUME NobodyAssumption == "nobody" \notin Controllers

Init ==
  /\ state = "kInactive"
  /\ lock = "nobody"
  /\ pc = [c \in Controllers |-> "out"]
  /\ loop = "none"
  /\ kind \in Kinds
  /\ paused = FALSE

(* Controller c moves on inside an entry point, or leaves it and lock_.    *)
Goto(c, label) == pc' = [pc EXCEPT ![c] = label] /\ UNCHANGED lock
Return(c) == pc' = [pc EXCEPT ![c] = "out"] /\ lock' = "nobody"

-----------------------------------------------------------------------------
Call(c) ==
  /\ pc[c] = "out"
  /\ \E entry \in {"Run", "RequestExit", "RequestExitAndWait"} : Goto(c, entry)
  /\ UNCHANGED <<state, loop, kind, paused>>

(* Run: what it does about the thread it finds depends on one GetState.    *)
EnterRun(c) ==
  /\ pc[c] = "Run"
  /\ lock = "nobody"
  /\ IF state = "kActive"
     THEN pc' = [pc EXCEPT ![c] = "out"] /\ UNCHANGED lock   \* -EALREADY
     ELSE /\ lock' = c
          /\ pc' = [pc EXCEPT ![c] = CASE state = "kToIdle"   -> "runWait"
                                       [] state = "kIdle"     -> "runJoin"
                                       [] state = "kInactive" -> "spawn"]
  /\ UNCHANGED <<state, loop, kind, paused>>

(* WaitState(kIdle), in Run and in RequestExitAndWait.                     *)
WaitState(c) ==
  /\ state = "kIdle"
  /\ \/ pc[c] = "runWait" /\ Goto(c, "runJoin")
     \/ pc[c] = "waitIdle" /\ Goto(c, "join")
  /\ UNCHANGED <<state, loop, kind, paused>>

(* thread_.join() returns once MainLoop has.                               *)
Join(c) ==
  /\ loop = "done"
  /\ loop' = "none"
  /\ \/ pc[c] = "runJoin" /\ Goto(c, "runInactive")
     \/ pc[c] = "join" /\ Goto(c, "inactive")
  /\ UNCHANGED <<state, kind, paused>>

(* Mutant: the joined thread stays kIdle.                                  *)
Deactivate_Forgotten(c) ==
  /\ \/ pc[c] = "runInactive" /\ Goto(c, "spawn")
     \/ pc[c] = "inactive" /\ Return(c)
  /\ UNCHANGED <<state, loop, kind, paused>>

(* ChangeState(kInactive): Run goes on, RequestExitAndWait is done.        *)
Deactivate(c) ==
  /\ state' = "kInactive"
  /\ \/ pc[c] = "runInactive" /\ Goto(c, "spawn")
     \/ pc[c] = "inactive" /\ Return(c)
  /\ UNCHANGED <<loop, kind, paused>>

(* The thread is created, and may run from here on; or creation fails.     *)
Spawn(c) ==
  /\ pc[c] = "spawn"
  /\ loop' = "running"
  /\ Goto(c, "runActive")
  /\ UNCHANGED <<state, kind, paused>>

SpawnFails(c) ==
  /\ pc[c] = "spawn"
  /\ Return(c)
  /\ UNCHANGED <<state, loop, kind, paused>>

(* ChangeState(kActive), after the thread was created.                     *)
Activate(c) ==
  /\ pc[c] = "runActive"
  /\ state' = "kActive"
  /\ Return(c)
  /\ UNCHANGED <<loop, kind, paused>>

EnterRequestExit(c) ==
  /\ pc[c] = "RequestExit"
  /\ lock = "nobody"
  /\ IF state = "kActive"
     THEN lock' = c /\ pc' = [pc EXCEPT ![c] = "toIdle"]
     ELSE pc' = [pc EXCEPT ![c] = "out"] /\ UNCHANGED lock
  /\ UNCHANGED <<state, loop, kind, paused>>

EnterRequestExitAndWait(c) ==
  /\ pc[c] = "RequestExitAndWait"
  /\ lock = "nobody"
  /\ IF state = "kInactive"
     THEN pc' = [pc EXCEPT ![c] = "out"] /\ UNCHANGED lock
     ELSE /\ lock' = c
          /\ pc' = [pc EXCEPT ![c] = CASE state = "kActive" -> "toIdleJoin"
                                       [] state = "kToIdle" -> "waitIdle"
                                       [] state = "kIdle"   -> "join"]
  /\ UNCHANGED <<state, loop, kind, paused>>

(* Mutant: the thread is not asked.                                        *)
AskToIdle_Skipped(c) ==
  /\ \/ pc[c] = "toIdle" /\ Return(c)
     \/ pc[c] = "toIdleJoin" /\ Goto(c, "join")
  /\ UNCHANGED <<state, loop, kind, paused>>

(* ChangeState(kToIdle), decided on the state read before.                 *)
AskToIdle(c) ==
  /\ state' = "kToIdle"
  /\ \/ pc[c] = "toIdle" /\ Return(c)
     \/ pc[c] = "toIdleJoin" /\ Goto(c, "join")
  /\ UNCHANGED <<loop, kind, paused>>

-----------------------------------------------------------------------------
(* The controlled thread.                                                  *)

ExitPending == state = "kToIdle"

RunInProgress == \E c \in Controllers : pc[c] = "runActive"

(* The request handler is paused and let go by others, and by a batch that *)
(* it begins and ends, at any time.                                        *)
TogglePause ==
  /\ kind = "handler"
  /\ paused' = ~paused
  /\ UNCHANGED <<state, lock, pc, loop, kind>>

(* WaitOnPause returns false.  While it returns true - timed out, or with  *)
(* an exit pending - ThreadLoop returns true and begins again with it.     *)
PassPause ==
  /\ loop = "running"
  /\ ~paused
  /\ loop' = "looking"
  /\ UNCHANGED <<state, lock, pc, kind, paused>>

(* ThreadLoop has read ExitPending, at the last place before it returns    *)
(* true.                                                                   *)
ThreadLoopGoesOn ==
  /\ loop = "looking"
  /\ ~ExitPending
  /\ loop' = "running"
  /\ UNCHANGED <<state, lock, pc, kind, paused>>

ThreadLoopEnds ==
  /\ \/ loop = "looking" /\ ExitPending
     \/ loop \in {"running", "looking"} /\ ~Polling /\ ~RunInProgress
  /\ loop' = "leaving"
  /\ UNCHANGED <<state, lock, pc, kind, paused>>

(* MainLoop: ChangeState(kIdle) and out.                                   *)
MainLoopEnds ==
  /\ loop = "leaving"
  /\ state' = "kIdle"
  /\ loop' = "done"
  /\ UNCHANGED <<lock, pc, kind, paused>>

Enter(c) == EnterRun(c) \/ EnterRequestExit(c) \/ EnterRequestExitAndWait(c)

(* What the holder of lock_ does next.                                     *)
Proceed(c) ==
  \/ WaitState(c) \/ Join(c) \/ Deactivate(c) \/ Spawn(c) \/ SpawnFails(c)
  \/ Activate(c) \/ AskToIdle(c)

Next ==
  \/ \E c \in Controllers : Call(c) \/ Enter(c) \/ Proceed(c)
  \/ TogglePause
  \/ PassPause
  \/ ThreadLoopGoesOn
  \/ ThreadLoopEnds
  \/ MainLoopEnds

Spec == Init /\ [][Next]_vars

(* Every wait of a ThreadLoop is timed: a thread that is not kept paused   *)
(* comes to read ExitPending, and one that reads it set ends.  Weakly fair *)
(* only: a pause that is lifted for a moment may go unnoticed.  The holder *)
(* of lock_ goes on whenever nothing blocks it.                            *)
FairSpec ==
  /\ Spec
  /\ WF_vars(PassPause) /\ WF_vars(ExitPending /\ ThreadLoopEnds)
  /\ WF_vars(MainLoopEnds)
  /\ \A c \in Controllers : WF_vars(Proceed(c))

-----------------------------------------------------------------------------
(* The types, and the lock discipline: the controller inside an entry      *)
(* point, and no other, holds lock_ (the lock_guards of camera_thread.cc). *)
TypeOK ==
  /\ state \in States
  /\ lock \in Controllers \cup {"nobody"}
  /\ pc \in [Controllers -> Outside \cup Inside]
  /\ loop \in Loops
  /\ kind \in Kinds
  /\ paused \in BOOLEAN
  /\ \A c \in Controllers : lock = c <=> pc[c] \in Inside

(* A std::thread is joined only while joinable and replaced only while     *)
(* not: anything else throws or terminates (Run, RequestExitAndWait).      *)
ThreadHandledSafely ==
  \A c \in Controllers :
    /\ pc[c] \in {"runJoin", "join"} => loop # "none"
    /\ pc[c] = "spawn" => loop = "none"

(* The comments on the enumerators, camera_thread.h:45-48, whenever no     *)
(* controller is inside an entry point: true of the threads that poll.     *)
StatesMeanWhatTheySay ==
  Polling /\ lock = "nobody" =>
    /\ state = "kActive" => loop \in {"running", "looking"}
    /\ state = "kToIdle" => loop \in {"running", "looking", "leaving"}
    /\ state = "kIdle" <=> loop = "done"
    /\ state = "kInactive" <=> loop = "none"

(* Whoever takes lock_ gives it back: Run and RequestExitAndWait do not    *)
(* wait for a thread that will never become idle, provided it polls and is *)
(* not paused for good or again and again.  Nothing is promised then: a    *)
(* request handler that is left paused never reads ExitPending.            *)
EntryPointsReturn ==
  \/ \A c \in Controllers : Polling /\ lock = c ~> lock = "nobody"
  \/ []<>paused
=============================================================================
