------------------------- MODULE ThreadHelper_proofs ------------------------
(***************************************************************************)
(* For any set of controllers: std::thread is handled safely whatever the  *)
(* thread does, and, provided the thread stops only when it has seen       *)
(* ExitPending, the enumerators mean what their comments say and no entry  *)
(* point takes more than a fixed number of steps or is stuck, but for one  *)
(* that waits for a thread kept paused.                                    *)
(***************************************************************************)
EXTENDS ThreadHelper, Naturals, TLAPS

(* What the holder of lock_ may rely on about thread_ at each point, though *)
(* the thread itself writes state_ behind its back.                        *)
HolderKnows ==
  /\ lock = "nobody" => (state = "kInactive" <=> loop = "none")
  /\ \A c \in Controllers :
       /\ pc[c] \in {"runWait", "runJoin", "toIdle", "toIdleJoin",
                     "waitIdle", "join"}
            => loop # "none" /\ state # "kInactive"
       /\ pc[c] \in {"runInactive", "inactive"} => loop = "none"
       /\ pc[c] = "spawn" => loop = "none" /\ state = "kInactive"
       /\ pc[c] = "runActive" => loop # "none" /\ state # "kToIdle"

(* Only the request handler is ever paused.                                *)
PausesHandler == paused => kind = "handler"

Inv == TypeOK /\ HolderKnows /\ PausesHandler

(* The thread is in MainLoop and no ThreadLoop has returned false.         *)
Turning == {"running", "looking"}

(* With a polling thread, what the state tells about the thread at every   *)
(* point and not only when lock_ is free.                                  *)
PolledMeaning ==
  /\ loop = "leaving" => state = "kToIdle"
  /\ loop = "done" => state = "kIdle"
  /\ state = "kActive" => loop \in Turning
  /\ state = "kToIdle" => loop \in Turning \cup {"leaving"}
  /\ lock = "nobody" /\ state = "kIdle" => loop = "done"
  /\ lock = "nobody" /\ loop \in Turning => state \in {"kActive", "kToIdle"}
  /\ \A c \in Controllers :
       /\ pc[c] = "runActive" => loop \in Turning /\ state = "kInactive"
       /\ pc[c] \in {"toIdle", "toIdleJoin"} => state = "kActive"
       /\ pc[c] \in {"runWait", "waitIdle", "runJoin", "join"}
            => state = "kToIdle" \/ (state = "kIdle" /\ loop = "done")

PolledInv == Inv /\ (Polling => PolledMeaning)

-----------------------------------------------------------------------------
LEMMA InitInv == Init => Inv
BY NobodyAssumption
   DEF Init, Inv, TypeOK, HolderKnows, PausesHandler, States, Outside, Inside,
       Loops, Kinds

(* Every step of a controller and of the thread keeps the lock discipline  *)
(* and what the holder relies on.                                          *)
LEMMA InvPreserved == Inv /\ [Next]_vars => Inv'
<1> USE NobodyAssumption
<1> SUFFICES ASSUME Inv, [Next]_vars PROVE Inv'
  OBVIOUS
<1> USE DEF Inv, TypeOK, HolderKnows, PausesHandler, States, Outside, Inside,
            Loops, Goto, Return
<1>1. ASSUME NEW c \in Controllers, Call(c) PROVE Inv'
  BY <1>1 DEF Call
<1>2. ASSUME NEW c \in Controllers, EnterRun(c) PROVE Inv'
  BY <1>2 DEF EnterRun
<1>3. ASSUME NEW c \in Controllers, EnterRequestExit(c) PROVE Inv'
  BY <1>3 DEF EnterRequestExit
<1>4. ASSUME NEW c \in Controllers, EnterRequestExitAndWait(c) PROVE Inv'
  BY <1>4 DEF EnterRequestExitAndWait
<1>5. ASSUME NEW c \in Controllers, WaitState(c) PROVE Inv'
  BY <1>5 DEF WaitState
<1>6. ASSUME NEW c \in Controllers, Join(c) PROVE Inv'
  BY <1>6 DEF Join
<1>7. ASSUME NEW c \in Controllers, Deactivate(c) PROVE Inv'
  BY <1>7 DEF Deactivate
<1>8. ASSUME NEW c \in Controllers, Spawn(c) PROVE Inv'
  BY <1>8 DEF Spawn
<1>9. ASSUME NEW c \in Controllers, SpawnFails(c) PROVE Inv'
  BY <1>9 DEF SpawnFails
<1>10. ASSUME NEW c \in Controllers, Activate(c) PROVE Inv'
  BY <1>10 DEF Activate
<1>11. ASSUME NEW c \in Controllers, AskToIdle(c) PROVE Inv'
  BY <1>11 DEF AskToIdle
<1>12. CASE ThreadLoopEnds
  BY <1>12 DEF ThreadLoopEnds, ExitPending
<1>13. CASE MainLoopEnds
  BY <1>13 DEF MainLoopEnds
<1>14. CASE TogglePause
  BY <1>14 DEF TogglePause
<1>15. CASE PassPause \/ ThreadLoopGoesOn
  BY <1>15 DEF PassPause, ThreadLoopGoesOn
<1>16. CASE UNCHANGED vars
  BY <1>16 DEF vars
<1> QED
  BY <1>1, <1>2, <1>3, <1>4, <1>5, <1>6, <1>7, <1>8, <1>9, <1>10, <1>11,
     <1>12, <1>13, <1>14, <1>15, <1>16 DEF Next, Enter, Proceed

LEMMA Invariance == Spec => []Inv
BY InitInv, InvPreserved, PTL DEF Spec

(* The types and the lock discipline: whoever is inside an entry point     *)
(* holds lock_, and no one else does.                                      *)
THEOREM TypeCorrect == Spec => []TypeOK
<1>1. Inv => TypeOK
  BY DEF Inv
<1> QED
  BY <1>1, Invariance, PTL

(* thread_.join() finds a joinable thread and thread_ = std::thread(...)   *)
(* finds none, however many controllers race and whenever the thread ends. *)
THEOREM ThreadIsHandledSafely == Spec => []ThreadHandledSafely
<1>1. Inv => ThreadHandledSafely
  BY DEF Inv, HolderKnows, ThreadHandledSafely
<1> QED
  BY <1>1, Invariance, PTL

-----------------------------------------------------------------------------
LEMMA InitPolled == Init => PolledInv
BY InitInv DEF Init, PolledInv, PolledMeaning, Turning

LEMMA KindIsFixed == [Next]_vars => kind' = kind
BY DEF Next, vars, Enter, Proceed, Call, EnterRun, EnterRequestExit,
       EnterRequestExitAndWait, WaitState, Join, Deactivate, Spawn,
       SpawnFails, Activate, AskToIdle, TogglePause, PassPause,
       ThreadLoopGoesOn, ThreadLoopEnds, MainLoopEnds

LEMMA PolledPreserved == PolledInv /\ [Next]_vars => PolledInv'
<1> USE NobodyAssumption
<1> SUFFICES ASSUME PolledInv, Polling, [Next]_vars PROVE PolledMeaning'
  BY InvPreserved, KindIsFixed DEF PolledInv, Polling
<1> USE DEF PolledInv, PolledMeaning, Turning, Polling, Inv, TypeOK,
            HolderKnows, States, Outside, Inside, Loops, Goto, Return
<1>1. ASSUME NEW c \in Controllers, Call(c) PROVE PolledMeaning'
  BY <1>1 DEF Call
<1>2. ASSUME NEW c \in Controllers, EnterRun(c) PROVE PolledMeaning'
  BY <1>2 DEF EnterRun
<1>3. ASSUME NEW c \in Controllers, EnterRequestExit(c) PROVE PolledMeaning'
  BY <1>3 DEF EnterRequestExit
<1>4. ASSUME NEW c \in Controllers, EnterRequestExitAndWait(c)
      PROVE PolledMeaning'
  BY <1>4 DEF EnterRequestExitAndWait
<1>5. ASSUME NEW c \in Controllers, WaitState(c) PROVE PolledMeaning'
  BY <1>5 DEF WaitState
<1>6. ASSUME NEW c \in Controllers, Join(c) PROVE PolledMeaning'
  BY <1>6 DEF Join
<1>7. ASSUME NEW c \in Controllers, Deactivate(c) PROVE PolledMeaning'
  BY <1>7 DEF Deactivate
<1>8. ASSUME NEW c \in Controllers, Spawn(c) PROVE PolledMeaning'
  BY <1>8 DEF Spawn
<1>9. ASSUME NEW c \in Controllers, SpawnFails(c) PROVE PolledMeaning'
  BY <1>9 DEF SpawnFails
<1>10. ASSUME NEW c \in Controllers, Activate(c) PROVE PolledMeaning'
  BY <1>10 DEF Activate
<1>11. ASSUME NEW c \in Controllers, AskToIdle(c) PROVE PolledMeaning'
  BY <1>11 DEF AskToIdle
<1>12. CASE ThreadLoopEnds
  BY <1>12 DEF ThreadLoopEnds, ExitPending
<1>13. CASE MainLoopEnds
  BY <1>13 DEF MainLoopEnds
<1>14. CASE TogglePause
  BY <1>14 DEF TogglePause
<1>15. CASE PassPause \/ ThreadLoopGoesOn
  BY <1>15 DEF PassPause, ThreadLoopGoesOn
<1>16. CASE UNCHANGED vars
  BY <1>16 DEF vars
<1> QED
  BY <1>1, <1>2, <1>3, <1>4, <1>5, <1>6, <1>7, <1>8, <1>9, <1>10, <1>11,
     <1>12, <1>13, <1>14, <1>15, <1>16 DEF Next, Enter, Proceed

(* The comments of camera_thread.h hold of a thread that ends only when it *)
(* has seen ExitPending: Camera3Monitor's and Camera3RequestHandler's.     *)
THEOREM PolledStatesMeanWhatTheySay == Spec => []StatesMeanWhatTheySay
<1>1. PolledInv => StatesMeanWhatTheySay
  BY DEF PolledInv, PolledMeaning, Turning, Inv, TypeOK, HolderKnows, Loops,
         StatesMeanWhatTheySay
<1> QED
  BY InitPolled, PolledPreserved, <1>1, PTL DEF Spec

-----------------------------------------------------------------------------
(* Why the entry points return: the two facts that EntryPointsReturn rests *)
(* on besides fairness.  The holder of lock_ or the thread can always take *)
(* its next step, unless the thread is kept paused, and each step they     *)
(* take leaves fewer of them.                                              *)

Waits == {"runWait", "waitIdle"}
Joins == {"runJoin", "join"}

HolderCanGo(c) ==
  \/ pc[c] \notin Waits \cup Joins
  \/ pc[c] \in Waits /\ state = "kIdle"
  \/ pc[c] \in Joins /\ loop = "done"

(* The next step of a thread that is to end: PassPause, ThreadLoopEnds and *)
(* MainLoopEnds.                                                           *)
ThreadCanGo ==
  \/ loop = "running" /\ ExitPending /\ ~paused
  \/ loop = "looking" /\ ExitPending
  \/ loop = "leaving"

(* A request handler that was asked to end and is kept in WaitOnPause.     *)
KeptPaused == kind = "handler" /\ loop = "running" /\ ExitPending /\ paused

NobodyStuck ==
  Polling => \A c \in Controllers :
    lock = c => HolderCanGo(c) \/ ThreadCanGo \/ KeptPaused

(* Steps to the end of the entry point.                                    *)
Position(label) ==
  CASE label \in {"toIdle", "inactive", "runActive"}    -> 1
    [] label \in {"join", "spawn"}                      -> 2
    [] label \in {"toIdleJoin", "waitIdle", "runInactive"} -> 3
    [] label = "runJoin"                                -> 4
    [] label = "runWait"                                -> 5
    [] OTHER                                            -> 0

(* Steps to the end of the thread, which Spawn starts.  Until it is asked  *)
(* to end a ThreadLoop is followed by another.                             *)
ThreadSteps ==
  CASE loop \in Turning -> IF loop = "looking" /\ ExitPending THEN 2 ELSE 3
    [] loop = "leaving" -> 1
    [] OTHER            -> 0

StepsLeft(c) == 4 * Position(pc[c]) + ThreadSteps

ThreadEnding == (ExitPending /\ PassPause) \/ ThreadLoopEnds \/ MainLoopEnds

OneFewer ==
  \A c \in Controllers : lock = c /\ lock' = c =>
    /\ StepsLeft(c)' <= StepsLeft(c)
    /\ Proceed(c) \/ ThreadEnding => StepsLeft(c)' < StepsLeft(c)

(* The holder of lock_ can go on, or waits for a thread that was asked to  *)
(* end and can, or for a request handler that was asked and is kept paused.*)
THEOREM EntryPointsAreNotStuck == Spec => []NobodyStuck
<1>1. PolledInv => NobodyStuck
  <2> SUFFICES ASSUME PolledInv, Polling, NEW c \in Controllers, lock = c,
                      ~HolderCanGo(c)
               PROVE  ThreadCanGo \/ KeptPaused
    BY DEF NobodyStuck
  <2>1. pc[c] \in Waits \cup Joins /\ loop # "none" /\ state # "kInactive"
    BY DEF HolderCanGo, Waits, Joins, PolledInv, Inv, HolderKnows
  <2>2. state = "kToIdle"
    BY <2>1 DEF HolderCanGo, Waits, Joins, PolledInv, PolledMeaning
  <2>3. loop \in Turning \cup {"leaving"}
    BY <2>2 DEF PolledInv, PolledMeaning
  <2>4. paused => kind = "handler"
    BY DEF PolledInv, Inv, PausesHandler
  <2> QED
    BY <2>2, <2>3, <2>4 DEF ThreadCanGo, KeptPaused, ExitPending, Turning
<1> QED
  BY InitPolled, PolledPreserved, <1>1, PTL DEF Spec

LEMMA StepsCounted == Inv /\ [Next]_vars => OneFewer
<1> SUFFICES ASSUME Inv, [Next]_vars, NEW c \in Controllers,
                    lock = c, lock' = c
             PROVE  /\ StepsLeft(c)' <= StepsLeft(c)
                    /\ Proceed(c) \/ ThreadEnding =>
                         StepsLeft(c)' < StepsLeft(c)
  BY DEF OneFewer
<1> USE NobodyAssumption
<1>1. pc[c] \in Inside /\ \A d \in Controllers \ {c} : pc[d] \notin Inside
  BY DEF Inv, TypeOK
<1>2. CASE Proceed(c)
  <2> USE DEF Inv, HolderKnows, StepsLeft, Position, ThreadSteps, Turning,
              ExitPending, Goto, Return, TypeOK, Loops
  <2>1. CASE WaitState(c) \/ Join(c) \/ Deactivate(c)
    BY <1>2, <2>1 DEF WaitState, Join, Deactivate
  <2>2. CASE Spawn(c) \/ SpawnFails(c) \/ Activate(c) \/ AskToIdle(c)
    BY <1>2, <2>2 DEF Spawn, SpawnFails, Activate, AskToIdle
  <2> QED
    BY <1>2, <2>1, <2>2 DEF Proceed
<1>3. CASE ThreadEnding
  BY <1>3 DEF ThreadEnding, PassPause, ThreadLoopEnds, MainLoopEnds, StepsLeft,
       Position, ThreadSteps, Turning, ExitPending
<1>4. ASSUME NEW d \in Controllers, Call(d) \/ Enter(d)
      PROVE  pc'[c] = pc[c] /\ loop' = loop /\ state' = state
  BY <1>1, <1>4 DEF Call, Enter, EnterRun, EnterRequestExit,
       EnterRequestExitAndWait, Goto, Inside, Inv, TypeOK, Outside
<1>5. ASSUME NEW d \in Controllers, Proceed(d) PROVE d = c
  BY <1>1, <1>5 DEF Proceed, WaitState, Join, Deactivate, Spawn, SpawnFails,
       Activate, AskToIdle, Inside
<1>6. CASE /\ pc'[c] = pc[c] /\ loop' = loop /\ state' = state
           /\ ~(Proceed(c) \/ ThreadEnding)
  BY <1>6 DEF StepsLeft, Position, ThreadSteps, ExitPending
<1>7. TogglePause \/ UNCHANGED vars =>
        pc'[c] = pc[c] /\ loop' = loop /\ state' = state
  BY DEF vars, TogglePause
<1>8. CASE PassPause /\ ~ThreadEnding /\ ~Proceed(c)
  BY <1>8 DEF ThreadEnding, PassPause, StepsLeft, Position, ThreadSteps,
       Turning, ExitPending
<1>9. CASE ThreadLoopGoesOn /\ ~ThreadEnding /\ ~Proceed(c)
  BY <1>9 DEF ThreadLoopGoesOn, StepsLeft, Position, ThreadSteps, Turning,
       ExitPending
<1> QED
  BY <1>2, <1>3, <1>4, <1>5, <1>6, <1>7, <1>8, <1>9 DEF Next, ThreadEnding

(* However many controllers race, an entry point that has lock_ is at most *)
(* twenty-three steps from giving it back, its own and those of a thread   *)
(* that was asked to end; no step of anyone else adds to them.             *)
THEOREM EntryPointsAreBounded ==
  Spec => /\ [][OneFewer]_vars
          /\ [](\A c \in Controllers : lock = c => StepsLeft(c) \in 1..23)
<1>1. Inv => \A c \in Controllers : lock = c => StepsLeft(c) \in 1..23
  BY DEF Inv, TypeOK, StepsLeft, Position, ThreadSteps, Turning, Inside
<1> QED
  BY <1>1, StepsCounted, Invariance, PTL DEF Spec
=============================================================================
