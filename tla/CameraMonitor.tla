--------------------------- MODULE CameraMonitor ----------------------------
(***************************************************************************)
(* Camera3Monitor (adaptor/camera_monitor.cc): the object that tells       *)
(* Camera3DeviceClient when the camera goes idle or active.                *)
(*                                                                         *)
(* Streams and the request handler acquire a monitor id each and queue     *)
(* IDLE/ACTIVE transitions for it.  One thread drains the queue, keeps the *)
(* composite state (ACTIVE iff some monitor is ACTIVE) and calls           *)
(* idle_notify_ for every change of it, outside its locks.                 *)
(*                                                                         *)
(* Two mutexes matter: lock_ guards monitor_states_ and composite_state_,  *)
(* input_lock_ guards input_queue_ and monitor_updated_.  A pass of the    *)
(* thread holds both, so that while threadPc = "apply" no caller moves; a  *)
(* caller of AcquireMonitor or ReleaseMonitor takes them one after the     *)
(* other, so that a pass can come between its two halves.                  *)
(***************************************************************************)
EXTENDS Integers, Sequences

CONSTANTS
  MaxMonitors,   (* bound on next_monitor_: ids handed out in a behaviour  *)
  MaxInput       (* bound on the length of input_queue_                    *)

ASSUME BoundsAssumption == MaxMonitors \in Nat /\ MaxInput \in Nat

VARIABLES
  monitorStates,   (* monitor_states_, "NONE" for an id it does not hold   *)
  nextMonitor,     (* next_monitor_                                        *)
  inputQueue,      (* input_queue_                                         *)
  monitorUpdated,  (* monitor_updated_                                     *)
  compositeState,  (* composite_state_                                     *)
  updatedStates,   (* updated_states_ not yet handed to idle_notify_       *)
  oldState,        (* oldState, local variable of ThreadLoop               *)
  threadPc,        (* where the monitor thread is                          *)
  owed,            (* callers between lock_ and input_lock_ of an acquire  *)
                   (* or a release                                         *)
  exitRequested,   (* ThreadHelper::ExitPending()                          *)
  told,            (* argument of the last idle_notify_ call               *)
  wanted           (* history: what the holder of each id last asked for   *)

vars == <<monitorStates, nextMonitor, inputQueue, monitorUpdated,
          compositeState, updatedStates, oldState, threadPc, owed,
          exitRequested, told, wanted>>

MonitorState == {"IDLE", "ACTIVE"}
INVALID_ID == -1
Ids == 0 .. MaxMonitors - 1
Slot == MonitorState \cup {"NONE"}
StateTransition == [id : Ids \cup {INVALID_ID}, state : MonitorState]
ThreadPcs == {"enter", "wait", "apply", "notify", "exited"}

Held(id) == id \in Ids /\ monitorStates[id] # "NONE"

BuildCompositeState(states) ==
  IF \E i \in Ids : states[i] = "ACTIVE" THEN "ACTIVE" ELSE "IDLE"

Init ==
  /\ monitorStates = [i \in Ids |-> "NONE"]
  /\ nextMonitor = 0
  /\ inputQueue = <<>>
  /\ monitorUpdated = FALSE
  /\ compositeState = "IDLE"
  /\ updatedStates = <<>>
  /\ oldState = "IDLE"
  /\ threadPc = "enter"
  /\ owed = 0
  /\ exitRequested = FALSE
  /\ told = "IDLE"
  /\ wanted = [i \in Ids |-> "NONE"]

-----------------------------------------------------------------------------
(* Callers: streams, the request handler and the device client.            *)

callersUntouched == <<compositeState, updatedStates, oldState, threadPc, told>>

(* First half of AcquireMonitor, under lock_: the new id starts IDLE.      *)
AcquireMonitor ==
  /\ threadPc # "apply"
  /\ nextMonitor < MaxMonitors
  /\ monitorStates' = [monitorStates EXCEPT ![nextMonitor] = "IDLE"]
  /\ wanted' = [wanted EXCEPT ![nextMonitor] = "IDLE"]
  /\ nextMonitor' = nextMonitor + 1
  /\ owed' = owed + 1
  /\ UNCHANGED <<inputQueue, monitorUpdated, exitRequested, callersUntouched>>

(* First half of ReleaseMonitor, under lock_.                              *)
ReleaseMonitor(id) ==
  /\ threadPc # "apply"
  /\ Held(id)
  /\ monitorStates' = [monitorStates EXCEPT ![id] = "NONE"]
  /\ wanted' = [wanted EXCEPT ![id] = "NONE"]
  /\ owed' = owed + 1
  /\ UNCHANGED <<nextMonitor, inputQueue, monitorUpdated, exitRequested,
                 callersUntouched>>

(* Second half of either, under input_lock_.                               *)
SignalUpdate ==
  /\ threadPc # "apply"
  /\ owed > 0
  /\ owed' = owed - 1
  /\ monitorUpdated' = TRUE
  /\ UNCHANGED <<monitorStates, nextMonitor, inputQueue, exitRequested,
                 wanted, callersUntouched>>

(* ChangeStateToIdle and ChangeStateToActive.  A stream whose              *)
(* reconfiguration was aborted calls with INVALID_ID.                      *)
ChangeState(id, state) ==
  /\ threadPc # "apply"
  /\ Held(id) \/ id = INVALID_ID
  /\ Len(inputQueue) < MaxInput
  /\ inputQueue' = Append(inputQueue, [id |-> id, state |-> state])
  /\ wanted' = [i \in Ids |-> IF i = id THEN state ELSE wanted[i]]
  /\ UNCHANGED <<monitorStates, nextMonitor, monitorUpdated, owed,
                 exitRequested, callersUntouched>>

(* RequestExit and RequestExitAndWait, as far as the thread can tell.      *)
RequestExit ==
  /\ ~exitRequested
  /\ exitRequested' = TRUE
  /\ UNCHANGED <<monitorStates, nextMonitor, inputQueue, monitorUpdated,
                 owed, wanted, callersUntouched>>

-----------------------------------------------------------------------------
(* The monitor thread: MainLoop calling ThreadLoop again and again.        *)

HasWork == inputQueue # <<>> \/ monitorUpdated

threadUntouched == <<nextMonitor, owed, exitRequested, wanted>>

(* The wait loop finds nothing to do and blocks in cond_wait_relative.     *)
StartWait ==
  /\ threadPc = "enter"
  /\ ~HasWork
  /\ threadPc' = "wait"
  /\ UNCHANGED <<monitorStates, inputQueue, monitorUpdated, compositeState,
                 updatedStates, oldState, told, threadUntouched>>

(* Mutant: the exit flag is read only on a wake-up that has work to do.    *)
StopOnExit_IfWork ==
  /\ threadPc = "wait"
  /\ exitRequested /\ HasWork
  /\ threadPc' = "exited"
  /\ UNCHANGED <<monitorStates, inputQueue, monitorUpdated, compositeState,
                 updatedStates, oldState, told, threadUntouched>>

(* Woken, by a signal or by the 250 ms timeout, with an exit pending.  The *)
(* exit flag is read nowhere else: a pass that finds work skips it.        *)
StopOnExit ==
  /\ threadPc = "wait"
  /\ exitRequested
  /\ threadPc' = "exited"
  /\ UNCHANGED <<monitorStates, inputQueue, monitorUpdated, compositeState,
                 updatedStates, oldState, told, threadUntouched>>

(* Mutant: a change by an acquire or a release is not announced.           *)
BeginPass_Quiet ==
  /\ \/ threadPc = "enter" /\ HasWork
     \/ threadPc = "wait" /\ ~exitRequested
  /\ oldState' = BuildCompositeState(monitorStates)
  /\ threadPc' = "apply"
  /\ UNCHANGED <<monitorStates, inputQueue, monitorUpdated, compositeState,
                 updatedStates, told, threadUntouched>>

(* A pass starts with both locks taken: there was work on entry, or the    *)
(* wait ended by a signal for work or by its timeout.  A monitor acquired  *)
(* or released since the last pass may have changed the composite state.   *)
BeginPass ==
  /\ \/ threadPc = "enter" /\ HasWork
     \/ threadPc = "wait" /\ ~exitRequested
  /\ oldState' = BuildCompositeState(monitorStates)
  /\ updatedStates' = IF oldState' # compositeState
                      THEN Append(updatedStates, oldState')
                      ELSE updatedStates
  /\ threadPc' = "apply"
  /\ UNCHANGED <<monitorStates, inputQueue, monitorUpdated, compositeState,
                 told, threadUntouched>>

(* One round of the loop over input_queue_, for an id that is known ...    *)
ApplyKnown ==
  /\ threadPc = "apply"
  /\ inputQueue # <<>>
  /\ Held(Head(inputQueue).id)
  /\ monitorStates' = [monitorStates EXCEPT
                         ![Head(inputQueue).id] = Head(inputQueue).state]
  /\ oldState' = BuildCompositeState(monitorStates')
  /\ updatedStates' = IF oldState' # oldState
                      THEN Append(updatedStates, oldState')
                      ELSE updatedStates
  /\ inputQueue' = Tail(inputQueue)
  /\ UNCHANGED <<monitorUpdated, compositeState, threadPc, told,
                 threadUntouched>>

(* ... and for one released meanwhile, or never valid: it is skipped.      *)
SkipUnknown ==
  /\ threadPc = "apply"
  /\ inputQueue # <<>>
  /\ ~Held(Head(inputQueue).id)
  /\ inputQueue' = Tail(inputQueue)
  /\ UNCHANGED <<monitorStates, monitorUpdated, compositeState,
                 updatedStates, oldState, threadPc, told, threadUntouched>>

(* The queue is cleared, the composite state recorded, the locks released. *)
EndPass ==
  /\ threadPc = "apply"
  /\ inputQueue = <<>>
  /\ monitorUpdated' = FALSE
  /\ compositeState' = oldState
  /\ threadPc' = "notify"
  /\ UNCHANGED <<monitorStates, inputQueue, updatedStates, oldState, told,
                 threadUntouched>>

(* Mutant: only the latest change is announced.                            *)
Notify_Latest ==
  /\ threadPc = "notify"
  /\ updatedStates # <<>>
  /\ told' = updatedStates[Len(updatedStates)]
  /\ updatedStates' = <<>>
  /\ UNCHANGED <<monitorStates, inputQueue, monitorUpdated, compositeState,
                 oldState, threadPc, threadUntouched>>

(* One idle_notify_ call, with no lock held.                               *)
Notify ==
  /\ threadPc = "notify"
  /\ updatedStates # <<>>
  /\ told' = Head(updatedStates)
  /\ updatedStates' = Tail(updatedStates)
  /\ UNCHANGED <<monitorStates, inputQueue, monitorUpdated, compositeState,
                 oldState, threadPc, threadUntouched>>

(* Mutant: ThreadLoop returns false.                                      *)
EndNotify_ReturnsFalse ==
  /\ threadPc = "notify"
  /\ updatedStates = <<>>
  /\ threadPc' = "exited"
  /\ UNCHANGED <<monitorStates, inputQueue, monitorUpdated, compositeState,
                 updatedStates, oldState, told, threadUntouched>>

(* ThreadLoop returns true and is called again.                            *)
EndNotify ==
  /\ threadPc = "notify"
  /\ updatedStates = <<>>
  /\ threadPc' = "enter"
  /\ UNCHANGED <<monitorStates, inputQueue, monitorUpdated, compositeState,
                 updatedStates, oldState, told, threadUntouched>>

ThreadStep ==
  \/ StartWait \/ StopOnExit \/ BeginPass \/ ApplyKnown \/ SkipUnknown
  \/ EndPass \/ Notify \/ EndNotify

CallerStep ==
  \/ AcquireMonitor
  \/ \E id \in Ids : ReleaseMonitor(id)
  \/ SignalUpdate
  \/ \E id \in Ids \cup {INVALID_ID}, state \in MonitorState :
       ChangeState(id, state)
  \/ RequestExit

Next == ThreadStep \/ CallerStep

Spec == Init /\ [][Next]_vars

(* The thread is scheduled and its wait is timed; a caller that has left   *)
(* lock_ goes on to input_lock_, which no one keeps.                       *)
FairSpec == Spec /\ WF_vars(ThreadStep) /\ WF_vars(SignalUpdate)

-----------------------------------------------------------------------------
TypeOK ==
  /\ monitorStates \in [Ids -> Slot]
  /\ nextMonitor \in 0 .. MaxMonitors
  /\ inputQueue \in Seq(StateTransition)
  /\ monitorUpdated \in BOOLEAN
  /\ compositeState \in MonitorState
  /\ updatedStates \in Seq(MonitorState)
  /\ oldState \in MonitorState
  /\ threadPc \in ThreadPcs
  /\ owed \in Nat
  /\ exitRequested \in BOOLEAN
  /\ told \in MonitorState
  /\ wanted \in [Ids -> Slot]

(* The composite state the pending callbacks lead to.                      *)
Level == IF threadPc = "apply" THEN oldState ELSE compositeState

(* Callbacks strictly alternate: what the client was last told and the     *)
(* callbacks still due are pairwise different from one to the next, and    *)
(* the last of them is the composite state (ThreadLoop, updated_states_).  *)
NotificationsAlternate ==
  LET said(i) == IF i = 0 THEN told ELSE updatedStates[i]
  IN  /\ \A i \in 1 .. Len(updatedStates) : said(i) # said(i - 1)
      /\ said(Len(updatedStates)) = Level

(* A transition is never lost on its way to monitor_states_: for every id  *)
(* held, the last transition queued for it, or with none queued the state  *)
(* already applied, is the last one its holder asked for.                  *)
LastFor(id, k) ==
  /\ k \in 1 .. Len(inputQueue)
  /\ inputQueue[k].id = id
  /\ \A j \in k + 1 .. Len(inputQueue) : inputQueue[j].id # id

NoRequestLost ==
  \A id \in Ids : Held(id) =>
    /\ \A k \in 1 .. Len(inputQueue) :
         LastFor(id, k) => inputQueue[k].state = wanted[id]
    /\ (\A k \in 1 .. Len(inputQueue) : inputQueue[k].id # id)
         => monitorStates[id] = wanted[id]

(* The composite state goes stale only when an id was released, and then   *)
(* monitor_updated_ is set or about to be; and it is never stale in the    *)
(* dangerous direction: IDLE while some applied state is ACTIVE.           *)
CompositeFresh ==
  LET actual == BuildCompositeState(monitorStates)
  IN  /\ Level # actual => owed > 0 \/ monitorUpdated
      /\ actual = "ACTIVE" => Level = "ACTIVE"
      /\ threadPc = "apply" => oldState = actual

(* Between passes, with nothing queued, owed or due, the client has been   *)
(* told exactly whether some holder last asked for ACTIVE.                 *)
Quiet ==
  /\ inputQueue = <<>> /\ updatedStates = <<>>
  /\ owed = 0 /\ ~monitorUpdated
  /\ threadPc # "apply"

QuietMeansTruth == Quiet => told = BuildCompositeState(wanted)

(* Liveness: once the holders settle, all IDLE or some ACTIVE, and no exit *)
(* is asked for, the client ends up told so.                               *)
Settles(state) ==
  <>[](BuildCompositeState(wanted) = state /\ ~exitRequested)
    => <>[](told = state)

EventuallyTold == Settles("IDLE") /\ Settles("ACTIVE")

(* Liveness: a requested exit is honoured once the callers fall silent:    *)
(* the flag is read only after a wait, so work that keeps coming delays it.*)
ExitHonoured ==
  <>[](exitRequested /\ ~HasWork) => <>(threadPc = "exited")

(* The promise: an IdleNotifier whose level is Level and whose backlog is  *)
(* the part of updated_states_ not yet delivered.                          *)
Promise == INSTANCE IdleNotifier
             WITH level <- Level, backlog <- Len(updatedStates)

ImplementsPromise == Promise!Spec
=============================================================================
