------------------------ MODULE CameraMonitor_proofs ------------------------
(***************************************************************************)
(* Theorems about CameraMonitor, for every number of monitors and every    *)
(* length of the input queue.                                              *)
(***************************************************************************)
EXTENDS CameraMonitor, TLAPS

-----------------------------------------------------------------------------
(* The composite of a table of monitors is one of the two states, and it   *)
(* depends on nothing but which ids are ACTIVE.                            *)
LEMMA CompositeType ==
  ASSUME NEW states
  PROVE  BuildCompositeState(states) \in MonitorState
BY DEF BuildCompositeState, MonitorState

(* The transition a pass looks at is a transition.                         *)
LEMMA HeadIsTransition ==
  ASSUME inputQueue \in Seq(StateTransition), inputQueue # <<>>
  PROVE  /\ Head(inputQueue) \in StateTransition
         /\ Head(inputQueue).state \in MonitorState
<1>1. Head(inputQueue) \in StateTransition
  OBVIOUS
<1> QED
  BY <1>1 DEF StateTransition

-----------------------------------------------------------------------------
(* Type correctness of Camera3Monitor.                                     *)
THEOREM TypeCorrect == Spec => []TypeOK
<1> USE BoundsAssumption DEF Ids, MonitorState, Slot, INVALID_ID,
                             StateTransition, ThreadPcs
<1>1. ASSUME Init PROVE TypeOK
  <2>1. nextMonitor \in 0 .. MaxMonitors /\ owed \in Nat
    BY <1>1 DEF Init
  <2>2. inputQueue \in Seq(StateTransition) /\ updatedStates \in Seq(MonitorState)
    BY <1>1 DEF Init
  <2>3. monitorStates \in [Ids -> Slot] /\ wanted \in [Ids -> Slot]
    BY <1>1 DEF Init
  <2> QED
    BY <1>1, <2>1, <2>2, <2>3 DEF Init, TypeOK
<1>2. TypeOK /\ [Next]_vars => TypeOK'
  <2> SUFFICES ASSUME TypeOK, [Next]_vars PROVE TypeOK'
    OBVIOUS
  <2> USE DEF TypeOK
  <2>1. CASE AcquireMonitor
    BY <2>1 DEF AcquireMonitor, callersUntouched
  <2>2. ASSUME NEW id \in Ids, ReleaseMonitor(id) PROVE TypeOK'
    BY <2>2 DEF ReleaseMonitor, callersUntouched
  <2>3. CASE SignalUpdate
    BY <2>3 DEF SignalUpdate, callersUntouched
  <2>4. ASSUME NEW id \in Ids \cup {INVALID_ID}, NEW state \in MonitorState,
               ChangeState(id, state)
        PROVE  TypeOK'
    BY <2>4 DEF ChangeState, callersUntouched
  <2>5. CASE RequestExit
    BY <2>5 DEF RequestExit, callersUntouched
  <2>6. CASE StartWait
    BY <2>6 DEF StartWait, threadUntouched
  <2>7. CASE StopOnExit
    BY <2>7 DEF StopOnExit, threadUntouched
  <2>8. CASE BeginPass
    BY <2>8, CompositeType DEF BeginPass, threadUntouched
  <2>9. CASE ApplyKnown
    <3>1. Head(inputQueue).state \in Slot
      BY <2>9, HeadIsTransition DEF ApplyKnown
    <3>2. monitorStates' \in [Ids -> Slot]
      BY <2>9, <3>1 DEF ApplyKnown
    <3>3. oldState' \in MonitorState
      BY <2>9, CompositeType DEF ApplyKnown
    <3>4. updatedStates' \in Seq(MonitorState)
      BY <2>9, <3>3 DEF ApplyKnown
    <3> QED
      BY <2>9, <3>1, <3>2, <3>3, <3>4 DEF ApplyKnown, threadUntouched
  <2>10. CASE SkipUnknown
    BY <2>10 DEF SkipUnknown, threadUntouched
  <2>11. CASE EndPass
    BY <2>11 DEF EndPass, threadUntouched
  <2>12. CASE Notify
    BY <2>12 DEF Notify, threadUntouched
  <2>13. CASE EndNotify
    BY <2>13 DEF EndNotify, threadUntouched
  <2>14. CASE UNCHANGED vars
    BY <2>14 DEF vars
  <2> QED
    BY <2>1, <2>2, <2>3, <2>4, <2>5, <2>6, <2>7, <2>8, <2>9, <2>10, <2>11,
       <2>12, <2>13, <2>14 DEF Next, CallerStep, ThreadStep
<1> QED
  BY <1>1, <1>2, PTL DEF Spec

-----------------------------------------------------------------------------
(* ReleaseMonitor cannot make a table more active, and a table that is     *)
(* ACTIVE holds an id that is.                                             *)
LEMMA ReleaseLowers ==
  ASSUME NEW states \in [Ids -> Slot], NEW id \in Ids, NEW s \in {"IDLE", "NONE"},
         BuildCompositeState([states EXCEPT ![id] = s]) = "ACTIVE"
  PROVE  BuildCompositeState(states) = "ACTIVE"
BY DEF BuildCompositeState

(* An id that was not held enters the table IDLE: nothing changes.         *)
LEMMA AcquireKeeps ==
  ASSUME NEW states \in [Ids -> Slot], NEW id \in Ids, states[id] = "NONE"
  PROVE  BuildCompositeState([states EXCEPT ![id] = "IDLE"])
           = BuildCompositeState(states)
BY DEF BuildCompositeState

(* Ids at and above next_monitor_ are neither held nor queued for, and the *)
(* history follows the table in which ids are held.                        *)
Bookkeeping ==
  /\ \A id \in Ids : id >= nextMonitor => monitorStates[id] = "NONE"
  /\ \A id \in Ids : monitorStates[id] = "NONE" <=> wanted[id] = "NONE"
  /\ \A k \in 1 .. Len(inputQueue) : inputQueue[k].id < nextMonitor

THEOREM BookkeepingHolds == Spec => []Bookkeeping
<1> USE BoundsAssumption DEF Ids, MonitorState, Slot, INVALID_ID
<1>1. Init => Bookkeeping
  BY DEF Init, Bookkeeping
<1>2. TypeOK /\ Bookkeeping /\ [Next]_vars => Bookkeeping'
  <2> SUFFICES ASSUME TypeOK, Bookkeeping, [Next]_vars PROVE Bookkeeping'
    OBVIOUS
  <2> USE DEF Bookkeeping
  <2>1. CASE AcquireMonitor
    <3>1. ASSUME NEW k \in 1 .. Len(inputQueue)
          PROVE  inputQueue[k].id < nextMonitor + 1
      <4>1. inputQueue[k] \in StateTransition
        BY DEF TypeOK
      <4>2. inputQueue[k].id \in Int
        BY <4>1 DEF StateTransition
      <4>3. nextMonitor \in Int
        BY DEF TypeOK
      <4> QED
        BY <4>2, <4>3
    <3> QED
      BY <2>1, <3>1 DEF AcquireMonitor, TypeOK
  <2>2. ASSUME NEW id \in Ids, ReleaseMonitor(id) PROVE Bookkeeping'
    BY <2>2 DEF ReleaseMonitor, TypeOK
  <2>3. ASSUME NEW id \in Ids \cup {INVALID_ID}, NEW state \in MonitorState,
               ChangeState(id, state)
        PROVE  Bookkeeping'
    <3>1. id < nextMonitor
      BY <2>3 DEF ChangeState, Held, TypeOK
    <3>2. \A k \in 1 .. Len(inputQueue') : inputQueue'[k].id < nextMonitor
      BY <2>3, <3>1 DEF ChangeState, TypeOK
    <3> QED
      BY <2>3, <3>2 DEF ChangeState, Held, TypeOK
  <2>4. CASE ApplyKnown
    <3>1. Head(inputQueue).state # "NONE"
      BY <2>4, HeadIsTransition DEF ApplyKnown, TypeOK
    <3>2. \A k \in 1 .. Len(inputQueue') : inputQueue'[k].id < nextMonitor
      BY <2>4 DEF ApplyKnown, TypeOK
    <3> QED
      BY <2>4, <3>1, <3>2 DEF ApplyKnown, threadUntouched, Held, TypeOK
  <2>5. CASE SkipUnknown
    <3>1. \A k \in 1 .. Len(inputQueue') : inputQueue'[k].id < nextMonitor
      BY <2>5 DEF SkipUnknown, TypeOK
    <3> QED
      BY <2>5, <3>1 DEF SkipUnknown, threadUntouched
  <2>6. CASE SignalUpdate \/ RequestExit \/ StartWait \/ StopOnExit \/ BeginPass
             \/ EndPass \/ Notify \/ EndNotify \/ UNCHANGED vars
    BY <2>6 DEF SignalUpdate, RequestExit, StartWait, StopOnExit, BeginPass,
         EndPass, Notify, EndNotify, threadUntouched, vars
  <2> QED
    BY <2>1, <2>2, <2>3, <2>4, <2>5, <2>6 DEF Next, CallerStep, ThreadStep
<1> QED
  BY <1>1, <1>2, TypeCorrect, PTL DEF Spec

-----------------------------------------------------------------------------
(* The composite state is never stale without a monitor update being due,  *)
(* and never IDLE while some applied state is ACTIVE.                      *)
THEOREM CompositeIsFresh == Spec => []CompositeFresh
<1> USE BoundsAssumption
<1>1. Init => CompositeFresh
  BY DEF Init, CompositeFresh, Level, BuildCompositeState
<1>2. TypeOK /\ Bookkeeping /\ CompositeFresh /\ [Next]_vars => CompositeFresh'
  <2> SUFFICES ASSUME TypeOK, Bookkeeping, CompositeFresh, [Next]_vars
               PROVE  CompositeFresh'
    OBVIOUS
  <2>1. CASE AcquireMonitor
    <3>1. /\ nextMonitor \in Ids
          /\ monitorStates[nextMonitor] = "NONE"
          /\ monitorStates \in [Ids -> Slot]
          /\ monitorStates' = [monitorStates EXCEPT ![nextMonitor] = "IDLE"]
      BY <2>1 DEF AcquireMonitor, TypeOK, Bookkeeping, Ids
    <3>2. BuildCompositeState(monitorStates')
            = BuildCompositeState(monitorStates)
      BY <3>1, AcquireKeeps
    <3> QED
      BY <2>1, <3>2 DEF AcquireMonitor, callersUntouched, CompositeFresh,
                        Level, TypeOK
  <2>2. ASSUME NEW id \in Ids, ReleaseMonitor(id) PROVE CompositeFresh'
    <3>1. /\ monitorStates \in [Ids -> Slot]
          /\ monitorStates' = [monitorStates EXCEPT ![id] = "NONE"]
      BY <2>2 DEF ReleaseMonitor, TypeOK
    <3>2. BuildCompositeState(monitorStates') = "ACTIVE"
            => BuildCompositeState(monitorStates) = "ACTIVE"
      BY <3>1, ReleaseLowers
    <3> QED
      BY <2>2, <3>2, CompositeType
         DEF ReleaseMonitor, callersUntouched, CompositeFresh, Level, TypeOK,
             MonitorState
  <2>3. CASE BeginPass
    BY <2>3, CompositeType DEF BeginPass, threadUntouched, CompositeFresh, Level
  <2>4. CASE ApplyKnown
    BY <2>4 DEF ApplyKnown, threadUntouched, CompositeFresh, Level
  <2>5. CASE EndPass
    BY <2>5 DEF EndPass, threadUntouched, CompositeFresh, Level
  <2>6. ASSUME NEW id \in Ids \cup {INVALID_ID}, NEW state \in MonitorState,
               ChangeState(id, state)
        PROVE  CompositeFresh'
    BY <2>6 DEF ChangeState, callersUntouched, CompositeFresh, Level
  <2>7. CASE SignalUpdate
    BY <2>7 DEF SignalUpdate, callersUntouched, CompositeFresh, Level
  <2>8. CASE RequestExit
    BY <2>8 DEF RequestExit, callersUntouched, CompositeFresh, Level
  <2>9. CASE StartWait \/ StopOnExit \/ SkipUnknown \/ Notify \/ EndNotify
    BY <2>9 DEF StartWait, StopOnExit, SkipUnknown, Notify, EndNotify,
         threadUntouched, CompositeFresh, Level
  <2>10. CASE UNCHANGED vars
    BY <2>10 DEF vars, CompositeFresh, Level
  <2> QED
    BY <2>1, <2>2, <2>3, <2>4, <2>5, <2>6, <2>7, <2>8, <2>9, <2>10
       DEF Next, CallerStep, ThreadStep
<1> QED
  BY <1>1, <1>2, TypeCorrect, BookkeepingHolds, PTL DEF Spec

-----------------------------------------------------------------------------
(* Appending a state that differs from the last one said keeps the         *)
(* alternation; handing out the first one keeps it too.                    *)
Alternates(first, seq, last) ==
  LET said(i) == IF i = 0 THEN first ELSE seq[i]
  IN  /\ \A i \in 1 .. Len(seq) : said(i) # said(i - 1)
      /\ said(Len(seq)) = last

LEMMA AlternatesAppend ==
  ASSUME NEW first \in MonitorState, NEW seq \in Seq(MonitorState),
         NEW last \in MonitorState, NEW s \in MonitorState,
         Alternates(first, seq, last), s # last
  PROVE  Alternates(first, Append(seq, s), s)
BY DEF Alternates

LEMMA AlternatesTail ==
  ASSUME NEW first \in MonitorState, NEW seq \in Seq(MonitorState),
         NEW last \in MonitorState,
         Alternates(first, seq, last), seq # <<>>
  PROVE  /\ Alternates(Head(seq), Tail(seq), last)
         /\ Head(seq) # first
<1>1. Len(seq) > 0 /\ Len(seq) \in Nat
  OBVIOUS
<1>2. Len(Tail(seq)) = Len(seq) - 1
  BY <1>1
<1>3. \A i \in 1 .. Len(seq) - 1 : Tail(seq)[i] = seq[i + 1]
  BY <1>1
<1>4. Head(seq) = seq[1]
  BY <1>1
<1>5. Head(seq) # first
  BY <1>1, <1>4 DEF Alternates
<1>6. ASSUME NEW i \in 1 .. Len(Tail(seq))
      PROVE  (IF i = 0 THEN Head(seq) ELSE Tail(seq)[i])
               # (IF i - 1 = 0 THEN Head(seq) ELSE Tail(seq)[i - 1])
  <2>1. Tail(seq)[i] = seq[i + 1] /\ i # 0
    BY <1>1, <1>2, <1>3
  <2>2. seq[i + 1] # seq[i]
    BY <1>1, <1>2 DEF Alternates
  <2>3. CASE i = 1
    BY <2>1, <2>2, <2>3, <1>4
  <2>4. CASE i # 1
    <3>1. Tail(seq)[i - 1] = seq[i]
      BY <2>4, <1>1, <1>2, <1>3
    <3> QED
      BY <2>1, <2>2, <2>4, <3>1
  <2> QED
    BY <2>3, <2>4
<1>7. (IF Len(Tail(seq)) = 0 THEN Head(seq) ELSE Tail(seq)[Len(Tail(seq))]) = last
  BY <1>1, <1>2, <1>3, <1>4 DEF Alternates
<1> QED
  BY <1>5, <1>6, <1>7 DEF Alternates

(* The callbacks strictly alternate and lead to the composite state.       *)
THEOREM NotificationsDoAlternate == Spec => []NotificationsAlternate
<1>1. NotificationsAlternate <=> Alternates(told, updatedStates, Level)
  BY DEF NotificationsAlternate, Alternates
<1>2. Init => Alternates(told, updatedStates, Level)
  BY DEF Init, Alternates, Level
<1>3. TypeOK /\ Alternates(told, updatedStates, Level) /\ [Next]_vars
        => Alternates(told, updatedStates, Level)'
  <2> SUFFICES ASSUME TypeOK, Alternates(told, updatedStates, Level), [Next]_vars
               PROVE  Alternates(told', updatedStates', Level')
    BY DEF Alternates, Level
  <2> USE DEF TypeOK
  <2>0. Level \in MonitorState
    BY DEF Level
  <2>1. CASE BeginPass
    <3>1. oldState' \in MonitorState /\ Level' = oldState' /\ told' = told
      BY <2>1, CompositeType DEF BeginPass, Level
    <3>2. Level = compositeState
      BY <2>1 DEF BeginPass, Level
    <3>3. CASE oldState' # compositeState
      BY <2>0, <2>1, <3>1, <3>2, <3>3, AlternatesAppend DEF BeginPass
    <3>4. CASE oldState' = compositeState
      BY <2>1, <3>1, <3>2, <3>4 DEF BeginPass
    <3> QED
      BY <3>3, <3>4
  <2>2. CASE ApplyKnown
    <3>1. oldState' \in MonitorState /\ Level' = oldState' /\ told' = told
      BY <2>2, CompositeType DEF ApplyKnown, Level, threadUntouched
    <3>2. Level = oldState
      BY <2>2 DEF ApplyKnown, Level
    <3>3. CASE oldState' # oldState
      BY <2>0, <2>2, <3>1, <3>2, <3>3, AlternatesAppend DEF ApplyKnown
    <3>4. CASE oldState' = oldState
      BY <2>2, <3>1, <3>2, <3>4 DEF ApplyKnown
    <3> QED
      BY <3>3, <3>4
  <2>3. CASE Notify
    <3>1. Level' = Level
      BY <2>3 DEF Notify, Level
    <3> QED
      BY <2>0, <2>3, <3>1, AlternatesTail DEF Notify
  <2>4. CASE EndPass
    BY <2>4 DEF EndPass, Level
  <2>5. CASE StartWait \/ StopOnExit \/ SkipUnknown \/ EndNotify \/ UNCHANGED vars
    BY <2>5 DEF StartWait, StopOnExit, SkipUnknown, EndNotify, Level, vars
  <2>6. CASE CallerStep
    BY <2>6 DEF CallerStep, AcquireMonitor, ReleaseMonitor, SignalUpdate,
                ChangeState, RequestExit, callersUntouched, Level
  <2> QED
    BY <2>1, <2>2, <2>3, <2>4, <2>5, <2>6 DEF Next, ThreadStep
<1> QED
  BY <1>1, <1>2, <1>3, TypeCorrect, PTL DEF Spec

(* Camera3Monitor is an IdleNotifier: every change of the composite state  *)
(* is one Change, every idle_notify_ call one Deliver, all else stutters.  *)
THEOREM ImplementsIdleNotifier == Spec => ImplementsPromise
<1>1. Init => Promise!Init
  BY DEF Init, Promise!Init, Level
<1>2. TypeOK /\ NotificationsAlternate /\ [Next]_vars
        => [Promise!Next]_(Promise!vars)
  <2> SUFFICES ASSUME TypeOK, NotificationsAlternate, [Next]_vars
               PROVE  Promise!Next \/ UNCHANGED Promise!vars
    OBVIOUS
  <2> USE DEF TypeOK, MonitorState, Promise!vars
  <2>1. CASE BeginPass
    <3>1. oldState' \in MonitorState /\ Level' = oldState' /\ told' = told
          /\ Level = compositeState
      BY <2>1, CompositeType DEF BeginPass, Level
    <3>2. CASE oldState' # compositeState
      <4>1. Len(updatedStates') = Len(updatedStates) + 1
        BY <2>1, <3>1, <3>2 DEF BeginPass
      <4> QED
        BY <3>1, <3>2, <4>1 DEF Promise!Next, Promise!Change, Promise!Opposite
    <3>3. CASE oldState' = compositeState
      BY <2>1, <3>1, <3>3 DEF BeginPass
    <3> QED
      BY <3>2, <3>3
  <2>2. CASE ApplyKnown
    <3>1. oldState' \in MonitorState /\ Level' = oldState' /\ told' = told
          /\ Level = oldState
      BY <2>2, CompositeType DEF ApplyKnown, Level
    <3>2. CASE oldState' # oldState
      <4>1. Len(updatedStates') = Len(updatedStates) + 1
        BY <2>2, <3>1, <3>2 DEF ApplyKnown
      <4> QED
        BY <3>1, <3>2, <4>1 DEF Promise!Next, Promise!Change, Promise!Opposite
    <3>3. CASE oldState' = oldState
      BY <2>2, <3>1, <3>3 DEF ApplyKnown
    <3> QED
      BY <3>2, <3>3
  <2>3. CASE Notify
    <3>1. Level' = Level
      BY <2>3 DEF Notify, Level
    <3>2. /\ Len(updatedStates) > 0
          /\ Len(updatedStates') = Len(updatedStates) - 1
      BY <2>3 DEF Notify
    <3>3. told' \in MonitorState /\ told' # told
      <4>1. told' = updatedStates[1] /\ told' \in MonitorState
        BY <2>3, <3>2 DEF Notify
      <4> QED
        BY <3>2, <4>1 DEF NotificationsAlternate
    <3> QED
      BY <3>1, <3>2, <3>3 DEF Promise!Next, Promise!Deliver, Promise!Opposite
  <2>4. CASE EndPass
    BY <2>4 DEF EndPass, Level
  <2>5. CASE StartWait \/ StopOnExit \/ SkipUnknown \/ EndNotify \/ UNCHANGED vars
    BY <2>5 DEF StartWait, StopOnExit, SkipUnknown, EndNotify, Level, vars
  <2>6. CASE CallerStep
    BY <2>6 DEF CallerStep, AcquireMonitor, ReleaseMonitor, SignalUpdate,
                ChangeState, RequestExit, callersUntouched, Level
  <2> QED
    BY <2>1, <2>2, <2>3, <2>4, <2>5, <2>6 DEF Next, ThreadStep
<1> QED
  BY <1>1, <1>2, TypeCorrect, NotificationsDoAlternate, PTL
     DEF Spec, ImplementsPromise, Promise!Spec

-----------------------------------------------------------------------------
(* No transition is lost, reordered or applied to the wrong monitor.       *)
THEOREM NoRequestIsLost == Spec => []NoRequestLost
<1> USE BoundsAssumption
<1>1. Init => NoRequestLost
  BY DEF Init, NoRequestLost, Held
<1>2. TypeOK /\ Bookkeeping /\ NoRequestLost /\ [Next]_vars => NoRequestLost'
  <2> SUFFICES ASSUME TypeOK, Bookkeeping, NoRequestLost, [Next]_vars,
                      NEW m \in Ids, Held(m)'
               PROVE  /\ \A k \in 1 .. Len(inputQueue') :
                           LastFor(m, k)' => inputQueue'[k].state = wanted'[m]
                      /\ (\A k \in 1 .. Len(inputQueue') : inputQueue'[k].id # m)
                           => monitorStates'[m] = wanted'[m]
    BY DEF NoRequestLost
  <2> DEFINE Unqueued == \A k \in 1 .. Len(inputQueue) : inputQueue[k].id # m
             Latest(k) == LastFor(m, k)
  <2> USE DEF TypeOK
  <2>1. CASE AcquireMonitor
    <3>1. CASE m = nextMonitor
      <4>1. Unqueued
        BY <3>1 DEF Bookkeeping
      <4> QED
        BY <2>1, <3>1, <4>1 DEF AcquireMonitor, LastFor
    <3>2. CASE m # nextMonitor
      BY <2>1, <3>2 DEF AcquireMonitor, LastFor, NoRequestLost, Held
    <3> QED
      BY <3>1, <3>2
  <2>2. ASSUME NEW id \in Ids, ReleaseMonitor(id)
        PROVE  /\ \A k \in 1 .. Len(inputQueue') :
                    LastFor(m, k)' => inputQueue'[k].state = wanted'[m]
               /\ (\A k \in 1 .. Len(inputQueue') : inputQueue'[k].id # m)
                    => monitorStates'[m] = wanted'[m]
    BY <2>2 DEF ReleaseMonitor, LastFor, NoRequestLost, Held
  <2>3. ASSUME NEW id \in Ids \cup {INVALID_ID}, NEW state \in MonitorState,
               ChangeState(id, state)
        PROVE  /\ \A k \in 1 .. Len(inputQueue') :
                    LastFor(m, k)' => inputQueue'[k].state = wanted'[m]
               /\ (\A k \in 1 .. Len(inputQueue') : inputQueue'[k].id # m)
                    => monitorStates'[m] = wanted'[m]
    <3>1. /\ Len(inputQueue') = Len(inputQueue) + 1
          /\ \A k \in 1 .. Len(inputQueue) : inputQueue'[k] = inputQueue[k]
          /\ inputQueue'[Len(inputQueue) + 1].id = id
          /\ inputQueue'[Len(inputQueue) + 1].state = state
      BY <2>3 DEF ChangeState
    <3>2. Held(m) /\ monitorStates' = monitorStates
      BY <2>3 DEF ChangeState, Held
    <3>3. CASE id = m
      <4>1. wanted'[m] = state
        BY <2>3, <3>3 DEF ChangeState
      <4>2. ASSUME NEW k \in 1 .. Len(inputQueue'), LastFor(m, k)'
            PROVE  k = Len(inputQueue) + 1
        BY <3>1, <3>3, <4>2 DEF LastFor
      <4> QED
        BY <3>1, <3>3, <4>1, <4>2
    <3>4. CASE id # m
      <4>1. wanted'[m] = wanted[m]
        BY <2>3, <3>4 DEF ChangeState
      <4>2. ASSUME NEW k \in 1 .. Len(inputQueue'), LastFor(m, k)'
            PROVE  k \in 1 .. Len(inputQueue) /\ LastFor(m, k)
        BY <3>1, <3>4, <4>2 DEF LastFor
      <4>3. (\A k \in 1 .. Len(inputQueue') : inputQueue'[k].id # m) => Unqueued
        BY <3>1
      <4> QED
        BY <3>1, <3>2, <4>1, <4>2, <4>3 DEF NoRequestLost
    <3> QED
      BY <3>3, <3>4
  <2>4. ASSUME inputQueue # <<>>, inputQueue' = Tail(inputQueue), wanted' = wanted,
               Held(m),
               Head(inputQueue).id = m => monitorStates'[m] = Head(inputQueue).state,
               Head(inputQueue).id # m => monitorStates'[m] = monitorStates[m]
        PROVE  /\ \A k \in 1 .. Len(inputQueue') :
                    LastFor(m, k)' => inputQueue'[k].state = wanted'[m]
               /\ (\A k \in 1 .. Len(inputQueue') : inputQueue'[k].id # m)
                    => monitorStates'[m] = wanted'[m]
    <3>1. /\ Len(inputQueue) \in Nat /\ Len(inputQueue) > 0
          /\ Len(inputQueue') = Len(inputQueue) - 1
          /\ \A k \in 1 .. Len(inputQueue') : inputQueue'[k] = inputQueue[k + 1]
          /\ Head(inputQueue) = inputQueue[1]
      BY <2>4
    <3>2. ASSUME NEW k \in 1 .. Len(inputQueue'), LastFor(m, k)'
          PROVE  inputQueue'[k].state = wanted'[m]
      <4>1. \A j \in (k + 1) + 1 .. Len(inputQueue) : inputQueue[j].id # m
        <5> SUFFICES ASSUME NEW j \in (k + 1) + 1 .. Len(inputQueue)
                     PROVE  inputQueue[j].id # m
          OBVIOUS
        <5>1. j - 1 \in k + 1 .. Len(inputQueue') /\ (j - 1) + 1 = j
          BY <3>1
        <5>2. inputQueue'[j - 1].id # m
          BY <5>1, <3>2 DEF LastFor
        <5>3. j - 1 \in 1 .. Len(inputQueue')
          BY <5>1
        <5> QED
          BY <5>1, <5>2, <5>3, <3>1
      <4>2. LastFor(m, k + 1) /\ k + 1 \in 1 .. Len(inputQueue)
        BY <3>1, <3>2, <4>1 DEF LastFor
      <4> QED
        BY <2>4, <3>1, <4>2 DEF NoRequestLost
    <3>3. ASSUME \A k \in 1 .. Len(inputQueue') : inputQueue'[k].id # m
          PROVE  monitorStates'[m] = wanted'[m]
      <4>1. \A j \in 2 .. Len(inputQueue) : inputQueue[j].id # m
        <5> SUFFICES ASSUME NEW j \in 2 .. Len(inputQueue)
                     PROVE  inputQueue[j].id # m
          OBVIOUS
        <5>1. j - 1 \in 1 .. Len(inputQueue') /\ (j - 1) + 1 = j
          BY <3>1
        <5> QED
          BY <5>1, <3>1, <3>3
      <4>2. CASE Head(inputQueue).id = m
        <5>1. LastFor(m, 1) /\ 1 \in 1 .. Len(inputQueue)
          BY <3>1, <4>1, <4>2 DEF LastFor
        <5> QED
          BY <2>4, <3>1, <4>2, <5>1 DEF NoRequestLost
      <4>3. CASE Head(inputQueue).id # m
        <5>1. Unqueued
          BY <3>1, <4>1, <4>3
        <5> QED
          BY <2>4, <4>3, <5>1 DEF NoRequestLost
      <4> QED
        BY <4>2, <4>3
    <3> QED
      BY <3>2, <3>3
  <2>5. CASE ApplyKnown
    <3>1. Held(m)
      BY <2>5 DEF ApplyKnown, Held
    <3>2. /\ Head(inputQueue).id = m => monitorStates'[m] = Head(inputQueue).state
          /\ Head(inputQueue).id # m => monitorStates'[m] = monitorStates[m]
      BY <2>5 DEF ApplyKnown, Held
    <3> QED
      BY <2>4, <2>5, <3>1, <3>2 DEF ApplyKnown, threadUntouched
  <2>6. CASE SkipUnknown
    <3>1. Held(m) /\ Head(inputQueue).id # m
      BY <2>6 DEF SkipUnknown, Held
    <3> QED
      BY <2>4, <2>6, <3>1 DEF SkipUnknown, threadUntouched
  <2>7. CASE SignalUpdate \/ RequestExit \/ StartWait \/ StopOnExit \/ BeginPass
             \/ EndPass \/ Notify \/ EndNotify \/ UNCHANGED vars
    <3>1. UNCHANGED <<monitorStates, inputQueue, wanted>>
      BY <2>7 DEF SignalUpdate, RequestExit, StartWait, StopOnExit, BeginPass,
           EndPass, Notify, EndNotify, threadUntouched, vars
    <3> QED
      BY <3>1 DEF LastFor, NoRequestLost, Held
  <2> QED
    BY <2>1, <2>2, <2>3, <2>5, <2>6, <2>7 DEF Next, CallerStep, ThreadStep
<1> QED
  BY <1>1, <1>2, TypeCorrect, BookkeepingHolds, PTL DEF Spec

(* What the client was last told is the truth whenever nothing is on its   *)
(* way to it.                                                              *)
THEOREM QuietIsTruthful == Spec => []QuietMeansTruth
<1>1. TypeOK /\ Bookkeeping /\ CompositeFresh /\ NoRequestLost
        /\ NotificationsAlternate => QuietMeansTruth
  <2> SUFFICES ASSUME TypeOK, Bookkeeping, CompositeFresh, NoRequestLost,
                      NotificationsAlternate, Quiet
               PROVE  told = BuildCompositeState(wanted)
    BY DEF QuietMeansTruth
  <2>1. told = Level
    BY DEF Quiet, NotificationsAlternate
  <2>2. Level = BuildCompositeState(monitorStates)
    BY DEF Quiet, CompositeFresh, TypeOK
  <2>3. ASSUME NEW i \in Ids PROVE monitorStates[i] = wanted[i]
    BY DEF Quiet, NoRequestLost, Bookkeeping, Held
  <2> QED
    BY <2>1, <2>2, <2>3 DEF BuildCompositeState
<1> QED
  BY <1>1, TypeCorrect, BookkeepingHolds, CompositeIsFresh, NoRequestIsLost,
     NotificationsDoAlternate, PTL
-----------------------------------------------------------------------------
(* How far the thread is from exiting, if no more work comes: a pass first *)
(* applies its transitions, each good for at most one callback, and then   *)
(* makes the callbacks.                                                    *)
Distance ==
  CASE threadPc = "apply"  -> 2 * Len(inputQueue) + Len(updatedStates) + 4
    [] threadPc = "notify" -> Len(updatedStates) + 3
    [] threadPc = "enter"  -> 2
    [] threadPc = "wait"   -> 1
    [] OTHER               -> 0

InPass == threadPc \in {"apply", "notify"}

(* A pass of ThreadLoop ends, whatever the callers do meanwhile, as they   *)
(* neither lengthen it nor put it off; and a thread asked to exit, with no *)
(* work left, comes nearer to it with every step.  Together with the       *)
(* fairness of the thread this is what EventuallyTold and ExitHonoured     *)
(* rest on.                                                                *)
PassesEnd ==
  [][/\ ThreadStep /\ (InPass \/ (exitRequested /\ ~HasWork))
          => Distance' < Distance
     /\ ~ThreadStep => Distance' = Distance]_vars

(* A pass, and the way to an exit, come to their end (MonitorLoop).         *)
THEOREM PassesDoEnd == Spec => PassesEnd
<1>1. ASSUME TypeOK, ThreadStep, InPass \/ (exitRequested /\ ~HasWork)
      PROVE  Distance' < Distance
  <2>a. /\ Len(inputQueue) \in Nat /\ Len(updatedStates) \in Nat
        /\ inputQueue \in Seq(StateTransition)
        /\ updatedStates \in Seq(MonitorState)
    BY <1>1 DEF TypeOK
  <2>1. CASE StartWait \/ StopOnExit
    BY <2>1 DEF StartWait, StopOnExit, Distance
  <2>2. ~BeginPass
    BY <1>1 DEF BeginPass, InPass
  <2>3. CASE ApplyKnown
    <3>1. /\ threadPc = "apply" /\ threadPc' = "apply"
          /\ inputQueue # <<>> /\ inputQueue' = Tail(inputQueue)
          /\ updatedStates' \in {updatedStates, Append(updatedStates, oldState')}
      BY <2>3 DEF ApplyKnown
    <3>2. /\ Len(inputQueue') = Len(inputQueue) - 1
          /\ Len(updatedStates') \in {Len(updatedStates), Len(updatedStates) + 1}
      BY <2>a, <3>1
    <3> QED
      BY <2>a, <3>1, <3>2 DEF Distance
  <2>4. CASE SkipUnknown
    <3>1. /\ threadPc = "apply" /\ threadPc' = "apply"
          /\ inputQueue # <<>> /\ inputQueue' = Tail(inputQueue)
          /\ updatedStates' = updatedStates
      BY <2>4 DEF SkipUnknown
    <3>2. Len(inputQueue') = Len(inputQueue) - 1
      BY <2>a, <3>1
    <3> QED
      BY <2>a, <3>1, <3>2 DEF Distance
  <2>5. CASE EndPass
    <3>1. /\ threadPc = "apply" /\ threadPc' = "notify"
          /\ Len(inputQueue) = 0 /\ updatedStates' = updatedStates
      BY <2>5 DEF EndPass
    <3> QED
      BY <2>a, <3>1 DEF Distance
  <2>6. CASE Notify
    <3>1. /\ threadPc = "notify" /\ threadPc' = "notify"
          /\ updatedStates # <<>> /\ updatedStates' = Tail(updatedStates)
      BY <2>6 DEF Notify
    <3>2. Len(updatedStates') = Len(updatedStates) - 1
      BY <2>a, <3>1
    <3> QED
      BY <2>a, <3>1, <3>2 DEF Distance
  <2>7. CASE EndNotify
    BY <2>7, <2>a DEF EndNotify, Distance
  <2> QED
    BY <1>1, <2>1, <2>2, <2>3, <2>4, <2>5, <2>6, <2>7 DEF ThreadStep
<1>2. ASSUME CallerStep PROVE Distance' = Distance
  <2>1. /\ UNCHANGED <<threadPc, updatedStates>>
        /\ threadPc = "apply" => UNCHANGED inputQueue
    BY <1>2
       DEF CallerStep, AcquireMonitor, ReleaseMonitor, SignalUpdate,
           ChangeState, RequestExit, callersUntouched
  <2> QED
    BY <2>1 DEF Distance
<1>3. TypeOK /\ [Next]_vars
        => [/\ ThreadStep /\ (InPass \/ (exitRequested /\ ~HasWork))
                 => Distance' < Distance
            /\ ~ThreadStep => Distance' = Distance]_vars
  BY <1>1, <1>2 DEF Next
<1> QED
  BY <1>3, TypeCorrect, PTL DEF Spec, PassesEnd
=============================================================================
