-------------------------- MODULE UmdCamera_proofs --------------------------
(***************************************************************************)
(* Theorems about UmdCamera for any buffers, values and faults, and any    *)
(* bound of the message queue; and about VideoControls for any widths,     *)
(* sensor and precision that its assumption allows.                        *)
(***************************************************************************)
EXTENDS UmdCamera, VideoControls, TLAPS

\* What Append and Tail do to the set of a queue's messages.
LEMMA AppendSet ==
  ASSUME NEW S, NEW s \in Seq(S), NEW m \in S
  PROVE  /\ Append(s, m) \in Seq(S)
         /\ ToSet(Append(s, m)) = ToSet(s) \cup {m}
<1>1. Append(s, m) \in Seq(S)
  OBVIOUS
<1>2. DOMAIN s = 1..Len(s) /\ DOMAIN Append(s, m) = 1..(Len(s) + 1)
      /\ Len(s) \in Nat
  OBVIOUS
<1>3. \A i \in 1..Len(s) : Append(s, m)[i] = s[i]
  OBVIOUS
<1>4. Append(s, m)[Len(s) + 1] = m
  OBVIOUS
<1> QED BY <1>1, <1>2, <1>3, <1>4 DEF ToSet

LEMMA TailSet ==
  ASSUME NEW S, NEW s \in Seq(S), s # <<>>
  PROVE  /\ Tail(s) \in Seq(S) /\ Head(s) \in S
         /\ ToSet(s) = ToSet(Tail(s)) \cup {Head(s)}
<1>1. Tail(s) \in Seq(S) /\ Head(s) \in S /\ Head(s) = s[1]
  OBVIOUS
<1>2. Len(s) \in Nat \ {0} /\ DOMAIN s = 1..Len(s)
      /\ DOMAIN Tail(s) = 1..(Len(s) - 1)
  OBVIOUS
<1>3. \A i \in 1..(Len(s) - 1) : Tail(s)[i] = s[i + 1]
  OBVIOUS
<1>4. ToSet(s) \subseteq ToSet(Tail(s)) \cup {Head(s)}
  <2> SUFFICES ASSUME NEW i \in 1..Len(s)
               PROVE  s[i] \in ToSet(Tail(s)) \cup {Head(s)}
    BY <1>2 DEF ToSet
  <2>1. CASE i = 1
    BY <2>1, <1>1
  <2>2. CASE i # 1
    <3>1. i - 1 \in 1..(Len(s) - 1) /\ (i - 1) + 1 = i
      BY <2>2, <1>2
    <3> QED BY <3>1, <1>2, <1>3 DEF ToSet
  <2> QED BY <2>1, <2>2
<1>5. ToSet(Tail(s)) \cup {Head(s)} \subseteq ToSet(s)
  <2>1. \A i \in 1..(Len(s) - 1) : i + 1 \in 1..Len(s)
    BY <1>2
  <2> QED BY <1>1, <1>2, <1>3, <2>1 DEF ToSet
<1> QED BY <1>1, <1>4, <1>5

-----------------------------------------------------------------------------
(* Types.                                                                   *)

\* The variables that are flags.
Flags == /\ active \in BOOLEAN /\ hasStream \in BOOLEAN
         /\ requestOk \in BOOLEAN /\ locked \in BOOLEAN
         /\ ending \in BOOLEAN /\ streaming \in BOOLEAN
         /\ flowing \in BOOLEAN /\ recording \in BOOLEAN
         /\ crashed \in BOOLEAN

LEMMA InitTypeOK == Init => TypeOK
<1> SUFFICES ASSUME Init PROVE TypeOK
  OBVIOUS
<1>1. Flags
  BY Zenon DEF Init, Flags
<1> QED BY <1>1, UmdAssumption DEF Init, TypeOK, Flags, LoopPCs, Messages

LEMMA GadgetTypeOK ==
  ASSUME TypeOK, Gadget PROVE TypeOK'
<1> USE UmdAssumption DEF TypeOK, LoopPCs, hostVars, devVars, bufVars, reqVars
<1>1. CASE SetupVideoStream
  BY <1>1 DEF SetupVideoStream
<1>2. CASE EnablePush
  <2>1. Append(msgs, "start") \in Seq(Messages)
    BY AppendSet DEF Messages
  <2> QED BY <1>2, <2>1 DEF EnablePush, Push
<1>3. CASE EnableActive
  BY <1>3 DEF EnableActive
<1>4. CASE DisablePush
  <2>1. Append(msgs, "stop") \in Seq(Messages)
    BY AppendSet DEF Messages
  <2>2. Flags'
    BY <1>4, Zenon DEF DisablePush, Flags, TypeOK, reqVars, devVars
  <2> QED BY <1>4, <2>1, <2>2 DEF DisablePush, Push, Flags
<1>5. CASE DisableActive
  <2>1. Flags'
    BY <1>5, Zenon DEF DisableActive, Flags, TypeOK, hostVars, devVars, bufVars, reqVars
  <2> QED BY <1>5, <2>1 DEF DisableActive, Flags
<1>6. CASE ControlGet
  BY <1>6 DEF ControlGet
<1>7. ASSUME NEW v \in Values, ControlSet(v) PROVE TypeOK'
  <2>1. Append(msgs, "submit") \in Seq(Messages)
    BY AppendSet DEF Messages
  <2> QED BY <1>7, <2>1 DEF ControlSet, Push
<1>8. CASE ControlRead
  BY <1>8 DEF ControlRead
<1> QED BY <1>1, <1>2, <1>3, <1>4, <1>5, <1>6, <1>7, <1>8 DEF Gadget

LEMMA SubmitTypeOK ==
  ASSUME TypeOK, NEW given \in Values, SubmitRequest(given)
  PROVE  /\ requestOk' \in BOOLEAN /\ flowing' \in BOOLEAN
         /\ repeating' \in Values \cup {NoRequest}
  BY DEF SubmitRequest, TypeOK

LEMMA CameraThreadTypeOK ==
  ASSUME TypeOK, CameraThread PROVE TypeOK'
<1> USE DEF TypeOK, LoopPCs, hostVars, devVars, bufVars, reqVars
<1>1. CASE PopMessage
  <2>1. Tail(msgs) \in Seq(Messages) /\ Head(msgs) \in Messages
    BY <1>1, TailSet DEF PopMessage
  <2>2. cam' \in {"start", "stop", "submit"}
    BY <1>1, <2>1 DEF PopMessage, Messages
  <2>3. ending' \in BOOLEAN /\ locked' \in BOOLEAN
    BY <1>1 DEF PopMessage
  <2> QED BY <1>1, <2>1, <2>2, <2>3 DEF PopMessage
<1>2. CASE StartLoop
  <2>1. Flags'
    BY <1>2, Zenon DEF StartLoop, Finish, Flags, TypeOK, hostVars, devVars, bufVars, reqVars
  <2> QED BY <1>2, <2>1 DEF StartLoop, Finish, Flags
<1>3. CASE Configure
  <2>1. Flags'
    BY <1>3, Zenon DEF Configure, Finish, Flags, TypeOK, hostVars, devVars, bufVars, reqVars
  <2> QED BY <1>3, <2>1 DEF Configure, Finish, Flags
<1>4. CASE FirstRequest
  <2>1. Append(msgs, "submit") \in Seq(Messages)
    BY AppendSet DEF Messages
  <2>2. /\ requestOk' \in BOOLEAN /\ flowing' \in BOOLEAN
        /\ repeating' \in Values \cup {NoRequest}
    BY <1>4, SubmitTypeOK DEF FirstRequest
  <2>3. recording' \in BOOLEAN
    BY <1>4, <2>2 DEF FirstRequest
  <2>4. cam' \in {"pop", "ended"} /\ locked' = FALSE
    BY <1>4 DEF FirstRequest, Finish
  <2>5. Flags'
    BY <1>4, <2>2, <2>3, <2>4, Zenon
       DEF FirstRequest, Finish, Flags, TypeOK, hostVars
  <2> QED BY <1>4, <2>1, <2>2, <2>4, <2>5 DEF FirstRequest, Flags
<1>5. CASE CameraSubmitRequest
  <2>1. /\ requestOk' \in BOOLEAN /\ flowing' \in BOOLEAN
        /\ repeating' \in Values \cup {NoRequest}
    BY <1>5, SubmitTypeOK DEF CameraSubmitRequest
  <2>2. cam' \in {"pop", "ended"} /\ locked' = FALSE
    BY <1>5 DEF CameraSubmitRequest, Finish
  <2>3. Flags'
    BY <1>5, <2>1, <2>2, Zenon
       DEF CameraSubmitRequest, Finish, Flags, TypeOK, hostVars
  <2> QED BY <1>5, <2>1, <2>2, <2>3 DEF CameraSubmitRequest, Flags
<1>6. CASE StopBegin
  <2>1. Flags'
    BY <1>6, Zenon DEF StopBegin, Finish, Flags, TypeOK, hostVars, devVars, bufVars, reqVars
  <2> QED BY <1>6, <2>1 DEF StopBegin, Finish, Flags
<1>7. CASE WaitIdle
  <2>1. Flags'
    BY <1>7, Zenon DEF WaitIdle, Flags, TypeOK, hostVars, devVars, bufVars, reqVars
  <2> QED BY <1>7, <2>1 DEF WaitIdle, Flags
<1>8. CASE ForgetErrors \/ JoinLoop
  BY <1>8 DEF ForgetErrors, JoinLoop
<1>9. CASE DeleteStreams
  <2>1. Flags'
    BY <1>9, Zenon DEF DeleteStreams, Finish, Flags, TypeOK, hostVars, devVars, bufVars, reqVars
  <2> QED BY <1>9, <2>1 DEF DeleteStreams, Finish, Flags
<1> QED BY <1>1, <1>2, <1>3, <1>4, <1>5, <1>6, <1>7, <1>8, <1>9 DEF CameraThread

LEMMA CallbackTypeOK ==
  ASSUME TypeOK, NEW b \in Buffers, Callback(b) PROVE TypeOK'
<1> USE DEF TypeOK, LoopPCs, hostVars, devVars, bufVars, reqVars, Returned,
            GiveBack
<1>1. CASE StreamCbTest(b)
  BY <1>1 DEF StreamCbTest
<1>2. CASE StreamCbSubmit(b)
  <2>1. Append(vqueue, b) \in Seq(Buffers)
    BY AppendSet
  <2> QED BY <1>2, <2>1 DEF StreamCbSubmit
<1>3. CASE StreamCbFail(b)
  BY <1>3 DEF StreamCbFail
<1> QED BY <1>1, <1>2, <1>3 DEF Callback, EndCallback

LEMMA VideoLoopTypeOK ==
  ASSUME TypeOK, VideoLoop PROVE TypeOK'
<1> USE DEF TypeOK, LoopPCs, hostVars, devVars, bufVars, reqVars, Returned,
            LoopGoto
<1>1. CASE LoopTest
  BY <1>1 DEF LoopTest
<1>2. CASE LoopSize
  BY <1>2 DEF LoopSize
<1>3. CASE LoopPop
  <2>1. Tail(vqueue) \in Seq(Buffers) /\ Head(vqueue) \in Buffers
    BY <1>3, TailSet DEF LoopPop
  <2> QED BY <1>3, <2>1 DEF LoopPop
<1>4. CASE LoopTimeout
  BY <1>4 DEF LoopTimeout
<1>5. CASE LoopReturn
  BY <1>5 DEF LoopReturn
<1> QED BY <1>1, <1>2, <1>3, <1>4, <1>5 DEF VideoLoop

LEMMA DestructorTypeOK ==
  ASSUME TypeOK, Destructor PROVE TypeOK'
<1> USE DEF TypeOK, LoopPCs, hostVars, devVars, bufVars, reqVars
<1>1. CASE Deactivate
  <2>1. Flags'
    BY <1>1, Zenon DEF Deactivate, Flags, TypeOK, hostVars, devVars, bufVars, reqVars
  <2> QED BY <1>1, <2>1 DEF Deactivate, Flags
<1>2. CASE PushTerminate
  <2>1. Append(msgs, "terminate") \in Seq(Messages)
    BY AppendSet DEF Messages
  <2> QED BY <1>2, <2>1 DEF PushTerminate
<1>3. CASE JoinCamera
  <2>1. Flags'
    BY <1>3, Zenon DEF JoinCamera, Flags, TypeOK, hostVars, devVars, bufVars, reqVars
  <2> QED BY <1>3, <2>1 DEF JoinCamera, Flags
<1>4. CASE FreeGadget
  BY <1>4 DEF FreeGadget
<1> QED BY <1>1, <1>2, <1>3, <1>4 DEF Destructor

LEMMA NextTypeOK == TypeOK /\ [Next]_vars => TypeOK'
<1> SUFFICES ASSUME TypeOK, [Next]_vars PROVE TypeOK'
  OBVIOUS
<1>1. CASE UNCHANGED vars
  BY <1>1 DEF TypeOK, vars
<1>2. CASE Blame
  BY <1>2 DEF Blame, DeviceError, BlameHal, TypeOK, LoopPCs, hostVars, bufVars,
              devVars, reqVars
<1> QED BY <1>1, <1>2, GadgetTypeOK, CameraThreadTypeOK, CallbackTypeOK,
           VideoLoopTypeOK, DestructorTypeOK DEF Next

\* The state keeps its types: only known messages are queued, the threads are
\* at known places, and buffers are the stream's.
THEOREM TypeCorrect == Spec => []TypeOK
<1>1. Init => TypeOK BY InitTypeOK
<1>2. TypeOK /\ [Next]_vars => TypeOK' BY NextTypeOK
<1> QED BY <1>1, <1>2, PTL DEF Spec

-----------------------------------------------------------------------------
(* Controls.                                                                *)

LEMMA InitControls == Init => ControlsApplied
  BY DEF Init, ControlsApplied

LEMMA NextControls == TypeOK /\ ControlsApplied /\ [Next]_vars => ControlsApplied'
<1> SUFFICES ASSUME TypeOK, ControlsApplied, [Next]_vars PROVE ControlsApplied'
  OBVIOUS
\* Nothing ControlsApplied speaks of changes, or it becomes weaker.
<1>0. ASSUME UNCHANGED <<msgs, request, requestOk, repeating>>,
             cam # "submit", device' = "ok" => device = "ok"
      PROVE  ControlsApplied'
  BY <1>0 DEF ControlsApplied
<1>1. CASE UNCHANGED vars
  BY <1>1 DEF vars, ControlsApplied
<1>2. CASE Gadget
  <2>0. UNCHANGED <<requestOk, repeating, device, cam>>
    BY <1>2 DEF Gadget, SetupVideoStream, EnablePush, EnableActive, DisablePush,
                DisableActive, ControlGet, ControlSet, ControlRead, reqVars, devVars
  <2>1. ASSUME NEW m \in Messages, msgs' = Append(msgs, m),
               request' = request \/ m = "submit"
        PROVE  ControlsApplied'
    <3>1. ToSet(msgs') = ToSet(msgs) \cup {m}
      BY <2>1, AppendSet DEF TypeOK
    <3> QED BY <2>0, <2>1, <3>1 DEF ControlsApplied
  <2>2. CASE EnablePush
    BY <2>1, <2>2 DEF EnablePush, Push, Messages, reqVars
  <2>3. CASE DisablePush
    BY <2>1, <2>3 DEF DisablePush, Push, Messages, reqVars
  <2>4. ASSUME NEW v \in Values, ControlSet(v) PROVE ControlsApplied'
    BY <2>1, <2>4 DEF ControlSet, Push, Messages
  <2>5. CASE SetupVideoStream \/ EnableActive \/ DisableActive \/ ControlGet
             \/ ControlRead
    <3>1. UNCHANGED <<msgs, request>>
      BY <2>5 DEF SetupVideoStream, EnableActive, DisableActive, ControlGet,
                  ControlRead, reqVars
    <3> QED BY <2>0, <3>1 DEF ControlsApplied
  <2> QED BY <1>2, <2>2, <2>3, <2>4, <2>5 DEF Gadget
<1>3. CASE PopMessage
  <2>1. ToSet(msgs) = ToSet(msgs') \cup {Head(msgs)}
    BY <1>3, TailSet DEF PopMessage, TypeOK
  <2>2. Head(msgs) = "submit" => cam' = "submit"
    BY <1>3 DEF PopMessage
  <2>3. UNCHANGED <<request, requestOk, repeating, device>> /\ cam = "pop"
    BY <1>3 DEF PopMessage, reqVars, devVars
  <2> QED BY <2>1, <2>2, <2>3 DEF ControlsApplied
<1>4. CASE FirstRequest
  <2>1. ToSet(msgs') = ToSet(msgs) \cup {"submit"}
    BY <1>4, AppendSet DEF FirstRequest, TypeOK, Messages
  <2> QED BY <2>1 DEF ControlsApplied
<1>5. CASE CameraSubmitRequest
  <2>1. CASE repeating' = request /\ request' = request
    BY <2>1 DEF ControlsApplied
  <2>2. CASE requestOk' = FALSE
    BY <2>2 DEF ControlsApplied
  <2>3. request' = request
    BY <1>5 DEF CameraSubmitRequest
  <2> QED BY <1>5, <2>1, <2>2, <2>3 DEF CameraSubmitRequest, SubmitRequest
<1>6. CASE StopBegin
  <2>1. UNCHANGED <<msgs, request, requestOk, device>> /\ cam = "stop"
    BY <1>6 DEF StopBegin, reqVars
  <2>2. repeating' = repeating \/ repeating' = NoRequest
    BY <1>6 DEF StopBegin
  <2> QED BY <2>1, <2>2 DEF ControlsApplied
<1>7. CASE \/ StartLoop \/ Configure \/ WaitIdle \/ ForgetErrors \/ JoinLoop
           \/ DeleteStreams
  <2>1. UNCHANGED <<msgs, request, requestOk, repeating>> /\ cam # "submit"
    BY <1>7 DEF StartLoop, Configure, WaitIdle, ForgetErrors, JoinLoop,
                DeleteStreams,
                reqVars, devVars
  <2>2. device' = "ok" => device = "ok"
    BY <1>7 DEF StartLoop, Configure, WaitIdle, ForgetErrors, JoinLoop,
                DeleteStreams, devVars
  <2> QED BY <1>0, <2>1, <2>2
<1>8. ASSUME NEW b \in Buffers, Callback(b) PROVE ControlsApplied'
  <2>1. UNCHANGED <<msgs, request, requestOk, repeating, device, cam>>
    BY <1>8 DEF Callback, EndCallback, StreamCbTest, StreamCbSubmit, StreamCbFail, reqVars, devVars
  <2> QED BY <2>1 DEF ControlsApplied
<1>9. CASE VideoLoop
  <2>1. UNCHANGED <<msgs, request, requestOk, repeating, device, cam>>
    BY <1>9 DEF VideoLoop, LoopTest, LoopSize, LoopPop, LoopTimeout, LoopReturn,
                LoopGoto, reqVars, devVars
  <2> QED BY <2>1 DEF ControlsApplied
<1>10. CASE PushTerminate
  <2>1. ToSet(msgs') = ToSet(msgs) \cup {"terminate"}
    BY <1>10, AppendSet DEF PushTerminate, TypeOK, Messages
  <2> QED BY <1>10, <2>1 DEF PushTerminate, ControlsApplied, reqVars, devVars
<1>11. CASE Deactivate \/ JoinCamera \/ FreeGadget
  <2>1. UNCHANGED <<msgs, request, requestOk, repeating, device, cam>>
    BY <1>11 DEF Deactivate, JoinCamera, FreeGadget, reqVars, devVars
  <2> QED BY <2>1 DEF ControlsApplied
<1>12. CASE Blame
  BY <1>12 DEF Blame, DeviceError, BlameHal, ControlsApplied, reqVars, devVars
<1> QED BY <1>1, <1>2, <1>3, <1>4, <1>5, <1>6, <1>7, <1>8, <1>9, <1>10, <1>11,
           <1>12 DEF Next, CameraThread, Destructor

\* While the device client is in order, the repeating request uses the last
\* metadata stored, or a message that will submit it waits.
THEOREM ControlsAreApplied == Spec => []ControlsApplied
<1>1. Init => ControlsApplied BY InitControls
<1>2. TypeOK /\ ControlsApplied /\ [Next]_vars => ControlsApplied' BY NextControls
<1> QED BY <1>1, <1>2, TypeCorrect, PTL DEF Spec

-----------------------------------------------------------------------------
(* The loop's thread.  A CAMERA_START is safe because between it and any     *)
(* loop that runs or will be started there is a CAMERA_STOP, in the queue or *)
(* being served.                                                            *)

Serving == cam \in {"stop", "drain", "forget", "join"}
LoopDue == loop # "none" \/ cam = "start"

\* Of the queue: q's starts are separated by stops; each is after a stop; each
\* is before one.
Separated(q) == \A i, j \in 1..Len(q) :
  i < j /\ q[i] = "start" /\ q[j] = "start"
    => \E k \in 1..Len(q) : i < k /\ k < j /\ q[k] = "stop"
StopFirst(q) == \A j \in 1..Len(q) :
  q[j] = "start" => \E k \in 1..Len(q) : k < j /\ q[k] = "stop"
StopLast(q) == \A i \in 1..Len(q) :
  q[i] = "start" => \E k \in 1..Len(q) : i < k /\ q[k] = "stop"
HasStop(q) == \E k \in 1..Len(q) : q[k] = "stop"

QueueInv ==
  /\ Separated(msgs)
  /\ LoopDue => Serving \/ StopFirst(msgs)
  /\ ~streaming => StopLast(msgs)
  /\ ~streaming /\ LoopDue => Serving \/ HasStop(msgs)

ThreadInv ==
  /\ ~crashed
  /\ cam \in {"start", "delete", "ended"} => loop = "none"
  /\ ending => cam \in {"stop", "drain", "forget", "join", "delete", "ended"}
  /\ owner \in {"free", "done"} => cam = "ended"

\* A message that is no start is appended.
LEMMA AppendQuiet ==
  ASSUME NEW q \in Seq(Messages), NEW m \in Messages, m # "start"
  PROVE  /\ Separated(q) => Separated(Append(q, m))
         /\ StopFirst(q) => StopFirst(Append(q, m))
         /\ StopLast(q) => StopLast(Append(q, m))
         /\ HasStop(q) => HasStop(Append(q, m))
<1> DEFINE r == Append(q, m)
<1>1. /\ Len(q) \in Nat /\ Len(r) = Len(q) + 1
      /\ \A i \in 1..Len(q) : r[i] = q[i]
      /\ r[Len(q) + 1] = m
  OBVIOUS
<1>2. \A i \in 1..Len(r) : r[i] = "start" => i \in 1..Len(q) /\ q[i] = "start"
  BY <1>1
<1>3. \A k \in 1..Len(q) : q[k] = "stop" => k \in 1..Len(r) /\ r[k] = "stop"
  BY <1>1
<1> HIDE DEF r
<1> QED BY <1>2, <1>3 DEF Separated, StopFirst, StopLast, HasStop, r

LEMMA AppendStart ==
  ASSUME NEW q \in Seq(Messages), Separated(q), StopLast(q)
  PROVE  /\ Separated(Append(q, "start"))
         /\ HasStop(q) /\ StopFirst(q) => StopFirst(Append(q, "start"))
<1> DEFINE r == Append(q, "start")
<1>1. /\ Len(q) \in Nat /\ Len(r) = Len(q) + 1
      /\ \A i \in 1..Len(q) : r[i] = q[i]
      /\ r[Len(q) + 1] = "start"
  OBVIOUS
<1>2. \A k \in 1..Len(q) : q[k] = "stop" =>
        k \in 1..Len(r) /\ r[k] = "stop" /\ k < Len(q) + 1
  BY <1>1
<1>3. \A i \in 1..Len(r) : i # Len(q) + 1 => i \in 1..Len(q) /\ r[i] = q[i]
  BY <1>1
<1> HIDE DEF r
<1>4. Separated(r)
  <2> SUFFICES ASSUME NEW i \in 1..Len(r), NEW j \in 1..Len(r),
                      i < j, r[i] = "start", r[j] = "start"
               PROVE  \E k \in 1..Len(r) : i < k /\ k < j /\ r[k] = "stop"
    BY DEF Separated
  <2>1. i \in 1..Len(q) /\ q[i] = "start"
    BY <1>1
  <2>2. CASE j \in 1..Len(q)
    BY <2>1, <2>2, <1>1, <1>2 DEF Separated
  <2>3. CASE j = Len(q) + 1
    BY <2>1, <2>3, <1>2 DEF StopLast
  <2> QED BY <2>2, <2>3, <1>3
<1>5. HasStop(q) /\ StopFirst(q) => StopFirst(r)
  <2> SUFFICES ASSUME HasStop(q), StopFirst(q),
                      NEW j \in 1..Len(r), r[j] = "start"
               PROVE  \E k \in 1..Len(r) : k < j /\ r[k] = "stop"
    BY DEF StopFirst
  <2>1. CASE j \in 1..Len(q)
    BY <2>1, <1>1, <1>2 DEF StopFirst
  <2>2. CASE j = Len(q) + 1
    BY <2>2, <1>2 DEF HasStop
  <2> QED BY <2>1, <2>2, <1>3
<1> QED BY <1>4, <1>5 DEF r

LEMMA AppendStop ==
  ASSUME NEW q \in Seq(Messages)
  PROVE  StopLast(Append(q, "stop")) /\ HasStop(Append(q, "stop"))
<1> DEFINE r == Append(q, "stop")
<1>1. /\ Len(q) \in Nat /\ Len(r) = Len(q) + 1
      /\ r[Len(q) + 1] = "stop"
  OBVIOUS
<1>2. \A i \in 1..Len(r) : r[i] = "start" => i < Len(q) + 1
  BY <1>1
<1> HIDE DEF r
<1> QED BY <1>1, <1>2 DEF StopLast, HasStop, r

LEMMA TailQueue ==
  ASSUME NEW q \in Seq(Messages), q # <<>>, Separated(q)
  PROVE  /\ Separated(Tail(q))
         /\ StopLast(q) => StopLast(Tail(q))
         /\ Head(q) = "start" => StopFirst(Tail(q))
         /\ Head(q) # "stop" /\ StopFirst(q) => StopFirst(Tail(q))
         /\ Head(q) # "stop" /\ HasStop(q) => HasStop(Tail(q))
         /\ Head(q) = "start" => ~StopFirst(q)
         /\ Head(q) = "start" /\ StopLast(q) => HasStop(Tail(q))
<1> DEFINE r == Tail(q)
<1>1. /\ Len(q) \in Nat \ {0} /\ Len(r) = Len(q) - 1
      /\ \A i \in 1..Len(r) : r[i] = q[i + 1]
      /\ Head(q) = q[1]
  OBVIOUS
<1>2. \A i \in 1..Len(r) : i + 1 \in 1..Len(q) /\ r[i] = q[i + 1]
  BY <1>1
<1>3. \A k \in 1..Len(q) : k # 1 =>
        k - 1 \in 1..Len(r) /\ r[k - 1] = q[k] /\ (k - 1) + 1 = k
  BY <1>1
<1>4. 1 \in 1..Len(q)
  BY <1>1
<1> HIDE DEF r
<1>5. Separated(r)
  <2> SUFFICES ASSUME NEW i \in 1..Len(r), NEW j \in 1..Len(r),
                      i < j, r[i] = "start", r[j] = "start"
               PROVE  \E k \in 1..Len(r) : i < k /\ k < j /\ r[k] = "stop"
    BY DEF Separated
  <2>1. i + 1 < j + 1 /\ q[i + 1] = "start" /\ q[j + 1] = "start"
    BY <1>2
  <2>2. PICK k \in 1..Len(q) : i + 1 < k /\ k < j + 1 /\ q[k] = "stop"
    BY <2>1, <1>2 DEF Separated
  <2> QED BY <2>2, <1>3
<1>6. StopLast(q) => StopLast(r)
  <2> SUFFICES ASSUME StopLast(q), NEW i \in 1..Len(r), r[i] = "start"
               PROVE  \E k \in 1..Len(r) : i < k /\ r[k] = "stop"
    BY DEF StopLast
  <2>1. PICK k \in 1..Len(q) : i + 1 < k /\ q[k] = "stop"
    BY <1>2 DEF StopLast
  <2> QED BY <2>1, <1>3
<1>7. Head(q) = "start" => StopFirst(r)
  <2> SUFFICES ASSUME q[1] = "start", NEW j \in 1..Len(r), r[j] = "start"
               PROVE  \E k \in 1..Len(r) : k < j /\ r[k] = "stop"
    BY <1>1 DEF StopFirst
  <2>1. PICK k \in 1..Len(q) : 1 < k /\ k < j + 1 /\ q[k] = "stop"
    BY <1>2, <1>4 DEF Separated
  <2> QED BY <2>1, <1>3
<1>8. Head(q) # "stop" /\ StopFirst(q) => StopFirst(r)
  <2> SUFFICES ASSUME q[1] # "stop", StopFirst(q),
                      NEW j \in 1..Len(r), r[j] = "start"
               PROVE  \E k \in 1..Len(r) : k < j /\ r[k] = "stop"
    BY <1>1 DEF StopFirst
  <2>1. PICK k \in 1..Len(q) : k < j + 1 /\ q[k] = "stop"
    BY <1>2 DEF StopFirst
  <2> QED BY <2>1, <1>3
<1>9. Head(q) # "stop" /\ HasStop(q) => HasStop(r)
  BY <1>1, <1>3 DEF HasStop
<1>10. Head(q) = "start" => ~StopFirst(q)
  BY <1>1, <1>4 DEF StopFirst
<1>11. Head(q) = "start" /\ StopLast(q) => HasStop(r)
  <2> SUFFICES ASSUME q[1] = "start", StopLast(q) PROVE HasStop(r)
    BY <1>1
  <2>1. PICK k \in 1..Len(q) : 1 < k /\ q[k] = "stop"
    BY <1>4 DEF StopLast
  <2> QED BY <2>1, <1>3 DEF HasStop
<1> QED BY <1>5, <1>6, <1>7, <1>8, <1>9, <1>10, <1>11 DEF r

Inv == TypeOK /\ QueueInv /\ ThreadInv

LEMMA InitInv == Init => QueueInv /\ ThreadInv
<1> SUFFICES ASSUME Init PROVE QueueInv /\ ThreadInv
  OBVIOUS
<1>1. msgs = <<>> /\ loop = "none" /\ cam = "pop" /\ ~crashed /\ ~ending
      /\ owner = "run"
  BY DEF Init
<1>2. Len(msgs) = 0
  BY <1>1
<1>3. Separated(msgs) /\ StopLast(msgs)
  BY <1>2 DEF Separated, StopLast
<1> QED BY <1>1, <1>3 DEF QueueInv, ThreadInv, LoopDue

\* Steps that leave the queue and the host's mind alone, and do not make a
\* loop due.
LEMMA QuietStep ==
  ASSUME Inv, UNCHANGED <<msgs, streaming>>, LoopDue' => LoopDue,
         Serving /\ LoopDue' => Serving'
  PROVE  QueueInv'
  BY DEF Inv, QueueInv

\* Steps of the other threads: only where a living loop stands may change.
LEMMA ElsewhereStep ==
  ASSUME Inv, UNCHANGED <<msgs, streaming, cam, ending>>, crashed' = crashed,
         loop' = "none" <=> loop = "none",
         owner' \in {"free", "done"} => owner \in {"free", "done"} \/ cam = "ended"
  PROVE  QueueInv' /\ ThreadInv'
<1>1. QueueInv'
  BY QuietStep DEF LoopDue, Serving
<1> QED BY <1>1 DEF Inv, ThreadInv

LEMMA GadgetInv ==
  ASSUME Inv, Gadget PROVE QueueInv' /\ ThreadInv'
<1>0. UNCHANGED <<cam, ending, loop, crashed, owner>>
  BY DEF Gadget, SetupVideoStream, EnablePush, EnableActive, DisablePush,
         DisableActive, ControlGet, ControlSet, ControlRead
<1>1. ThreadInv'
  BY <1>0 DEF Inv, ThreadInv
<1>2. LoopDue' = LoopDue /\ Serving' = Serving
  BY <1>0 DEF LoopDue, Serving
<1>3. msgs \in Seq(Messages) /\ {"start", "stop", "submit"} \subseteq Messages
  BY DEF Inv, TypeOK, Messages
<1>4. CASE EnablePush
  <2>1. ~streaming /\ msgs' = Append(msgs, "start") /\ streaming'
    BY <1>4 DEF EnablePush, Push
  <2>2. StopLast(msgs) /\ Separated(msgs)
    BY <2>1 DEF Inv, QueueInv
  <2>3. Separated(msgs') /\ (HasStop(msgs) /\ StopFirst(msgs) => StopFirst(msgs'))
    BY <2>1, <2>2, <1>3, AppendStart
  <2> QED BY <2>1, <2>3, <1>1, <1>2 DEF Inv, QueueInv
<1>5. CASE DisablePush
  <2>1. msgs' = Append(msgs, "stop")
    BY <1>5 DEF DisablePush, Push
  <2>2. StopLast(msgs') /\ HasStop(msgs')
    BY <2>1, <1>3, AppendStop
  <2>3. /\ Separated(msgs) => Separated(msgs')
        /\ StopFirst(msgs) => StopFirst(msgs')
    BY <2>1, <1>3, AppendQuiet
  <2> QED BY <2>2, <2>3, <1>1, <1>2 DEF Inv, QueueInv
<1>6. ASSUME NEW v \in Values, ControlSet(v) PROVE QueueInv'
  <2>1. msgs' = Append(msgs, "submit") /\ streaming' = streaming
    BY <1>6 DEF ControlSet, Push
  <2>2. /\ Separated(msgs) => Separated(msgs')
        /\ StopFirst(msgs) => StopFirst(msgs')
        /\ StopLast(msgs) => StopLast(msgs')
        /\ HasStop(msgs) => HasStop(msgs')
    BY <2>1, <1>3, AppendQuiet
  <2> QED BY <2>1, <2>2, <1>2 DEF Inv, QueueInv
<1>7. CASE SetupVideoStream \/ EnableActive \/ DisableActive \/ ControlGet
           \/ ControlRead
  <2>1. UNCHANGED <<msgs, streaming>>
    BY <1>7 DEF SetupVideoStream, EnableActive, DisableActive, ControlGet,
                ControlRead
  <2> QED BY <2>1, <1>1, <1>2, QuietStep
<1> QED BY <1>1, <1>4, <1>5, <1>6, <1>7 DEF Gadget

LEMMA CameraThreadInv ==
  ASSUME Inv, CameraThread PROVE QueueInv' /\ ThreadInv'
<1>0. UNCHANGED <<streaming, owner>>
  BY DEF CameraThread, PopMessage, StartLoop, Configure, FirstRequest,
         CameraSubmitRequest, StopBegin, WaitIdle, ForgetErrors, JoinLoop,
         DeleteStreams,
         hostVars
<1>01. cam # "ended"
  BY DEF CameraThread, PopMessage, StartLoop, Configure, FirstRequest,
         CameraSubmitRequest, StopBegin, WaitIdle, ForgetErrors, JoinLoop,
         DeleteStreams
<1>02. owner \notin {"free", "done"}
  BY <1>01 DEF Inv, ThreadInv
<1>1. CASE PopMessage
  <2>1. /\ msgs # <<>> /\ cam = "pop" /\ msgs' = Tail(msgs)
        /\ UNCHANGED <<loop, crashed>>
        /\ cam' = IF Head(msgs) = "terminate" THEN "stop" ELSE Head(msgs)
    BY <1>1 DEF PopMessage
  <2>2. ending' => cam' = "stop"
    BY <1>1 DEF PopMessage
  <2>3. msgs \in Seq(Messages) /\ Head(msgs) \in Messages
    BY <2>1, TailSet DEF Inv, TypeOK
  <2>4. /\ Separated(msgs')
        /\ StopLast(msgs) => StopLast(msgs')
        /\ Head(msgs) = "start" => StopFirst(msgs')
        /\ Head(msgs) # "stop" /\ StopFirst(msgs) => StopFirst(msgs')
        /\ Head(msgs) # "stop" /\ HasStop(msgs) => HasStop(msgs')
        /\ Head(msgs) = "start" => ~StopFirst(msgs)
        /\ Head(msgs) = "start" /\ StopLast(msgs) => HasStop(msgs')
    BY <2>1, <2>3, TailQueue DEF Inv, QueueInv
  <2>5. ~Serving /\ (LoopDue <=> loop # "none")
    BY <2>1 DEF Serving, LoopDue
  <2>6. CASE Head(msgs) = "start"
    <3>1. loop = "none"
      BY <2>4, <2>5, <2>6 DEF Inv, QueueInv
    <3>2. ThreadInv'
      BY <3>1, <2>1, <2>2, <2>6, <1>0, <1>02 DEF Inv, ThreadInv
    <3>3. QueueInv'
      BY <2>4, <2>6, <1>0 DEF Inv, QueueInv
    <3> QED BY <3>2, <3>3
  <2>7. CASE Head(msgs) \in {"stop", "terminate"}
    <3>1. cam' = "stop" /\ Serving'
      BY <2>1, <2>7 DEF Serving
    <3>2. ThreadInv'
      BY <3>1, <2>1, <1>0, <1>02 DEF Inv, ThreadInv
    <3>3. QueueInv'
      BY <3>1, <2>4, <1>0 DEF Inv, QueueInv
    <3> QED BY <3>2, <3>3
  <2>8. CASE Head(msgs) = "submit"
    <3>1. cam' = "submit" /\ ~Serving' /\ (LoopDue' <=> loop # "none")
      BY <2>1, <2>8 DEF Serving, LoopDue
    <3>2. ThreadInv'
      BY <3>1, <2>1, <2>2, <1>0, <1>02 DEF Inv, ThreadInv
    <3>3. QueueInv'
      BY <3>1, <2>4, <2>5, <2>8, <1>0 DEF Inv, QueueInv
    <3> QED BY <3>2, <3>3
  <2> QED BY <2>3, <2>6, <2>7, <2>8 DEF Messages
<1>2. CASE StartLoop
  <2>1. cam = "start" /\ loop = "none" /\ ~ending /\ LoopDue /\ ~Serving
    BY <1>2 DEF StartLoop, Inv, ThreadInv, LoopDue, Serving
  <2>2. ~crashed' /\ cam' \in {"configure", "pop"} /\ UNCHANGED <<msgs, ending>>
    BY <1>2, <2>1 DEF StartLoop, Finish
  <2>3. QueueInv'
    BY <1>0, <2>1, <2>2, QuietStep
  <2> QED BY <2>1, <2>2, <2>3, <1>0, <1>02 DEF ThreadInv
<1>3. CASE Configure \/ CameraSubmitRequest
  <2>1. /\ cam \in {"configure", "submit"} /\ cam' \in {"request", "pop", "ended"}
        /\ UNCHANGED <<msgs, ending, loop, crashed>>
        /\ cam' = "ended" => ending
    BY <1>3 DEF Configure, CameraSubmitRequest, Finish
  <2>2. ~ending /\ cam' # "ended"
    BY <2>1 DEF Inv, ThreadInv
  <2>3. QueueInv'
    BY <1>0, <2>1, QuietStep DEF LoopDue, Serving
  <2> QED BY <2>1, <2>2, <2>3, <1>0, <1>02 DEF Inv, ThreadInv
<1>4. CASE FirstRequest
  <2>1. /\ cam = "request" /\ cam' \in {"pop", "ended"}
        /\ msgs' = Append(msgs, "submit") /\ UNCHANGED <<ending, loop, crashed>>
        /\ cam' = "ended" => ending
    BY <1>4 DEF FirstRequest, Finish
  <2>2. ~ending /\ cam' # "ended"
    BY <2>1 DEF Inv, ThreadInv
  <2>3. LoopDue' = LoopDue /\ ~Serving
    BY <2>1 DEF LoopDue, Serving
  <2>4. /\ Separated(msgs) => Separated(msgs')
        /\ StopFirst(msgs) => StopFirst(msgs')
        /\ StopLast(msgs) => StopLast(msgs')
        /\ HasStop(msgs) => HasStop(msgs')
    BY <2>1, AppendQuiet DEF Inv, TypeOK, Messages
  <2>5. QueueInv'
    BY <1>0, <2>3, <2>4 DEF Inv, QueueInv
  <2> QED BY <2>1, <2>2, <2>5, <1>0, <1>02 DEF Inv, ThreadInv
<1>5. CASE StopBegin
  <2>1. /\ UNCHANGED <<msgs, ending, loop, crashed>> /\ cam = "stop"
        /\ IF loop = "none" THEN cam' \in {"pop", "ended"}
                             ELSE cam' = "drain"
        /\ cam' = "pop" => ~ending
    BY <1>5 DEF StopBegin, Finish
  <2>2. QueueInv'
    BY <1>0, <2>1, QuietStep DEF LoopDue, Serving
  <2> QED BY <2>1, <2>2, <1>0, <1>02 DEF Inv, ThreadInv
<1>6. CASE WaitIdle \/ ForgetErrors
  <2>1. /\ UNCHANGED <<msgs, ending, loop, crashed>>
        /\ \/ cam = "drain" /\ cam' = "forget"
           \/ cam = "forget" /\ cam' = "join"
    BY <1>6 DEF WaitIdle, ForgetErrors
  <2>2. QueueInv'
    BY <1>0, <2>1, QuietStep DEF LoopDue, Serving
  <2> QED BY <2>1, <2>2, <1>0, <1>02 DEF Inv, ThreadInv
<1>7. CASE JoinLoop
  <2>1. /\ UNCHANGED <<msgs, ending, crashed>>
        /\ loop' = "none" /\ cam' = "delete"
    BY <1>7 DEF JoinLoop
  <2>2. QueueInv'
    BY <1>0, <2>1, QuietStep DEF LoopDue
  <2> QED BY <2>1, <2>2, <1>0, <1>02 DEF Inv, ThreadInv
<1>8. CASE DeleteStreams
  <2>1. /\ UNCHANGED <<msgs, ending, loop, crashed>> /\ loop = "none"
        /\ cam' \in {"pop", "ended"} /\ (cam' = "pop" => ~ending)
    BY <1>8 DEF DeleteStreams, Finish, Inv, ThreadInv
  <2>2. QueueInv'
    BY <1>0, <2>1, QuietStep DEF LoopDue
  <2> QED BY <2>1, <2>2, <1>0, <1>02 DEF Inv, ThreadInv
<1> QED BY <1>1, <1>2, <1>3, <1>4, <1>5, <1>6, <1>7, <1>8 DEF CameraThread

LEMMA DestructorInv ==
  ASSUME Inv, Destructor PROVE QueueInv' /\ ThreadInv'
<1>1. CASE PushTerminate
  <2>1. /\ msgs' = Append(msgs, "terminate") /\ owner' = "join"
        /\ UNCHANGED <<streaming, cam, ending, loop, crashed>>
    BY <1>1 DEF PushTerminate, hostVars
  <2>2. /\ Separated(msgs) => Separated(msgs')
        /\ StopFirst(msgs) => StopFirst(msgs')
        /\ StopLast(msgs) => StopLast(msgs')
        /\ HasStop(msgs) => HasStop(msgs')
    BY <2>1, AppendQuiet DEF Inv, TypeOK, Messages
  <2>3. QueueInv'
    BY <2>1, <2>2 DEF Inv, QueueInv, LoopDue, Serving
  <2> QED BY <2>1, <2>3 DEF Inv, ThreadInv
<1>2. CASE Deactivate \/ JoinCamera \/ FreeGadget
  <2>1. /\ UNCHANGED <<msgs, streaming, cam, ending, crashed, loop>>
        /\ owner' \in {"free", "done"} => owner \in {"free", "done"} \/ cam = "ended"
    BY <1>2 DEF Deactivate, JoinCamera, FreeGadget, hostVars
  <2> QED BY <2>1, ElsewhereStep
<1> QED BY <1>1, <1>2 DEF Destructor

LEMMA NextInv == Inv /\ [Next]_vars => QueueInv' /\ ThreadInv'
<1> SUFFICES ASSUME Inv, [Next]_vars PROVE QueueInv' /\ ThreadInv'
  OBVIOUS
<1>1. CASE UNCHANGED vars
  BY <1>1, ElsewhereStep DEF vars
<1>2. ASSUME NEW b \in Buffers, Callback(b) PROVE QueueInv' /\ ThreadInv'
  <2>1. UNCHANGED <<msgs, streaming, cam, ending, crashed, loop, owner>>
    BY <1>2 DEF Callback, EndCallback, StreamCbTest, StreamCbSubmit, StreamCbFail, hostVars
  <2> QED BY <2>1, ElsewhereStep
<1>3. CASE VideoLoop
  <2>1. UNCHANGED <<msgs, streaming, cam, ending, crashed, owner>>
    BY <1>3 DEF VideoLoop, LoopTest, LoopSize, LoopPop, LoopTimeout, LoopReturn,
                LoopGoto, hostVars
  <2>2. loop # "none" /\ loop' # "none"
    BY <1>3 DEF VideoLoop, LoopTest, LoopSize, LoopPop, LoopTimeout, LoopReturn,
                LoopGoto
  <2> QED BY <2>1, <2>2, ElsewhereStep
<1>4. CASE Blame
  <2>1. UNCHANGED <<msgs, streaming, cam, ending, crashed, loop, owner>>
    BY <1>4 DEF Blame, DeviceError, BlameHal, hostVars
  <2> QED BY <2>1, ElsewhereStep
<1> QED BY <1>1, <1>2, <1>3, <1>4, GadgetInv, CameraThreadInv, DestructorInv DEF Next

\* No joinable std::thread is assigned to or destroyed, however the host's
\* enables and disables race the camera thread and the destructor.
THEOREM NoThreadIsAbandoned == Spec => []NoThreadAbandoned
<1>1. Init => Inv
  BY InitTypeOK, InitInv DEF Inv
<1>2. Inv /\ [Next]_vars => Inv'
  BY NextTypeOK, NextInv DEF Inv
<1>3. Inv => NoThreadAbandoned
  BY DEF Inv, ThreadInv, NoThreadAbandoned
<1> QED BY <1>1, <1>2, <1>3, PTL DEF Spec

-----------------------------------------------------------------------------
(* What a stop leaves behind.                                               *)

Silent == device = "ok" => /\ repeating = NoRequest /\ ~flowing
                           /\ AllReturned /\ mapped = {}

\* Mapped buffers are in a callback, queued, or with the loop.
BufferInv ==
  /\ mapped \subseteq ToSet(vqueue) \cup held \cup called
  /\ loop # "return" => held = {}

\* The stages of a stop, and what holds while no loop exists.
StopInv ==
  /\ cam \in {"configure", "request", "drain", "forget", "join"} => loop # "none"
  /\ cam \in {"drain", "forget", "join", "delete"} => ~recording
  /\ cam \in {"forget", "join", "delete"} => Silent
  /\ loop = "none" /\ cam # "delete" => ~hasStream /\ ~recording /\ Silent

LEMMA EmptySet == ToSet(<<>>) = {}
  BY DEF ToSet

LEMMA InitStop == Init => BufferInv /\ StopInv
  BY EmptySet DEF Init, BufferInv, StopInv, Silent, AllReturned

\* A step that touches none of what StopInv and BufferInv speak of.
LEMMA AsideStep ==
  ASSUME BufferInv, StopInv,
         UNCHANGED <<cam, loop, hasStream, recording, repeating, flowing,
                     device, vqueue, held, called, mapped>>
  PROVE  BufferInv' /\ StopInv'
  BY DEF BufferInv, StopInv, Silent, AllReturned

\* A step of the camera thread leaves the buffers alone.
LEMMA BufferStep ==
  ASSUME BufferInv, UNCHANGED <<vqueue, held, called, mapped>>,
         loop' = "return" \/ loop # "return"
  PROVE  BufferInv'
  BY DEF BufferInv

LEMMA CameraThreadStop ==
  ASSUME Inv, BufferInv, StopInv, CameraThread PROVE BufferInv' /\ StopInv'
<1>1. CASE PopMessage
  <2>1. /\ UNCHANGED <<loop, hasStream, recording, repeating, flowing, device,
                       vqueue, held, called, mapped>>
        /\ cam = "pop" /\ cam' \in {"start", "stop", "submit"}
    BY <1>1, TailSet
       DEF PopMessage, bufVars, devVars, reqVars, Inv, TypeOK, Messages
  <2> QED BY <2>1, BufferStep DEF StopInv, Silent, AllReturned
<1>2. CASE StartLoop
  <2>1. /\ UNCHANGED <<hasStream, recording, vqueue, held, called, mapped>>
        /\ loop' = "test" /\ loop = "none"
        /\ cam' \in {"configure", "pop", "ended"}
    BY <1>2 DEF StartLoop, Finish, bufVars, reqVars, Inv, ThreadInv
  <2> QED BY <2>1, BufferStep DEF StopInv
<1>3. CASE Configure
  <2>1. /\ UNCHANGED <<loop, vqueue, held, called, mapped>>
        /\ cam = "configure" /\ cam' \in {"request", "pop", "ended"}
    BY <1>3 DEF Configure, Finish, bufVars
  <2> QED BY <2>1, BufferStep DEF StopInv
<1>4. CASE FirstRequest
  <2>1. /\ UNCHANGED <<loop, vqueue, held, called, mapped>>
        /\ cam = "request" /\ cam' \in {"pop", "ended"}
    BY <1>4 DEF FirstRequest, Finish, bufVars
  <2> QED BY <2>1, BufferStep DEF StopInv
<1>5. CASE CameraSubmitRequest
  <2>1. /\ UNCHANGED <<loop, hasStream, recording, device,
                       vqueue, held, called, mapped>>
        /\ cam = "submit" /\ cam' \in {"pop", "ended"}
        /\ ~hasStream => UNCHANGED <<repeating, flowing>>
    BY <1>5 DEF CameraSubmitRequest, Finish, bufVars, SubmitRequest
  <2> QED BY <2>1, BufferStep DEF StopInv, Silent, AllReturned
<1>6. CASE StopBegin
  <2>1. /\ UNCHANGED <<loop, hasStream, flowing, device, vqueue, held, called,
                       mapped>>
        /\ cam = "stop" /\ ~recording'
        /\ IF loop = "none" THEN cam' \in {"pop", "ended"} /\ repeating' = repeating
                             ELSE cam' = "drain"
    BY <1>6 DEF StopBegin, Finish, bufVars, reqVars
  <2> QED BY <2>1, BufferStep DEF StopInv, Silent, AllReturned
<1>7. CASE WaitIdle
  <2>1. /\ UNCHANGED <<loop, hasStream, recording, repeating, vqueue, held,
                       called, mapped>>
        /\ cam = "drain" /\ cam' = "forget"
        /\ \/ repeating = NoRequest /\ AllReturned /\ ~flowing'
           \/ device' = "error"
    BY <1>7 DEF WaitIdle, bufVars, reqVars
  <2>2. AllReturned => mapped = {}
    BY EmptySet DEF AllReturned, BufferInv
  <2>3. Silent'
    BY <2>1, <2>2 DEF Silent, AllReturned
  <2> QED BY <2>1, <2>3, BufferStep DEF StopInv
<1>8. CASE JoinLoop
  <2>1. /\ UNCHANGED <<hasStream, recording, repeating, flowing, device,
                       vqueue, held, called, mapped>>
        /\ cam = "join" /\ cam' = "delete" /\ loop = "ended"
    BY <1>8 DEF JoinLoop, bufVars, devVars, reqVars
  <2>2. Silent' /\ ~recording'
    BY <2>1 DEF StopInv, Silent, AllReturned
  <2> QED BY <2>1, <2>2, BufferStep DEF StopInv
<1>9. CASE DeleteStreams
  <2>1. /\ UNCHANGED <<loop, recording, repeating, flowing, device,
                       vqueue, held, called, mapped>>
        /\ cam = "delete" /\ cam' \in {"pop", "ended"} /\ ~hasStream'
    BY <1>9 DEF DeleteStreams, Finish, bufVars
  <2>2. Silent' /\ ~recording'
    BY <2>1 DEF StopInv, Silent, AllReturned
  <2> QED BY <2>1, <2>2, BufferStep DEF StopInv
<1>10. CASE ForgetErrors
  <2>1. /\ UNCHANGED <<loop, hasStream, recording, repeating, flowing, device,
                       vqueue, held, called, mapped>>
        /\ cam = "forget" /\ cam' = "join"
    BY <1>10 DEF ForgetErrors, bufVars, devVars, reqVars
  <2>2. Silent' /\ ~recording' /\ loop' # "none"
    BY <2>1 DEF StopInv, Silent, AllReturned
  <2> QED BY <2>1, <2>2, BufferStep DEF StopInv
<1> QED BY <1>1, <1>2, <1>3, <1>4, <1>5, <1>6, <1>7, <1>8, <1>9, <1>10
        DEF CameraThread

LEMMA CallbackStop ==
  ASSUME Inv, BufferInv, StopInv, NEW b \in Buffers, Callback(b)
  PROVE  BufferInv' /\ StopInv'
<1>0. UNCHANGED <<cam, loop, hasStream, recording, repeating, flowing, device, held>>
  BY DEF Callback, EndCallback, StreamCbTest, StreamCbSubmit, StreamCbFail, reqVars, devVars
<1>1. flowing \/ called # {}
  BY DEF Callback, EndCallback, StreamCbTest, StreamCbSubmit, StreamCbFail
<1>2. Silent => Silent'
  BY <1>0, <1>1 DEF Silent, AllReturned
<1>3. StopInv'
  BY <1>0, <1>2 DEF StopInv
<1>4. BufferInv'
  <2>1. CASE StreamCbTest(b)
    BY <2>1, <1>0 DEF StreamCbTest, NoCallback, BufferInv
  <2>2. CASE StreamCbSubmit(b)
    <3>1. ToSet(vqueue') = ToSet(vqueue) \cup {b}
      BY <2>2, AppendSet DEF StreamCbSubmit, Inv, TypeOK
    <3> QED BY <2>2, <3>1, <1>0 DEF StreamCbSubmit, BufferInv
  <2>3. CASE StreamCbFail(b)
    BY <2>3, <1>0 DEF StreamCbFail, BufferInv
  <2> QED BY <2>1, <2>2, <2>3 DEF Callback, EndCallback
<1> QED BY <1>3, <1>4

LEMMA VideoLoopStop ==
  ASSUME Inv, BufferInv, StopInv, VideoLoop PROVE BufferInv' /\ StopInv'
<1>0. /\ UNCHANGED <<cam, hasStream, recording, repeating, flowing, device, called>>
      /\ loop # "none" /\ loop' # "none"
  BY DEF VideoLoop, LoopTest, LoopSize, LoopPop, LoopTimeout, LoopReturn,
         LoopGoto, reqVars, devVars
<1>1. BufferInv'
  <2>1. CASE LoopTest \/ LoopSize \/ LoopTimeout
    BY <2>1 DEF LoopTest, LoopSize, LoopTimeout, LoopGoto, BufferInv
  <2>2. CASE LoopPop
    <3>1. ToSet(vqueue) = ToSet(vqueue') \cup held' /\ held = {}
      BY <2>2, TailSet DEF LoopPop, LoopGoto, BufferInv, Inv, TypeOK
    <3> QED BY <2>2, <3>1 DEF LoopPop, LoopGoto, BufferInv
  <2>3. CASE LoopReturn
    BY <2>3 DEF LoopReturn, BufferInv
  <2> QED BY <2>1, <2>2, <2>3 DEF VideoLoop
<1>2. Silent => Silent'
  <2>1. CASE LoopTest \/ LoopSize \/ LoopTimeout
    BY <2>1, <1>0 DEF LoopTest, LoopSize, LoopTimeout, LoopGoto, Silent, AllReturned
  <2>2. CASE LoopPop
    BY <2>2, <1>0 DEF LoopPop, Silent, AllReturned
  <2>3. CASE LoopReturn
    BY <2>3, <1>0 DEF LoopReturn, Silent, AllReturned
  <2> QED BY <2>1, <2>2, <2>3 DEF VideoLoop
<1> QED BY <1>0, <1>1, <1>2 DEF StopInv

LEMMA NextStop ==
  Inv /\ BufferInv /\ StopInv /\ [Next]_vars => BufferInv' /\ StopInv'
<1> SUFFICES ASSUME Inv, BufferInv, StopInv, [Next]_vars
             PROVE  BufferInv' /\ StopInv'
  OBVIOUS
<1>1. CASE UNCHANGED vars
  BY <1>1, AsideStep DEF vars
<1>2. CASE Gadget
  BY <1>2, AsideStep
     DEF Gadget, SetupVideoStream, EnablePush, EnableActive, DisablePush,
         DisableActive, ControlGet, ControlSet, ControlRead, reqVars, devVars,
         bufVars
<1>3. CASE PushTerminate \/ Deactivate \/ FreeGadget
  BY <1>3, AsideStep
     DEF PushTerminate, Deactivate, FreeGadget, reqVars, devVars, bufVars
<1>4. CASE JoinCamera
  <2>1. /\ UNCHANGED <<cam, loop, hasStream, repeating, flowing, device,
                       vqueue, held, called, mapped>>
        /\ ~recording'
    BY <1>4 DEF JoinCamera, reqVars, devVars, bufVars
  <2> QED BY <2>1, BufferStep DEF StopInv, Silent, AllReturned
<1>5. CASE DeviceError
  <2>1. /\ UNCHANGED <<cam, loop, hasStream, recording, vqueue, held, called,
                       mapped>>
        /\ device' = "error"
    BY <1>5 DEF DeviceError, reqVars, bufVars
  <2> QED BY <2>1, BufferStep DEF StopInv, Silent
<1>6. CASE BlameHal
  BY <1>6, AsideStep DEF BlameHal, reqVars, devVars
<1> QED BY <1>1, <1>2, <1>3, <1>4, <1>5, <1>6, CameraThreadStop, CallbackStop,
           VideoLoopStop DEF Next, Destructor, Blame

\* When the last stop was served, and when the daemon's threads have ended,
\* nothing is left open; with a device client in order the gadget has given
\* back every buffer, so that it may be freed.
THEOREM StoppedIsClosed == Spec => []StoppedMeansClosed
<1>1. Init => Inv /\ BufferInv /\ StopInv
  BY InitTypeOK, InitInv, InitStop DEF Inv
<1>2. Inv /\ BufferInv /\ StopInv /\ [Next]_vars => (Inv /\ BufferInv /\ StopInv)'
  BY NextTypeOK, NextInv, NextStop DEF Inv
<1>3. Inv /\ BufferInv /\ StopInv => StoppedMeansClosed
  <2> SUFFICES ASSUME Inv, StopInv,
                      cam = "ended" \/ (cam = "pop" /\ ~streaming
                                          /\ "stop" \notin ToSet(msgs))
               PROVE  Closed
    BY DEF StoppedMeansClosed
  <2>1. msgs \in Seq(Messages)
    BY DEF Inv, TypeOK
  <2>2. HasStop(msgs) => "stop" \in ToSet(msgs)
    BY <2>1 DEF HasStop, ToSet
  <2>3. loop = "none"
    BY <2>2 DEF Inv, ThreadInv, QueueInv, Serving, LoopDue
  <2> QED BY <2>3 DEF StopInv, Silent, Closed
<1> QED BY <1>1, <1>2, <1>3, PTL DEF Spec

-----------------------------------------------------------------------------
(* Who waits for whom.  What StopsUnlessReenabled says of fair behaviours   *)
(* rests on these facts, which need no fairness.                            *)

\* Requests are gone before the camera counts as drained; locks cross only
\* while the camera thread has waited for the device and not yet gone on.
LockInv ==
  /\ ~flowing => repeating = NoRequest /\ AllReturned
  /\ crossed # "no" => cam = "forget"
  /\ crossed = "return" => device = "error"
  /\ crossed = "error" => "device" \in Faults
  /\ owner = "join" /\ cam # "ended" => ending \/ "terminate" \in ToSet(msgs)

\* The next step of the camera thread, and of the loop it joins.
CameraCanGo ==
  \/ cam \in {"start", "configure", "request", "submit", "stop", "delete"}
  \/ cam = "pop" /\ msgs # <<>>
  \/ cam = "drain" /\ (flowing \/ (repeating = NoRequest /\ AllReturned))
  \/ cam = "forget" /\ NoCallback
  \/ cam = "join" /\ loop = "ended"

LoopCanGo == loop \in {"test", "size", "pop"} \/ (loop = "return" /\ LockFree)

\* A camera thread that serves a message, or that is to end, can go on, or
\* waits for a callback that will end or for a loop that can go on.
CameraNotStuck ==
  cam # "ended" /\ (cam = "pop" => owner = "join") =>
    \/ CameraCanGo
    \/ cam = "forget" /\ called # {}
    \/ cam = "join" /\ LoopCanGo
    \/ LockedOut

\* Locks that cross stay crossed, and only an error makes them.
CrossedInError ==
  /\ crossed # "no" => cam = "forget" /\ LockedOut
  /\ LockedOut => device = "error" \/ "device" \in Faults

LEMMA QueueKeeps ==
  ASSUME TypeOK, NEW m \in Messages, msgs' = msgs \/ msgs' = Append(msgs, m)
  PROVE  "terminate" \in ToSet(msgs) => "terminate" \in ToSet(msgs')
<1>1. ToSet(Append(msgs, m)) = ToSet(msgs) \cup {m}
  BY AppendSet DEF TypeOK
<1> QED BY <1>1

LEMMA InitLock == Init => LockInv
  BY DEF Init, LockInv, AllReturned

\* A step that touches none of what LockInv speaks of, but may queue messages.
LEMMA AsideLock ==
  ASSUME LockInv, UNCHANGED <<cam, ending, repeating, flowing, device, vqueue,
                              held, called, crossed>>,
         owner' = "join" => owner = "join" \/ "terminate" \in ToSet(msgs'),
         "terminate" \in ToSet(msgs) => "terminate" \in ToSet(msgs')
  PROVE  LockInv'
  BY DEF LockInv, AllReturned

LEMMA CameraThreadLock ==
  ASSUME Inv, LockInv, CameraThread PROVE LockInv'
<1> USE DEF bufVars, devVars, reqVars, hostVars
<1>0. owner' = owner
  BY DEF CameraThread, PopMessage, StartLoop, Configure, FirstRequest,
         CameraSubmitRequest, StopBegin, WaitIdle, ForgetErrors, JoinLoop,
         DeleteStreams
<1>1. CASE PopMessage
  <2>1. /\ UNCHANGED <<repeating, flowing, device, vqueue, held, called, crossed>>
        /\ cam = "pop" /\ cam' # "ended" /\ msgs' = Tail(msgs)
        /\ ending' = (Head(msgs) = "terminate")
    BY <1>1, TailSet DEF PopMessage, Inv, TypeOK, Messages
  <2>2. ToSet(msgs) = ToSet(msgs') \cup {Head(msgs)}
    BY <1>1, <2>1, TailSet DEF PopMessage, Inv, TypeOK
  <2>3. ~ending
    BY <2>1 DEF Inv, ThreadInv
  <2> QED BY <1>0, <2>1, <2>2, <2>3 DEF LockInv, AllReturned
<1>2. CASE StartLoop \/ Configure \/ StopBegin \/ JoinLoop \/ DeleteStreams
  <2>1. /\ UNCHANGED <<ending, msgs, flowing, device, vqueue, held, called, crossed>>
        /\ repeating' \in {repeating, NoRequest}
        /\ cam # "forget" /\ cam # "ended" /\ (cam' = "ended" => ending)
    BY <1>2 DEF StartLoop, Configure, StopBegin, JoinLoop, DeleteStreams, Finish
  <2> QED BY <1>0, <2>1 DEF LockInv, AllReturned
<1>3. CASE FirstRequest \/ CameraSubmitRequest
  <2>1. /\ UNCHANGED <<ending, device, vqueue, held, called, crossed>>
        /\ flowing' \/ UNCHANGED <<repeating, flowing>>
        /\ cam # "forget" /\ cam # "ended"
    BY <1>3 DEF FirstRequest, CameraSubmitRequest, SubmitRequest, Finish
  <2>2. "terminate" \in ToSet(msgs) => "terminate" \in ToSet(msgs')
    <3>1. msgs' = msgs \/ msgs' = Append(msgs, "submit")
      BY <1>3 DEF FirstRequest, CameraSubmitRequest
    <3> QED BY <3>1, QueueKeeps DEF Inv, Messages
  <2> QED BY <1>0, <2>1, <2>2 DEF LockInv, AllReturned
<1>4. CASE WaitIdle
  <2>1. /\ UNCHANGED <<ending, msgs, repeating, vqueue, held, called, crossed>>
        /\ cam = "drain" /\ cam' = "forget"
        /\ \/ repeating = NoRequest /\ AllReturned /\ device' = device
           \/ device' = "error" /\ flowing' = flowing
    BY <1>4 DEF WaitIdle
  <2> QED BY <1>0, <2>1 DEF LockInv, AllReturned
<1>5. CASE ForgetErrors
  BY <1>0, <1>5 DEF ForgetErrors, NoCallback, LockInv, AllReturned
<1> QED BY <1>1, <1>2, <1>3, <1>4, <1>5 DEF CameraThread

LEMMA CallbackLock ==
  ASSUME Inv, StopInv, LockInv, NEW b \in Buffers, Callback(b)
  PROVE  LockInv'
<1>1. /\ UNCHANGED <<cam, ending, msgs, owner, repeating, flowing, device, held>>
      /\ crossed' = crossed \/ (crossed' = "return" /\ ~LockFree)
  BY DEF Callback, EndCallback, StreamCbTest, StreamCbSubmit, StreamCbFail,
         GiveBack, reqVars, devVars
<1>2. flowing
  BY DEF Callback, EndCallback, StreamCbTest, StreamCbSubmit, StreamCbFail,
         LockInv, AllReturned
<1>3. cam = "forget" => device = "error"
  BY <1>2 DEF StopInv, Silent, Inv, TypeOK
<1> QED BY <1>1, <1>2, <1>3 DEF LockInv, LockFree

LEMMA VideoLoopLock ==
  ASSUME Inv, BufferInv, LockInv, VideoLoop PROVE LockInv'
<1>1. UNCHANGED <<cam, ending, msgs, owner, repeating, flowing, device, called,
                  crossed>>
  BY DEF VideoLoop, LoopTest, LoopSize, LoopPop, LoopTimeout, LoopReturn,
         LoopGoto, devVars
<1>2. AllReturned => AllReturned'
  BY <1>1 DEF VideoLoop, LoopTest, LoopSize, LoopPop, LoopTimeout, LoopReturn,
              LoopGoto, AllReturned
<1> QED BY <1>1, <1>2 DEF LockInv

LEMMA NextLock ==
  Inv /\ BufferInv /\ StopInv /\ LockInv /\ [Next]_vars => LockInv'
<1> SUFFICES ASSUME Inv, BufferInv, StopInv, LockInv, [Next]_vars
             PROVE  LockInv'
  OBVIOUS
<1> USE DEF reqVars, devVars, bufVars, hostVars
<1>1. CASE UNCHANGED vars
  BY <1>1, AsideLock DEF vars
<1>2. CASE Gadget
  <2>1. UNCHANGED <<cam, ending, repeating, flowing, device, vqueue, held,
                    called, crossed, owner>>
    BY <1>2 DEF Gadget, SetupVideoStream, EnablePush, EnableActive, DisablePush,
                DisableActive, ControlGet, ControlSet, ControlRead
  <2>2. msgs' = msgs \/ \E m \in Messages : msgs' = Append(msgs, m)
    BY <1>2 DEF Gadget, SetupVideoStream, EnablePush, EnableActive, DisablePush,
                DisableActive, ControlGet, ControlSet, ControlRead, Push, Messages
  <2>3. "terminate" \in ToSet(msgs) => "terminate" \in ToSet(msgs')
    BY <2>2, QueueKeeps DEF Inv, Messages
  <2> QED BY <2>1, <2>3, AsideLock
<1>3. CASE Deactivate \/ JoinCamera \/ FreeGadget
  BY <1>3, AsideLock DEF Deactivate, JoinCamera, FreeGadget
<1>4. CASE PushTerminate
  <2>1. ToSet(msgs') = ToSet(msgs) \cup {"terminate"}
    BY <1>4, AppendSet DEF PushTerminate, Inv, TypeOK, Messages
  <2> QED BY <1>4, <2>1, AsideLock DEF PushTerminate
<1>5. CASE DeviceError
  BY <1>5 DEF DeviceError, LockInv, AllReturned
<1>6. CASE BlameHal
  BY <1>6 DEF BlameHal, LockFree, LockInv, AllReturned
<1> QED BY <1>1, <1>2, <1>3, <1>4, <1>5, <1>6, CameraThreadLock, CallbackLock,
           VideoLoopLock DEF Next, Destructor, Blame

LEMMA LockInvHolds == Spec => [](Inv /\ StopInv /\ LockInv)
<1> DEFINE All == Inv /\ BufferInv /\ StopInv /\ LockInv
<1>1. Init => All
  BY InitTypeOK, InitInv, InitStop, InitLock DEF Inv
<1>2. All /\ [Next]_vars => All'
  BY NextTypeOK, NextInv, NextStop, NextLock DEF Inv
<1>3. All => Inv /\ StopInv /\ LockInv
  OBVIOUS
<1> QED BY <1>1, <1>2, <1>3, PTL DEF Spec

\* The two locks cross only when the camera does not drain in time or the HAL
\* was found at fault.
THEOREM LocksCrossInError == Spec => []CrossedInError
<1>1. Inv /\ LockInv => CrossedInError
  BY DEF Inv, TypeOK, LockInv, CrossedInError, LockedOut
<1> QED BY <1>1, LockInvHolds, PTL

\* Unless the locks have crossed, the camera thread is never blocked by a
\* thread that is blocked itself, and the destructor never waits for a camera
\* thread that has nothing to do.
THEOREM CameraIsNotStuck == Spec => []CameraNotStuck
<1>1. Inv /\ StopInv /\ LockInv => CameraNotStuck
  <2> SUFFICES ASSUME Inv, StopInv, LockInv, cam # "ended",
                      cam = "pop" => owner = "join",
                      ~CameraCanGo, ~LockedOut
               PROVE  \/ cam = "forget" /\ called # {}
                      \/ cam = "join" /\ LoopCanGo
    BY DEF CameraNotStuck
  <2>1. cam \in {"pop", "drain", "forget", "join"}
    BY DEF Inv, TypeOK, CameraCanGo
  <2>2. cam # "pop"
    <3> SUFFICES ASSUME cam = "pop" PROVE FALSE
      OBVIOUS
    <3>1. msgs = <<>> /\ "terminate" \in ToSet(msgs)
      BY DEF CameraCanGo, LockInv, Inv, ThreadInv
    <3> QED BY <3>1, EmptySet
  <2>3. cam # "drain"
    BY DEF CameraCanGo, LockInv
  <2>4. cam = "forget" => called # {}
    BY DEF CameraCanGo, NoCallback, LockedOut, LockInv, Inv, TypeOK
  <2>5. cam = "join" => LoopCanGo
    BY DEF CameraCanGo, StopInv, LoopCanGo, LockFree, Inv, TypeOK, LoopPCs
  <2> QED BY <2>1, <2>2, <2>3, <2>4, <2>5
<1> QED BY <1>1, LockInvHolds, PTL

-----------------------------------------------------------------------------
(* VideoControls: the host's values and the camera's metadata.             *)

\* What the metadata has of each control that was set.
Kept ==
  /\ DOMAIN meta = Numeric /\ DOMAIN mode = Enumerated
  /\ \A c \in DOMAIN asked \cap Numeric :
       /\ c \in present
       /\ asked[c] \in Nat /\ asked[c] < Width(c)
       /\ meta[c] = Encode(c, asked[c])
  /\ \A c \in DOMAIN asked \cap Enumerated :
       /\ c \in present
       /\ asked[c] \in DOMAIN CameraMode[c]
       /\ mode[c] = CameraMode[c][asked[c]]

\* A product shorter than the word survives, and is divided exactly.
LEMMA ExactProduct ==
  ASSUME NEW v \in Nat, NEW u \in Nat \ {0}, NEW w \in Nat \ {0}, v * u < w
  PROVE  ((v * u) % w) \div u = v
<1>1. v * u \in Nat
  OBVIOUS
<1>2. (v * u) % w = v * u
  BY <1>1
<1>3. (v * u) \div u = v
  OBVIOUS
<1> QED
  BY <1>2, <1>3

\* Encode and Decode are inverses within the control's exact range.
LEMMA NumericRoundTrip ==
  ASSUME NEW c \in Numeric, NEW v \in Nat, v < Width(c), Exact(c, v)
  PROVE  Decode(c, Encode(c, v)) = (v + Offset(c)) % Width(c)
<1> USE ControlsAssumption
<1>1. CASE c = "contrast"
  <2>1. ((v * 2 - 100) + 200) \div 2 = v + 50
    OBVIOUS
  <2> QED
    BY <1>1, <2>1 DEF Encode, Decode, Offset, Width
<1>2. CASE c = "backlight"
  BY <1>2 DEF Encode, Decode, Exact, Offset, Width
<1>3. CASE c = "exposureTime"
  <2>1. ((v * ExposureUnit) % Word) \div ExposureUnit = v
    BY <1>3, ExactProduct DEF Exact
  <2> QED
    BY <1>3, <2>1 DEF Encode, Decode, Offset, Width
<1>4. CASE c \notin {"contrast", "backlight", "exposureTime"}
  BY <1>4 DEF Encode, Decode, Offset, Width
<1> QED
  BY <1>1, <1>2, <1>3, <1>4

\* No two of the host's values are the same to the camera.
LEMMA ModeRoundTrip ==
  ASSUME NEW c \in Enumerated, NEW h \in DOMAIN CameraMode[c]
  PROVE  HostMode(c, CameraMode[c][h]) = h
<1>1. \A g \in DOMAIN CameraMode[c] : CameraMode[c][g] = CameraMode[c][h] => g = h
  BY DEF Enumerated, CameraMode
<1> QED
  BY <1>1 DEF HostMode

LEMMA ControlsStep == Kept /\ [ControlsNext]_controlVars => Kept'
<1> SUFFICES ASSUME Kept, [ControlsNext]_controlVars PROVE Kept'
  OBVIOUS
<1> USE DEF Kept
<1>1. ASSUME NEW c \in Numeric, NEW v \in HostValues, SetNumeric(c, v)
      PROVE  Kept'
  <2>1. c \notin Enumerated
    BY DEF Numeric, Enumerated
  <2> QED
    BY <1>1, <2>1, ControlsAssumption DEF SetNumeric, Remember
<1>2. ASSUME NEW c \in Enumerated, NEW h \in DOMAIN CameraMode[c],
             SetEnumerated(c, h)
      PROVE  Kept'
  <2>1. c \notin Numeric
    BY DEF Numeric, Enumerated
  <2> QED
    BY <1>2, <2>1 DEF SetEnumerated, Remember
<1>3. CASE \/ \E m \in Magnifications : SetZoom(m)
           \/ \E p, t \in Angles : SetPanTilt(p, t)
  <2>1. \A d \in DOMAIN asked \cap (Numeric \cup Enumerated) :
          d \in DOMAIN asked' /\ asked'[d] = asked[d]
    BY <1>3 DEF SetZoom, SetPanTilt, Remember, Numeric, Enumerated
  <2>2. DOMAIN asked' \cap (Numeric \cup Enumerated)
          \subseteq DOMAIN asked
    BY <1>3 DEF SetZoom, SetPanTilt, Remember, Numeric, Enumerated
  <2>3. UNCHANGED <<meta, mode, present>>
    BY <1>3 DEF SetZoom, SetPanTilt
  <2> QED
    BY <2>1, <2>2, <2>3
<1>4. CASE GetZoom \/ UNCHANGED controlVars
  BY <1>4 DEF GetZoom, controlVars
<1> QED
  BY <1>1, <1>2, <1>3, <1>4 DEF ControlsNext

\* Whatever the host sets and reads in between, it reads back what it set,
\* unless the value did not fit the metadata.
THEOREM HostReadsBack == ControlsSpec => []ReadsBack
<1>1. ControlsInit => Kept
  BY DEF ControlsInit, Kept, Numeric, Enumerated
<1>2. Kept => ReadsBack
  <2> SUFFICES ASSUME Kept, NEW c \in DOMAIN asked,
                      c \in Numeric \cup Enumerated
               PROVE  /\ c \in present
                      /\ c \in Numeric /\ Exact(c, asked[c]) =>
                           Answer(c) = (asked[c] + Offset(c)) % Width(c)
                      /\ c \in Enumerated => Answer(c) = asked[c]
    BY DEF ReadsBack
  <2>1. CASE c \in Numeric
    BY <2>1, NumericRoundTrip DEF Kept, Answer, Numeric, Enumerated
  <2>2. CASE c \in Enumerated
    <3>1. c \notin Numeric
      BY <2>2 DEF Numeric, Enumerated
    <3> QED
      BY <2>2, <3>1, ModeRoundTrip DEF Kept, Answer
  <2> QED
    BY <2>1, <2>2
<1> QED
  BY <1>1, <1>2, ControlsStep, PTL DEF ControlsSpec

-----------------------------------------------------------------------------
(* Zoom, pan and tilt.  First what quotients and products of naturals do.  *)

\* A truncated quotient times its divisor.
LEMMA DivBounds ==
  ASSUME NEW a \in Nat, NEW b \in Nat \ {0}
  PROVE  /\ a \div b \in Nat
         /\ b * (a \div b) <= a
         /\ a < b * (a \div b) + b
  OBVIOUS

LEMMA DivAtLeast ==
  ASSUME NEW a \in Nat, NEW b \in Nat \ {0}, NEW k \in Int, k * b <= a
  PROVE  k <= a \div b
<1> DEFINE q == a \div b
<1>1. q \in Nat /\ a < b * q + b
  BY DivBounds
<1>2. SUFFICES ASSUME q + 1 <= k PROVE FALSE
  BY <1>1
<1>3. (q + 1) * b <= k * b
  <2> HIDE DEF q
  <2>1. k - (q + 1) \in Nat
    BY <1>1, <1>2
  <2>2. (k - (q + 1)) * b >= 0
    BY <2>1
  <2>3. (k - (q + 1)) * b = k * b - (q + 1) * b
    BY <1>1
  <2> QED
    BY <1>1, <2>2, <2>3
<1>4. (q + 1) * b = b * q + b
  <2> HIDE DEF q
  <2> QED BY <1>1
<1> QED
  BY <1>1, <1>3, <1>4

\* A product is monotone in a natural factor.
LEMMA Scaled ==
  ASSUME NEW a \in Int, NEW b \in Int, NEW c \in Nat, a <= b
  PROVE  a * c <= b * c
<1>1. b - a \in Nat
  OBVIOUS
<1>2. (b - a) * c >= 0
  BY <1>1
<1> QED
  BY <1>2

\* What a side of the crop may be for a magnification m.
Side(q, side, m) ==
  /\ q \in Nat \ {0}
  /\ m * q <= 100 * side
  /\ m = 100 => q = side

LEMMA QuotientBounds ==
  ASSUME NEW side \in Nat \ {0}, NEW m \in Nat \ {0}, m < 100 * side,
         NEW q \in Quotients(side, m)
  PROVE  Side(q, side, m)
<1> DEFINE a == 100 * side
           d == a \div m
<1>1. a \in Nat /\ d \in Nat /\ m * d <= a /\ a < m * d + m
  BY DivBounds
<1>2. d >= 1
  BY DivAtLeast, <1>1
<1>3. CASE q = d
  <2>1. m = 100 => d = side
    OBVIOUS
  <2> QED
    BY <1>1, <1>2, <1>3, <2>1 DEF Side
<1>4. CASE q = d - 1 /\ a % m = 0 /\ m % 100 # 0
  <2>1. m * d = a
    BY <1>4
  <2>2. d # 1
    BY <2>1
  <2>3. m # 100
    BY <1>4
  <2>4. m * (d - 1) = m * d - m
    <3> HIDE DEF d
    <3> QED BY <1>1
  <2> QED
    BY <1>1, <1>2, <1>4, <2>1, <2>2, <2>3, <2>4 DEF Side
<1> QED
  BY <1>3, <1>4 DEF Quotients

\* Neither rounding of the crop nor of the floats lets a GET measure less
\* than the magnification the crop was made with, but for one step; the whole
\* picture is measured exactly.
LEMMA MeasuredBounds ==
  ASSUME NEW m \in Nat \ {0}, m <= Precision, NEW c,
         Side(c.w, SensorW, m), Side(c.h, SensorH, m), NEW z \in ZoomOf(c)
  PROVE  /\ z \in Nat
         /\ z >= m - 1
         /\ m = 100 => z = 100
<1> DEFINE w == c.w
           h == c.h
           sum == 50 * (SensorW * h + SensorH * w)
           area == w * h
<1>1. /\ w \in Nat \ {0} /\ h \in Nat \ {0}
      /\ SensorW \in Nat \ {0} /\ SensorH \in Nat \ {0} /\ Precision \in Nat \ {0}
      /\ m * w <= 100 * SensorW /\ m * h <= 100 * SensorH
  BY ControlsAssumption DEF Side
<1>2. /\ ZoomOf(c) = IF SensorW % w = 0 /\ SensorH % h = 0
                      THEN {sum \div area}
                      ELSE (sum * (Precision - 1)) \div (area * Precision)
                             .. (sum * (Precision + 1)) \div (area * Precision)
  BY <1>1 DEF ZoomOf
<1>3. area \in Nat \ {0} /\ sum \in Nat
  <2> HIDE DEF w, h
  <2>1. w * h \in Nat /\ w * h # 0
    BY <1>1
  <2> QED
    BY <1>1, <2>1
<1>4. m * area <= sum
  <2> HIDE DEF w, h
  <2>1. (m * w) * h <= (100 * SensorW) * h /\ (m * h) * w <= (100 * SensorH) * w
    BY <1>1, Scaled
  <2>2. (m * w) * h = m * area /\ (m * h) * w = m * area
    BY <1>1
  <2>3. (100 * SensorW) * h + (100 * SensorH) * w = 2 * sum
    BY <1>1
  <2> QED
    BY <1>1, <1>3, <2>1, <2>2, <2>3
<1>5. m = 100 => z = 100
  <2> SUFFICES ASSUME m = 100 PROVE z = 100
    OBVIOUS
  <2>1. w = SensorW /\ h = SensorH
    BY DEF Side
  <2>2. SensorW % w = 0 /\ SensorH % h = 0
    BY <1>1, <2>1
  <2>3. sum = 100 * area
    BY <1>1, <2>1
  <2>4. sum \div area = 100
    BY <1>3, <2>3
  <2> QED
    BY <1>2, <2>2, <2>4
<1>6. CASE z = sum \div area
  BY <1>3, <1>4, <1>5, <1>6, DivAtLeast, DivBounds
<1>7. CASE z \in (sum * (Precision - 1)) \div (area * Precision)
                  .. (sum * (Precision + 1)) \div (area * Precision)
  <2> HIDE DEF w, h, sum, area
  <2>1. area * Precision \in Nat \ {0} /\ sum * (Precision - 1) \in Nat
    <3>1. area * Precision \in Nat /\ area * Precision # 0
      BY <1>1, <1>3
    <3>2. Precision - 1 \in Nat
      BY <1>1
    <3> QED BY <1>3, <3>1, <3>2
  <2>2. (m - 1) * (area * Precision) <= sum * (Precision - 1)
    <3>1. (m * area) * (Precision - 1) <= sum * (Precision - 1)
      BY <1>1, <1>3, <1>4, Scaled
    <3>2. (m - 1) * Precision <= m * (Precision - 1)
      <4>1. (m - 1) * Precision = m * Precision - Precision
        BY <1>1
      <4>2. m * (Precision - 1) = m * Precision - m
        BY <1>1
      <4>3. m * Precision \in Nat
        BY <1>1
      <4> QED BY <1>1, <4>1, <4>2, <4>3
    <3>3. ((m - 1) * Precision) * area <= (m * (Precision - 1)) * area
      BY <1>1, <1>3, <3>2, Scaled
    <3>4. ((m - 1) * Precision) * area = (m - 1) * (area * Precision)
      BY <1>1, <1>3
    <3>5. (m * (Precision - 1)) * area = (m * area) * (Precision - 1)
      BY <1>1, <1>3
    <3>6. (m - 1) * (area * Precision) \in Int /\ (m * area) * (Precision - 1) \in Int
            /\ sum * (Precision - 1) \in Int
      BY <1>1, <1>3, <2>1
    <3> QED BY <3>1, <3>3, <3>4, <3>5, <3>6
  <2>3. m - 1 <= (sum * (Precision - 1)) \div (area * Precision)
    BY <2>1, <2>2, DivAtLeast
  <2>4. (sum * (Precision - 1)) \div (area * Precision) \in Nat
    BY <2>1, DivBounds
  <2> QED
    BY <1>5, <1>7, <2>3, <2>4
<1> QED
  BY <1>2, <1>6, <1>7

\* Pan and tilt within reach do not move the crop past the room it has.
LEMMA ShiftedInside ==
  ASSUME NEW room \in Nat, NEW angle \in -PanUnit .. PanUnit
  PROVE  Shifted(Truncated(room, 2), angle) \in 0 .. room
<1> DEFINE offset == room \div 2
           turned == PanUnit + angle
           moved == (offset * turned) \div PanUnit
<1>1. Truncated(room, 2) = offset /\ offset \in Nat /\ 2 * offset <= room
  BY DEF Truncated
<1>2. PanUnit \in Nat \ {0} /\ turned \in Nat /\ turned <= 2 * PanUnit
  BY ControlsAssumption
<1>3. offset * turned \in Nat
  <2> HIDE DEF offset, turned
  <2> QED BY <1>1, <1>2
<1>4. Shifted(Truncated(room, 2), angle) = moved
  BY <1>1, <1>3 DEF Shifted, Truncated
<1>5. moved \in Nat /\ PanUnit * moved <= offset * turned
  BY <1>2, <1>3, DivBounds
<1>6. moved <= 2 * offset
  <2> HIDE DEF moved, offset, turned
  <2>1. turned * offset <= (2 * PanUnit) * offset
    BY <1>1, <1>2, Scaled
  <2>2. PanUnit * moved <= PanUnit * (2 * offset)
    BY <1>1, <1>2, <1>5, <2>1
  <2>3. SUFFICES ASSUME 2 * offset + 1 <= moved PROVE FALSE
    BY <1>1, <1>5
  <2>4. (2 * offset + 1) * PanUnit <= moved * PanUnit
    BY <1>1, <1>2, <1>5, <2>3, Scaled
  <2> QED
    BY <1>1, <1>2, <1>5, <2>2, <2>4
<1> QED
  BY <1>1, <1>4, <1>5, <1>6

-----------------------------------------------------------------------------
ZoomedIn == "zoom" \in DOMAIN asked => asked["zoom"] >= 100

\* The crop is as large as its magnification says, and what a GET measures
\* stays within a step of it.
PictureInv ==
  /\ shown \in Nat \ {0} /\ shown < Short
  /\ Side(crop.w, SensorW, shown) /\ Side(crop.h, SensorH, shown)
  /\ magnification \in Nat /\ magnification < Short
  /\ pan \in Int /\ tilt \in Int
  /\ "zoom" \in DOMAIN asked => asked["zoom"] \in Int
  /\ fits =>
       /\ magnification >= shown - 1
       /\ shown = 100 => magnification = 100
       /\ ZoomedIn => shown >= 100
       /\ WithinReach => CropInside

LEMMA PictureInit == ControlsInit => PictureInv
<1> SUFFICES ASSUME ControlsInit PROVE PictureInv
  OBVIOUS
<1>1. Short \in Nat /\ SensorW \in Nat \ {0} /\ SensorH \in Nat \ {0} /\ 100 < Short
  BY ControlsAssumption
<1> QED
  BY <1>1 DEF ControlsInit, PictureInv, Side, ZoomedIn, WithinReach, CropInside

\* What SetZoom and SetPanTilt put into the request.
LEMMA ShowsPicture ==
  ASSUME PictureInv, NEW m \in Nat \ {0}, m < Short, NEW p \in Int, NEW t \in Int,
         Show(m, p, t)
  PROVE  /\ shown' = m
         /\ Side(crop'.w, SensorW, m) /\ Side(crop'.h, SensorH, m)
         /\ m >= 100 /\ {p, t} \subseteq -PanUnit .. PanUnit => CropInside'
<1>1. PICK w \in Quotients(SensorW, m), h \in Quotients(SensorH, m) :
        crop' = CropOf(w, h, p, t)
  BY DEF Show
<1>2. /\ m < 100 * SensorW /\ m < 100 * SensorH
      /\ SensorW \in Nat \ {0} /\ SensorH \in Nat \ {0} /\ PanUnit \in Nat \ {0}
  BY ControlsAssumption
<1>3. Side(w, SensorW, m) /\ Side(h, SensorH, m)
  BY <1>2, QuotientBounds
<1>4. crop'.w = w /\ crop'.h = h
  BY <1>1 DEF CropOf
<1>5. ASSUME m >= 100, p \in -PanUnit .. PanUnit, t \in -PanUnit .. PanUnit
      PROVE  CropInside'
  <2>1. ASSUME NEW side \in Nat \ {0}, NEW q, Side(q, side, m)
        PROVE  q \in Nat /\ side - q \in Nat
    <3>1. q \in Nat /\ m * q <= 100 * side
      BY <2>1 DEF Side
    <3>2. 100 * q <= m * q
      BY <1>5, <3>1, Scaled
    <3>3. m * q \in Nat
      BY <3>1
    <3> QED BY <3>1, <3>2, <3>3
  <2>2. w \in Nat /\ h \in Nat /\ SensorW - w \in Nat /\ SensorH - h \in Nat
    BY <1>2, <1>3, <2>1
  <2>3. /\ Shifted(Truncated(SensorW - w, 2), p) \in 0 .. SensorW - w
        /\ Shifted(Truncated(SensorH - h, 2), t) \in 0 .. SensorH - h
    BY <1>5, <2>2, ShiftedInside
  <2> QED
    BY <1>1, <1>2, <2>2, <2>3 DEF CropInside, CropOf
<1> QED
  BY <1>3, <1>4, <1>5 DEF Show

LEMMA PictureStep ==
  PictureInv /\ [ControlsNext]_controlVars =>
    /\ PictureInv'
    /\ fits' => /\ (\E p, t \in Angles : SetPanTilt(p, t)) => shown' >= shown - 1
                /\ WithinReach' => CropInside'
<1> SUFFICES ASSUME PictureInv, [ControlsNext]_controlVars
             PROVE  /\ PictureInv'
                    /\ (\E p, t \in Angles : SetPanTilt(p, t)) /\ fits' =>
                          shown' >= shown - 1
  BY DEF PictureInv
<1>1. ASSUME NEW p \in Angles, NEW t \in Angles, SetPanTilt(p, t)
      PROVE  /\ PictureInv'
             /\ fits' => shown' >= shown - 1
  <2>1. /\ magnification \in Nat \ {0} /\ magnification < Short
        /\ p \in Int /\ t \in Int
    BY <1>1, ControlsAssumption DEF SetPanTilt, PictureInv
  <2>2. /\ shown' = magnification
        /\ Side(crop'.w, SensorW, magnification)
        /\ Side(crop'.h, SensorH, magnification)
        /\ magnification >= 100 /\ {p, t} \subseteq -PanUnit .. PanUnit =>
              CropInside'
    BY <1>1, <2>1, ShowsPicture DEF SetPanTilt
  <2>3. /\ "zoom" \in DOMAIN asked' <=> "zoom" \in DOMAIN asked
        /\ "zoom" \in DOMAIN asked => asked'["zoom"] = asked["zoom"]
    BY <1>1 DEF SetPanTilt, Remember
  <2>4. pan' = p /\ tilt' = t /\ UNCHANGED <<magnification, fits>>
    BY <1>1 DEF SetPanTilt
  <2>5. fits /\ ZoomedIn => magnification >= 100
    BY DEF PictureInv
  <2>6. ZoomedIn' <=> ZoomedIn
    BY <2>3 DEF ZoomedIn
  <2>7. fits' /\ WithinReach' => CropInside'
    BY <2>2, <2>4, <2>5, <2>6 DEF WithinReach, ZoomedIn
  <2> QED
    BY <2>1, <2>2, <2>3, <2>4, <2>5, <2>6, <2>7 DEF PictureInv
<1>2. ASSUME NEW m \in Magnifications, SetZoom(m)
      PROVE  PictureInv'
  <2>1. m \in Nat \ {0} /\ m < Short
    BY ControlsAssumption
  <2>2. /\ shown' = m
        /\ Side(crop'.w, SensorW, m) /\ Side(crop'.h, SensorH, m)
        /\ m >= 100 /\ {pan, tilt} \subseteq -PanUnit .. PanUnit => CropInside'
    BY <1>2, <2>1, ShowsPicture DEF SetZoom, PictureInv
  <2>3. "zoom" \in DOMAIN asked' /\ asked'["zoom"] = m
    BY <1>2 DEF SetZoom, Remember
  <2>4. magnification' = m /\ UNCHANGED <<pan, tilt>>
    BY <1>2 DEF SetZoom
  <2>5. WithinReach' => CropInside'
    BY <2>2, <2>3, <2>4 DEF WithinReach
  <2> QED
    BY <2>1, <2>2, <2>3, <2>4, <2>5 DEF PictureInv, ZoomedIn
<1>3. CASE GetZoom
  <2>1. PICK z \in ZoomOf(crop) :
          magnification' = z % Short /\ fits' = (fits /\ z < Short)
    BY <1>3 DEF GetZoom
  <2>2. Short \in Nat \ {0} /\ shown <= Precision
    BY ControlsAssumption DEF PictureInv
  <2>3. z \in Nat /\ z >= shown - 1 /\ (shown = 100 => z = 100)
    BY <2>2, MeasuredBounds DEF PictureInv
  <2>4. /\ magnification' \in Nat /\ magnification' < Short
        /\ z < Short => magnification' = z
    BY <2>1, <2>2, <2>3
  <2>5. UNCHANGED <<shown, crop, pan, tilt, asked>>
    BY <1>3 DEF GetZoom
  <2>6. fits' => fits /\ z < Short
    BY <2>1
  <2> QED
    BY <2>3, <2>4, <2>5, <2>6
    DEF PictureInv, ZoomedIn, WithinReach, CropInside
<1>4. CASE \/ \E c \in Numeric, v \in HostValues : SetNumeric(c, v)
           \/ \E c \in Enumerated : \E h \in DOMAIN CameraMode[c] :
                SetEnumerated(c, h)
           \/ UNCHANGED controlVars
  <2>1. UNCHANGED zoomVars
    BY <1>4 DEF SetNumeric, SetEnumerated, controlVars
  <2>2. /\ "zoom" \in DOMAIN asked' <=> "zoom" \in DOMAIN asked
        /\ "zoom" \in DOMAIN asked => asked'["zoom"] = asked["zoom"]
    BY <1>4 DEF SetNumeric, SetEnumerated, controlVars, Remember, Numeric, Enumerated
  <2> QED
    BY <2>1, <2>2 DEF PictureInv, zoomVars, ZoomedIn, WithinReach, CropInside
<1>5. ~ (\E p, t \in Angles : SetPanTilt(p, t)) \/
        \E p, t \in Angles : SetPanTilt(p, t)
  OBVIOUS
<1> QED
  BY <1>1, <1>2, <1>3, <1>4, <1>5 DEF ControlsNext

\* Whatever the host reads between two pans, a pan zooms out by no more than
\* one step and leaves the picture on the sensor's array.
THEOREM ControlsKeepPicture == ControlsSpec => PanKeepsPicture
<1>1. ControlsSpec => []PictureInv
  BY PictureInit, PictureStep, PTL DEF ControlsSpec
<1> QED
  BY <1>1, PictureStep, PTL DEF ControlsSpec, PanKeepsPicture
=============================================================================
