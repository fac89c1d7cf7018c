------------------------- MODULE CameraDevice_proofs ------------------------
(***************************************************************************)
(* For any clients, streams, requests and faults: what the device's state, *)
(* the handler and the monitor know of one another; and for one client     *)
(* whom nothing fails, that a wait for idleness means what it says, that   *)
(* no buffer is lost, and that nobody waits in vain.                       *)
(***************************************************************************)
EXTENDS CameraDevice, TLAPS

Labels == Waits \cup {"out", "flush"}

(* What each of the helpers that actions are built from does to the types. *)
ClientTypes ==
  /\ state \in States
  /\ pc \in [Clients -> Labels]
  /\ seen \subseteq Clients
  /\ lock \in Clients \cup {"nobody"}

LEMMA GoTypes ==
  ASSUME ClientTypes, NEW c \in Clients, NEW label \in Labels,
         NEW s \in States, Go(c, label, s)
  PROVE  ClientTypes' /\ state' = s
BY DEF Go, ClientTypes

LEMMA UpdateTypes ==
  ASSUME seen \subseteq Clients, NEW s \in States, Update(s)
  PROVE  state' \in States /\ seen' \subseteq Clients
BY DEF Update

MonitorTypes ==
  /\ active \subseteq Streams \cup {"handler"}
  /\ told \in {"IDLE", "ACTIVE"}
  /\ backlog \in Nat

LEMMA ReportTypes ==
  ASSUME MonitorTypes, NEW holders \in SUBSET (Streams \cup {"handler"}),
         Report(holders)
  PROVE  MonitorTypes'
BY DEF Report, MonitorTypes

BufferTypes ==
  /\ pending \in [Streams -> Nat] /\ out \in [Streams -> Nat]
  /\ \A s \in Streams : out[s] <= pending[s] /\ pending[s] <= Buffers

DeviceTypes ==
  /\ reconfig \in BOOLEAN /\ pauseNotify \in BOOLEAN
  /\ streams \subseteq Streams /\ deleted \subseteq Streams
  /\ configured \subseteq streams /\ monitored \subseteq streams

QueueTypes ==
  /\ requests \in Seq(SUBSET Streams) /\ streaming \in Seq(SUBSET Streams)
  /\ frame \in 0 .. Batch - 1

HandlerTypes ==
  /\ current \subseteq Streams
  /\ hpc \in HandlerPcs
  /\ togglePause \in BOOLEAN /\ paused \in BOOLEAN

SubjectTypes ==
  /\ subject \in [Clients -> Streams \cup {"none"}]
  /\ \A c \in Clients : pc[c] = "createPause" => subject[c] \in Streams

Types ==
  /\ ClientTypes /\ MonitorTypes /\ BufferTypes /\ DeviceTypes
  /\ QueueTypes /\ HandlerTypes /\ SubjectTypes

LEMMA TypesTogether == (TypeOK => Types) /\ (Types' => TypeOK')
BY DEF TypeOK, Types, ClientTypes, MonitorTypes, BufferTypes, DeviceTypes,
       QueueTypes, HandlerTypes, SubjectTypes, Labels

LEMMA MovingSubjects ==
  ASSUME ClientTypes, SubjectTypes, NEW c \in Clients,
         NEW label \in Labels \ {"createPause"}, pc' = [pc EXCEPT ![c] = label],
         subject' = subject \/ subject' = [subject EXCEPT ![c] = "none"]
  PROVE  SubjectTypes'
BY DEF ClientTypes, SubjectTypes

LEMMA FrameInBatch ==
  ASSUME QueueTypes, NEW n \in Nat, Numbered(n) PROVE frame' \in 0 .. Batch - 1
BY DeviceAssumption DEF QueueTypes, Numbered

LEMMA ListTypes ==
  ASSUME NEW list \in Lists
  PROVE  list \in Seq(SUBSET Streams)
<1>1. Lists \subseteq Seq(SUBSET Streams)
  BY DeviceAssumption
<1> QED
  BY <1>1

LEMMA InitTypes == Init => TypeOK
<1> SUFFICES ASSUME Init PROVE TypeOK
  OBVIOUS
<1>1. Buffers \in Nat /\ 0 \in 0 .. Batch - 1
  BY DeviceAssumption
<1>2. /\ pending \in [Streams -> Nat] /\ out \in [Streams -> Nat]
      /\ \A s \in Streams : out[s] <= pending[s] /\ pending[s] <= Buffers
  BY <1>1 DEF Init
<1>3. <<>> \in Seq(SUBSET Streams)
  OBVIOUS
<1> QED
  BY <1>1, <1>2, <1>3 DEF Init, TypeOK, States, HandlerPcs

(* The steps of the other threads.                                         *)
LEMMA ThreadsKeepTypes ==
  ASSUME TypeOK,
         \/ NotifyStatus \/ HandlerStep \/ SetErrorState
         \/ \E s \in Streams : ReturnStreamBuffer(s) \/ ReturnRefused(s)
  PROVE  TypeOK'
<1> USE DEF device, queues, pause, buffers, monitor, clients,
            handlerUntouched, callUntouched, Types
<1>a. Types
  BY TypesTogether
<1>b. SUFFICES Types'
  BY TypesTogether
<1>1. CASE NotifyStatus
  <2>1. state' \in States /\ seen' \subseteq Clients
    BY <1>a, <1>1, UpdateTypes DEF NotifyStatus, States, ClientTypes
  <2> QED
    BY <1>a, <1>1, <2>1
       DEF NotifyStatus, ClientTypes, MonitorTypes, BufferTypes, DeviceTypes,
           QueueTypes, HandlerTypes, SubjectTypes
<1>2. CASE WaitOnPause
  <2>1. MonitorTypes'
    BY <1>a, <1>2, ReportTypes DEF WaitOnPause, MonitorTypes
  <2> QED
    BY <1>a, <1>2, <2>1
       DEF WaitOnPause, ClientTypes, BufferTypes, DeviceTypes, QueueTypes,
           HandlerTypes, SubjectTypes
<1>3. CASE PassPause
  BY <1>a, <1>3
     DEF PassPause, ClientTypes, MonitorTypes, BufferTypes, DeviceTypes,
         QueueTypes, HandlerTypes, SubjectTypes, HandlerPcs
<1>4. ASSUME NEW request \in SUBSET Streams, NEW rest \in Seq(SUBSET Streams),
             TakeRequest(request, rest)
      PROVE  Types'
  <2>1. MonitorTypes'
    BY <1>a, <1>4, ReportTypes DEF TakeRequest, MonitorTypes
  <2>2. QueueTypes'
    BY <1>a, <1>4, FrameInBatch DEF TakeRequest, QueueTypes
  <2> QED
    BY <1>a, <1>4, <2>1, <2>2
       DEF TakeRequest, ClientTypes, BufferTypes, DeviceTypes, HandlerTypes,
           SubjectTypes, HandlerPcs
<1>5. CASE GetRequest
  <2>1. CASE requests # <<>> /\ TakeRequest(Head(requests), Tail(requests))
    <3>1. /\ Head(requests) \in SUBSET Streams
          /\ Tail(requests) \in Seq(SUBSET Streams)
      BY <1>a, <2>1 DEF QueueTypes
    <3> QED
      BY <1>4, <2>1, <3>1
  <2>2. CASE streaming # <<>> /\ TakeRequest(Head(streaming), Tail(streaming))
    <3>1. /\ Head(streaming) \in SUBSET Streams
          /\ Tail(streaming) \in Seq(SUBSET Streams)
      BY <1>a, <2>2 DEF QueueTypes
    <3> QED
      BY <1>4, <2>2, <3>1
  <2> QED
    BY <1>5, <2>1, <2>2 DEF GetRequest
<1>6. CASE GetNothing
  <2>1. MonitorTypes'
    BY <1>a, <1>6, ReportTypes DEF GetNothing, MonitorTypes
  <2> QED
    BY <1>a, <1>6, <2>1
       DEF GetNothing, ClientTypes, BufferTypes, DeviceTypes, QueueTypes,
           HandlerTypes, SubjectTypes, HandlerPcs
<1>7. CASE Submit
  <2>1. MonitorTypes'
    BY <1>a, <1>7, ReportTypes DEF Submit, MonitorTypes, HandlerTypes
  <2>2. BufferTypes'
    BY <1>a, <1>7, DeviceAssumption DEF Submit, Available, BufferTypes
  <2> QED
    BY <1>a, <1>7, <2>1, <2>2
       DEF Submit, ClientTypes, DeviceTypes, QueueTypes, HandlerTypes,
           SubjectTypes, HandlerPcs
<1>8. CASE Submitted
  BY <1>a, <1>8
     DEF Submitted, ClientTypes, MonitorTypes, BufferTypes, DeviceTypes,
         QueueTypes, HandlerTypes, SubjectTypes, HandlerPcs
<1>9. CASE GetBufferFails
  <2>1. PICK got \in SUBSET current :
          /\ \A s \in got : Available(s)
          /\ pending' = [s \in Streams |->
                            pending[s] + IF s \in got THEN 1 ELSE 0]
          /\ Report(active \cup (got \cap monitored))
    BY <1>9 DEF GetBufferFails
  <2>2. MonitorTypes'
    BY <1>a, <2>1, ReportTypes DEF MonitorTypes, HandlerTypes
  <2>3. BufferTypes'
    BY <1>a, <1>9, <2>1, DeviceAssumption
       DEF GetBufferFails, Available, BufferTypes
  <2> QED
    BY <1>a, <1>9, <2>2, <2>3
       DEF GetBufferFails, ClientTypes, DeviceTypes, QueueTypes, HandlerTypes,
           SubjectTypes, HandlerPcs
<1>10. CASE SubmitFails
  <2>1. state' \in States /\ seen' \subseteq Clients
    BY <1>a, <1>10, UpdateTypes DEF SubmitFails, States, ClientTypes
  <2>2. togglePause' \in BOOLEAN
    BY <1>10 DEF SubmitFails, PauseOnError
  <2> QED
    BY <1>a, <1>10, <2>1, <2>2
       DEF SubmitFails, ClientTypes, MonitorTypes, BufferTypes, DeviceTypes,
           QueueTypes, HandlerTypes, SubjectTypes, HandlerPcs
<1>11. CASE SetErrorState
  <2>1. state' \in States /\ seen' \subseteq Clients
    BY <1>a, <1>11, UpdateTypes DEF SetErrorState, States, ClientTypes
  <2> QED
    BY <1>a, <1>11, <2>1
       DEF SetErrorState, ClientTypes, MonitorTypes, BufferTypes, DeviceTypes,
           QueueTypes, HandlerTypes, SubjectTypes
<1>12. ASSUME NEW s \in Streams, ReturnStreamBuffer(s) PROVE Types'
  <2>1. MonitorTypes'
    BY <1>a, <1>12, ReportTypes DEF ReturnStreamBuffer, MonitorTypes
  <2>2. BufferTypes'
    <3>1. /\ out[s] \in Nat /\ pending[s] \in Nat
          /\ 0 < out[s] /\ out[s] <= pending[s] /\ pending[s] <= Buffers
      BY <1>a, <1>12 DEF ReturnStreamBuffer, BufferTypes
    <3>2. /\ out[s] - 1 \in Nat /\ pending[s] - 1 \in Nat
          /\ out[s] - 1 <= pending[s] - 1 /\ pending[s] - 1 <= Buffers
      BY <3>1, DeviceAssumption
    <3>3. /\ out' = [out EXCEPT ![s] = out[s] - 1]
          /\ pending' = [pending EXCEPT ![s] = pending[s] - 1]
      BY <1>12 DEF ReturnStreamBuffer
    <3> QED
      BY <1>a, <3>2, <3>3 DEF BufferTypes
  <2> QED
    BY <1>a, <1>12, <2>1, <2>2
       DEF ReturnStreamBuffer, ClientTypes, DeviceTypes, QueueTypes,
           HandlerTypes, SubjectTypes
<1>13. ASSUME NEW s \in Streams, ReturnRefused(s) PROVE Types'
  <2>1. BufferTypes'
    BY <1>a, <1>13 DEF ReturnRefused, BufferTypes
  <2> QED
    BY <1>a, <1>13, <2>1
       DEF ReturnRefused, ClientTypes, MonitorTypes, DeviceTypes, QueueTypes,
           HandlerTypes, SubjectTypes
<1> QED
  BY <1>1, <1>2, <1>3, <1>5, <1>6, <1>7, <1>8, <1>9, <1>10, <1>11, <1>12,
     <1>13 DEF HandlerStep

(* The pieces that the client's calls are made of.                         *)
LEMMA ConfigureTypes ==
  ASSUME DeviceTypes, MonitorTypes, NEW all \in SUBSET Streams,
         HalConfigures(all) \/ HalRefuses(all) \/ NotIdle(all),
         streams' = all, pauseNotify' \in BOOLEAN
  PROVE  DeviceTypes' /\ MonitorTypes'
<1>1. CASE HalConfigures(all)
  <2>1. MonitorTypes'
    BY <1>1, ReportTypes DEF HalConfigures, MonitorTypes
  <2> QED
    BY <1>1, <2>1 DEF HalConfigures, DeviceTypes
<1>2. CASE HalRefuses(all)
  <2>1. MonitorTypes'
    BY <1>2, ReportTypes DEF HalRefuses, MonitorTypes
  <2> QED
    BY <1>2, <2>1 DEF HalRefuses, DeviceTypes
<1>3. CASE NotIdle(all)
  BY <1>3 DEF NotIdle, DeviceTypes, MonitorTypes, monitor
<1> QED
  BY <1>1, <1>2, <1>3

LEMMA ResumeTypes ==
  ASSUME ClientTypes, NEW c \in Clients, NEW s \in States, InternalResume(c, s)
  PROVE  /\ ClientTypes' /\ state' = s
         /\ togglePause' = FALSE /\ pauseNotify' = pauseNotify
<1>1. CASE Go(c, "out", s)
  BY <1>1, GoTypes DEF Labels, InternalResume
<1>2. CASE Go(c, "resume", s)
  BY <1>2, GoTypes DEF Labels, Waits, WaitsForRunning, InternalResume
<1> QED
  BY <1>1, <1>2 DEF InternalResume

LEMMA ReconfigureTypes ==
  ASSUME ClientTypes, DeviceTypes, MonitorTypes, togglePause \in BOOLEAN,
         NEW c \in Clients, NEW all \in SUBSET Streams, streams' = all,
         ReconfigureAndResume(c, all)
  PROVE  ClientTypes' /\ DeviceTypes' /\ MonitorTypes' /\ togglePause' \in BOOLEAN
<1>1. CASE HalConfigures(all) /\ InternalResume(c, "CONFIGURED")
  <2>1. ClientTypes' /\ togglePause' \in BOOLEAN /\ pauseNotify' = pauseNotify
    BY <1>1, ResumeTypes DEF States
  <2> QED
    BY <1>1, <2>1, ConfigureTypes DEF DeviceTypes
<1>2. CASE /\ HalRefuses(all) /\ Go(c, "out", "NOT_CONFIGURED")
           /\ UNCHANGED <<togglePause, pauseNotify>>
  <2>1. ClientTypes'
    BY <1>2, GoTypes DEF States, Labels
  <2> QED
    BY <1>2, <2>1, ConfigureTypes DEF DeviceTypes
<1>3. CASE /\ NotIdle(all) /\ Go(c, "out", state)
           /\ UNCHANGED <<togglePause, pauseNotify>>
  <2>1. ClientTypes'
    BY <1>3, GoTypes DEF ClientTypes, Labels
  <2> QED
    BY <1>3, <2>1, ConfigureTypes DEF DeviceTypes
<1> QED
  BY <1>1, <1>2, <1>3 DEF ReconfigureAndResume

LEMMA QueueingTypes ==
  ASSUME QueueTypes, NEW list \in Lists, NEW repeating \in BOOLEAN,
         Queue(list, repeating)
  PROVE  QueueTypes'
<1>1. list \in Seq(SUBSET Streams)
  BY ListTypes
<1>2. requests \o list \in Seq(SUBSET Streams)
  BY <1>1 DEF QueueTypes
<1> QED
  BY <1>1, <1>2 DEF Queue, QueueTypes

LEMMA ResumeHandlerTypes ==
  ASSUME MonitorTypes, paused \in BOOLEAN, togglePause \in BOOLEAN,
         NEW holders \in SUBSET (Streams \cup {"handler"}),
         ResumeHandler(holders)
  PROVE  MonitorTypes' /\ paused' \in BOOLEAN
<1>1. MonitorTypes'
  BY ReportTypes DEF ResumeHandler
<1> QED
  BY <1>1 DEF ResumeHandler

LEMMA CallsKeepTypes ==
  ASSUME TypeOK, NEW c \in Clients, Call(c)
  PROVE  TypeOK'
<1> USE DEF device, queues, pause, buffers, monitor, clients, callUntouched
<1>a. Types
  BY TypesTogether
<1>b. SUFFICES Types'
  BY TypesTogether
<1>c. {"out", "submit", "drain", "createPause", "deletePause", "flush"}
        \subseteq Labels
  BY DEF Labels, Waits, WaitsForIdle, WaitsForRunning
<1>1. CASE CreateStream(c)
  BY <1>a, <1>1
     DEF CreateStream, ClientTypes, MonitorTypes, BufferTypes, DeviceTypes,
         QueueTypes, HandlerTypes, SubjectTypes, Types
<1>2. CASE CreatePauses(c) \/ DeletePauses(c)
  <2>1. PICK label \in {"createPause", "deletePause"} :
          InternalPauseAndWait(c, label)
    BY <1>2 DEF CreatePauses, DeletePauses
  <2>2. ClientTypes' /\ togglePause' \in BOOLEAN /\ pauseNotify' \in BOOLEAN
    BY <1>a, <1>c, <2>1, GoTypes DEF InternalPauseAndWait, ClientTypes, Types
  <2>3. \E s \in Streams : subject' = [subject EXCEPT ![c] = s]
    BY <1>2 DEF CreatePauses, DeletePauses
  <2>4. SubjectTypes'
    BY <1>a, <2>1, <2>3 DEF InternalPauseAndWait, Go, ClientTypes, SubjectTypes, Types
  <2> QED
    BY <1>a, <1>2, <2>2, <2>4
       DEF CreatePauses, DeletePauses, MonitorTypes, BufferTypes, DeviceTypes,
           QueueTypes, HandlerTypes, Types
<1>3. CASE DeleteCached(c)
  BY <1>a, <1>3
     DEF DeleteCached, ClientTypes, MonitorTypes, BufferTypes, DeviceTypes,
         QueueTypes, HandlerTypes, SubjectTypes, Types
<1>4. CASE ConfigureStreams(c) \/ SubmitRefused(c)
  <2>1. ClientTypes'
    BY <1>a, <1>c, <1>4, GoTypes DEF ConfigureStreams, SubmitRefused, States, Types
  <2>2. DeviceTypes' /\ MonitorTypes'
    BY <1>a, <1>4, ConfigureTypes
       DEF ConfigureStreams, SubmitRefused, DeviceTypes, Types
  <2>3. SubjectTypes'
    BY <1>a, <1>c, <1>4, MovingSubjects DEF ConfigureStreams, SubmitRefused, Go, Types
  <2> QED
    BY <1>a, <1>4, <2>1, <2>2, <2>3
       DEF ConfigureStreams, SubmitRefused, BufferTypes, QueueTypes,
           HandlerTypes, Types
<1>5. CASE WaitUntilIdle(c)
  <2>1. ClientTypes'
    BY <1>a, <1>c, <1>5, GoTypes DEF WaitUntilIdle, ClientTypes, Types
  <2>2. SubjectTypes'
    BY <1>a, <1>c, <1>5, MovingSubjects DEF WaitUntilIdle, Go, Types
  <2> QED
    BY <1>a, <1>5, <2>1, <2>2
       DEF WaitUntilIdle, MonitorTypes, BufferTypes, DeviceTypes, QueueTypes,
           HandlerTypes, Types
<1>6. CASE CancelRequest(c)
  BY <1>a, <1>6
     DEF CancelRequest, ClientTypes, MonitorTypes, BufferTypes, DeviceTypes,
         QueueTypes, HandlerTypes, SubjectTypes, Types
<1>7. CASE Flush(c)
  <2>1. QueueTypes'
    <3>1. Len(requests) \in Nat
      BY <1>a DEF QueueTypes, Types
    <3>2. frame' \in 0 .. Batch - 1
      BY <1>a, <1>7, <3>1, FrameInBatch DEF Flush, Types
    <3> QED
      BY <1>7, <3>2 DEF Flush, QueueTypes
  <2>2. ClientTypes'
    BY <1>a, <1>c, <1>7 DEF Flush, ClientTypes, Types
  <2>3. SubjectTypes'
    BY <1>a, <1>c, <1>7, MovingSubjects DEF Flush, Types
  <2> QED
    BY <1>a, <1>7, <2>1, <2>2, <2>3
       DEF Flush, MonitorTypes, BufferTypes, DeviceTypes, HandlerTypes, Types
<1>8. ASSUME NEW list \in Lists, NEW repeating \in BOOLEAN,
             SubmitRequestList(c, list, repeating)
      PROVE  Types'
  <2>1. QueueTypes'
    BY <1>a, <1>8, QueueingTypes DEF SubmitRequestList, Accepts, Types
  <2>2. MonitorTypes' /\ paused' \in BOOLEAN
    BY <1>a, <1>8, ResumeHandlerTypes
       DEF SubmitRequestList, MonitorTypes, HandlerTypes, Types
  <2>3. ClientTypes'
    BY <1>a, <1>c, <1>8, GoTypes DEF SubmitRequestList, ClientTypes, Types
  <2>4. SubjectTypes'
    BY <1>a, <1>c, <1>8, MovingSubjects DEF SubmitRequestList, Accepts, Go, Types
  <2> QED
    BY <1>a, <1>8, <2>1, <2>2, <2>3, <2>4
       DEF SubmitRequestList, Accepts, BufferTypes, DeviceTypes, HandlerTypes,
           Types
<1>9. ASSUME NEW list \in Lists, NEW repeating \in BOOLEAN,
             ConfigureAndSubmit(c, list, repeating)
      PROVE  Types'
  <2>1. QueueTypes'
    BY <1>a, <1>9, QueueingTypes DEF ConfigureAndSubmit, Accepts, Types
  <2>2. MonitorTypes' /\ paused' \in BOOLEAN
    BY <1>a, <1>9, ResumeHandlerTypes
       DEF ConfigureAndSubmit, MonitorTypes, HandlerTypes, Types
  <2>3. ClientTypes'
    BY <1>a, <1>c, <1>9, GoTypes DEF ConfigureAndSubmit, States, Types
  <2>4. SubjectTypes'
    BY <1>a, <1>c, <1>9, MovingSubjects DEF ConfigureAndSubmit, Accepts, Go, Types
  <2> QED
    BY <1>a, <1>9, <2>1, <2>2, <2>3, <2>4
       DEF ConfigureAndSubmit, Accepts, BufferTypes, DeviceTypes, HandlerTypes,
           Types
<1> QED
  BY <1>1, <1>2, <1>3, <1>4, <1>5, <1>6, <1>7, <1>8, <1>9 DEF Call

LEMMA ProceedKeepsTypes ==
  ASSUME TypeOK, NEW c \in Clients, Proceed(c) \/ TimesOut(c)
  PROVE  TypeOK'
<1> USE DEF device, queues, pause, buffers, monitor, clients, callUntouched
<1>a. Types
  BY TypesTogether
<1>b. SUFFICES Types'
  BY TypesTogether
<1>c. "out" \in Labels /\ "resume" \in Labels
  BY DEF Labels, Waits, WaitsForRunning
<1>1. CASE CreateResumes(c)
  <2>1. streams' \in SUBSET Streams
    BY <1>a, <1>1 DEF CreateResumes, Resumes, SubjectTypes, DeviceTypes, Types
  <2>2. ClientTypes' /\ DeviceTypes' /\ MonitorTypes' /\ togglePause' \in BOOLEAN
    BY <1>a, <1>1, <2>1, ReconfigureTypes DEF CreateResumes, HandlerTypes, Types
  <2>3. \E label \in {"out", "resume"} : pc' = [pc EXCEPT ![c] = label]
    BY <1>1 DEF CreateResumes, ReconfigureAndResume, InternalResume, Go
  <2>4. SubjectTypes'
    BY <1>a, <1>c, <1>1, <2>3, MovingSubjects DEF CreateResumes, Types
  <2> QED
    BY <1>a, <1>1, <2>2, <2>4
       DEF CreateResumes, BufferTypes, QueueTypes, HandlerTypes, Types
<1>2. CASE DeleteResumes(c)
  <2>1. streams' \in SUBSET Streams /\ streams' = streams \ {subject[c]}
    BY <1>a, <1>2 DEF DeleteResumes, DeviceTypes, Types
  <2> DEFINE Moved ==
           /\ ClientTypes' /\ DeviceTypes' /\ MonitorTypes'
           /\ togglePause' \in BOOLEAN
           /\ \E label \in {"out", "resume"} : pc' = [pc EXCEPT ![c] = label]
  <2>2. ASSUME ReconfigureAndResume(c, streams') PROVE Moved
    <3>1. ClientTypes' /\ DeviceTypes' /\ MonitorTypes' /\ togglePause' \in BOOLEAN
      BY <1>a, <2>1, <2>2, ReconfigureTypes DEF HandlerTypes, Types
    <3>2. \E label \in {"out", "resume"} : pc' = [pc EXCEPT ![c] = label]
      BY <2>2 DEF ReconfigureAndResume, InternalResume, Go
    <3> QED
      BY <3>1, <3>2
  <2>3. ASSUME InternalResume(c, state), configured' = {}, monitored' = {},
               UNCHANGED <<reconfig, deleted, monitor>>
        PROVE  Moved
    <3>1. ClientTypes' /\ togglePause' \in BOOLEAN /\ pauseNotify' = pauseNotify
      BY <1>a, <2>3, ResumeTypes DEF ClientTypes, Types
    <3>2. DeviceTypes' /\ MonitorTypes'
      BY <1>a, <2>1, <2>3, <3>1 DEF DeviceTypes, MonitorTypes, Types
    <3>3. \E label \in {"out", "resume"} : pc' = [pc EXCEPT ![c] = label]
      BY <2>3 DEF InternalResume, Go
    <3> QED
      BY <3>1, <3>2, <3>3
  <2>4. Moved
    BY <1>2, <2>2, <2>3 DEF DeleteResumes
  <2>5. SubjectTypes'
    BY <1>a, <1>c, <1>2, <2>4, MovingSubjects DEF DeleteResumes, Types
  <2> QED
    BY <1>a, <1>2, <2>4, <2>5
       DEF DeleteResumes, BufferTypes, QueueTypes, HandlerTypes, Types
<1>3. CASE CreateGivesUp(c) \/ DeleteGivesUp(c)
  <2>1. ClientTypes'
    BY <1>a, <1>c, <1>3, GoTypes
       DEF CreateGivesUp, DeleteGivesUp, ClientTypes, Types
  <2>2. SubjectTypes'
    BY <1>a, <1>c, <1>3, MovingSubjects DEF CreateGivesUp, DeleteGivesUp, Go, Types
  <2> QED
    BY <1>a, <1>3, <2>1, <2>2
       DEF CreateGivesUp, DeleteGivesUp, MonitorTypes, BufferTypes,
           DeviceTypes, QueueTypes, HandlerTypes, Types
<1>4. CASE FlushReturns(c)
  <2>1. ClientTypes'
    BY <1>a, <1>c, <1>4 DEF FlushReturns, ClientTypes, Types
  <2>2. SubjectTypes'
    BY <1>a, <1>c, <1>4, MovingSubjects DEF FlushReturns, Types
  <2> QED
    BY <1>a, <1>4, <2>1, <2>2
       DEF FlushReturns, MonitorTypes, BufferTypes, DeviceTypes, QueueTypes,
           HandlerTypes, Types
<1>5. CASE WaitUntilIdleReturns(c) \/ SubmitReturns(c) \/ ResumeReturns(c)
  <2>1. ClientTypes'
    BY <1>a, <1>c, <1>5, GoTypes
       DEF WaitUntilIdleReturns, SubmitReturns, ResumeReturns, ClientTypes, Types
  <2>2. SubjectTypes'
    BY <1>a, <1>c, <1>5, MovingSubjects
       DEF WaitUntilIdleReturns, SubmitReturns, ResumeReturns, Go, Types
  <2> QED
    BY <1>a, <1>5, <2>1, <2>2
       DEF WaitUntilIdleReturns, SubmitReturns, ResumeReturns, MonitorTypes,
           BufferTypes, DeviceTypes, QueueTypes, HandlerTypes, Types
<1>6. CASE TimesOut(c)
  <2>1. /\ ClientTypes' /\ togglePause' \in BOOLEAN
        /\ pc' = [pc EXCEPT ![c] = "out"]
    <3>1. CASE pc[c] = "submit"
      <4>1. Go(c, "out", state) /\ togglePause' = togglePause
        BY <1>6, <3>1 DEF TimesOut
      <4>2. state \in States
        BY <1>a DEF ClientTypes, Types
      <4>3. ClientTypes'
        BY <1>a, <1>c, <4>1, <4>2, GoTypes DEF Types
      <4> QED
        BY <1>a, <4>1, <4>3 DEF Go, HandlerTypes, Types
    <3>2. CASE pc[c] # "submit"
      BY <1>a, <1>c, <1>6, <3>2, GoTypes
         DEF TimesOut, Go, PauseOnError, States, HandlerTypes, Types
    <3> QED
      BY <3>1, <3>2
  <2>2. SubjectTypes'
    BY <1>a, <1>c, <1>6, <2>1, MovingSubjects DEF TimesOut, Types
  <2>3. pauseNotify' \in BOOLEAN
    BY <1>6 DEF TimesOut
  <2>4. MonitorTypes' /\ BufferTypes' /\ QueueTypes'
    BY <1>a, <1>6 DEF TimesOut, MonitorTypes, BufferTypes, QueueTypes, Types
  <2>5. DeviceTypes'
    BY <1>a, <1>6, <2>3 DEF TimesOut, DeviceTypes, Types
  <2>6. HandlerTypes'
    BY <1>a, <1>6, <2>1 DEF TimesOut, HandlerTypes, Types
  <2> QED
    BY <2>1, <2>2, <2>4, <2>5, <2>6 DEF Types
<1> QED
  BY <1>1, <1>2, <1>3, <1>4, <1>5, <1>6 DEF Proceed

(* Types, and that no stream has more buffers pending than it owns, for    *)
(* any clients, requests and faults.                                       *)
THEOREM TypeCorrect == Spec => []TypeOK
<1>1. TypeOK /\ UNCHANGED vars => TypeOK'
  <2> SUFFICES ASSUME Types, UNCHANGED vars PROVE Types'
    BY TypesTogether
  <2> QED
    BY DEF vars, device, queues, pause, buffers, monitor, clients, Types,
           ClientTypes, MonitorTypes, BufferTypes, DeviceTypes, QueueTypes,
           HandlerTypes, SubjectTypes
<1>2. TypeOK /\ [Next]_vars => TypeOK'
  BY <1>1, ThreadsKeepTypes, CallsKeepTypes, ProceedKeepsTypes DEF Next
<1> QED
  BY <1>2, InitTypes, PTL DEF Spec

(* What a configuration of the streams, whatever its outcome, does to the  *)
(* handler's place among the monitor's holders: nothing.                   *)
LEMMA ConfigurationKeepsHandler ==
  ASSUME DeviceTypes, NEW all \in SUBSET Streams,
         HalConfigures(all) \/ HalRefuses(all) \/ NotIdle(all)
  PROVE  "handler" \in active' <=> "handler" \in active
BY DeviceAssumption
   DEF HalConfigures, HalRefuses, NotIdle, Report, DeviceTypes, monitor

LEMMA ClientsReport ==
  ASSUME TypeOK, NEW c \in Clients, Call(c) \/ Proceed(c) \/ TimesOut(c)
  PROVE  /\ hpc' = hpc
         /\ \/ paused' = paused /\ ("handler" \in active' <=> "handler" \in active)
            \/ paused' = FALSE /\ "handler" \in active'
<1> USE DEF device, queues, pause, buffers, monitor, clients, callUntouched
<1>a. DeviceTypes /\ SubjectTypes /\ paused \in BOOLEAN /\ togglePause \in BOOLEAN
  BY TypesTogether DEF Types, HandlerTypes
<1>1. CASE \/ CreateStream(c) \/ CreatePauses(c) \/ DeletePauses(c)
           \/ DeleteCached(c) \/ CancelRequest(c) \/ Flush(c)
           \/ WaitUntilIdle(c) \/ CreateGivesUp(c) \/ DeleteGivesUp(c)
           \/ FlushReturns(c) \/ WaitUntilIdleReturns(c) \/ SubmitReturns(c)
           \/ ResumeReturns(c) \/ TimesOut(c)
  BY <1>1
     DEF CreateStream, CreatePauses, DeletePauses, DeleteCached, CancelRequest,
         Flush, WaitUntilIdle, CreateGivesUp, DeleteGivesUp, FlushReturns,
         WaitUntilIdleReturns, SubmitReturns, ResumeReturns, TimesOut
<1>2. CASE ConfigureStreams(c) \/ SubmitRefused(c)
  BY <1>a, <1>2, ConfigurationKeepsHandler
     DEF ConfigureStreams, SubmitRefused, DeviceTypes
<1>3. CASE CreateResumes(c)
  <2>1. streams' \in SUBSET Streams
    BY <1>a, <1>3 DEF CreateResumes, Resumes, SubjectTypes, DeviceTypes
  <2> QED
    BY <1>a, <1>3, <2>1, ConfigurationKeepsHandler
       DEF CreateResumes, ReconfigureAndResume
<1>4. CASE DeleteResumes(c)
  <2>1. streams' \in SUBSET Streams
    BY <1>a, <1>4 DEF DeleteResumes, DeviceTypes
  <2> QED
    BY <1>a, <1>4, <2>1, ConfigurationKeepsHandler
       DEF DeleteResumes, ReconfigureAndResume
<1>5. CASE \E list \in Lists, repeating \in BOOLEAN :
             \/ SubmitRequestList(c, list, repeating)
             \/ ConfigureAndSubmit(c, list, repeating)
  <2>1. PICK holders :
          /\ ResumeHandler(holders) /\ hpc' = hpc
          /\ "handler" \in holders <=> "handler" \in active
    <3>1. CASE \E list \in Lists, repeating \in BOOLEAN :
                 SubmitRequestList(c, list, repeating)
      BY <3>1 DEF SubmitRequestList, Accepts
    <3>2. CASE \E list \in Lists, repeating \in BOOLEAN :
                 ConfigureAndSubmit(c, list, repeating)
      <4>1. ResumeHandler(active \ (streams \cup deleted)) /\ hpc' = hpc
        BY <3>2 DEF ConfigureAndSubmit, Accepts
      <4>2. "handler" \notin streams \cup deleted
        BY <1>a, DeviceAssumption DEF DeviceTypes
      <4> QED
        BY <4>1, <4>2
    <3> QED
      BY <1>5, <3>1, <3>2
  <2>2. CASE togglePause
    BY <1>a, <2>1, <2>2 DEF ResumeHandler, Report
  <2>3. CASE ~togglePause
    BY <2>1, <2>3 DEF ResumeHandler, Report
  <2> QED
    BY <1>a, <2>2, <2>3
<1> QED
  BY <1>1, <1>2, <1>3, <1>4, <1>5 DEF Call, Proceed

(* The monitor knows whenever a request is on its way, and paused_state_   *)
(* is always what the handler told it, though two threads change it.       *)
THEOREM WorkAlwaysReported == Spec => []WorkIsReported
<1> USE DEF device, queues, pause, buffers, monitor, clients, handlerUntouched,
            callUntouched
<1>1. Init => WorkIsReported
  BY DEF Init, WorkIsReported, Busy
<1>2. TypeOK /\ WorkIsReported /\ [Next]_vars => WorkIsReported'
  <2> SUFFICES ASSUME TypeOK, WorkIsReported, [Next]_vars
               PROVE  WorkIsReported'
    OBVIOUS
  <2>a. DeviceTypes /\ paused \in BOOLEAN /\ "handler" \notin Streams
    BY TypesTogether, DeviceAssumption DEF Types, HandlerTypes
  <2>1. CASE NotifyStatus \/ SetErrorState \/ UNCHANGED vars
    BY <2>1 DEF NotifyStatus, SetErrorState, vars, WorkIsReported, Busy
  <2>2. CASE WaitOnPause \/ PassPause \/ GetNothing \/ Submitted \/ SubmitFails
    BY <2>2
       DEF WaitOnPause, PassPause, GetNothing, Submitted, SubmitFails, Report,
           WorkIsReported, Busy
  <2>3. CASE GetRequest
    BY <2>a, <2>3 DEF GetRequest, TakeRequest, Report, WorkIsReported, Busy
  <2>4. CASE Submit \/ GetBufferFails
    BY <2>a, <2>4
       DEF Submit, GetBufferFails, Report, WorkIsReported, Busy, DeviceTypes
  <2>5. CASE \E s \in Streams : ReturnStreamBuffer(s) \/ ReturnRefused(s)
    BY <2>a, <2>5
       DEF ReturnStreamBuffer, ReturnRefused, Report, WorkIsReported, Busy
  <2>6. CASE \E c \in Clients : Call(c) \/ Proceed(c) \/ TimesOut(c)
    BY <2>6, ClientsReport DEF WorkIsReported, Busy
  <2> QED
    BY <2>1, <2>2, <2>3, <2>4, <2>5, <2>6 DEF Next, HandlerStep
<1> QED
  BY <1>1, <1>2, TypeCorrect, PTL DEF Spec

(* If the HAL refuses no configuration, STATE_NOT_CONFIGURED is never      *)
(* entered again: nothing was ever submitted and the monitor is silent.    *)
Untouched ==
  "configure" \notin Faults /\ state = "NOT_CONFIGURED" =>
    /\ requests = <<>> /\ streaming = <<>>
    /\ hpc \in {"pause", "get"} /\ paused = TRUE
    /\ active = {} /\ backlog = 0 /\ told = "IDLE"

ToldInv == Untouched /\ StateIsTold

(* A step of a client moves state_ only where its name says, and callbacks *)
(* are left to NotifyStatus.                                               *)
LEMMA ClientsAndState ==
  ASSUME NEW c \in Clients, Call(c) \/ Proceed(c) \/ TimesOut(c)
  PROVE  /\ told' = told
         /\ \/ state' = "ERROR"
            \/ state' = state /\ state # "NOT_CONFIGURED"
            \/ CanConfigure /\ state' = "CONFIGURED"
            \/ "configure" \in Faults /\ CanConfigure /\ state' = "NOT_CONFIGURED"
            \/ /\ state = "NOT_CONFIGURED" /\ state' = "NOT_CONFIGURED"
               /\ UNCHANGED <<hpc, paused, monitor>>
               /\ requests' \in {requests, <<>>}
               /\ streaming' \in {streaming, <<>>}
<1> USE DEF device, queues, pause, buffers, monitor, clients, callUntouched
<1>1. CASE \/ CreateStream(c) \/ CreatePauses(c) \/ DeletePauses(c)
           \/ DeleteCached(c) \/ CancelRequest(c) \/ Flush(c)
           \/ WaitUntilIdle(c) \/ CreateGivesUp(c) \/ DeleteGivesUp(c)
           \/ FlushReturns(c) \/ WaitUntilIdleReturns(c) \/ SubmitReturns(c)
           \/ ResumeReturns(c) \/ TimesOut(c)
  BY <1>1
     DEF CreateStream, CreatePauses, DeletePauses, InternalPauseAndWait,
         DeleteCached, CancelRequest, Flush, WaitUntilIdle, CreateGivesUp,
         DeleteGivesUp, FlushReturns, WaitUntilIdleReturns, SubmitReturns,
         ResumeReturns, TimesOut, Go
<1>2. CASE ConfigureStreams(c) \/ SubmitRefused(c)
  BY <1>2
     DEF ConfigureStreams, SubmitRefused, HalConfigures, HalRefuses, Report, Go
<1>3. CASE CreateResumes(c) \/ DeleteResumes(c)
  <2>1. \/ InternalResume(c, state) /\ UNCHANGED monitor
        \/ \E all : ReconfigureAndResume(c, all)
    BY <1>3 DEF CreateResumes, DeleteResumes
  <2>2. UNCHANGED <<requests, streaming, hpc, paused>>
    BY <1>3 DEF CreateResumes, DeleteResumes
  <2> QED
    BY <2>1, <2>2
       DEF ReconfigureAndResume, InternalResume, HalConfigures, HalRefuses,
           NotIdle, CanConfigure, Report, Go
<1>4. CASE \E list \in Lists, repeating \in BOOLEAN :
             \/ SubmitRequestList(c, list, repeating)
             \/ ConfigureAndSubmit(c, list, repeating)
  BY <1>4
     DEF SubmitRequestList, ConfigureAndSubmit, ResumeHandler, Report, Go
<1> QED
  BY <1>1, <1>2, <1>3, <1>4 DEF Call, Proceed

(* STATE_RUNNING always means that the monitor said ACTIVE, and            *)
(* STATE_CONFIGURED, as long as no configuration fails, that it said IDLE. *)
THEOREM StateAlwaysTold == Spec => []StateIsTold
<1> USE DEF device, queues, pause, buffers, monitor, clients, handlerUntouched,
            callUntouched
<1>1. Init => ToldInv
  BY DEF Init, ToldInv, Untouched, StateIsTold
<1>2. TypeOK /\ ToldInv /\ [Next]_vars => ToldInv'
  <2> SUFFICES ASSUME TypeOK, ToldInv, [Next]_vars PROVE ToldInv'
    OBVIOUS
  <2> USE DEF ToldInv, Untouched, StateIsTold
  <2>a. told \in {"IDLE", "ACTIVE"} /\ backlog \in Nat
    BY DEF TypeOK
  <2>1. CASE NotifyStatus
    BY <2>a, <2>1 DEF NotifyStatus, Update
  <2>2. CASE SetErrorState \/ SubmitFails
    BY <2>2 DEF SetErrorState, SubmitFails, Update
  <2>3. CASE UNCHANGED vars
    BY <2>3 DEF vars
  <2>4. CASE WaitOnPause \/ PassPause \/ GetNothing
    BY <2>4 DEF WaitOnPause, PassPause, GetNothing, Report
  <2>5. CASE GetRequest
    BY <2>5 DEF GetRequest, TakeRequest, Report
  <2>6. CASE Submit \/ Submitted \/ GetBufferFails
    BY <2>6 DEF Submit, Submitted, GetBufferFails, Report
  <2>7. CASE \E s \in Streams : ReturnStreamBuffer(s) \/ ReturnRefused(s)
    BY <2>7 DEF ReturnStreamBuffer, ReturnRefused, Report
  <2>8. CASE \E c \in Clients : Call(c) \/ Proceed(c) \/ TimesOut(c)
    BY <2>8, ClientsAndState DEF CanConfigure
  <2> QED
    BY <2>1, <2>2, <2>3, <2>4, <2>5, <2>6, <2>7, <2>8 DEF Next, HandlerStep
<1>3. ToldInv => StateIsTold
  BY DEF ToldInv
<1> QED
  BY <1>1, <1>2, <1>3, TypeCorrect, PTL DEF Spec

(* Which streams a queue uses when it grows or shrinks.                    *)
LEMMA UsesOfRest ==
  ASSUME NEW q \in Seq(SUBSET Streams), q # <<>>, NEW s,
         s \in Head(q) \/ Uses(s, Tail(q))
  PROVE  Uses(s, q)
<1>1. CASE s \in Head(q)
  BY <1>1 DEF Uses
<1>2. CASE Uses(s, Tail(q))
  <2>1. PICK i \in DOMAIN Tail(q) : s \in Tail(q)[i]
    BY <1>2 DEF Uses
  <2>2. i + 1 \in DOMAIN q /\ q[i + 1] = Tail(q)[i]
    BY <2>1
  <2> QED
    BY <2>1, <2>2 DEF Uses
<1> QED
  BY <1>1, <1>2

LEMMA UsesOfJoined ==
  ASSUME NEW q \in Seq(SUBSET Streams), NEW r \in Seq(SUBSET Streams), NEW s,
         Uses(s, q \o r)
  PROVE  Uses(s, q) \/ Uses(s, r)
<1>1. PICK i \in DOMAIN (q \o r) : s \in (q \o r)[i]
  BY DEF Uses
<1>2. CASE i <= Len(q)
  BY <1>1, <1>2 DEF Uses
<1>3. CASE ~(i <= Len(q))
  <2>1. i - Len(q) \in DOMAIN r /\ (q \o r)[i] = r[i - Len(q)]
    BY <1>3
  <2> QED
    BY <1>1, <2>1 DEF Uses
<1> QED
  BY <1>2, <1>3

(* What streams a client's step takes away, and what requests it adds.     *)
LEMMA ClientsAndRequests ==
  ASSUME TypeOK, RequestsUseStreams, NEW c \in Clients,
         Call(c) \/ Proceed(c) \/ TimesOut(c)
  PROVE  RequestsUseStreams'
<1> USE DEF device, queues, pause, buffers, monitor, clients, callUntouched
<1>a. requests \in Seq(SUBSET Streams) /\ streaming \in Seq(SUBSET Streams)
  BY DEF TypeOK
<1>b. ASSUME NEW s PROVE ~Uses(s, <<>>)
  BY DEF Uses
<1>1. CASE \/ CreateStream(c) \/ CreatePauses(c) \/ DeletePauses(c)
           \/ WaitUntilIdle(c) \/ CreateGivesUp(c) \/ DeleteGivesUp(c)
           \/ FlushReturns(c) \/ WaitUntilIdleReturns(c) \/ SubmitReturns(c)
           \/ ResumeReturns(c) \/ TimesOut(c) \/ CreateResumes(c)
           \/ ConfigureStreams(c) \/ SubmitRefused(c)
  <2>1. /\ UNCHANGED <<requests, streaming, current>>
        /\ streams \subseteq streams'
    BY <1>1
       DEF CreateStream, CreatePauses, DeletePauses, WaitUntilIdle,
           CreateGivesUp, DeleteGivesUp, FlushReturns, WaitUntilIdleReturns,
           SubmitReturns, ResumeReturns, TimesOut, CreateResumes,
           ConfigureStreams, SubmitRefused
  <2> QED
    BY <2>1 DEF RequestsUseStreams, Uses
<1>2. CASE DeleteCached(c) \/ DeleteResumes(c)
  <2>1. PICK gone : /\ ~IsStreamActive(gone) /\ streams' = streams \ {gone}
                    /\ UNCHANGED <<requests, streaming, current>>
    BY <1>2 DEF DeleteCached, DeleteResumes
  <2> QED
    BY <2>1 DEF RequestsUseStreams, IsStreamActive, Uses
<1>3. CASE CancelRequest(c) \/ Flush(c)
  <2>1. /\ requests' \in {requests, <<>>} /\ streaming' = <<>>
        /\ UNCHANGED <<current, streams>>
    BY <1>3 DEF CancelRequest, Flush
  <2> QED
    BY <1>b, <2>1 DEF RequestsUseStreams, Uses
<1>4. ASSUME NEW list \in Lists, NEW repeating \in BOOLEAN,
             Accepts(c, list, repeating)
      PROVE  RequestsUseStreams'
  <2>1. list \in Seq(SUBSET Streams)
    BY ListTypes
  <2>2. ASSUME NEW s \in Streams, Uses(s, list) PROVE s \in streams
    BY <1>4, <2>2 DEF Accepts, Uses
  <2>3. ASSUME NEW s \in Streams, Uses(s, requests \o list) PROVE s \in streams
    BY <1>a, <2>1, <2>2, <2>3, UsesOfJoined DEF RequestsUseStreams
  <2>4. UNCHANGED <<current, streams>>
    BY <1>4 DEF Accepts
  <2>5. \/ requests' = requests \o list /\ streaming' = streaming
        \/ requests' = requests /\ streaming' = list
    BY <1>4 DEF Accepts, Queue
  <2> QED
    BY <2>2, <2>3, <2>4, <2>5 DEF RequestsUseStreams, Uses
<1>5. CASE \E list \in Lists, repeating \in BOOLEAN :
             \/ SubmitRequestList(c, list, repeating)
             \/ ConfigureAndSubmit(c, list, repeating)
  BY <1>4, <1>5 DEF SubmitRequestList, ConfigureAndSubmit
<1> QED
  BY <1>1, <1>2, <1>3, <1>5 DEF Call, Proceed

(* No queued or current request ever refers to a stream that was deleted.  *)
THEOREM NoRequestDangles == Spec => []RequestsUseStreams
<1> USE DEF device, queues, pause, buffers, monitor, clients, handlerUntouched,
            callUntouched
<1>1. Init => RequestsUseStreams
  BY DEF Init, RequestsUseStreams, Uses
<1>2. TypeOK /\ RequestsUseStreams /\ [Next]_vars => RequestsUseStreams'
  <2> SUFFICES ASSUME TypeOK, RequestsUseStreams, [Next]_vars
               PROVE  RequestsUseStreams'
    OBVIOUS
  <2>a. requests \in Seq(SUBSET Streams) /\ streaming \in Seq(SUBSET Streams)
    BY DEF TypeOK
  <2>1. CASE \/ NotifyStatus \/ SetErrorState \/ UNCHANGED vars
             \/ WaitOnPause \/ PassPause \/ GetNothing \/ Submit \/ Submitted
             \/ GetBufferFails \/ SubmitFails
             \/ \E s \in Streams : ReturnStreamBuffer(s) \/ ReturnRefused(s)
    <3>1. /\ UNCHANGED <<requests, streaming, streams>>
          /\ current' \in {current, {}}
      BY <2>1
         DEF NotifyStatus, SetErrorState, vars, WaitOnPause, PassPause,
             GetNothing, Submit, Submitted, GetBufferFails, SubmitFails,
             ReturnStreamBuffer, ReturnRefused
    <3> QED
      BY <3>1 DEF RequestsUseStreams, Uses
  <2>2. CASE GetRequest
    <3>1. PICK q \in {requests, streaming} :
            /\ q # <<>> /\ current' = Head(q)
            /\ requests' = Tail(q) /\ streaming' = streaming
            /\ streams' = streams
      BY <2>2 DEF GetRequest, TakeRequest
    <3>2. ASSUME NEW s \in Streams, s \in Head(q) \/ Uses(s, Tail(q))
          PROVE  s \in streams
      BY <2>a, <3>1, <3>2, UsesOfRest DEF RequestsUseStreams
    <3> QED
      BY <3>1, <3>2 DEF RequestsUseStreams, Uses
  <2>3. CASE \E c \in Clients : Call(c) \/ Proceed(c) \/ TimesOut(c)
    BY <2>3, ClientsAndRequests
  <2> QED
    BY <2>1, <2>2, <2>3 DEF Next, HandlerStep
<1> QED
  BY <1>1, <1>2, TypeCorrect, PTL DEF Spec

(* The last stream can only be deleted when nothing is queued: every       *)
(* request uses some stream.                                               *)
NoEmptyRequest ==
  /\ \A i \in DOMAIN requests : requests[i] # {}
  /\ \A i \in DOMAIN streaming : streaming[i] # {}

ErrorInv == NoEmptyRequest /\ StopsOnError

LEMMA NothingToResume ==
  ASSUME TypeOK, RequestsUseStreams, NoEmptyRequest, NEW gone,
         ~IsStreamActive(gone), streams \subseteq {gone}
  PROVE  requests = <<>> /\ streaming = <<>>
<1>1. ASSUME NEW q \in Seq(SUBSET Streams), \A i \in DOMAIN q : q[i] # {},
             \A s \in Streams : Uses(s, q) => s \in streams,
             ~Uses(gone, q)
      PROVE  q = <<>>
  <2>1. SUFFICES ASSUME q # <<>> PROVE FALSE
    OBVIOUS
  <2>2. 1 \in DOMAIN q /\ q[1] \in SUBSET Streams
    BY <2>1
  <2>3. PICK s \in Streams : s \in q[1]
    BY <1>1, <2>2
  <2>4. Uses(s, q)
    BY <2>2, <2>3 DEF Uses
  <2> QED
    BY <1>1, <2>3, <2>4
<1> QED
  BY <1>1 DEF TypeOK, RequestsUseStreams, NoEmptyRequest, IsStreamActive

LEMMA QueuesStayNonempty ==
  ASSUME TypeOK, NoEmptyRequest, [Next]_vars
  PROVE  NoEmptyRequest'
<1> USE DEF device, queues, pause, buffers, monitor, clients, handlerUntouched,
            callUntouched
<1>a. requests \in Seq(SUBSET Streams) /\ streaming \in Seq(SUBSET Streams)
  BY DEF TypeOK
<1>1. CASE UNCHANGED <<requests, streaming>>
  BY <1>1 DEF NoEmptyRequest
<1>2. CASE GetRequest
  <2>1. PICK q \in {requests, streaming} :
          q # <<>> /\ requests' = Tail(q) /\ streaming' = streaming
    BY <1>2 DEF GetRequest, TakeRequest
  <2>2. ASSUME NEW i \in DOMAIN Tail(q) PROVE Tail(q)[i] # {}
    <3>1. i + 1 \in DOMAIN q /\ Tail(q)[i] = q[i + 1]
      BY <1>a, <2>1, <2>2
    <3> QED
      BY <2>1, <3>1 DEF NoEmptyRequest
  <2> QED
    BY <2>1, <2>2 DEF NoEmptyRequest
<1>3. ASSUME NEW c \in Clients, CancelRequest(c) \/ Flush(c)
      PROVE  NoEmptyRequest'
  <2>1. requests' \in {requests, <<>>} /\ streaming' = <<>>
    BY <1>3 DEF CancelRequest, Flush
  <2> QED
    BY <2>1 DEF NoEmptyRequest
<1>4. ASSUME NEW c \in Clients, NEW list \in Lists, NEW repeating \in BOOLEAN,
             Accepts(c, list, repeating)
      PROVE  NoEmptyRequest'
  <2>1. list \in Seq(SUBSET Streams) /\ \A i \in DOMAIN list : list[i] # {}
    BY ListTypes, DeviceAssumption
  <2>2. ASSUME NEW i \in DOMAIN (requests \o list)
        PROVE  (requests \o list)[i] # {}
    <3>1. CASE i <= Len(requests)
      BY <1>a, <2>1, <2>2, <3>1 DEF NoEmptyRequest
    <3>2. CASE ~(i <= Len(requests))
      <4>1. /\ i - Len(requests) \in DOMAIN list
            /\ (requests \o list)[i] = list[i - Len(requests)]
        BY <1>a, <2>1, <2>2, <3>2
      <4> QED
        BY <2>1, <4>1
    <3> QED
      BY <3>1, <3>2
  <2>3. \/ requests' = requests \o list /\ streaming' = streaming
        \/ requests' = requests /\ streaming' = list
    BY <1>4 DEF Accepts, Queue
  <2> QED
    BY <2>1, <2>2, <2>3 DEF NoEmptyRequest
<1>5. CASE NotifyStatus \/ SetErrorState \/ UNCHANGED vars
  BY <1>1, <1>5 DEF NotifyStatus, SetErrorState, vars
<1>6. CASE HandlerStep
  <2>1. GetRequest \/ UNCHANGED <<requests, streaming>>
    BY <1>6
       DEF HandlerStep, WaitOnPause, PassPause, GetNothing, Submit, Submitted,
           GetBufferFails, SubmitFails
  <2> QED
    BY <1>1, <1>2, <2>1
<1>7. CASE \E s \in Streams : ReturnStreamBuffer(s) \/ ReturnRefused(s)
  BY <1>1, <1>7 DEF ReturnStreamBuffer, ReturnRefused
<1>8. ASSUME NEW c \in Clients, Call(c) PROVE NoEmptyRequest'
  <2>1. CASE \/ CreateStream(c) \/ CreatePauses(c) \/ DeletePauses(c)
             \/ DeleteCached(c) \/ ConfigureStreams(c) \/ SubmitRefused(c)
             \/ WaitUntilIdle(c)
    BY <1>1, <2>1
       DEF CreateStream, CreatePauses, DeletePauses, DeleteCached,
           ConfigureStreams, SubmitRefused, WaitUntilIdle
  <2>2. CASE \E list \in Lists, repeating \in BOOLEAN :
               \/ SubmitRequestList(c, list, repeating)
               \/ ConfigureAndSubmit(c, list, repeating)
    BY <1>4, <2>2 DEF SubmitRequestList, ConfigureAndSubmit
  <2> QED
    BY <1>3, <1>8, <2>1, <2>2 DEF Call
<1>9. ASSUME NEW c \in Clients, Proceed(c) \/ TimesOut(c)
      PROVE  UNCHANGED <<requests, streaming>>
  BY <1>9
     DEF Proceed, CreateResumes, CreateGivesUp, DeleteResumes, DeleteGivesUp,
         FlushReturns, WaitUntilIdleReturns, SubmitReturns, ResumeReturns,
         TimesOut
<1> QED
  BY <1>1, <1>5, <1>6, <1>7, <1>8, <1>9 DEF Next

LEMMA ClientsAndErrors ==
  ASSUME TypeOK, RequestsUseStreams, ErrorInv, NEW c \in Clients,
         Call(c) \/ Proceed(c) \/ TimesOut(c)
  PROVE  StopsOnError'
<1> USE DEF device, queues, pause, buffers, monitor, clients, callUntouched
<1>a. StopsOnError /\ NoEmptyRequest
  BY DEF ErrorInv
<1>1. CASE UNCHANGED <<state, togglePause, requests, streaming>>
  BY <1>a, <1>1 DEF StopsOnError
<1>2. CASE \/ CreateStream(c) \/ DeleteCached(c) \/ WaitUntilIdle(c)
           \/ CreateGivesUp(c) \/ DeleteGivesUp(c) \/ FlushReturns(c)
           \/ WaitUntilIdleReturns(c) \/ SubmitReturns(c) \/ ResumeReturns(c)
  BY <1>1, <1>2
     DEF CreateStream, DeleteCached, WaitUntilIdle, CreateGivesUp,
         DeleteGivesUp, FlushReturns, WaitUntilIdleReturns, SubmitReturns,
         ResumeReturns, Go
<1>3. CASE CreatePauses(c) \/ DeletePauses(c)
  BY <1>3 DEF CreatePauses, DeletePauses, InternalPauseAndWait, StopsOnError
<1>4. CASE ConfigureStreams(c) \/ SubmitRefused(c)
  <2>1. state' \in {"CONFIGURED", "NOT_CONFIGURED"}
    BY <1>4 DEF ConfigureStreams, SubmitRefused, Go
  <2> QED
    BY <2>1 DEF StopsOnError
<1>5. CASE CancelRequest(c) \/ Flush(c)
  <2>1. /\ UNCHANGED <<state, togglePause>>
        /\ requests' \in {requests, <<>>} /\ streaming' = <<>>
    BY <1>5 DEF CancelRequest, Flush
  <2> QED
    BY <1>a, <2>1 DEF StopsOnError
<1>6. CASE \E list \in Lists, repeating \in BOOLEAN :
             \/ SubmitRequestList(c, list, repeating)
             \/ ConfigureAndSubmit(c, list, repeating)
  <2>1. state' \in {"CONFIGURED", "RUNNING"}
    BY <1>6 DEF SubmitRequestList, ConfigureAndSubmit, Go
  <2> QED
    BY <2>1 DEF StopsOnError
<1>7. ASSUME NEW all, ReconfigureAndResume(c, all),
             UNCHANGED <<requests, streaming>>
      PROVE  StopsOnError'
  <2>1. \/ state' \in {"CONFIGURED", "NOT_CONFIGURED"}
        \/ UNCHANGED <<state, togglePause>>
    BY <1>7 DEF ReconfigureAndResume, InternalResume, Go
  <2> QED
    BY <1>a, <1>7, <2>1 DEF StopsOnError
<1>8. CASE CreateResumes(c)
  BY <1>7, <1>8 DEF CreateResumes
<1>9. CASE DeleteResumes(c)
  <2>1. UNCHANGED <<requests, streaming>>
    BY <1>9 DEF DeleteResumes
  <2>2. CASE streams' # {}
    BY <1>7, <1>9, <2>1, <2>2 DEF DeleteResumes
  <2>3. CASE streams' = {}
    <3>1. ~IsStreamActive(subject[c]) /\ streams \subseteq {subject[c]}
      BY <1>9, <2>3 DEF DeleteResumes
    <3>2. requests = <<>> /\ streaming = <<>>
      BY <1>a, <3>1, NothingToResume
    <3> QED
      BY <2>1, <3>2 DEF StopsOnError
  <2> QED
    BY <2>2, <2>3
<1>10. CASE TimesOut(c)
  <2>1. /\ UNCHANGED <<requests, streaming>>
        /\ UNCHANGED <<state, togglePause>> \/ PauseOnError
    BY <1>10 DEF TimesOut, Go
  <2> QED
    BY <1>a, <2>1 DEF PauseOnError, StopsOnError
<1> QED
  BY <1>2, <1>3, <1>4, <1>5, <1>6, <1>8, <1>9, <1>10 DEF Call, Proceed

(* Whatever fails and whenever, also during the pause of CreateStream or   *)
(* DeleteStream: a device in error has its handler paused or without work. *)
(* Resuming it in any state when the last stream is deleted is harmless    *)
(* because no request then is left that could use a stream.                *)
THEOREM ErrorStopsTheDevice == Spec => []StopsOnError
<1> USE DEF device, queues, pause, buffers, monitor, clients, handlerUntouched
<1>1. Init => ErrorInv
  BY DEF Init, ErrorInv, NoEmptyRequest, StopsOnError
<1>2. TypeOK /\ RequestsUseStreams /\ ErrorInv /\ [Next]_vars => ErrorInv'
  <2> SUFFICES ASSUME TypeOK, RequestsUseStreams, ErrorInv, [Next]_vars
               PROVE  StopsOnError'
    BY QueuesStayNonempty DEF ErrorInv
  <2>a. StopsOnError
    BY DEF ErrorInv
  <2>1. CASE NotifyStatus
    BY <2>a, <2>1 DEF NotifyStatus, Update, StopsOnError
  <2>2. CASE SubmitFails \/ SetErrorState
    BY <2>a, <2>2 DEF SubmitFails, SetErrorState, PauseOnError, StopsOnError
  <2>3. CASE UNCHANGED vars
    BY <2>a, <2>3 DEF vars, StopsOnError
  <2>4. CASE \/ WaitOnPause \/ PassPause \/ GetNothing \/ Submit \/ Submitted
             \/ GetBufferFails
             \/ \E s \in Streams : ReturnStreamBuffer(s) \/ ReturnRefused(s)
    BY <2>a, <2>4
       DEF WaitOnPause, PassPause, GetNothing, Submit, Submitted,
           GetBufferFails, ReturnStreamBuffer, ReturnRefused, StopsOnError
  <2>5. CASE GetRequest
    <3>1. /\ requests # <<>> \/ streaming # <<>>
          /\ UNCHANGED <<state, togglePause>>
      BY <2>5 DEF GetRequest, TakeRequest
    <3> QED
      BY <2>a, <3>1 DEF StopsOnError
  <2>6. CASE \E c \in Clients : Call(c) \/ Proceed(c) \/ TimesOut(c)
    BY <2>6, ClientsAndErrors
  <2> QED
    BY <2>1, <2>2, <2>3, <2>4, <2>5, <2>6 DEF Next, HandlerStep
<1>3. ErrorInv => StopsOnError
  BY DEF ErrorInv
<1> QED
  BY <1>1, <1>2, <1>3, TypeCorrect, NoRequestDangles, PTL DEF Spec
-----------------------------------------------------------------------------
(* What holds besides when nothing fails and one client calls: the level   *)
(* of the monitor is what it told, changed once for every callback due.    *)
Agrees ==
  backlog % 2 = IF (told = "IDLE") = (active = {}) THEN 0 ELSE 1

(* Configured streams have an id, and one with buffers out is active.      *)
Knows ==
  /\ configured = monitored
  /\ \A s \in Streams : pending[s] > 0 => s \in active

(* A handler that is paused with work to do is held by a toggle, before    *)
(* WaitOnPause, or was just resumed.                                       *)
Held == togglePause /\ hpc = "pause" /\ frame = 0
Resumed == \E c \in Clients : pc[c] = "resume" /\ c \notin seen
                              /\ active = {} /\ backlog = 0
Empty == requests = <<>> /\ streaming = <<>>
Halts == paused => Empty \/ Held \/ Resumed

Pauses == togglePause => \E c \in Clients : pc[c] \in {"createPause", "deletePause"}

(* A wait for idleness ends with the first callback that is due.           *)
Waiting ==
  \A c \in Clients :
    /\ pc[c] \in WaitsForIdle =>
         IF c \in seen
         THEN active = {} /\ backlog = 0 /\ state # "RUNNING"
         ELSE /\ state = "RUNNING"
              /\ backlog = IF active = {} THEN 1 ELSE 0
    /\ pc[c] = "drain" => streaming = <<>>
    /\ pc[c] = "deletePause" =>
         subject[c] \in streams /\ ~IsStreamActive(subject[c])

PromptInv ==
  state # "ERROR" /\ Agrees /\ Knows /\ Halts /\ Pauses /\ Waiting

(* What the other theorems of this module give the steps below.            *)
Ground == TypeOK /\ StateIsTold /\ WorkIsReported

(* Each change of the level is one more callback.                          *)
LEMMA ReportAgrees ==
  ASSUME MonitorTypes, Agrees, NEW holders, Report(holders)
  PROVE  Agrees'
<1>1. backlog' = backlog \/ backlog' = backlog + 1
  BY DEF Report
<1>2. (backlog + 1) % 2 = 1 - (backlog % 2)
  BY DEF MonitorTypes
<1> QED
  BY <1>1, <1>2 DEF Report, Agrees, MonitorTypes

LEMMA CallbackAgrees ==
  ASSUME MonitorTypes, Agrees, NotifyStatus
  PROVE  Agrees'
<1>1. backlog > 0 /\ backlog' = backlog - 1 /\ active' = active
  BY DEF NotifyStatus
<1>2. (backlog - 1) % 2 = 1 - (backlog % 2)
  BY <1>1 DEF MonitorTypes
<1>3. told' = IF told = "IDLE" THEN "ACTIVE" ELSE "IDLE"
  BY DEF NotifyStatus
<1> QED
  BY <1>1, <1>2, <1>3 DEF Agrees, MonitorTypes

(* A call that enters finds no callback due, so that state_ says whether   *)
(* the device is idle.                                                     *)
LEMMA EnteringClient ==
  ASSUME Ground, PromptInv, NEW c, Clients = {c}, Faults = {}, Enters(c)
  PROVE  /\ backlog = 0 /\ ~togglePause
         /\ state # "RUNNING" => active = {} /\ paused /\ Empty /\ Drained
         /\ state = "RUNNING" => active # {}
         /\ paused => Empty
<1>1. backlog = 0 /\ pc[c] = "out"
  BY DEF Enters, Ground, TypeOK
<1>2. ~togglePause
  BY <1>1 DEF PromptInv, Pauses
<1>3. paused => Empty
  BY <1>1, <1>2 DEF PromptInv, Halts, Held, Resumed
<1>4. (told = "IDLE") = (active = {})
  BY <1>1 DEF PromptInv, Agrees
<1>5. state # "RUNNING" => told = "IDLE"
  BY DEF PromptInv, Ground, TypeOK, States, StateIsTold
<1>6. state = "RUNNING" => told = "ACTIVE"
  BY DEF Ground, StateIsTold
<1>7. active = {} => paused /\ Drained
  BY DEF Ground, WorkIsReported, PromptInv, Knows, Drained, TypeOK
<1> QED
  BY <1>1, <1>2, <1>3, <1>4, <1>5, <1>6, <1>7

(* The end of a wait for idleness.                                         *)
LEMMA WaitEnded ==
  ASSUME Ground, PromptInv, NEW c, Clients = {c}, Faults = {},
         NEW label \in WaitsForIdle, Resumes(c, label)
  PROVE  /\ pc[c] = label
         /\ state \in {"NOT_CONFIGURED", "CONFIGURED"}
         /\ active = {} /\ backlog = 0 /\ paused /\ Drained
<1>1. pc[c] = label /\ c \in seen
  BY DEF Resumes
<1>2. active = {} /\ backlog = 0 /\ state # "RUNNING"
  BY <1>1 DEF PromptInv, Waiting
<1>3. paused /\ Drained
  BY <1>2 DEF Ground, WorkIsReported, PromptInv, Knows, Drained, TypeOK
<1>4. state \in {"NOT_CONFIGURED", "CONFIGURED"}
  BY <1>2 DEF Ground, TypeOK, PromptInv, States
<1> QED
  BY <1>1, <1>2, <1>3, <1>4

LEMMA CallbackKeepsPrompt ==
  ASSUME Ground, PromptInv, NEW c, Clients = {c}, Faults = {}, NotifyStatus
  PROVE  PromptInv'
<1> USE DEF device, queues, pause, buffers, monitor, clients
<1>1. /\ UNCHANGED <<device, pauseNotify, queues, current, hpc, pause,
                     buffers, active, pc, subject>>
      /\ backlog > 0 /\ backlog' = backlog - 1
      /\ told' = IF told = "IDLE" THEN "ACTIVE" ELSE "IDLE"
  BY DEF NotifyStatus
<1>2. state' # "ERROR" /\ (seen' = seen \/ Update(state'))
  BY DEF NotifyStatus, Update, PromptInv
<1>3. Agrees' /\ Knows'
  BY <1>1, CallbackAgrees DEF PromptInv, Knows, Ground, TypeOK, MonitorTypes
<1>4. Halts' /\ Pauses'
  BY <1>1 DEF PromptInv, Halts, Pauses, Held, Resumed, Empty
<1>5. ASSUME pc[c] \in WaitsForIdle
      PROVE  /\ active' = {} /\ backlog' = 0
             /\ c \in seen' /\ state' # "RUNNING"
  <2>1. c \notin seen /\ state = "RUNNING" /\ backlog = 1 /\ active = {}
    BY <1>1, <1>5 DEF PromptInv, Waiting
  <2>2. told = "ACTIVE"
    BY <2>1 DEF Ground, StateIsTold
  <2>3. Update("CONFIGURED")
    BY <2>1, <2>2 DEF NotifyStatus
  <2> QED
    BY <1>1, <1>5, <2>1, <2>3 DEF Update, Matches
<1>6. Waiting'
  BY <1>1, <1>5 DEF PromptInv, Waiting, IsStreamActive, Uses
<1> QED
  BY <1>2, <1>3, <1>4, <1>6 DEF PromptInv

(* What a request taken from a queue uses was used before.                 *)
LEMMA TakingUsesNoMore ==
  ASSUME TypeOK, GetRequest, NEW s, IsStreamActive(s)'
  PROVE  IsStreamActive(s)
<1>1. PICK q \in {requests, streaming} :
        /\ q # <<>> /\ current' = Head(q)
        /\ requests' = Tail(q) /\ streaming' = streaming
  BY DEF GetRequest, TakeRequest
<1>2. q \in Seq(SUBSET Streams)
  BY <1>1 DEF TypeOK
<1>3. s \in Head(q) \/ Uses(s, Tail(q)) => Uses(s, q)
  BY <1>1, <1>2, UsesOfRest
<1>4. s \in Head(q) \/ Uses(s, Tail(q)) \/ Uses(s, streaming)
  BY <1>1 DEF IsStreamActive, Uses
<1> QED
  BY <1>1, <1>3, <1>4 DEF IsStreamActive

(* While a client waits for idleness, a handler that takes a request was   *)
(* not paused, and is known to be active.                                  *)
LEMMA TakingWhileWaiting ==
  ASSUME Ground, PromptInv, NEW c, Clients = {c}, GetRequest,
         pc[c] \in WaitsForIdle
  PROVE  ~paused
<1>1. ~Empty /\ hpc = "get"
  BY DEF GetRequest, Empty
<1>2. ~Resumed
  BY DEF Resumed, WaitsForIdle
<1> QED
  BY <1>1, <1>2 DEF PromptInv, Halts, Held

(* The level falls once while a client waits for idleness.                 *)
LEMMA LevelWhileWaiting ==
  ASSUME Waiting, NEW c, Clients = {c}, NEW holders, Report(holders),
         UNCHANGED <<state, pc, seen, subject, streams>>,
         pc[c] \in WaitsForIdle /\ active = {} => holders = {},
         streaming = <<>> => streaming' = <<>>,
         \A s : IsStreamActive(s)' => IsStreamActive(s)
  PROVE  Waiting'
<1>1. pc' = pc /\ seen' = seen /\ state' = state /\ active' = holders
  BY DEF Report
<1>2. CASE pc[c] \in WaitsForIdle
  <2>1. active = {} => active' = {} /\ backlog' = backlog
    BY <1>2 DEF Report
  <2>2. active # {} => c \notin seen /\ backlog = 0
    BY <1>2 DEF Waiting
  <2>3. backlog = 0 => backlog' = IF (active = {}) = (active' = {}) THEN 0 ELSE 1
    BY DEF Report
  <2>4. IF c \in seen
        THEN active' = {} /\ backlog' = 0 /\ state # "RUNNING"
        ELSE /\ state = "RUNNING"
             /\ backlog' = IF active' = {} THEN 1 ELSE 0
    BY <1>2, <2>1, <2>2, <2>3 DEF Waiting
  <2> QED
    BY <1>1, <2>4 DEF Waiting
<1>3. CASE pc[c] \notin WaitsForIdle
  BY <1>1, <1>3 DEF Waiting, WaitsForIdle
<1> QED
  BY <1>2, <1>3

LEMMA HandlerKeepsPrompt ==
  ASSUME Ground, PromptInv, NEW c, Clients = {c}, Faults = {}, HandlerStep
  PROVE  PromptInv'
<1> USE DEF device, queues, pause, buffers, monitor, clients, handlerUntouched
<1>a. /\ MonitorTypes /\ TypeOK /\ WorkIsReported
      /\ "handler" \notin Streams
  BY DeviceAssumption DEF Ground, TypeOK, MonitorTypes
<1>b. state # "ERROR" /\ Agrees /\ Knows /\ Halts /\ Pauses /\ Waiting
  BY DEF PromptInv
<1>c. ~SubmitFails
  BY DEF SubmitFails
<1>d. UNCHANGED <<state, device, pc, seen, subject, togglePause>>
  BY <1>c
     DEF HandlerStep, WaitOnPause, PassPause, GetRequest, TakeRequest,
         GetNothing, Submit, Submitted, GetBufferFails
<1>e. Pauses' /\ state' # "ERROR"
  BY <1>b, <1>d DEF Pauses
<1>1. CASE WaitOnPause \/ GetNothing
  <2>1. /\ UNCHANGED <<requests, streaming, current, frame, buffers>>
        /\ Report(active \ {"handler"}) \/ Report(active)
    BY <1>1 DEF WaitOnPause, GetNothing
  <2>2. Agrees' /\ active \ {"handler"} \subseteq active'
    BY <1>a, <1>b, <2>1, ReportAgrees DEF Report
  <2>3. Knows'
    BY <1>a, <1>b, <1>d, <2>1, <2>2 DEF Knows
  <2>4. Held' \/ Empty'
    BY <1>1 DEF WaitOnPause, GetNothing, Held, Empty
  <2>5. Waiting'
    BY <1>b, <1>d, <2>1, LevelWhileWaiting DEF IsStreamActive, Uses
  <2> QED
    BY <1>e, <2>2, <2>3, <2>4, <2>5 DEF PromptInv, Halts
<1>2. CASE PassPause \/ Submitted
  <2>1. /\ UNCHANGED <<requests, streaming, frame, pause, buffers, monitor>>
        /\ current' \in {current, {}}
        /\ paused => ~Held
    BY <1>2, <1>a
       DEF PassPause, Submitted, WorkIsReported, Busy, Held
  <2>2. Agrees' /\ Knows'
    BY <1>b, <1>d, <2>1 DEF Agrees, Knows
  <2>3. Halts'
    BY <1>b, <1>d, <2>1 DEF Halts, Empty, Resumed
  <2>4. \A s : IsStreamActive(s)' => IsStreamActive(s)
    BY <2>1 DEF IsStreamActive, Uses
  <2>5. Waiting'
    BY <1>b, <1>d, <2>1, <2>4 DEF Waiting
  <2> QED
    BY <1>e, <2>2, <2>3, <2>5 DEF PromptInv
<1>3. CASE GetRequest
  <2>1. /\ UNCHANGED <<streaming, buffers>> /\ paused' = FALSE
        /\ Report(IF paused THEN active \cup {"handler"} ELSE active)
    BY <1>3 DEF GetRequest, TakeRequest
  <2>2. Agrees' /\ active \subseteq active'
    BY <1>a, <1>b, <2>1, ReportAgrees DEF Report
  <2>3. Knows' /\ Halts'
    BY <1>b, <1>d, <2>1, <2>2 DEF Knows, Halts
  <2>4. pc[c] \in WaitsForIdle => ~paused
    BY <1>3, TakingWhileWaiting
  <2>5. \A s : IsStreamActive(s)' => IsStreamActive(s)
    BY <1>a, <1>3, TakingUsesNoMore
  <2>6. Waiting'
    BY <1>b, <1>d, <2>1, <2>4, <2>5, LevelWhileWaiting
  <2> QED
    BY <1>e, <2>2, <2>3, <2>6 DEF PromptInv
<1>4. CASE Submit \/ GetBufferFails
  <2>1. PICK got \in SUBSET current :
          /\ \A s \in got : Available(s)
          /\ pending' = [s \in Streams |->
                            pending[s] + IF s \in got THEN 1 ELSE 0]
          /\ Report(active \cup (got \cap monitored))
    BY <1>4 DEF Submit, GetBufferFails
  <2>2. /\ UNCHANGED <<requests, streaming, frame, paused>>
        /\ current' \in {current, {}}
        /\ hpc = "submit"
    BY <1>4 DEF Submit, GetBufferFails
  <2>3. Agrees' /\ active' = active \cup (got \cap monitored)
    BY <1>a, <1>b, <2>1, ReportAgrees DEF Report
  <2>4. Knows'
    <3>1. got \subseteq monitored
      BY <1>b, <2>1 DEF Available, Knows
    <3>2. ASSUME NEW s \in Streams, pending'[s] > 0 PROVE s \in active'
      <4>1. pending'[s] = pending[s] + IF s \in got THEN 1 ELSE 0
        BY <2>1
      <4> QED
        BY <1>a, <1>b, <2>3, <3>1, <3>2, <4>1 DEF Knows, TypeOK
    <3> QED
      BY <1>b, <1>d, <3>2 DEF Knows
  <2>5. ~paused /\ active # {}
    BY <1>a, <2>2 DEF WorkIsReported, Busy
  <2>6. \A s : IsStreamActive(s)' => IsStreamActive(s)
    BY <2>2 DEF IsStreamActive, Uses
  <2>7. Waiting'
    BY <1>b, <1>d, <2>1, <2>2, <2>5, <2>6, LevelWhileWaiting
  <2> QED
    BY <1>e, <2>2, <2>3, <2>4, <2>5, <2>7 DEF PromptInv, Halts
<1> QED
  BY <1>c, <1>1, <1>2, <1>3, <1>4 DEF HandlerStep

LEMMA ReturnKeepsPrompt ==
  ASSUME Ground, PromptInv, NEW c, Clients = {c}, Faults = {},
         NEW s \in Streams, ReturnStreamBuffer(s) \/ ReturnRefused(s)
  PROVE  PromptInv'
<1> USE DEF device, queues, pause, buffers, monitor, clients, handlerUntouched
<1>a. MonitorTypes /\ TypeOK
  BY DEF Ground, TypeOK, MonitorTypes
<1>b. state # "ERROR" /\ Agrees /\ Knows /\ Halts /\ Pauses /\ Waiting
  BY DEF PromptInv
<1>c. UNCHANGED <<queues, current, hpc, pause, handlerUntouched, told>>
  BY DEF ReturnStreamBuffer, ReturnRefused, Report
<1>d. pending[s] \in Nat /\ out[s] \in Nat /\ out[s] <= pending[s] /\ out[s] > 0
  BY <1>a DEF ReturnStreamBuffer, ReturnRefused, TypeOK
<1>e. s \in active
  BY <1>b, <1>d DEF Knows
<1>1. PICK holders :
        /\ Report(holders)
        /\ active \ {s} \subseteq holders /\ holders \subseteq active
        /\ pending' \in {pending, [pending EXCEPT ![s] = pending[s] - 1]}
        /\ s \notin holders =>
             pending[s] = 1 /\ pending' = [pending EXCEPT ![s] = pending[s] - 1]
  <2>1. CASE ReturnRefused(s)
    <3>1. Report(active) /\ pending' = pending
      BY <2>1 DEF ReturnRefused, Report
    <3> QED
      BY <1>e, <3>1
  <2>2. CASE ReturnStreamBuffer(s)
    <3>1. pending' = [pending EXCEPT ![s] = pending[s] - 1]
      BY <2>2 DEF ReturnStreamBuffer
    <3>2. Report(IF pending[s] = 1 /\ s \in monitored
                 THEN active \ {s} ELSE active)
      BY <2>2 DEF ReturnStreamBuffer
    <3>3. CASE pending[s] = 1 /\ s \in monitored
      BY <3>1, <3>2, <3>3
    <3>4. CASE ~(pending[s] = 1 /\ s \in monitored)
      BY <1>e, <3>1, <3>2, <3>4
    <3> QED
      BY <3>3, <3>4
  <2> QED
    BY <2>1, <2>2
<1>2. Report(holders)
  BY <1>1
<1>3. Agrees' /\ active' = holders
  BY <1>a, <1>b, <1>2, ReportAgrees DEF Report
<1>4. Knows'
  <2>1. ASSUME NEW r \in Streams, pending'[r] > 0 PROVE r \in active'
    <3>1. pending[r] > 0 /\ (r = s => s \in holders)
      BY <1>a, <1>d, <1>1, <2>1 DEF TypeOK
    <3> QED
      BY <1>b, <1>1, <1>3, <3>1 DEF Knows
  <2> QED
    BY <1>b, <1>c, <2>1 DEF Knows
<1>5. Halts' /\ Pauses'
  BY <1>b, <1>c, <1>e, <1>2 DEF Halts, Pauses, Held, Empty, Resumed
<1>6. Waiting'
  BY <1>b, <1>c, <1>e, <1>2, LevelWhileWaiting DEF IsStreamActive, Uses
<1> QED
  BY <1>b, <1>c, <1>3, <1>4, <1>5, <1>6 DEF PromptInv

(* A client that is not in a wait for idleness, with no pause requested.   *)
LEMMA NoWaitNoPause ==
  ASSUME NEW c, Clients = {c}, pc'[c] \notin WaitsForIdle, ~togglePause'
  PROVE  Waiting' /\ Pauses'
BY DEF Waiting, Pauses, WaitsForIdle

(* Where a call that waits for idleness stands when it begins to wait.     *)
LEMMA WaitBegins ==
  ASSUME Ground, PromptInv, NEW c, Clients = {c}, Faults = {}, Enters(c),
         NEW label \in WaitsForIdle, Go(c, label, state), UNCHANGED monitor,
         label = "drain" => streaming' = <<>>,
         label = "deletePause" =>
           (subject[c] \in streams /\ ~IsStreamActive(subject[c]))'
  PROVE  Waiting' /\ pc'[c] = label
<1>1. state' = state /\ pc'[c] = label
  BY DEF Go, Ground, TypeOK
<1>2. c \in seen' <=> state # "RUNNING"
  BY DEF Go, Matches, WaitsForIdle, WaitsForRunning
<1>3. /\ backlog' = 0
      /\ state # "RUNNING" => active' = {}
      /\ state = "RUNNING" => active' # {}
  BY EnteringClient DEF monitor
<1> QED
  BY <1>1, <1>2, <1>3 DEF Waiting

LEMMA CallsKeepPrompt ==
  ASSUME Ground, PromptInv, NEW c, Clients = {c}, Faults = {}, Call(c)
  PROVE  PromptInv'
<1> USE DEF device, queues, pause, buffers, monitor, clients, callUntouched
<1>a. MonitorTypes /\ TypeOK
  BY DEF Ground, TypeOK, MonitorTypes
<1>b. state # "ERROR" /\ Agrees /\ Knows /\ Halts /\ Pauses /\ Waiting
  BY DEF PromptInv
<1>c. Enters(c) /\ pc[c] = "out"
  BY DEF Call, Enters, CreateStream, CreatePauses, DeletePauses, DeleteCached,
         ConfigureStreams, SubmitRefused, CancelRequest, Flush, WaitUntilIdle,
         SubmitRequestList, ConfigureAndSubmit, Accepts
<1>d. /\ backlog = 0 /\ ~togglePause
      /\ state # "RUNNING" => active = {} /\ paused /\ Empty /\ Drained
      /\ paused => Empty
  BY <1>c, EnteringClient
<1>1. CASE CreateStream(c) \/ DeleteCached(c) \/ CancelRequest(c) \/ Flush(c)
  <2>1. /\ UNCHANGED <<state, hpc, pause, buffers, monitor>>
        /\ requests' \in {requests, <<>>} /\ streaming' \in {streaming, <<>>}
        /\ pc'[c] \notin WaitsForIdle
    BY <1>a, <1>c, <1>1
       DEF CreateStream, DeleteCached, CancelRequest, Flush, WaitsForIdle,
           TypeOK
  <2>2. configured' = monitored'
    BY <1>b, <1>1 DEF CreateStream, DeleteCached, CancelRequest, Flush, Knows
  <2>3. Knows' /\ Agrees' /\ Halts'
    BY <1>b, <1>d, <2>1, <2>2 DEF Knows, Agrees, Halts, Empty
  <2> QED
    BY <1>b, <1>d, <2>1, <2>3, NoWaitNoPause DEF PromptInv
<1>2. CASE CreatePauses(c) \/ DeletePauses(c) \/ WaitUntilIdle(c)
  <2>1. UNCHANGED <<device, requests, streaming, current, hpc, paused, buffers,
                    monitor>>
    BY <1>2 DEF CreatePauses, DeletePauses, WaitUntilIdle
  <2>2. Agrees' /\ Knows' /\ Halts'
    BY <1>b, <1>d, <2>1 DEF Agrees, Knows, Halts, Empty
  <2>3. CASE CreatePauses(c)
    <3>1. Go(c, "createPause", state)
      BY <2>3 DEF CreatePauses, InternalPauseAndWait
    <3>2. Waiting' /\ pc'[c] = "createPause"
      BY <1>c, <2>1, <3>1, WaitBegins DEF WaitsForIdle
    <3> QED
      BY <1>b, <2>2, <3>1, <3>2 DEF PromptInv, Pauses, Go
  <2>4. CASE DeletePauses(c)
    <3>1. PICK s \in Streams : /\ Deletable(s)
                               /\ subject' = [subject EXCEPT ![c] = s]
                               /\ Go(c, "deletePause", state)
      BY <2>4 DEF DeletePauses, InternalPauseAndWait
    <3>2. subject'[c] = s /\ s \in streams /\ ~IsStreamActive(s)
      BY <1>a, <3>1 DEF Deletable, TypeOK
    <3>3. (subject[c] \in streams /\ ~IsStreamActive(subject[c]))'
      BY <2>1, <3>2 DEF IsStreamActive, Uses
    <3>4. Waiting' /\ pc'[c] = "deletePause"
      BY <1>c, <2>1, <3>1, <3>3, WaitBegins DEF WaitsForIdle
    <3> QED
      BY <1>b, <2>2, <3>1, <3>4 DEF PromptInv, Pauses, Go
  <2>5. CASE WaitUntilIdle(c)
    <3>1. /\ Go(c, "drain", state) /\ streaming' = <<>>
          /\ togglePause' = togglePause
      BY <2>1, <2>5 DEF WaitUntilIdle
    <3>2. Waiting'
      BY <1>c, <2>1, <3>1, WaitBegins DEF WaitsForIdle
    <3> QED
      BY <1>b, <1>d, <2>2, <3>1, <3>2 DEF PromptInv, Pauses, Go
  <2> QED
    BY <1>2, <2>3, <2>4, <2>5
<1>3. CASE ConfigureStreams(c) \/ SubmitRefused(c)
  <2>1. /\ HalConfigures(streams) /\ Go(c, "out", "CONFIGURED")
        /\ UNCHANGED <<togglePause, requests, streaming, paused, buffers>>
    BY <1>3 DEF ConfigureStreams, SubmitRefused, HalRefuses
  <2>2. active = {} /\ Empty /\ Drained
    BY <1>d, <2>1 DEF HalConfigures, CanConfigure
  <2>3. Agrees'
    BY <1>a, <1>b, <2>1, ReportAgrees DEF HalConfigures
  <2>4. Knows' /\ Halts'
    BY <1>a, <2>1, <2>2
       DEF HalConfigures, Knows, Halts, Empty, Drained, TypeOK
  <2>5. pc'[c] = "out" /\ state' = "CONFIGURED"
    BY <1>a, <2>1 DEF Go, TypeOK
  <2> QED
    BY <1>d, <2>1, <2>3, <2>4, <2>5, NoWaitNoPause DEF PromptInv, WaitsForIdle
<1>4. ASSUME NEW list \in Lists, NEW repeating \in BOOLEAN,
             \/ SubmitRequestList(c, list, repeating)
             \/ ConfigureAndSubmit(c, list, repeating)
      PROVE  PromptInv'
  <2>1. PICK holders :
          /\ ResumeHandler(holders)
          /\ \A s \in Streams : pending[s] > 0 => s \in holders
    <3>1. CASE SubmitRequestList(c, list, repeating)
      BY <1>b, <3>1 DEF SubmitRequestList, Knows
    <3>2. CASE ConfigureAndSubmit(c, list, repeating)
      <4>1. Drained
        BY <1>d, <3>2 DEF ConfigureAndSubmit, CanConfigure
      <4> QED
        BY <3>2, <4>1 DEF ConfigureAndSubmit, Drained
    <3> QED
      BY <1>4, <3>1, <3>2
  <2>2. /\ Report(holders \cup {"handler"}) /\ paused' = FALSE
    BY <1>d, <2>1 DEF ResumeHandler
  <2>3. UNCHANGED <<togglePause, buffers>> /\ configured' = monitored'
    BY <1>4, <1>b
       DEF SubmitRequestList, ConfigureAndSubmit, Accepts, Knows
  <2>4. Agrees'
    BY <1>a, <1>b, <2>2, ReportAgrees
  <2>5. Knows' /\ Halts'
    BY <2>1, <2>2, <2>3 DEF Knows, Halts, Report
  <2>6. pc'[c] = "submit" /\ state' # "ERROR"
    BY <1>4, <1>a, <1>b DEF SubmitRequestList, ConfigureAndSubmit, Go, TypeOK
  <2> QED
    BY <1>d, <2>3, <2>4, <2>5, <2>6, NoWaitNoPause DEF PromptInv, WaitsForIdle
<1> QED
  BY <1>1, <1>2, <1>3, <1>4 DEF Call

(* What follows the end of a pause: the streams are configured, and the    *)
(* handler goes on with what it was held from.                             *)
LEMMA ResumingClient ==
  ASSUME Ground, PromptInv, NEW c, Clients = {c}, Faults = {},
         NEW label \in {"createPause", "deletePause"}, Resumes(c, label),
         NEW s \in {"NOT_CONFIGURED", "CONFIGURED"}, InternalResume(c, s),
         UNCHANGED <<requests, streaming, paused, buffers>>,
         configured' = monitored',
         UNCHANGED monitor \/ \E holders : Report(active \ holders)
  PROVE  PromptInv'
<1> USE DEF buffers, monitor
<1>1. /\ active = {} /\ backlog = 0 /\ Drained
  BY WaitEnded DEF WaitsForIdle
<1>2. active' = {} /\ backlog' = 0 /\ told' = told
  BY <1>1 DEF Report
<1>3. Agrees'
  BY <1>1, <1>2 DEF PromptInv, Agrees
<1>4. Knows'
  BY <1>1 DEF Knows, Drained, Ground, TypeOK
<1>5. togglePause' = FALSE /\ state' = s
  BY DEF InternalResume, Go
<1>6. \/ Empty /\ pc'[c] = "out"
      \/ pc'[c] = "resume" /\ c \notin seen'
  BY DEF InternalResume, Go, Matches, WaitsForRunning, WaitsForIdle, Empty,
         Ground, TypeOK
<1>7. Halts'
  BY <1>2, <1>6 DEF Halts, Empty, Resumed
<1>8. Waiting' /\ Pauses'
  BY <1>5, <1>6, NoWaitNoPause DEF WaitsForIdle
<1> QED
  BY <1>3, <1>4, <1>5, <1>7, <1>8 DEF PromptInv

LEMMA ProceedingKeepsPrompt ==
  ASSUME Ground, PromptInv, NEW c, Clients = {c}, Faults = {}, Proceed(c)
  PROVE  PromptInv'
<1> USE DEF device, queues, pause, buffers, monitor, clients, callUntouched
<1>b. state # "ERROR" /\ Agrees /\ Knows /\ Halts /\ Pauses /\ Waiting
  BY DEF PromptInv
<1>1. CASE CreateResumes(c) \/ DeleteResumes(c)
  <2>1. PICK label \in {"createPause", "deletePause"} : Resumes(c, label)
    BY <1>1 DEF CreateResumes, DeleteResumes
  <2>2. state \in {"NOT_CONFIGURED", "CONFIGURED"}
    BY <2>1, WaitEnded DEF WaitsForIdle
  <2>3. /\ UNCHANGED <<requests, streaming, paused, buffers>>
        /\ \/ ReconfigureAndResume(c, streams')
           \/ /\ InternalResume(c, state)
              /\ configured' = {} /\ monitored' = {}
              /\ UNCHANGED monitor
    BY <1>1 DEF CreateResumes, DeleteResumes
  <2>4. CASE ReconfigureAndResume(c, streams')
    <3>1. HalConfigures(streams') /\ InternalResume(c, "CONFIGURED")
      BY <2>2, <2>4
         DEF ReconfigureAndResume, HalRefuses, NotIdle, CanConfigure
    <3>2. /\ configured' = monitored'
          /\ \E holders : Report(active \ holders)
      BY <3>1 DEF HalConfigures
    <3> QED
      BY <2>1, <2>3, <3>1, <3>2, ResumingClient
  <2>5. CASE /\ InternalResume(c, state)
             /\ configured' = {} /\ monitored' = {}
             /\ UNCHANGED monitor
    BY <2>1, <2>2, <2>3, <2>5, ResumingClient
  <2> QED
    BY <2>3, <2>4, <2>5
<1>2. CASE \/ FlushReturns(c) \/ WaitUntilIdleReturns(c) \/ SubmitReturns(c)
           \/ ResumeReturns(c)
  <2>1. /\ pc[c] \in {"flush", "drain", "submit", "resume"}
        /\ pc[c] = "resume" => c \in seen
        /\ pc' = [pc EXCEPT ![c] = "out"] /\ state' = state
        /\ UNCHANGED <<device, togglePause, callUntouched, monitor>>
    BY <1>2
       DEF FlushReturns, WaitUntilIdleReturns, SubmitReturns, ResumeReturns,
           Resumes, Go
  <2>2. ~togglePause /\ ~Resumed /\ pc'[c] = "out"
    BY <1>b, <2>1 DEF Pauses, Resumed, Ground, TypeOK
  <2>3. Agrees' /\ Knows' /\ Halts'
    BY <1>b, <2>1, <2>2 DEF Agrees, Knows, Halts, Held, Empty
  <2> QED
    BY <1>b, <2>1, <2>2, <2>3, NoWaitNoPause DEF PromptInv, WaitsForIdle
<1>3. ~CreateGivesUp(c) /\ ~DeleteGivesUp(c)
  BY <1>b DEF CreateGivesUp, DeleteGivesUp, Resumes, Waiting
<1> QED
  BY <1>1, <1>2, <1>3 DEF Proceed

(* One client, and neither failures, mistakes nor calls made while         *)
(* callbacks are due.                                                      *)
Prompt == Faults = {} /\ \E c : Clients = {c}

LEMMA PromptInvariance ==
  ASSUME Prompt, Ground, PromptInv, [Next]_vars
  PROVE  PromptInv'
<1> USE DEF device, queues, pause, buffers, monitor, clients
<1>1. PICK c : Clients = {c}
  BY DEF Prompt
<1>2. Faults = {}
  BY DEF Prompt
<1>3. CASE UNCHANGED vars
  BY <1>3
     DEF vars, PromptInv, Agrees, Knows, Halts, Held, Resumed, Empty, Pauses,
         Waiting, IsStreamActive, Uses
<1>4. CASE NotifyStatus
  BY <1>1, <1>2, <1>4, CallbackKeepsPrompt
<1>5. CASE HandlerStep
  BY <1>1, <1>2, <1>5, HandlerKeepsPrompt
<1>6. CASE \E s \in Streams : ReturnStreamBuffer(s) \/ ReturnRefused(s)
  BY <1>1, <1>2, <1>6, ReturnKeepsPrompt
<1>7. CASE Call(c)
  BY <1>1, <1>2, <1>7, CallsKeepPrompt
<1>8. CASE Proceed(c)
  BY <1>1, <1>2, <1>8, ProceedingKeepsPrompt
<1>9. ~SetErrorState /\ ~TimesOut(c)
  BY <1>2 DEF SetErrorState, TimesOut
<1> QED
  BY <1>1, <1>3, <1>4, <1>5, <1>6, <1>7, <1>8, <1>9 DEF Next

LEMMA InitPrompt == Prompt /\ Init => PromptInv
<1> SUFFICES ASSUME Prompt, Init PROVE PromptInv
  OBVIOUS
<1>1. Agrees /\ Knows /\ Halts /\ Pauses
  BY DEF Init, Agrees, Knows, Halts, Empty, Pauses
<1>2. Waiting
  BY DEF Init, Waiting, WaitsForIdle
<1> QED
  BY <1>1, <1>2 DEF Init, PromptInv

LEMMA PromptCorrect == Prompt => (Spec => [](Ground /\ PromptInv))
<1> SUFFICES ASSUME Prompt PROVE Spec => [](Ground /\ PromptInv)
  OBVIOUS
<1>1. Init => PromptInv
  BY InitPrompt
<1>2. Ground /\ PromptInv /\ [Next]_vars => PromptInv'
  BY PromptInvariance
<1>3. TypeOK /\ StateIsTold /\ WorkIsReported <=> Ground
  BY DEF Ground
<1> QED
  BY <1>1, <1>2, <1>3, TypeCorrect, StateAlwaysTold, WorkAlwaysReported, PTL
     DEF Spec

(* A single client's streams are only configured when the HAL is idle.     *)
THEOREM ConfiguredWhenIdle == Prompt => (Spec => ConfiguredWhenDrained)
<1> SUFFICES ASSUME Prompt PROVE Spec => ConfiguredWhenDrained
  OBVIOUS
<1> DEFINE Configures(c) ==
      \/ CreateResumes(c) \/ DeleteResumes(c) \/ ConfigureStreams(c)
      \/ (\E list \in Lists, repeating \in BOOLEAN :
            ConfigureAndSubmit(c, list, repeating))
<1>1. ASSUME Ground, PromptInv, NEW c \in Clients, Configures(c)
      PROVE  Drained
  <2>1. Clients = {c} /\ Faults = {}
    BY DEF Prompt
  <2>2. CASE CreateResumes(c) \/ DeleteResumes(c)
    <3>1. Resumes(c, "createPause") \/ Resumes(c, "deletePause")
      BY <2>2 DEF CreateResumes, DeleteResumes
    <3> QED
      BY <1>1, <2>1, <3>1, WaitEnded DEF WaitsForIdle
  <2>3. CASE ConfigureStreams(c)
    <3>1. Enters(c) /\ CanConfigure
      BY <2>1, <2>3 DEF ConfigureStreams, HalConfigures, HalRefuses
    <3> QED
      BY <1>1, <2>1, <3>1, EnteringClient DEF CanConfigure
  <2>4. CASE \E list \in Lists, repeating \in BOOLEAN :
               ConfigureAndSubmit(c, list, repeating)
    <3>1. Enters(c) /\ CanConfigure
      BY <2>4 DEF ConfigureAndSubmit, Accepts
    <3> QED
      BY <1>1, <2>1, <3>1, EnteringClient DEF CanConfigure
  <2> QED
    BY <1>1, <2>2, <2>3, <2>4
<1>2. Ground /\ PromptInv /\ [Next]_vars
        => [\A c \in Clients : Configures(c) => Drained]_vars
  BY <1>1
<1> QED
  BY <1>2, PromptCorrect, PTL DEF Spec, ConfiguredWhenDrained

(* When its WaitUntilIdle returns, nothing is left to do.                  *)
THEOREM IdleIsDone == Prompt => (Spec => IdleMeansDone)
<1> SUFFICES ASSUME Prompt PROVE Spec => IdleMeansDone
  OBVIOUS
<1>1. ASSUME Ground, PromptInv, NEW c \in Clients, WaitUntilIdleReturns(c)
      PROVE  Drained /\ requests = <<>>
  <2>1. Clients = {c} /\ Faults = {}
    BY DEF Prompt
  <2>2. pc[c] = "drain" /\ paused /\ Drained
    BY <1>1, <2>1, WaitEnded DEF WaitUntilIdleReturns, WaitsForIdle
  <2>3. ~togglePause /\ ~Resumed
    BY <1>1, <2>1, <2>2 DEF PromptInv, Pauses, Resumed
  <2> QED
    BY <1>1, <2>2, <2>3 DEF PromptInv, Halts, Held, Empty
<1>2. Ground /\ PromptInv /\ [Next]_vars
        => [\A c \in Clients :
              WaitUntilIdleReturns(c) => Drained /\ requests = <<>>]_vars
  BY <1>1
<1> QED
  BY <1>2, PromptCorrect, PTL DEF Spec, IdleMeansDone

(* The assertion after the pause of CreateStream, which a client that      *)
(* calls while callbacks are due can break, holds for one that does not.   *)
THEOREM PauseStopsTheDevice == Prompt => (Spec => PauseMeansNotRunning)
<1> SUFFICES ASSUME Prompt PROVE Spec => PauseMeansNotRunning
  OBVIOUS
<1>1. ASSUME Ground, PromptInv, NEW c \in Clients, CreateResumes(c)
      PROVE  state # "RUNNING"
  <2>1. Clients = {c} /\ Faults = {}
    BY DEF Prompt
  <2> QED
    BY <1>1, <2>1, WaitEnded DEF CreateResumes, WaitsForIdle
<1>2. Ground /\ PromptInv /\ [Next]_vars
        => [\A c \in Clients : CreateResumes(c) => state # "RUNNING"]_vars
  BY <1>1
<1> QED
  BY <1>2, PromptCorrect, PTL DEF Spec, PauseMeansNotRunning
-----------------------------------------------------------------------------
(* How such a client's calls come to their end.  The streams of a request, *)
(* and those whose buffers are out, can be given buffers ...               *)
StreamsReady ==
  /\ \A s \in Streams :
       IsStreamActive(s) \/ pending[s] > 0 => s \in configured
  /\ streams \subseteq configured \/ reconfig
  /\ ~Busy => current = {}

(* ... and no buffer of theirs is lost.                                    *)
BuffersReturn ==
  out = pending /\ \A s \in active \cap Streams : pending[s] > 0

(* Without streams there is nothing to do.                                 *)
Unconfigured ==
  state = "NOT_CONFIGURED" => active = {} /\ backlog = 0 /\ Empty /\ ~Busy

(* STATE_RUNNING, once waited for, is due or the handler has work to take. *)
RunningComes ==
  \A c \in Clients : pc[c] \in WaitsForRunning /\ c \notin seen =>
    /\ state = "CONFIGURED"
    /\ \/ backlog > 0
       \/ pc[c] = "resume" /\ ~Empty /\ ~togglePause /\ ~Busy

(* lock_ is kept by one whose wait is over, and a pause is not forgotten.  *)
LockIsKept ==
  /\ lock = "nobody" \/ lock \in seen
  /\ \A c \in seen : pc[c] \in Waits
  /\ \A c \in Clients :
       pc[c] \in {"createPause", "deletePause"} => togglePause

Served ==
  StreamsReady /\ BuffersReturn /\ Unconfigured /\ RunningComes /\ LockIsKept

LEMMA ReportCounts ==
  ASSUME MonitorTypes, NEW holders, Report(holders)
  PROVE  /\ backlog' \in Nat /\ backlog' >= backlog
         /\ active' = holders
         /\ active = {} /\ holders # {} => backlog' > 0
         /\ active = {} /\ holders = {} => backlog' = backlog
BY DEF MonitorTypes, Report

LEMMA CallbackKeepsServed ==
  ASSUME Ground, PromptInv, Served, NEW c, Clients = {c}, Faults = {},
         NotifyStatus
  PROVE  Served'
<1> USE DEF device, queues, pause, buffers, monitor, clients
<1>1. /\ UNCHANGED <<device, queues, current, hpc, pause, buffers, active, pc,
                     lock>>
      /\ backlog > 0 /\ lock = "nobody"
      /\ told' = IF told = "IDLE" THEN "ACTIVE" ELSE "IDLE"
  BY DEF NotifyStatus
<1>2. state \in {"RUNNING", "CONFIGURED"}
  BY <1>1
     DEF Ground, TypeOK, States, PromptInv, Served, Unconfigured
<1>3. Update(IF told' = "IDLE" THEN "CONFIGURED" ELSE "RUNNING")
  BY <1>2 DEF NotifyStatus
<1>4. StreamsReady' /\ BuffersReturn'
  BY <1>1
     DEF Served, StreamsReady, BuffersReturn, IsStreamActive, Uses, Busy
<1>7. LockIsKept'
  <2>1. ASSUME NEW d \in seen' PROVE pc'[d] \in Waits
    BY <1>1, <1>3, <2>1 DEF Update, Matches, Waits, Served, LockIsKept
  <2> QED
    BY <1>1, <2>1 DEF Served, LockIsKept
<1>5. Unconfigured'
  BY <1>3 DEF Update, Unconfigured
<1>6. ASSUME pc'[c] \in WaitsForRunning, c \notin seen' PROVE FALSE
  <2>1. pc[c] \in WaitsForRunning /\ c \notin seen
    BY <1>1, <1>3, <1>6 DEF Update
  <2>2. told = "IDLE"
    BY <2>1 DEF Served, RunningComes, Ground, StateIsTold
  <2>3. Update("RUNNING")
    BY <1>1, <1>3, <2>2
  <2> QED
    BY <1>1, <1>6, <2>1, <2>3 DEF Update, Matches
<1> QED
  BY <1>4, <1>5, <1>6, <1>7 DEF Served, RunningComes

(* A step of the handler that leaves the streams alone and takes nothing   *)
(* from a client's wait for STATE_RUNNING.                                 *)
LEMMA HandlerSteps ==
  ASSUME Served, NEW c, Clients = {c},
         UNCHANGED <<state, device, pc, seen, lock, togglePause>>,
         StreamsReady', BuffersReturn', Unconfigured',
         pc[c] \in WaitsForRunning /\ c \notin seen =>
           \/ backlog' > 0
           \/ pc[c] = "resume" /\ ~Empty' /\ ~togglePause /\ ~Busy'
  PROVE  Served'
BY DEF Served, RunningComes, LockIsKept

LEMMA HandlerKeepsServed ==
  ASSUME Ground, PromptInv, Served, NEW c, Clients = {c}, Faults = {},
         HandlerStep
  PROVE  Served'
<1> USE DEF device, queues, pause, buffers, monitor, clients, handlerUntouched
<1>a. /\ MonitorTypes /\ TypeOK /\ WorkIsReported
      /\ "handler" \notin Streams
  BY DeviceAssumption DEF Ground, TypeOK, MonitorTypes
<1>b. /\ StreamsReady /\ BuffersReturn /\ Unconfigured /\ RunningComes
      /\ Agrees /\ Knows
  BY DEF Served, PromptInv
<1>c. ~SubmitFails
  BY DEF SubmitFails
<1>d. UNCHANGED <<state, device, pc, seen, lock, togglePause>>
  BY <1>c
     DEF HandlerStep, WaitOnPause, PassPause, GetRequest, TakeRequest,
         GetNothing, Submit, Submitted, GetBufferFails
<1>e. ASSUME pc[c] \in WaitsForRunning, c \notin seen
      PROVE  /\ state = "CONFIGURED" /\ told = "IDLE"
             /\ \/ backlog > 0
                \/ pc[c] = "resume" /\ ~Empty /\ ~togglePause /\ ~Busy
  BY <1>b, <1>e DEF RunningComes, Ground, StateIsTold
<1>f. ~GetBufferFails
  BY <1>a, <1>b DEF GetBufferFails, StreamsReady, IsStreamActive, TypeOK
<1>1. CASE WaitOnPause \/ GetNothing
  <2>1. /\ UNCHANGED <<requests, streaming, current, buffers>>
        /\ Report(active \ {"handler"}) \/ Report(active)
        /\ ~Busy /\ ~Busy'
        /\ togglePause \/ Empty
    BY <1>1 DEF WaitOnPause, GetNothing, Busy, Empty
  <2>2. /\ active' \subseteq active /\ backlog' >= backlog
        /\ backlog' \in Nat
        /\ active = {} => active' = {} /\ backlog' = backlog
    BY <1>a, <2>1, ReportCounts
  <2>3. StreamsReady' /\ BuffersReturn'
    BY <1>b, <1>d, <2>1, <2>2
       DEF StreamsReady, BuffersReturn, IsStreamActive, Uses
  <2>4. Unconfigured'
    BY <1>b, <1>d, <2>1, <2>2 DEF Unconfigured, Empty
  <2>5. pc[c] \in WaitsForRunning /\ c \notin seen => backlog' > 0
    BY <1>a, <1>e, <2>1, <2>2 DEF MonitorTypes
  <2> QED
    BY <1>d, <2>3, <2>4, <2>5, HandlerSteps
<1>2. CASE PassPause
  <2>1. /\ UNCHANGED <<requests, streaming, current, buffers, monitor>>
        /\ ~Busy /\ ~Busy'
    BY <1>2 DEF PassPause, Busy
  <2>2. StreamsReady' /\ BuffersReturn' /\ Unconfigured'
    BY <1>b, <1>d, <2>1
       DEF StreamsReady, BuffersReturn, Unconfigured, IsStreamActive, Uses,
           Empty
  <2> QED
    BY <1>d, <1>e, <2>1, <2>2, HandlerSteps DEF Empty
<1>3. CASE Submitted
  <2>1. /\ UNCHANGED <<requests, streaming, buffers, monitor>>
        /\ current' = {} /\ Busy
    BY <1>3 DEF Submitted, Busy
  <2>2. StreamsReady' /\ BuffersReturn' /\ Unconfigured'
    BY <1>b, <1>d, <2>1
       DEF StreamsReady, BuffersReturn, Unconfigured, IsStreamActive, Uses
  <2> QED
    BY <1>d, <1>e, <2>1, <2>2, HandlerSteps
<1>4. CASE GetRequest
  <2>1. /\ UNCHANGED buffers /\ ~Empty /\ Busy'
        /\ Report(IF paused THEN active \cup {"handler"} ELSE active)
    BY <1>4 DEF GetRequest, TakeRequest, Empty, Busy
  <2>2. /\ backlog' >= backlog /\ backlog' \in Nat
        /\ active' = IF paused THEN active \cup {"handler"} ELSE active
        /\ active = {} /\ active' # {} => backlog' > 0
    BY <1>a, <2>1, ReportCounts
  <2>3. \A s : IsStreamActive(s)' => IsStreamActive(s)
    BY <1>a, <1>4, TakingUsesNoMore
  <2>4. StreamsReady' /\ BuffersReturn'
    BY <1>a, <1>b, <1>d, <2>1, <2>2, <2>3 DEF StreamsReady, BuffersReturn
  <2>5. Unconfigured'
    BY <1>b, <1>d, <2>1 DEF Unconfigured
  <2>6. ASSUME pc[c] \in WaitsForRunning, c \notin seen
        PROVE  backlog' > 0
    <3>1. CASE backlog > 0
      BY <1>a, <2>2, <3>1 DEF MonitorTypes
    <3>2. CASE ~(backlog > 0)
      <4>1. backlog = 0 /\ told = "IDLE"
        BY <1>a, <1>e, <2>6, <3>2 DEF MonitorTypes
      <4>2. active = {}
        BY <1>b, <4>1 DEF Agrees
      <4> QED
        BY <1>a, <2>2, <4>2 DEF WorkIsReported
    <3> QED
      BY <3>1, <3>2
  <2> QED
    BY <1>d, <2>4, <2>5, <2>6, HandlerSteps
<1>5. CASE Submit
  <2>1. /\ UNCHANGED <<requests, streaming, current>> /\ Busy /\ Busy'
        /\ pending' = [s \in Streams |->
                         pending[s] + IF s \in current THEN 1 ELSE 0]
        /\ out' = [s \in Streams |->
                     out[s] + IF s \in current THEN 1 ELSE 0]
        /\ Report(active \cup (current \cap monitored))
    BY <1>5 DEF Submit, Busy
  <2>2. /\ backlog' >= backlog /\ backlog' \in Nat
        /\ active' = active \cup (current \cap monitored)
    BY <1>a, <2>1, ReportCounts
  <2>3. ASSUME NEW s \in Streams
        PROVE  /\ pending'[s] > 0 => pending[s] > 0 \/ s \in current
               /\ pending[s] > 0 \/ s \in current => pending'[s] > 0
    <3>1. pending[s] \in Nat /\ pending'[s] = pending[s] + IF s \in current THEN 1 ELSE 0
      BY <1>a, <2>1 DEF TypeOK
    <3> QED
      BY <3>1
  <2>4. StreamsReady'
    BY <1>b, <1>d, <2>1, <2>3 DEF StreamsReady, IsStreamActive, Uses
  <2>5. BuffersReturn'
    BY <1>b, <2>1, <2>2, <2>3 DEF BuffersReturn
  <2>6. Unconfigured'
    BY <1>b, <1>d, <2>1 DEF Unconfigured
  <2> QED
    BY <1>a, <1>d, <1>e, <2>1, <2>2, <2>4, <2>5, <2>6, HandlerSteps
       DEF MonitorTypes
<1> QED
  BY <1>c, <1>f, <1>1, <1>2, <1>3, <1>4, <1>5 DEF HandlerStep

LEMMA ReturnKeepsServed ==
  ASSUME Ground, PromptInv, Served, NEW c, Clients = {c}, Faults = {},
         NEW s \in Streams, ReturnStreamBuffer(s) \/ ReturnRefused(s)
  PROVE  Served'
<1> USE DEF device, queues, pause, buffers, monitor, clients, handlerUntouched
<1>a. MonitorTypes /\ TypeOK
  BY DEF Ground, TypeOK, MonitorTypes
<1>b. StreamsReady /\ BuffersReturn /\ Unconfigured /\ RunningComes /\ Knows
  BY DEF Served, PromptInv
<1>c. out[s] > 0 /\ pending[s] \in Nat /\ pending[s] = out[s]
  BY <1>a, <1>b DEF ReturnStreamBuffer, ReturnRefused, TypeOK, BuffersReturn
<1>d. s \in configured /\ s \in monitored /\ s \in streams /\ s \in active
  BY <1>a, <1>b, <1>c DEF StreamsReady, Knows, TypeOK
<1>e. state \in {"CONFIGURED", "RUNNING"}
  BY <1>a, <1>b, <1>d DEF Unconfigured, TypeOK, States, PromptInv
<1>1. ReturnStreamBuffer(s)
  BY <1>d, <1>e DEF ReturnRefused
<1>2. /\ UNCHANGED <<state, device, pc, seen, lock, togglePause, queues,
                     current, hpc>>
      /\ pending' = [pending EXCEPT ![s] = @ - 1]
      /\ out' = [out EXCEPT ![s] = @ - 1]
      /\ Report(IF pending[s] = 1 /\ s \in monitored THEN active \ {s}
                                                     ELSE active)
  BY <1>1 DEF ReturnStreamBuffer
<1>3. /\ backlog' >= backlog /\ backlog' \in Nat
      /\ active' = IF pending[s] = 1 THEN active \ {s} ELSE active
  BY <1>a, <1>d, <1>2, ReportCounts
<1>4. ASSUME NEW r \in Streams
      PROVE  /\ pending'[r] > 0 => pending[r] > 0
             /\ pending[r] > 0 /\ ~(r = s /\ pending[s] = 1) => pending'[r] > 0
  <2>1. pending[r] \in Nat
        /\ pending'[r] = IF r = s THEN pending[s] - 1 ELSE pending[r]
    BY <1>a, <1>2 DEF TypeOK
  <2> QED
    BY <1>c, <2>1
<1>5. StreamsReady'
  BY <1>b, <1>2, <1>4 DEF StreamsReady, IsStreamActive, Uses, Busy
<1>6. BuffersReturn'
  BY <1>b, <1>2, <1>3, <1>4 DEF BuffersReturn
<1>7. Unconfigured'
  BY <1>e, <1>2 DEF Unconfigured
<1> QED
  BY <1>a, <1>b, <1>2, <1>3, <1>5, <1>6, <1>7, HandlerSteps
     DEF RunningComes, MonitorTypes, Empty, Busy

(* The state after a call that starts no request: it returned, or waits    *)
(* for idleness, or in Flush.                                              *)
LEMMA NotForRunning ==
  ASSUME NEW c, Clients = {c}, pc'[c] \notin WaitsForRunning
  PROVE  RunningComes'
BY DEF RunningComes

LEMMA KeepingTheLock ==
  ASSUME NEW c, Clients = {c}, NEW label, NEW s, Go(c, label, s),
         label \in {"createPause", "deletePause"} => togglePause',
         pc \in [Clients -> Labels]
  PROVE  LockIsKept' /\ pc'[c] = label
<1>1. /\ pc'[c] = label
      /\ \A d \in seen' : d = c /\ Matches(label, s)
      /\ lock' = IF Matches(label, s) THEN c ELSE "nobody"
      /\ Matches(label, s) => c \in seen'
  BY DEF Go
<1>2. Matches(label, s) => label \in Waits
  BY DEF Matches, Waits
<1> QED
  BY <1>1, <1>2 DEF LockIsKept

LEMMA CallsKeepServed ==
  ASSUME Ground, PromptInv, Served, NEW c, Clients = {c}, Faults = {},
         Call(c)
  PROVE  Served'
<1> USE DEF device, queues, pause, buffers, monitor, clients, callUntouched
<1>a. MonitorTypes /\ TypeOK /\ pc \in [Clients -> Labels]
  BY DEF Ground, TypeOK, MonitorTypes, Labels
<1>b. StreamsReady /\ BuffersReturn /\ Unconfigured /\ LockIsKept
  BY DEF Served
<1>c. Enters(c) /\ pc[c] = "out" /\ lock = "nobody"
  BY DEF Call, Enters, CreateStream, CreatePauses, DeletePauses, DeleteCached,
         ConfigureStreams, SubmitRefused, CancelRequest, Flush, WaitUntilIdle,
         SubmitRequestList, ConfigureAndSubmit, Accepts
<1>d. /\ backlog = 0 /\ ~togglePause
      /\ state # "RUNNING" => active = {} /\ paused /\ Empty /\ Drained
      /\ paused => Empty
  BY <1>c, EnteringClient
<1>e. state # "RUNNING" =>
        /\ \A s : ~IsStreamActive(s)
        /\ \A s \in Streams : pending[s] = 0
  BY <1>b, <1>d DEF Empty, Drained, StreamsReady, IsStreamActive, Uses
<1>1. CASE CreateStream(c) \/ DeleteCached(c) \/ CancelRequest(c) \/ Flush(c)
  <2>1. /\ UNCHANGED <<state, current, hpc, buffers, monitor, seen, lock>>
        /\ requests' \in {requests, <<>>} /\ streaming' \in {streaming, <<>>}
        /\ pc'[c] \in {"out", "flush"}
    BY <1>a, <1>c, <1>1
       DEF CreateStream, DeleteCached, CancelRequest, Flush
  <2>2. ASSUME NEW s, IsStreamActive(s)' PROVE IsStreamActive(s)
    BY <2>1, <2>2 DEF IsStreamActive, Uses
  <2>3. StreamsReady'
    <3>1. CASE CreateStream(c)
      BY <1>b, <2>1, <2>2, <3>1 DEF StreamsReady, CreateStream, Busy
    <3>2. CASE CancelRequest(c) \/ Flush(c)
      <4>1. UNCHANGED device
        BY <3>2 DEF CancelRequest, Flush
      <4> QED
        BY <1>b, <2>1, <2>2, <4>1 DEF StreamsReady, Busy
    <3>3. CASE DeleteCached(c)
      <4>1. PICK s \in streams :
              /\ Deletable(s) /\ ~IsStreamActive(s)
              /\ streams' = streams \ {s}
              /\ configured' = configured \ {s}
              /\ reconfig' = (reconfig \/ state # "RUNNING")
        BY <3>3 DEF DeleteCached
      <4>2. pending[s] = 0
        BY <4>1 DEF Deletable
      <4> QED
        BY <1>a, <1>b, <2>1, <2>2, <4>1, <4>2
           DEF StreamsReady, Busy, TypeOK
    <3> QED
      BY <1>1, <3>1, <3>2, <3>3
  <2>4. BuffersReturn' /\ Unconfigured'
    BY <1>b, <2>1 DEF BuffersReturn, Unconfigured, Empty, Busy
  <2>5. RunningComes'
    BY <2>1, NotForRunning DEF WaitsForRunning
  <2>6. LockIsKept'
    <3>1. seen = {}
      BY <1>a, <1>b, <1>c
         DEF LockIsKept, TypeOK, Waits, WaitsForIdle, WaitsForRunning
    <3> QED
      BY <1>c, <2>1, <3>1 DEF LockIsKept
  <2> QED
    BY <2>3, <2>4, <2>5, <2>6 DEF Served
<1>2. CASE CreatePauses(c) \/ DeletePauses(c) \/ WaitUntilIdle(c)
  <2>1. /\ UNCHANGED <<state, device, requests, streaming, current, hpc,
                       buffers, monitor>>
        /\ \E label \in WaitsForIdle :
             /\ Go(c, label, state)
             /\ label \in {"createPause", "deletePause"} => togglePause'
    BY <1>2
       DEF CreatePauses, DeletePauses, WaitUntilIdle, InternalPauseAndWait,
           WaitsForIdle, Go
  <2>2. StreamsReady' /\ BuffersReturn' /\ Unconfigured'
    BY <1>b, <2>1
       DEF StreamsReady, BuffersReturn, Unconfigured, IsStreamActive, Uses,
           Empty, Busy
  <2>3. LockIsKept' /\ pc'[c] \in WaitsForIdle
    BY <1>a, <2>1, KeepingTheLock
  <2>4. RunningComes'
    BY <2>3, NotForRunning DEF WaitsForRunning, WaitsForIdle
  <2> QED
    BY <2>2, <2>3, <2>4 DEF Served
<1>3. CASE ConfigureStreams(c) \/ SubmitRefused(c)
  <2>1. /\ HalConfigures(streams) /\ Go(c, "out", "CONFIGURED")
        /\ UNCHANGED <<streams, callUntouched>>
    BY <1>3 DEF ConfigureStreams, SubmitRefused, HalRefuses
  <2>2. state # "RUNNING" /\ active' = {} /\ state' = "CONFIGURED"
    BY <1>d, <2>1 DEF HalConfigures, CanConfigure, Report, Go
  <2>3. StreamsReady'
    BY <1>b, <1>e, <2>1, <2>2
       DEF StreamsReady, HalConfigures, IsStreamActive, Uses, Busy
  <2>4. BuffersReturn' /\ Unconfigured'
    BY <1>b, <2>1, <2>2 DEF BuffersReturn, Unconfigured
  <2>5. LockIsKept' /\ pc'[c] = "out"
    BY <1>a, <2>1, KeepingTheLock
  <2>6. RunningComes'
    BY <2>5, NotForRunning DEF WaitsForRunning
  <2> QED
    BY <2>3, <2>4, <2>5, <2>6 DEF Served
<1>4. ASSUME NEW list \in Lists, NEW repeating \in BOOLEAN,
             \/ SubmitRequestList(c, list, repeating)
             \/ ConfigureAndSubmit(c, list, repeating)
      PROVE  Served'
  <2>1. /\ Accepts(c, list, repeating)
        /\ UNCHANGED <<streams, current, hpc, togglePause, buffers>>
    BY <1>4 DEF SubmitRequestList, ConfigureAndSubmit, Accepts
  <2>2. ASSUME NEW s \in Streams, IsStreamActive(s)'
        PROVE  IsStreamActive(s) \/ s \in streams
    <3>1. list \in Seq(SUBSET Streams)
      BY ListTypes
    <3>2. Uses(s, list) => s \in streams
      BY <2>1 DEF Accepts, Uses
    <3>3. Uses(s, requests \o list) => Uses(s, requests) \/ Uses(s, list)
      BY <1>a, <3>1, UsesOfJoined DEF TypeOK
    <3>4. \/ requests' = requests \o list /\ streaming' = streaming
          \/ requests' = requests /\ streaming' = list
      BY <2>1 DEF Accepts, Queue
    <3> QED
      BY <2>1, <2>2, <3>2, <3>3, <3>4 DEF IsStreamActive, Uses
  <2>3. /\ IF state = "RUNNING" THEN state' = "RUNNING" /\ ResumeHandler(active)
                                ELSE state' = "CONFIGURED"
        /\ Go(c, "submit", state')
        /\ \E holders : ResumeHandler(holders) /\ holders \subseteq active
    <3>1. CASE SubmitRequestList(c, list, repeating)
      BY <3>1 DEF SubmitRequestList, Go
    <3>2. CASE ConfigureAndSubmit(c, list, repeating)
      BY <3>2 DEF ConfigureAndSubmit, Go, CanConfigure
    <3> QED
      BY <1>4, <3>1, <3>2
  <2>4. StreamsReady'
    <3>1. CASE SubmitRequestList(c, list, repeating)
      <4>1. UNCHANGED <<configured, reconfig>> /\ ~reconfig
        BY <3>1 DEF SubmitRequestList
      <4> QED
        BY <1>b, <2>1, <2>2, <4>1 DEF StreamsReady, Busy
    <3>2. CASE ConfigureAndSubmit(c, list, repeating)
      <4>1. configured' = streams /\ state # "RUNNING"
        BY <3>2 DEF ConfigureAndSubmit, CanConfigure
      <4> QED
        BY <1>b, <1>e, <2>1, <2>2, <4>1 DEF StreamsReady, Busy
    <3> QED
      BY <1>4, <3>1, <3>2
  <2>5. PICK holders : /\ Report(holders \cup {"handler"})
                       /\ holders \subseteq active
    BY <1>d, <2>3 DEF ResumeHandler
  <2>6. /\ active' = holders \cup {"handler"}
        /\ active = {} => backlog' > 0
    BY <1>a, <2>5, ReportCounts
  <2>7. BuffersReturn'
    BY <1>b, <2>1, <2>5, <2>6, DeviceAssumption DEF BuffersReturn
  <2>8. Unconfigured' /\ state' # "NOT_CONFIGURED"
    BY <2>3 DEF Unconfigured
  <2>9. LockIsKept' /\ pc'[c] = "submit"
    BY <1>a, <2>3, KeepingTheLock
  <2>10. RunningComes'
    <3>1. state' = "RUNNING" => c \in seen'
      BY <2>3 DEF Go, Matches, WaitsForRunning
    <3>2. state' # "RUNNING" => state' = "CONFIGURED" /\ backlog' > 0
      BY <1>d, <2>3, <2>6
    <3> QED
      BY <3>1, <3>2 DEF RunningComes
  <2> QED
    BY <2>4, <2>7, <2>8, <2>9, <2>10 DEF Served
<1> QED
  BY <1>1, <1>2, <1>3, <1>4 DEF Call

LEMMA ProceedingKeepsServed ==
  ASSUME Ground, PromptInv, Served, NEW c, Clients = {c}, Faults = {},
         Proceed(c)
  PROVE  Served'
<1> USE DEF device, queues, pause, buffers, monitor, clients, callUntouched
<1>a. MonitorTypes /\ TypeOK /\ pc \in [Clients -> Labels]
  BY DEF Ground, TypeOK, MonitorTypes, Labels
<1>b. /\ StreamsReady /\ BuffersReturn /\ Unconfigured /\ LockIsKept
      /\ Waiting /\ Pauses
  BY DEF Served, PromptInv
<1>1. CASE CreateResumes(c) \/ DeleteResumes(c)
  <2>1. PICK label \in {"createPause", "deletePause"} : Resumes(c, label)
    BY <1>1 DEF CreateResumes, DeleteResumes
  <2>2. /\ state \in {"NOT_CONFIGURED", "CONFIGURED"}
        /\ active = {} /\ backlog = 0 /\ Drained
    BY <2>1, WaitEnded DEF WaitsForIdle
  <2>3. UNCHANGED <<requests, streaming, current, hpc, buffers>>
    BY <1>1 DEF CreateResumes, DeleteResumes
  <2>4. ASSUME NEW s \in Streams, IsStreamActive(s)'
        PROVE  s \in configured /\ s \in streams'
    <3>1. IsStreamActive(s)
      BY <2>3, <2>4 DEF IsStreamActive, Uses
    <3>2. s \in configured /\ s \in streams
      BY <1>a, <1>b, <3>1 DEF StreamsReady, TypeOK
    <3> QED
      BY <1>1, <3>1, <3>2 DEF CreateResumes, DeleteResumes
  <2>5. \A s \in Streams : pending'[s] = 0
    BY <2>2, <2>3 DEF Drained
  <2>6. PICK s \in {"NOT_CONFIGURED", "CONFIGURED"} :
          /\ InternalResume(c, s)
          /\ configured' = streams'
          /\ active' = {} /\ backlog' = 0
          /\ s = "NOT_CONFIGURED" => state = "NOT_CONFIGURED"
    <3>1. CASE ReconfigureAndResume(c, streams')
      <4>1. HalConfigures(streams') /\ InternalResume(c, "CONFIGURED")
        BY <2>2, <3>1
           DEF ReconfigureAndResume, HalRefuses, NotIdle, CanConfigure
      <4> QED
        BY <2>2, <4>1 DEF HalConfigures, Report
    <3>2. CASE /\ InternalResume(c, state) /\ streams' = {}
               /\ configured' = {} /\ UNCHANGED monitor
      BY <2>2, <3>2
    <3> QED
      BY <1>1, <3>1, <3>2 DEF CreateResumes, DeleteResumes
  <2>7. StreamsReady' /\ BuffersReturn'
    BY <1>b, <2>3, <2>4, <2>5, <2>6 DEF StreamsReady, BuffersReturn, Busy
  <2>8. state' = s /\ togglePause' = FALSE
    BY <2>6 DEF InternalResume, Go
  <2>9. Unconfigured'
    BY <1>b, <2>3, <2>6, <2>8 DEF Unconfigured, Empty, Busy
  <2>10. PICK l \in {"out", "resume"} : /\ Go(c, l, s)
                                        /\ l = "resume" => ~Empty
    BY <2>6 DEF InternalResume, Empty
  <2>11. LockIsKept' /\ pc'[c] = l
    BY <1>a, <2>10, KeepingTheLock
  <2>12. RunningComes'
    <3>1. pc'[c] = "resume" =>
            /\ state' = "CONFIGURED" /\ ~Empty' /\ ~togglePause' /\ ~Busy'
      BY <1>b, <2>2, <2>3, <2>6, <2>8, <2>10, <2>11
         DEF Unconfigured, Empty, Drained, Busy
    <3> QED
      BY <2>11, <3>1 DEF RunningComes, WaitsForRunning
  <2> QED
    BY <2>7, <2>9, <2>11, <2>12 DEF Served
<1>2. CASE \/ FlushReturns(c) \/ WaitUntilIdleReturns(c) \/ SubmitReturns(c)
           \/ ResumeReturns(c)
  <2>1. /\ pc' = [pc EXCEPT ![c] = "out"] /\ lock' = "nobody"
        /\ UNCHANGED <<state, device, togglePause, callUntouched, monitor>>
    BY <1>2
       DEF FlushReturns, WaitUntilIdleReturns, SubmitReturns, ResumeReturns,
           Go, Matches, WaitsForRunning, WaitsForIdle
  <2>2. StreamsReady' /\ BuffersReturn' /\ Unconfigured'
    BY <1>b, <2>1
       DEF StreamsReady, BuffersReturn, Unconfigured, IsStreamActive, Uses,
           Empty, Busy
  <2>3. pc'[c] = "out" /\ seen' = {}
    <3>1. CASE FlushReturns(c)
      BY <1>a, <1>b, <2>1, <3>1
         DEF FlushReturns, LockIsKept, TypeOK, Waits, WaitsForIdle,
             WaitsForRunning
    <3>2. CASE \/ WaitUntilIdleReturns(c) \/ SubmitReturns(c)
               \/ ResumeReturns(c)
      <4>1. Go(c, "out", state)
        BY <3>2 DEF WaitUntilIdleReturns, SubmitReturns, ResumeReturns
      <4>2. \A d \in seen' : d = c /\ Matches("out", state)
        BY <4>1 DEF Go
      <4>3. ~Matches("out", state)
        BY DEF Matches, WaitsForIdle, WaitsForRunning
      <4> QED
        BY <1>a, <2>1, <4>2, <4>3
    <3> QED
      BY <1>2, <3>1, <3>2
  <2> QED
    BY <2>1, <2>2, <2>3, NotForRunning DEF Served, LockIsKept, WaitsForRunning
<1>3. ~CreateGivesUp(c) /\ ~DeleteGivesUp(c)
  BY <1>b DEF CreateGivesUp, DeleteGivesUp, Resumes, Waiting
<1> QED
  BY <1>1, <1>2, <1>3 DEF Proceed

LEMMA ServedInvariance ==
  ASSUME Prompt, Ground, PromptInv, Served, [Next]_vars
  PROVE  Served'
<1> USE DEF device, queues, pause, buffers, monitor, clients
<1>1. PICK c : Clients = {c}
  BY DEF Prompt
<1>2. Faults = {}
  BY DEF Prompt
<1>3. CASE UNCHANGED vars
  BY <1>3
     DEF vars, Served, StreamsReady, BuffersReturn, Unconfigured,
         RunningComes, LockIsKept, IsStreamActive, Uses, Busy, Empty
<1>4. CASE NotifyStatus
  BY <1>1, <1>2, <1>4, CallbackKeepsServed
<1>5. CASE HandlerStep
  BY <1>1, <1>2, <1>5, HandlerKeepsServed
<1>6. CASE \E s \in Streams : ReturnStreamBuffer(s) \/ ReturnRefused(s)
  BY <1>1, <1>2, <1>6, ReturnKeepsServed
<1>7. CASE Call(c)
  BY <1>1, <1>2, <1>7, CallsKeepServed
<1>8. CASE Proceed(c)
  BY <1>1, <1>2, <1>8, ProceedingKeepsServed
<1>9. ~SetErrorState /\ ~TimesOut(c)
  BY <1>2 DEF SetErrorState, TimesOut
<1> QED
  BY <1>1, <1>3, <1>4, <1>5, <1>6, <1>7, <1>8, <1>9 DEF Next

LEMMA InitServed == Init => Served
<1> SUFFICES ASSUME Init PROVE Served
  OBVIOUS
<1>1. StreamsReady /\ BuffersReturn
  BY DEF Init, StreamsReady, BuffersReturn, IsStreamActive, Uses, Busy
<1>2. Unconfigured /\ RunningComes /\ LockIsKept
  BY DEF Init, Unconfigured, Empty, Busy, RunningComes, LockIsKept,
         WaitsForRunning
<1> QED
  BY <1>1, <1>2 DEF Served

LEMMA ServedCorrect == Prompt => (Spec => [](Ground /\ PromptInv /\ Served))
<1> SUFFICES ASSUME Prompt PROVE Spec => [](Ground /\ PromptInv /\ Served)
  OBVIOUS
<1>1. Init => Served
  BY InitServed
<1>2. Ground /\ PromptInv /\ Served /\ [Next]_vars => Served'
  BY ServedInvariance
<1> QED
  BY <1>1, <1>2, PromptCorrect, PTL DEF Spec

(* A buffer on its way back is accepted: its stream and the state are such *)
(* that ReturnStreamBuffer returns it, and its last one makes the stream   *)
(* idle.                                                                   *)
Accepted(s) ==
  s \in streams /\ s \in monitored /\ state \in {"CONFIGURED", "RUNNING"}

BuffersAccepted ==
  \A s \in Streams :
    /\ out[s] = pending[s]
    /\ out[s] > 0 => Accepted(s) /\ s \in active

(* What ends the wait of c, besides c: a callback of the monitor that is   *)
(* due, a handler that has yet to pause, to run out of work or to take     *)
(* some, or buffers that are out.                                          *)
WaitEnds(c) ==
  IF pc[c] \in WaitsForIdle
  THEN \/ backlog > 0
       \/ ~paused /\ (togglePause \/ streaming = <<>>)
       \/ \E s \in Streams : out[s] > 0 /\ Accepted(s)
  ELSE backlog > 0 \/ (~Empty /\ ~togglePause /\ ~Busy)

(* Nobody waits in vain: a client neither for the state it waits for, nor  *)
(* for lock_, nor in Flush for a request that nobody submits; the handler  *)
(* neither for a buffer that nobody will return nor, with requests to      *)
(* process, in a pause whose caller is gone.                               *)
NobodyStuck ==
  /\ \A c \in Clients :
       /\ pc[c] \in Waits /\ c \notin seen => WaitEnds(c)
       /\ c \in seen => pc[c] \in Waits /\ lock \in {"nobody", c}
       /\ c \notin seen => lock # c
       /\ pc[c] = "flush" => Busy \/ current = {}
  /\ hpc = "submit" =>
       \A s \in current :
         s \in configured /\ (Available(s) \/ (out[s] > 0 /\ Accepted(s)))
  /\ paused /\ ~Empty /\ togglePause =>
       \E c \in Clients : pc[c] \in {"createPause", "deletePause"}

LEMMA ServedBuffers == Ground /\ PromptInv /\ Served => BuffersAccepted
<1> SUFFICES ASSUME Ground, PromptInv, Served, NEW s \in Streams
             PROVE  /\ out[s] = pending[s]
                    /\ out[s] > 0 => Accepted(s) /\ s \in active
  BY DEF BuffersAccepted
<1>1. out[s] = pending[s]
  BY DEF Served, BuffersReturn
<1>2. ASSUME out[s] > 0 PROVE Accepted(s) /\ s \in active
  <2>1. s \in active /\ s \in configured /\ configured = monitored
    BY <1>1, <1>2 DEF PromptInv, Knows, Served, StreamsReady
  <2>2. s \in streams /\ state \in {"CONFIGURED", "RUNNING"}
    BY <2>1
       DEF Ground, TypeOK, States, PromptInv, Served, Unconfigured
  <2> QED
    BY <2>1, <2>2 DEF Accepted
<1> QED
  BY <1>1, <1>2

(* One client whom nothing fails: no buffer is lost or refused.            *)
THEOREM NoBufferRefused == Prompt => (Spec => []BuffersAccepted)
<1> SUFFICES ASSUME Prompt PROVE Spec => []BuffersAccepted
  OBVIOUS
<1> QED
  BY ServedBuffers, ServedCorrect, PTL

(* No call of such a client and no step of the handler is stuck: the state *)
(* part of CallsReturn and WorkIsServed.                                   *)
THEOREM DeviceIsNotStuck == Prompt => (Spec => []NobodyStuck)
<1> SUFFICES ASSUME Prompt PROVE Spec => []NobodyStuck
  OBVIOUS
<1>1. ASSUME Ground, PromptInv, Served PROVE NobodyStuck
  <2>1. PICK c : Clients = {c}
    BY DEF Prompt
  <2>a. /\ TypeOK /\ WorkIsReported /\ BuffersAccepted
        /\ Pauses /\ Waiting
        /\ StreamsReady /\ BuffersReturn /\ RunningComes /\ LockIsKept
    BY <1>1, ServedBuffers DEF Ground, PromptInv, Served
  <2>2. ASSUME pc[c] \in Waits, c \notin seen PROVE WaitEnds(c)
    <3>1. CASE pc[c] \in WaitsForRunning
      BY <2>a, <2>1, <2>2, <3>1
         DEF RunningComes, WaitEnds, WaitsForRunning, WaitsForIdle
    <3>2. CASE pc[c] \in WaitsForIdle /\ active = {}
      BY <2>a, <2>1, <2>2, <3>2 DEF Waiting, WaitEnds
    <3>3. CASE pc[c] \in WaitsForIdle /\ "handler" \in active
      <4>1. ~paused
        BY <2>a, <3>3 DEF WorkIsReported
      <4>2. togglePause \/ streaming = <<>>
        BY <2>a, <2>1, <3>3 DEF LockIsKept, Waiting, WaitsForIdle
      <4> QED
        BY <3>3, <4>1, <4>2 DEF WaitEnds
    <3>4. ASSUME pc[c] \in WaitsForIdle, NEW s \in active, s # "handler"
          PROVE  WaitEnds(c)
      <4>1. s \in Streams
        BY <2>a, <3>4 DEF TypeOK
      <4>2. out[s] > 0
        BY <2>a, <3>4, <4>1 DEF BuffersReturn
      <4> QED
        BY <2>a, <3>4, <4>1, <4>2 DEF BuffersAccepted, WaitEnds
    <3> QED
      BY <2>2, <3>1, <3>2, <3>3, <3>4 DEF Waits
  <2>3. ASSUME hpc = "submit", NEW s \in current
        PROVE  s \in configured /\ (Available(s) \/ (out[s] > 0 /\ Accepted(s)))
    <3>1. s \in Streams /\ s \in configured
      BY <2>a, <2>3 DEF TypeOK, StreamsReady, IsStreamActive
    <3>2. pending[s] \in Nat /\ pending[s] <= Buffers /\ out[s] = pending[s]
      BY <2>a, <3>1 DEF TypeOK, BuffersAccepted
    <3>3. Available(s) \/ out[s] > 0
      <4>1. Buffers \in Nat \ {0}
        BY DeviceAssumption
      <4> QED
        BY <3>1, <3>2, <4>1 DEF Available
    <3> QED
      BY <2>a, <3>1, <3>3 DEF BuffersAccepted, Accepted
  <2>4. /\ c \in seen => pc[c] \in Waits /\ lock \in {"nobody", c}
        /\ c \notin seen => lock # c
    BY <2>a, <2>1, DeviceAssumption DEF LockIsKept, TypeOK
  <2>5. Busy \/ current = {}
    BY <2>a DEF StreamsReady
  <2>6. paused /\ ~Empty /\ togglePause =>
          \E d \in Clients : pc[d] \in {"createPause", "deletePause"}
    BY <2>a DEF Pauses
  <2> QED
    BY <2>1, <2>2, <2>3, <2>4, <2>5, <2>6 DEF NobodyStuck
<1> QED
  BY <1>1, ServedCorrect, PTL
=============================================================================
