------------------------ MODULE AudioCapture_proofs ------------------------
(***************************************************************************)
(* For any number of buffers: types, the separation of the buffer the card *)
(* is written to from those the gadget reads, the order in which threads,  *)
(* devices and buffers come and go, that no buffer is lost and that nobody *)
(* waits in vain.                                                          *)
(***************************************************************************)
EXTENDS AudioCapture, TLAPS

\* Who lives while the caller is where.
Phases ==
  /\ recording => ctl = "started"
  /\ rec # "none" => ctl \in {"started", "join"} /\ pcm /\ stream
  /\ stream <=> loop # "none"
  /\ ctl = "out" => ~mixer /\ ~pcm /\ ~stream
  /\ ctl \in {"end", "joinStream"} => ~mixer /\ ~pcm /\ stream
  /\ stream /\ ~running => ctl = "joinStream"
  /\ loop = "ended" => ~running /\ msgs = <<>>
  /\ ~stream => msgs = <<>>

\* The last message, and no other, has no buffer; the stream thread holds a
\* buffer only while it handles its message.
Contents ==
  /\ \A i \in 1..Len(msgs) :
       /\ msgs[i][1] = "end" <=> msgs[i][2] = NoBuf
       /\ msgs[i][1] = "end" => ctl = "joinStream"
  /\ loop \notin {"callback", "erase"} => current = NoBuf

Inv == TypeOK /\ Phases /\ Contents /\ BuffersApart

-----------------------------------------------------------------------------
(* Sequences.                                                               *)

LEMMA Appended ==
  ASSUME NEW S, NEW s \in Seq(S), NEW x \in S
  PROVE  /\ Append(s, x) \in Seq(S) /\ Len(Append(s, x)) = Len(s) + 1
         /\ Append(s, x) # <<>> /\ Len(s) \in Nat
         /\ \A i \in 1..Len(s) : Append(s, x)[i] = s[i] /\ i # Len(s) + 1
         /\ Append(s, x)[Len(s) + 1] = x
         /\ \A i \in 1..Len(Append(s, x)) : i \in 1..Len(s) \/ i = Len(s) + 1
<1>1. /\ Append(s, x) \in Seq(S) /\ Len(Append(s, x)) = Len(s) + 1
      /\ Len(s) \in Nat
  OBVIOUS
<1>2. /\ \A i \in 1..Len(s) : Append(s, x)[i] = s[i]
      /\ Append(s, x)[Len(s) + 1] = x
  OBVIOUS
<1>3. Append(s, x) # <<>>
  BY <1>1
<1>4. \A i \in 1..(Len(s) + 1) : i \in 1..Len(s) \/ i = Len(s) + 1
  BY <1>1
<1>5. \A i \in 1..Len(s) : i # Len(s) + 1
  BY <1>1
<1> QED
  BY <1>1, <1>2, <1>3, <1>4, <1>5

LEMMA Tailed ==
  ASSUME NEW S, NEW s \in Seq(S), s # <<>>
  PROVE  /\ Tail(s) \in Seq(S) /\ Head(s) = s[1] /\ Head(s) \in S
         /\ 1 \in 1..Len(s)
         /\ \A i \in 1..Len(Tail(s)) : /\ i + 1 \in 1..Len(s) /\ i + 1 # 1
                                       /\ Tail(s)[i] = s[i + 1] /\ i \in Nat
OBVIOUS

-----------------------------------------------------------------------------
(* Types.                                                                   *)

\* The variables that are flags.
Flags == /\ mixer \in BOOLEAN /\ pcm \in BOOLEAN /\ stream \in BOOLEAN
         /\ recording \in BOOLEAN /\ running \in BOOLEAN /\ missed \in BOOLEAN

LEMMA FlagsPreserved == TypeOK /\ [Next]_vars => Flags'
<1> SUFFICES ASSUME TypeOK, [Next]_vars PROVE Flags'
  OBVIOUS
<1> USE DEF TypeOK, Flags, recVars, streamVars, loopVars
<1>1. CASE StartFails
  <2>1. mixer' \in BOOLEAN /\ pcm' \in BOOLEAN
    <3> PICK opened \in {<<FALSE, FALSE>>, <<TRUE, FALSE>>, <<TRUE, TRUE>>} :
                mixer' = opened[1] /\ pcm' = opened[2]
      BY <1>1, Zenon DEF StartFails
    <3>1. opened[1] \in BOOLEAN /\ opened[2] \in BOOLEAN
      <4>1. CASE opened = <<FALSE, FALSE>>
        BY <4>1
      <4>2. CASE opened = <<TRUE, FALSE>>
        BY <4>2
      <4>3. CASE opened = <<TRUE, TRUE>>
        BY <4>3
      <4> QED
        BY <4>1, <4>2, <4>3
    <3> QED
      BY <3>1, Zenon
  <2> QED
    BY <1>1, <2>1, Zenon DEF StartFails
<1>8. CASE Start \/ Stop
  BY <1>8, Zenon DEF Start, Stop
<1>2. CASE Stopping
  BY <1>2, Zenon DEF Stopping, JoinRecorder, Release, EndStream, JoinStream
<1>3. CASE Recorder \/ SpuriousWake
  BY <1>3, Zenon DEF Recorder, RecTest, GetBuffer, GetBufferFull, WaitForBuffer,
                     SubmitBuffer, ReturnBuffer, SpuriousWake, RecGoto
<1>4. CASE LoopTest \/ OnAudioBuffer \/ EraseBuffer
  BY <1>4, Zenon DEF LoopTest, OnAudioBuffer, EraseBuffer, LoopGoto
<1>5. CASE LoopPop
  BY <1>5, Zenon DEF LoopPop, LoopGoto
<1>6. CASE NotifyAll
  BY <1>6, Zenon DEF NotifyAll, LoopGoto
<1>7. CASE UNCHANGED vars
  BY <1>7, Zenon DEF vars
<1> QED
  BY <1>1, <1>2, <1>3, <1>4, <1>5, <1>6, <1>7, <1>8 DEF Next, Caller, StreamLoop

\* The message that a thread appends, or takes.
LEMMA MessageTypes ==
  /\ \A b \in Bufs : b # NoBuf
  /\ \A b \in Bufs \cup {NoBuf} :
       <<"submit", b>> \in Messages /\ <<"return", b>> \in Messages
  /\ <<"end", NoBuf>> \in Messages
  /\ \A m \in Messages :
       m[1] \in {"submit", "return", "end"} /\ m[2] \in Bufs \cup {NoBuf}
BY AudioAssumption DEF Bufs, NoBuf, Messages

LEMMA TypesPreserved == TypeOK /\ [Next]_vars => TypeOK'
<1> SUFFICES ASSUME TypeOK, [Next]_vars PROVE TypeOK'
  OBVIOUS
<1>0. Flags'
  BY FlagsPreserved
<1> USE DEF recVars, streamVars, loopVars
<1>1. CASE Caller
  BY <1>0, <1>1 DEF TypeOK, Flags, Caller, StartFails, Start, Stop
<1>2. CASE Stopping
  <2>1. ctl = "end" /\ ctl' = "joinStream" /\ msgs' = Append(msgs, <<"end", NoBuf>>)
          => msgs' \in Seq(Messages)
    BY Appended, MessageTypes DEF TypeOK
  <2> QED
    BY <1>0, <1>2, <2>1
       DEF TypeOK, Flags, Stopping, JoinRecorder, Release, EndStream, JoinStream
<1>3. CASE RecTest \/ GetBuffer \/ GetBufferFull \/ WaitForBuffer \/ SpuriousWake
  BY <1>0, <1>3 DEF TypeOK, Flags, RecTest, GetBuffer, GetBufferFull,
                    WaitForBuffer, SpuriousWake, RecGoto
<1>4. CASE SubmitBuffer \/ ReturnBuffer
  <2>1. msgs' \in Seq(Messages)
    <3>1. \/ msgs' = Append(msgs, <<"submit", buffer>>)
          \/ msgs' = Append(msgs, <<"return", buffer>>)
      BY <1>4 DEF SubmitBuffer, ReturnBuffer
    <3>2. <<"submit", buffer>> \in Messages /\ <<"return", buffer>> \in Messages
      BY MessageTypes DEF TypeOK
    <3>3. \A m \in Messages : Append(msgs, m) \in Seq(Messages)
      BY Appended DEF TypeOK
    <3> QED
      BY <3>1, <3>2, <3>3
  <2> QED
    BY <1>0, <1>4, <2>1 DEF TypeOK, Flags, SubmitBuffer, ReturnBuffer, RecGoto
<1>5. CASE LoopTest \/ OnAudioBuffer \/ EraseBuffer \/ NotifyAll
  BY <1>0, <1>5 DEF TypeOK, Flags, LoopTest, OnAudioBuffer, EraseBuffer,
                    NotifyAll, LoopGoto
<1>6. CASE LoopPop
  <2>1. msgs' \in Seq(Messages) /\ current' \in Bufs \cup {NoBuf}
    BY <1>6, Tailed, MessageTypes DEF TypeOK, LoopPop
  <2>2. loop' \in {"callback", "erase", "test"}
    BY <1>6 DEF LoopPop, LoopGoto
  <2> QED
    BY <1>0, <1>6, <2>1, <2>2 DEF TypeOK, Flags, LoopPop, LoopGoto
<1>7. CASE UNCHANGED vars
  BY <1>0, <1>7 DEF TypeOK, Flags, vars
<1> QED
  BY <1>1, <1>2, <1>3, <1>4, <1>5, <1>6, <1>7 DEF Next, Recorder, StreamLoop

LEMMA InitTypes == Init => TypeOK
<1> SUFFICES ASSUME Init PROVE TypeOK
  OBVIOUS
<1>1. Flags
  BY Zenon DEF Init, Flags
<1> QED
  BY <1>1 DEF Init, TypeOK, Flags

\* The types hold for any number of buffers.
THEOREM TypeCorrect == Spec => []TypeOK
BY InitTypes, TypesPreserved, PTL DEF Spec
-----------------------------------------------------------------------------
(* Threads, devices and the stream.                                         *)

LEMMA PhasesPreserved == Inv /\ [Next]_vars => Phases'
<1> SUFFICES ASSUME Inv, [Next]_vars PROVE Phases'
  OBVIOUS
<1> USE DEF Inv, Phases, recVars, streamVars, loopVars
<1>1. CASE StartFails
  BY <1>1 DEF StartFails
<1>2. CASE Start
  BY <1>2 DEF Start
<1>3. CASE Stop
  BY <1>3 DEF Stop
<1>4. CASE JoinRecorder \/ Release
  BY <1>4 DEF JoinRecorder, Release, TypeOK
<1>5. CASE EndStream
  BY <1>5 DEF EndStream
<1>6. CASE JoinStream
  BY <1>6 DEF JoinStream
<1>7. CASE RecTest \/ GetBuffer \/ GetBufferFull \/ WaitForBuffer \/ SpuriousWake
  BY <1>7 DEF RecTest, GetBuffer, GetBufferFull, WaitForBuffer, SpuriousWake,
              RecGoto
<1>8. CASE SubmitBuffer \/ ReturnBuffer
  <2>1. loop # "ended" /\ stream
    BY <1>8 DEF SubmitBuffer, ReturnBuffer, RecGoto
  <2>2. /\ UNCHANGED <<ctl, mixer, pcm, stream, recording, running, loop>>
        /\ rec # "none"
    BY <1>8 DEF SubmitBuffer, ReturnBuffer, RecGoto
  <2> QED
    BY <2>1, <2>2
<1>9. CASE LoopTest \/ OnAudioBuffer \/ EraseBuffer \/ NotifyAll
  BY <1>9 DEF LoopTest, OnAudioBuffer, EraseBuffer, NotifyAll, LoopGoto
<1>10. CASE LoopPop
  <2>1. Head(msgs) = msgs[1] /\ 1 \in 1..Len(msgs)
    BY <1>10, Tailed DEF LoopPop, TypeOK
  <2>2. Head(msgs)[1] = "end" => ctl = "joinStream"
    BY <2>1 DEF Contents
  <2>3. loop = "pop" /\ loop' \in {"callback", "erase", "test"}
    BY <1>10 DEF LoopPop, LoopGoto
  <2>4. /\ UNCHANGED <<ctl, mixer, pcm, stream, recording, rec>>
        /\ running' = (running /\ Head(msgs)[1] # "end")
    BY <1>10 DEF LoopPop, LoopGoto
  <2> QED
    BY <2>2, <2>3, <2>4
<1>11. CASE UNCHANGED vars
  BY <1>11 DEF vars
<1> QED
  BY <1>1, <1>2, <1>3, <1>4, <1>5, <1>6, <1>7, <1>8, <1>9, <1>10, <1>11
     DEF Next, Caller, Stopping, Recorder, StreamLoop

-----------------------------------------------------------------------------
(* Buffers and messages.                                                    *)

Apart == Contents /\ BuffersApart

\* The queue and the buffers it names stay as they are.
LEMMA QuietApart ==
  ASSUME Inv, UNCHANGED <<msgs, current>>,
         ctl = "joinStream" /\ msgs # <<>> => ctl' = "joinStream",
         loop' \in {"callback", "erase"} <=> loop \in {"callback", "erase"},
         \/ inUse' = inUse /\ (rec' = "read" => rec = "read" /\ buffer' = buffer)
         \/ \E b \in Bufs \ inUse :
              inUse' = inUse \cup {b} /\ rec' = "read" /\ buffer' = b
  PROVE  Apart'
<1>1. Contents'
  <2>1. \A i \in 1..Len(msgs) : msgs # <<>>
    BY DEF Inv, TypeOK
  <2> QED
    BY <2>1 DEF Inv, Contents
<1>2. BuffersApart'
  <2>1. CASE inUse' = inUse /\ (rec' = "read" => rec = "read" /\ buffer' = buffer)
    BY <2>1 DEF Inv, BuffersApart, Waiting
  <2>2. ASSUME NEW b \in Bufs \ inUse, inUse' = inUse \cup {b}, rec' = "read",
               buffer' = b
        PROVE  BuffersApart'
    <3>1. b # current
      BY MessageTypes DEF Inv, Contents, BuffersApart
    <3>2. ~Waiting(b)
      BY DEF Inv, BuffersApart
    <3> QED
      BY <2>2, <3>1, <3>2 DEF Inv, BuffersApart, Waiting
  <2> QED
    BY <2>1, <2>2
<1> QED
  BY <1>1, <1>2 DEF Apart

\* A message for buffer b, which is not waiting yet, is queued.
LEMMA AppendApart ==
  ASSUME Inv, NEW m \in Messages, msgs' = Append(msgs, m),
         UNCHANGED <<inUse, current, loop>>, rec' # "read",
         m[1] = "end" <=> m[2] = NoBuf,
         m[1] = "end" => ctl' = "joinStream" /\ ctl # "joinStream",
         m[1] # "end" => m[2] \in inUse /\ m[2] # current /\ ~Waiting(m[2])
                         /\ ctl' = ctl
  PROVE  Apart'
<1>1. /\ Len(msgs') = Len(msgs) + 1
      /\ \A i \in 1..Len(msgs) : msgs'[i] = msgs[i] /\ i # Len(msgs) + 1
      /\ msgs'[Len(msgs) + 1] = m
      /\ \A i \in 1..Len(msgs') : i \in 1..Len(msgs) \/ i = Len(msgs) + 1
  BY Appended DEF Inv, TypeOK
<1>2. \A i \in 1..Len(msgs) : msgs[i][2] # m[2]
  BY DEF Inv, Contents, Waiting
<1>3. Contents'
  BY <1>1 DEF Inv, Contents
<1>4. \A b : Waiting(b)' => Waiting(b) \/ b = m[2]
  BY <1>1 DEF Waiting
<1>5. \A i, j \in 1..Len(msgs') : msgs'[i][2] = msgs'[j][2] => i = j
  BY <1>1, <1>2 DEF Inv, BuffersApart
<1>6. /\ loop' \in {"callback", "erase"} => current' \in inUse' /\ ~Waiting(current)'
      /\ \A b \in Bufs \ inUse' : ~Waiting(b)'
  <2>1. \A b \in Bufs : b # NoBuf
    BY MessageTypes
  <2>2. loop \in {"callback", "erase"} => current \in Bufs /\ current # m[2]
    BY <2>1 DEF Inv, TypeOK, BuffersApart
  <2> QED
    BY <1>4, <2>1, <2>2 DEF Inv, BuffersApart
<1> QED
  BY <1>3, <1>5, <1>6 DEF Apart, BuffersApart

LEMMA PopApart ==
  ASSUME Inv, LoopPop PROVE Apart'
<1>1. /\ Head(msgs) = msgs[1] /\ 1 \in 1..Len(msgs) /\ Head(msgs) \in Messages
      /\ \A i \in 1..Len(msgs') :
           i + 1 \in 1..Len(msgs) /\ i + 1 # 1 /\ msgs'[i] = msgs[i + 1]
           /\ i \in Nat
  BY Tailed DEF LoopPop, Inv, TypeOK
<1>2. /\ UNCHANGED <<ctl, rec, buffer, inUse>> /\ current' = msgs[1][2]
      /\ loop = "pop" /\ loop' \in {"callback", "erase", "test"}
      /\ msgs[1][1] = "end" <=> loop' = "test"
  BY <1>1, MessageTypes DEF LoopPop, LoopGoto
<1>3. Contents'
  BY <1>1, <1>2 DEF Inv, Contents
<1>4. \A b : Waiting(b)' => Waiting(b) /\ b # msgs[1][2]
  BY <1>1 DEF Waiting, Inv, BuffersApart
<1>5. Waiting(msgs[1][2])
  BY <1>1 DEF Waiting
<1>6. \A i, j \in 1..Len(msgs') : msgs'[i][2] = msgs'[j][2] => i = j
  <2> SUFFICES ASSUME NEW i \in 1..Len(msgs'), NEW j \in 1..Len(msgs'),
                      msgs'[i][2] = msgs'[j][2]
               PROVE  i = j
    OBVIOUS
  <2>1. i + 1 = j + 1
    BY <1>1 DEF Inv, BuffersApart
  <2> QED
    BY <1>1, <2>1
<1>7. msgs[1][2] \in Bufs => msgs[1][2] \in inUse
  BY <1>5 DEF Inv, BuffersApart
<1>8. msgs[1][1] # "end" => msgs[1][2] \in Bufs
  BY <1>1, MessageTypes DEF Inv, Contents
<1> QED
  BY <1>2, <1>3, <1>4, <1>5, <1>6, <1>7, <1>8 DEF Apart, Inv, BuffersApart

LEMMA ErasesApart ==
  ASSUME Inv, EraseBuffer PROVE Apart'
<1>1. /\ loop = "erase" /\ loop' = "notify" /\ current' = NoBuf
      /\ inUse' = inUse \ {current} /\ UNCHANGED <<ctl, rec, buffer, msgs>>
  BY DEF EraseBuffer, LoopGoto
<1>2. Contents'
  BY <1>1 DEF Inv, Contents
<1>3. rec = "read" => buffer # NoBuf
  BY MessageTypes DEF Inv, TypeOK, BuffersApart
<1> QED
  BY <1>1, <1>2, <1>3 DEF Apart, Inv, BuffersApart, Waiting

LEMMA ApartPreserved == Inv /\ [Next]_vars => Apart'
<1> SUFFICES ASSUME Inv, [Next]_vars PROVE Apart'
  OBVIOUS
<1> USE DEF recVars, streamVars, loopVars
<1>1. CASE StartFails \/ Start \/ Stop
  <2>1. \/ ctl # "joinStream" /\ loop' \notin {"callback", "erase"}
        \/ loop' = loop
    BY <1>1 DEF StartFails, Start, Stop
  <2>2. Start => loop = "none"
    BY DEF Inv, Phases, Start
  <2> QED
    BY <1>1, <2>1, <2>2, QuietApart DEF StartFails, Start, Stop
<1>2. CASE JoinRecorder \/ Release
  BY <1>2, QuietApart DEF JoinRecorder, Release
<1>3. CASE EndStream
  <2>1. rec # "read"
    BY <1>3 DEF EndStream, Inv, Phases
  <2>2. <<"end", NoBuf>> \in Messages
    BY MessageTypes
  <2> QED
    BY <1>3, <2>1, <2>2, AppendApart DEF EndStream
<1>4. CASE JoinStream
  <2>1. msgs = <<>> /\ msgs' = <<>> /\ loop' = "none" /\ rec' # "read"
        /\ current' = NoBuf /\ inUse' = {}
    BY <1>4 DEF JoinStream, Inv, Phases, Contents
  <2>2. Len(msgs') = 0 /\ 1..0 = {}
    BY <2>1
  <2> QED
    BY <2>1, <2>2 DEF Apart, Contents, BuffersApart, Waiting
<1>5. CASE RecTest \/ GetBuffer \/ GetBufferFull \/ WaitForBuffer \/ SpuriousWake
  BY <1>5, QuietApart DEF RecTest, GetBuffer, GetBufferFull, WaitForBuffer,
                          SpuriousWake, RecGoto
<1>6. CASE SubmitBuffer \/ ReturnBuffer
  <2>1. /\ rec = "read" /\ rec' # "read" /\ UNCHANGED <<inUse, current, loop, ctl>>
        /\ \/ msgs' = Append(msgs, <<"submit", buffer>>)
           \/ msgs' = Append(msgs, <<"return", buffer>>)
    BY <1>6 DEF SubmitBuffer, ReturnBuffer, RecGoto
  <2>2. buffer \in inUse /\ buffer # current /\ ~Waiting(buffer) /\ buffer # NoBuf
    BY <2>1, MessageTypes DEF Inv, TypeOK, BuffersApart
  <2>3. <<"submit", buffer>> \in Messages /\ <<"return", buffer>> \in Messages
    BY MessageTypes DEF Inv, TypeOK
  <2>4. CASE msgs' = Append(msgs, <<"submit", buffer>>)
    BY <2>1, <2>2, <2>3, <2>4, AppendApart
  <2>5. CASE msgs' = Append(msgs, <<"return", buffer>>)
    BY <2>1, <2>2, <2>3, <2>5, AppendApart
  <2> QED
    BY <2>1, <2>4, <2>5
<1>7. CASE LoopTest \/ OnAudioBuffer \/ NotifyAll
  BY <1>7, QuietApart DEF LoopTest, OnAudioBuffer, NotifyAll, LoopGoto
<1>8. CASE UNCHANGED vars
  BY <1>8, QuietApart DEF vars
<1> QED
  BY <1>1, <1>2, <1>3, <1>4, <1>5, <1>6, <1>7, <1>8, PopApart, ErasesApart
     DEF Next, Caller, Stopping, Recorder, StreamLoop

-----------------------------------------------------------------------------
LEMMA InvHolds == Spec => []Inv
<1>1. Init => Inv
  <2> SUFFICES ASSUME Init PROVE Inv
    OBVIOUS
  <2>1. Phases
    BY DEF Init, Phases
  <2>2. Len(msgs) = 0 /\ 1..0 = {}
    BY DEF Init
  <2>3. Contents /\ BuffersApart
    BY <2>2 DEF Init, Contents, BuffersApart, Waiting
  <2> QED
    BY <2>1, <2>3, InitTypes DEF Inv
<1>2. Inv /\ [Next]_vars => Inv'
  BY TypesPreserved, PhasesPreserved, ApartPreserved DEF Inv, Apart
<1> QED
  BY <1>1, <1>2, PTL DEF Spec

\* The card never writes to a buffer that the gadget reads or will read, for
\* any number of buffers.
THEOREM BuffersStayApart == Spec => []BuffersApart
<1>1. Inv => BuffersApart
  BY DEF Inv
<1> QED
  BY <1>1, InvHolds, PTL

\* Card and buffers outlive the threads that use them, and a Stop that has
\* returned leaves nothing behind.
THEOREM ResourcesDoOutliveThreads == Spec => []ResourcesOutliveThreads
<1>1. Inv => ResourcesOutliveThreads
  BY DEF Inv, Phases, ResourcesOutliveThreads
<1> QED
  BY <1>1, InvHolds, PTL

-----------------------------------------------------------------------------
(* No buffer is lost, and nobody waits in vain.  What StopReturns says of   *)
(* fair behaviours rests on these invariants, which need no fairness.       *)

\* A buffer in use is being filled, is queued, or is being delivered.
Accounted ==
  \A b \in inUse : \/ Waiting(b)
                   \/ loop \in {"callback", "erase"} /\ current = b
                   \/ rec = "read" /\ buffer = b

\* Who found every buffer in use and finds none in use now has missed the
\* notification, or it is still to come; the stream thread never waits for a
\* message that nobody sends.
Wakes ==
  /\ rec \in {"unlocked", "wait"} /\ inUse = {} => loop = "notify" \/ missed
  /\ loop = "pop" => running \/ msgs # <<>>
  /\ ctl = "joinStream" /\ running => \E i \in 1..Len(msgs) : msgs[i][1] = "end"

\* The stream thread still has to notify.
NotifyDue ==
  /\ loop \notin {"none", "ended"}
  /\ \/ loop \in {"callback", "erase", "notify"}
     \/ \E i \in 1..Len(msgs) : msgs[i][1] # "end"

WaitAnswered == rec = "wait" => NotifyDue \/ Stranded

\* Stop, or a thread it waits for, can take its next step.
Proceeds ==
  \/ ctl = "join" /\ rec \in {"none", "ended"}
  \/ ctl \in {"release", "end"}
  \/ ctl = "joinStream" /\ loop = "ended"
  \/ rec \in {"test", "get", "unlocked", "read"}
  \/ loop \in {"test", "callback", "erase", "notify"}
  \/ loop = "pop" /\ msgs # <<>>

StopProceeds == ctl \notin {"out", "started"} => Proceeds \/ Stranded

\* What a message queued, and one taken, do to the buffers that wait.
LEMMA WaitsAfterAppend ==
  ASSUME TypeOK, NEW m \in Messages, msgs' = Append(msgs, m)
  PROVE  /\ \A b : Waiting(b)' <=> Waiting(b) \/ b = m[2]
         /\ \A i \in 1..Len(msgs) : i \in 1..Len(msgs') /\ msgs'[i] = msgs[i]
         /\ \E i \in 1..Len(msgs') : msgs'[i] = m
         /\ msgs' # <<>>
<1>1. /\ Len(msgs') = Len(msgs) + 1 /\ msgs' # <<>> /\ Len(msgs) \in Nat
      /\ \A i \in 1..Len(msgs) : msgs'[i] = msgs[i]
      /\ msgs'[Len(msgs) + 1] = m
      /\ \A i \in 1..Len(msgs') : i \in 1..Len(msgs) \/ i = Len(msgs) + 1
  BY Appended DEF TypeOK
<1>2. Len(msgs) + 1 \in 1..Len(msgs') /\ \A i \in 1..Len(msgs) : i \in 1..Len(msgs')
  BY <1>1
<1> QED
  BY <1>1, <1>2 DEF Waiting

LEMMA WaitsAfterTail ==
  ASSUME TypeOK, msgs # <<>>, msgs' = Tail(msgs)
  PROVE  /\ \A b : Waiting(b) => Waiting(b)' \/ b = Head(msgs)[2]
         /\ \A i \in 1..Len(msgs) :
              msgs[i] = Head(msgs) \/ \E j \in 1..Len(msgs') : msgs'[j] = msgs[i]
<1>1. /\ Len(msgs) \in Nat /\ Len(msgs') = Len(msgs) - 1 /\ Head(msgs) = msgs[1]
      /\ \A j \in 1..Len(msgs') : msgs'[j] = msgs[j + 1]
  BY DEF TypeOK
<1>2. ASSUME NEW i \in 1..Len(msgs)
      PROVE  msgs[i] = Head(msgs) \/ \E j \in 1..Len(msgs') : msgs'[j] = msgs[i]
  <2>1. CASE i = 1
    BY <1>1, <2>1
  <2>2. CASE i # 1
    <3>1. i - 1 \in 1..Len(msgs') /\ (i - 1) + 1 = i
      BY <1>1, <2>2
    <3> QED
      BY <1>1, <3>1
  <2> QED
    BY <2>1, <2>2
<1> QED
  BY <1>2 DEF Waiting

Lively == Accounted /\ Wakes

LEMMA LivelyInit == Init => Lively
<1> SUFFICES ASSUME Init PROVE Lively
  OBVIOUS
<1> QED
  BY DEF Init, Lively, Accounted, Wakes

LEMMA LivelyPreserved == Inv /\ Lively /\ [Next]_vars => Lively'
<1> SUFFICES ASSUME Inv, Lively, [Next]_vars PROVE Lively'
  OBVIOUS
<1> USE DEF recVars, streamVars, loopVars
<1>1. CASE StartFails \/ Stop
  BY <1>1 DEF StartFails, Stop, Lively, Accounted, Wakes, Waiting
<1>2. CASE Start
  <2>1. msgs = <<>> /\ \A b : ~Waiting(b)
    BY <1>2 DEF Start, Inv, Phases, TypeOK, Waiting
  <2>2. inUse = {}
    BY <1>2, <2>1 DEF Start, Inv, Phases, Lively, Accounted
  <2> QED
    BY <1>2, <2>1, <2>2 DEF Start, Lively, Accounted, Wakes
<1>3. CASE JoinRecorder \/ Release
  BY <1>3 DEF JoinRecorder, Release, Lively, Accounted, Wakes, Waiting
<1>4. CASE EndStream
  <2>1. <<"end", NoBuf>> \in Messages
    BY MessageTypes
  <2>2. /\ msgs' = Append(msgs, <<"end", NoBuf>>)
        /\ UNCHANGED <<recVars, inUse, loopVars, missed>>
    BY <1>4 DEF EndStream
  <2>3. /\ \A b : Waiting(b) => Waiting(b)'
        /\ \E i \in 1..Len(msgs') : msgs'[i] = <<"end", NoBuf>>
    BY <2>1, <2>2, WaitsAfterAppend DEF Inv
  <2>4. \E i \in 1..Len(msgs') : msgs'[i][1] = "end"
    BY <2>3
  <2>5. msgs' # <<>>
    BY <2>1, <2>2, WaitsAfterAppend DEF Inv
  <2> QED
    BY <2>2, <2>3, <2>4, <2>5 DEF Lively, Accounted, Wakes
<1>5. CASE JoinStream
  <2>1. rec = "none"
    BY <1>5 DEF JoinStream, Inv, Phases
  <2> QED
    BY <1>5, <2>1 DEF JoinStream, Lively, Accounted, Wakes
<1>6. CASE RecTest \/ WaitForBuffer \/ SpuriousWake
  BY <1>6 DEF RecTest, WaitForBuffer, SpuriousWake, RecGoto, Lively, Accounted,
              Wakes, Waiting
<1>7. CASE GetBuffer
  <2>1. PICK b \in Bufs : buffer' = b /\ inUse' = inUse \cup {b}
    BY <1>7 DEF GetBuffer
  <2>2. /\ rec = "get" /\ rec' = "read"
        /\ UNCHANGED <<ctl, loopVars, msgs, missed>>
    BY <1>7 DEF GetBuffer, RecGoto
  <2> QED
    BY <2>1, <2>2 DEF Lively, Accounted, Wakes, Waiting
<1>8. CASE GetBufferFull
  <2>1. inUse' # {}
    BY <1>8, AudioAssumption DEF GetBufferFull, Bufs
  <2> QED
    BY <1>8, <2>1 DEF GetBufferFull, RecGoto, Lively, Accounted, Wakes, Waiting
<1>9. CASE SubmitBuffer \/ ReturnBuffer
  <2>1. \E type \in {"submit", "return"} : msgs' = Append(msgs, <<type, buffer>>)
    BY <1>9 DEF SubmitBuffer, ReturnBuffer
  <2>2. PICK m \in Messages : m[2] = buffer /\ msgs' = Append(msgs, m)
    BY <2>1, MessageTypes DEF Inv, TypeOK
  <2>3. /\ rec = "read" /\ rec' \in {"test", "ended"}
        /\ UNCHANGED <<ctl, loopVars, inUse, missed>>
    BY <1>9 DEF SubmitBuffer, ReturnBuffer, RecGoto
  <2>4. /\ \A b : Waiting(b)' <=> Waiting(b) \/ b = buffer
        /\ \A i \in 1..Len(msgs) : i \in 1..Len(msgs') /\ msgs'[i] = msgs[i]
        /\ msgs' # <<>>
    BY <2>2, WaitsAfterAppend DEF Inv
  <2> QED
    BY <2>3, <2>4 DEF Lively, Accounted, Wakes
<1>10. CASE LoopTest
  <2>1. /\ UNCHANGED <<ctl, rec, buffer, inUse, msgs, running, current, missed>>
        /\ loop = "test" /\ loop' \in {"pop", "ended"}
        /\ loop' = "pop" => running \/ msgs # <<>>
    BY <1>10 DEF LoopTest, LoopGoto
  <2> QED
    BY <2>1 DEF Lively, Accounted, Wakes, Waiting
<1>11. CASE LoopPop
  <2>1. /\ msgs # <<>> /\ msgs' = Tail(msgs) /\ current' = Head(msgs)[2]
        /\ UNCHANGED <<ctl, rec, buffer, inUse, missed>>
        /\ loop = "pop" /\ loop' \in {"callback", "erase", "test"}
        /\ Head(msgs)[1] # "end" => loop' \in {"callback", "erase"}
        /\ running' = (running /\ Head(msgs)[1] # "end")
    BY <1>11, Tailed, MessageTypes DEF LoopPop, LoopGoto, Inv, TypeOK
  <2>2. /\ \A b : Waiting(b) => Waiting(b)' \/ b = Head(msgs)[2]
        /\ \A i \in 1..Len(msgs) :
             msgs[i] = Head(msgs) \/ \E j \in 1..Len(msgs') : msgs'[j] = msgs[i]
    BY <2>1, WaitsAfterTail DEF Inv
  <2>3. Head(msgs)[1] = "end" => Head(msgs)[2] = NoBuf
    BY <2>1, Tailed DEF Inv, Contents, TypeOK
  <2>4. \A b \in inUse : b # NoBuf
    BY MessageTypes DEF Inv, TypeOK
  <2>5. Accounted'
    BY <2>1, <2>2, <2>3, <2>4 DEF Lively, Accounted
  <2>6. ctl' = "joinStream" /\ running' =>
          \E i \in 1..Len(msgs') : msgs'[i][1] = "end"
    BY <2>1, <2>2 DEF Lively, Wakes
  <2>7. inUse = {} => rec \notin {"unlocked", "wait"} \/ missed
    BY <2>1 DEF Lively, Wakes
  <2> QED
    BY <2>1, <2>5, <2>6, <2>7 DEF Lively, Wakes
<1>12. CASE OnAudioBuffer
  BY <1>12 DEF OnAudioBuffer, LoopGoto, Lively, Accounted, Wakes, Waiting
<1>13. CASE EraseBuffer
  BY <1>13 DEF EraseBuffer, LoopGoto, Lively, Accounted, Wakes, Waiting
<1>14. CASE NotifyAll
  <2>1. /\ UNCHANGED <<ctl, buffer, inUse, msgs, running, current>>
        /\ loop = "notify" /\ loop' = "test" /\ missed' = (rec = "unlocked")
        /\ rec' = IF rec = "wait" THEN "get" ELSE rec
    BY <1>14 DEF NotifyAll, LoopGoto
  <2> QED
    BY <2>1 DEF Lively, Accounted, Wakes, Waiting
<1>15. CASE UNCHANGED vars
  BY <1>15 DEF vars, Lively, Accounted, Wakes, Waiting
<1> QED
  BY <1>1, <1>2, <1>3, <1>4, <1>5, <1>6, <1>7, <1>8, <1>9, <1>10, <1>11, <1>12,
     <1>13, <1>14, <1>15 DEF Next, Caller, Stopping, Recorder, StreamLoop

LEMMA LivelyHolds == Spec => [](Inv /\ Lively)
BY InvHolds, LivelyInit, LivelyPreserved, PTL DEF Spec

\* A buffer that was taken is with the card, in the queue or with the gadget,
\* until it is freed: none is ever lost, whatever fails.
THEOREM NoBufferLost == Spec => []Accounted
<1>1. Lively => Accounted
  BY DEF Lively
<1> QED
  BY <1>1, LivelyHolds, PTL

\* With nothing left to notify it, a recording thread that waits has missed
\* the last notification.
LEMMA WaitIsAnswered == Inv /\ Lively => WaitAnswered
<1> SUFFICES ASSUME Inv, Lively, rec = "wait", ~NotifyDue PROVE Stranded
  BY DEF WaitAnswered
<1>1. loop \notin {"none", "ended"} /\ ctl \in {"started", "join"}
  BY DEF Inv, Phases
<1>2. /\ loop \notin {"callback", "erase", "notify"}
      /\ \A i \in 1..Len(msgs) : msgs[i][1] = "end"
  BY <1>1 DEF NotifyDue
<1>3. \A i \in 1..Len(msgs) : FALSE
  BY <1>1, <1>2 DEF Inv, Contents
<1>4. msgs = <<>> /\ \A b : ~Waiting(b)
  BY <1>3 DEF Inv, TypeOK, Waiting
<1>5. inUse = {}
  BY <1>2, <1>4 DEF Lively, Accounted
<1> QED
  BY <1>2, <1>4, <1>5 DEF Lively, Wakes, Stranded

\* The recording thread never waits while nobody will notify it, but for the
\* one notification it can miss.
THEOREM NobodyWaitsInVain == Spec => []WaitAnswered
BY WaitIsAnswered, LivelyHolds, PTL

\* At no point of Stop is everyone waiting for everyone else, but for the
\* notification missed.
THEOREM StopIsNotStuck == Spec => []StopProceeds
<1>1. Inv /\ Lively => StopProceeds
  <2> SUFFICES ASSUME Inv, Lively, ctl \notin {"out", "started"}, ~Proceeds
               PROVE  Stranded
    BY DEF StopProceeds
  <2>1. ctl \in {"join", "joinStream"}
    BY DEF Inv, TypeOK, Proceeds
  <2>2. CASE ctl = "join"
    <3>1. rec = "wait"
      BY <2>2 DEF Inv, TypeOK, Proceeds
    <3>2. ~NotifyDue
      <4>1. loop \notin {"callback", "erase", "notify", "test"}
        BY DEF Proceeds
      <4>2. loop = "pop" => msgs = <<>>
        BY DEF Proceeds
      <4>3. \A i \in 1..Len(msgs) : msgs # <<>>
        BY DEF Inv, TypeOK
      <4> QED
        BY <4>1, <4>2, <4>3 DEF NotifyDue, Inv, TypeOK
    <3> QED
      BY <3>1, <3>2, WaitIsAnswered DEF WaitAnswered
  <2>3. CASE ctl = "joinStream"
    <3>1. stream /\ loop \notin {"none", "ended"}
      BY <2>3 DEF Inv, Phases, Proceeds
    <3>2. loop = "pop" /\ msgs = <<>>
      BY <3>1 DEF Inv, TypeOK, Proceeds
    <3>3. running
      BY <3>2 DEF Lively, Wakes
    <3>4. \A i \in 1..Len(msgs) : FALSE
      BY <3>2
    <3> QED
      BY <2>3, <3>3, <3>4 DEF Lively, Wakes
  <2> QED
    BY <2>1, <2>2, <2>3
<1> QED
  BY <1>1, LivelyHolds, PTL
=============================================================================
