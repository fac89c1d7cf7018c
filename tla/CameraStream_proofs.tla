------------------------- MODULE CameraStream_proofs ------------------------
(***************************************************************************)
(* For any number of buffers and frames: a buffer that is out has one      *)
(* holder, so that the stream implements BufferPool; slots and map agree;  *)
(* a signalled requester finds a buffer.  The last section is about        *)
(* PrepareHandler, whose use of the stream keeps to CameraStream.          *)
(***************************************************************************)
EXTENDS PrepareHandler, FiniteSetTheorems, TLAPS

(* Where nothing can be out or wanted, and what the limit is elsewhere.    *)
Parked ==
  /\ status \in {"INITIALIZED", "CONFIG_ACTIVE"} =>
       waiter = "none" /\ buffers = {}
  /\ status \in {"PREPARE_ACTIVE", "destroyed"} => waiter = "none"
  /\ status \in {"CONFIGURED", "RECONFIG_ACTIVE", "PREPARE_ACTIVE"} =>
       total = ClientMax

(* While the stream is being prepared nothing is out, and what has been    *)
(* counted has been allocated.                                             *)
PreparedExist ==
  status = "PREPARE_ACTIVE" => pending = 0 /\ prepared <= Len(slots)

Inv ==
  /\ TypeOK
  /\ OneHolder
  /\ SlotsMatch
  /\ Parked
  /\ SignalMeansBuffer
  /\ PreparedExist

-----------------------------------------------------------------------------
LEMMA IntervalLength ==
  ASSUME NEW S, NEW s \in Seq(S)
  PROVE  IsFiniteSet(1 .. Len(s)) /\ Cardinality(1 .. Len(s)) = Len(s)
<1> DEFINE n == Len(s)
<1>1. n \in Nat
  OBVIOUS
<1>2. IsFiniteSet(1 .. n) /\ Cardinality(1 .. n) = IF 1 > n THEN 0 ELSE n - 1 + 1
  <2> HIDE DEF n
  <2> QED
    BY <1>1, FS_Interval
<1> QED
  BY <1>1, <1>2

(* A sequence has at most as many elements as places.                      *)
LEMMA RangeBound ==
  ASSUME NEW S, NEW s \in Seq(S)
  PROVE  IsFiniteSet(Range(s)) /\ Cardinality(Range(s)) <= Len(s)
<1>1. s \in Surjection(1 .. Len(s), Range(s))
  BY DEF Surjection, Range
<1>2. Len(s) \in Nat
  OBVIOUS
<1>3. IsFiniteSet(1 .. Len(s)) /\ Cardinality(1 .. Len(s)) = Len(s)
  BY IntervalLength
<1> QED
  BY <1>1, <1>3, FS_Surjection

(* An injective one has exactly as many.                                   *)
LEMMA RangeCardinality ==
  ASSUME NEW S, NEW s \in Seq(S), IsInjective(s)
  PROVE  Cardinality(Range(s)) = Len(s)
<1>1. s \in Bijection(1 .. Len(s), Range(s))
  BY DEF Bijection, Injection, Surjection, Range, IsInjective
<1>2. IsFiniteSet(1 .. Len(s)) /\ Cardinality(1 .. Len(s)) = Len(s)
  BY IntervalLength
<1> QED
  BY <1>1, <1>2, FS_Bijection DEF ExistsBijection

LEMMA TakenFinite ==
  ASSUME TypeOK
  PROVE  IsFiniteSet(Taken) /\ Cardinality(Taken) \in Nat
<1>1. Taken \in SUBSET Handles
  BY DEF TypeOK, Taken
<1> QED
  BY <1>1, StreamAssumption, FS_Subset, FS_CardinalityType

(* What is out and a buffer still free fit the limit together.             *)
LEMMA RoomForOneMore ==
  ASSUME Inv, CanGet, status # "CONFIG_ACTIVE",
         NEW h, Reusable(h) \/ Allocatable(h)
  PROVE  pending + 1 <= total
<1>1. IsFiniteSet(Taken)
  BY TakenFinite DEF Inv
<1>2. /\ IsFiniteSet(Range(slots)) /\ Cardinality(Range(slots)) <= Len(slots)
      /\ Range(slots) = buffers /\ Len(slots) <= total
      /\ Len(slots) \in Nat /\ pending \in Nat /\ total \in Nat
  BY RangeBound, StreamAssumption DEF Inv, SlotsMatch, TypeOK
<1>3. Cardinality(buffers) \in Nat /\ pending = Cardinality(Taken)
  BY <1>2, FS_CardinalityType DEF Inv, OneHolder
<1>4. CASE Reusable(h)
  <2>1. Taken \cup {h} \in SUBSET buffers /\ h \notin Taken
    BY <1>4 DEF Taken, Reusable, Inv, TypeOK
  <2>2. Cardinality(Taken \cup {h}) = pending + 1
    BY <1>1, <1>3, <2>1, FS_AddElement
  <2>3. Cardinality(Taken \cup {h}) <= Cardinality(buffers)
    BY <1>2, <2>1, FS_Subset
  <2> QED
    BY <1>2, <1>3, <2>2, <2>3
<1>5. CASE Allocatable(h)
  <2>1. Taken \in SUBSET buffers
    BY DEF Taken
  <2>2. Cardinality(Taken) <= Cardinality(buffers)
    BY <1>2, <2>1, FS_Subset
  <2> QED
    BY <1>2, <1>3, <1>5, <2>2 DEF Allocatable
<1> QED
  BY <1>4, <1>5

-----------------------------------------------------------------------------
LEMMA InitInv == Init => Inv
<1> SUFFICES ASSUME Init PROVE Inv
  OBVIOUS
<1> USE StreamAssumption DEF Init
<1>1. Taken = {} /\ FramesAtHal = {}
  BY DEF Taken, FramesAtHal
<1>2. TypeOK
  <2>1. slots \in Seq(Handles) /\ Len(slots) = 0
    OBVIOUS
  <2>2. buffersMap \in [Frames -> Handles \cup {"none"}]
    OBVIOUS
  <2>3. /\ pending \in 0 .. ClientMax /\ prepared \in 0 .. ClientMax
        /\ 0 <= ClientMax
    OBVIOUS
  <2> QED
    BY <2>1, <2>2, <2>3 DEF TypeOK, Statuses
<1>3. OneHolder
  BY <1>1, FS_EmptySet DEF OneHolder
<1> QED
  BY <1>2, <1>3 DEF Inv, SlotsMatch, Parked, CanGet, Configuring,
                     SignalMeansBuffer, PreparedExist

(* A free or new buffer goes out to the HAL, in a frame that has none.     *)
LEMMA GetKeeps ==
  ASSUME Inv, NEW f \in Frames, NEW h \in Handles,
         status \notin {"CONFIG_ACTIVE", "PREPARE_ACTIVE"}, f \notin FramesAtHal,
         GetBufferLocked(f, h), waiter' = "none"
  PROVE  Inv'
<1> USE StreamAssumption
<1>1. /\ buffers' = buffers \cup {h} /\ free' = free \ {h}
      /\ buffersMap' = [buffersMap EXCEPT ![f] = h]
      /\ pending' = pending + 1
      /\ slots' = IF h \in buffers THEN slots ELSE Append(slots, h)
      /\ status' = status /\ total' = total /\ monitored' = monitored
      /\ streamActive' = streamActive /\ prepared' = prepared
      /\ atClient' = atClient /\ drained' = drained
      /\ Reusable(h) \/ Allocatable(h)
      /\ CanGet
  BY DEF GetBufferLocked, getUntouched
<1>2. Taken' = Taken \cup {h} /\ h \notin Taken
  BY <1>1 DEF Taken, Reusable, Allocatable, Inv, TypeOK
<1>3. pending' <= total
  BY <1>1, RoomForOneMore DEF Inv, TypeOK
<1>4. /\ FramesAtHal' = FramesAtHal \cup {f}
      /\ \A z \in Frames : buffersMap'[z] = IF z = f THEN h ELSE buffersMap[z]
  BY <1>1 DEF FramesAtHal, Inv, TypeOK
<1>5. h \notin buffers => Len(slots) < total
  BY <1>1 DEF Reusable, Allocatable, Inv, TypeOK
<1>6. slots \in Seq(Handles) /\ Len(slots) \in Nat /\ total \in Nat
      /\ pending \in Nat /\ total <= ClientMax
  BY DEF Inv, TypeOK
<1>7. slots' \in Seq(Handles) /\ Len(slots') <= ClientMax
      /\ Len(slots') >= Len(slots)
  BY <1>1, <1>5, <1>6 DEF Inv, TypeOK
<1>8. TypeOK'
  BY <1>1, <1>3, <1>6, <1>7 DEF Inv, TypeOK, GetBufferLocked
<1>9. OneHolder'
  <2>1. pending' = Cardinality(Taken')
    BY <1>1, <1>2, TakenFinite, FS_AddElement DEF Inv, OneHolder
  <2>2. \A g \in FramesAtHal' : buffersMap'[g] \in Taken' \ atClient'
    BY <1>1, <1>2, <1>4 DEF Inv, OneHolder, FramesAtHal
  <2>3. \A k \in Taken' \ atClient' : \E g \in FramesAtHal' : buffersMap'[g] = k
    <3> SUFFICES ASSUME NEW k \in Taken' \ atClient'
                 PROVE  \E g \in FramesAtHal' : buffersMap'[g] = k
      OBVIOUS
    <3>1. CASE k = h
      BY <1>4, <3>1
    <3>2. CASE k # h
      <4>1. PICK g \in FramesAtHal : buffersMap[g] = k
        BY <1>1, <1>2, <3>2 DEF Inv, OneHolder
      <4> QED
        BY <1>4, <4>1 DEF FramesAtHal
    <3> QED
      BY <3>1, <3>2
  <2>4. \A g, k \in FramesAtHal' : buffersMap'[g] = buffersMap'[k] => g = k
    BY <1>2, <1>4 DEF Inv, OneHolder, FramesAtHal
  <2>5. atClient' \subseteq Taken'
    BY <1>1, <1>2 DEF Inv, OneHolder
  <2> QED
    BY <2>1, <2>2, <2>3, <2>4, <2>5 DEF OneHolder
<1>10. SlotsMatch'
  <2>1. Range(slots) = buffers /\ IsInjective(slots) /\ Len(slots) <= total
    BY <1>1 DEF Inv, SlotsMatch
  <2>2. CASE h \in buffers
    BY <1>1, <2>1, <2>2 DEF SlotsMatch
  <2>3. CASE h \notin buffers
    <3>1. slots' = Append(slots, h)
      BY <1>1, <2>3
    <3>2. Len(slots') = Len(slots) + 1
      BY <1>6, <3>1
    <3>3. \A i \in 1 .. Len(slots') :
            slots'[i] = IF i = Len(slots) + 1 THEN h ELSE slots[i]
      BY <1>6, <3>1
    <3>4. DOMAIN slots = 1 .. Len(slots) /\ DOMAIN slots' = 1 .. Len(slots')
      BY <1>6, <3>1
    <3>5. Range(slots') = Range(slots) \cup {h}
      BY <1>6, <3>2, <3>3, <3>4 DEF Range
    <3>6. IsInjective(slots')
      BY <1>6, <2>1, <2>3, <3>2, <3>3, <3>4 DEF IsInjective, Range
    <3> QED
      BY <1>1, <1>5, <1>6, <2>1, <2>3, <3>2, <3>5, <3>6 DEF SlotsMatch
  <2> QED
    BY <2>2, <2>3
<1>11. Parked' /\ SignalMeansBuffer' /\ PreparedExist'
  <2>1. status # "INITIALIZED"
    BY <1>1 DEF CanGet, Configuring
  <2> QED
    BY <1>1, <1>6, <1>7, <2>1
       DEF Inv, Parked, SignalMeansBuffer, PreparedExist, TypeOK
<1> QED
  BY <1>8, <1>9, <1>10, <1>11 DEF Inv

(* A buffer that is out comes back from the client or, in a frame that the *)
(* HAL never got, from the request handler.                                *)
LEMMA ReturnKeeps ==
  ASSUME Inv, NEW h \in Handles, ReturnBuffer(h),
         \/ /\ h \in atClient
            /\ atClient' = atClient \ {h}
            /\ buffersMap' = buffersMap
         \/ \E f \in FramesAtHal :
              /\ h = buffersMap[f]
              /\ buffersMap' = [buffersMap EXCEPT ![f] = "none"]
              /\ atClient' = atClient
  PROVE  Inv'
<1> USE StreamAssumption
<1>1. /\ status' = status /\ total' = total /\ buffers' = buffers
      /\ slots' = slots /\ monitored' = monitored
      /\ streamActive' = streamActive /\ prepared' = prepared
      /\ free' = free \cup {h} /\ pending' = pending - 1 /\ pending > 0
      /\ waiter' = IF waiter = "waiting" THEN "signalled" ELSE waiter
      /\ h \in buffers
      /\ status \notin {"INITIALIZED", "destroyed"}
  BY DEF ReturnBuffer
<1>2. h \in Taken
  BY DEF Inv, OneHolder
<1>3. Taken' = Taken \ {h}
  BY <1>1, <1>2 DEF Taken
<1>4. buffersMap' \in [Frames -> Handles \cup {"none"}]
      /\ atClient' \subseteq atClient
  BY DEF Inv, TypeOK, FramesAtHal
<1>5. TypeOK'
  BY <1>1, <1>4 DEF Inv, TypeOK, ReturnBuffer
<1>6. pending' = Cardinality(Taken')
  BY <1>1, <1>2, <1>3, TakenFinite, FS_RemoveElement DEF Inv, OneHolder
<1>7. OneHolder'
  <2>1. CASE h \in atClient /\ atClient' = atClient \ {h} /\ buffersMap' = buffersMap
    <3>1. FramesAtHal' = FramesAtHal
      BY <2>1 DEF FramesAtHal
    <3> QED
      BY <1>2, <1>3, <1>6, <2>1, <3>1 DEF Inv, OneHolder
  <2>2. ASSUME NEW f \in FramesAtHal, h = buffersMap[f],
               buffersMap' = [buffersMap EXCEPT ![f] = "none"],
               atClient' = atClient
        PROVE  OneHolder'
    <3>1. /\ FramesAtHal' = FramesAtHal \ {f}
          /\ \A g \in FramesAtHal' : buffersMap'[g] = buffersMap[g]
      BY <2>2 DEF FramesAtHal, Inv, TypeOK
    <3>2. h \notin atClient
      BY <2>2 DEF Inv, OneHolder
    <3>3. \A g \in FramesAtHal' : buffersMap'[g] \in Taken' \ atClient'
      BY <1>3, <2>2, <3>1 DEF Inv, OneHolder
    <3>4. \A k \in Taken' \ atClient' :
            \E g \in FramesAtHal' : buffersMap'[g] = k
      BY <1>3, <2>2, <3>1 DEF Inv, OneHolder
    <3>5. \A g, k \in FramesAtHal' : buffersMap'[g] = buffersMap'[k] => g = k
      BY <3>1 DEF Inv, OneHolder
    <3>6. atClient' \subseteq Taken'
      BY <1>3, <2>2, <3>2 DEF Inv, OneHolder
    <3> QED
      BY <1>6, <3>3, <3>4, <3>5, <3>6 DEF OneHolder
  <2> QED
    BY <2>1, <2>2
<1>8. SlotsMatch' /\ Parked' /\ PreparedExist'
  BY <1>1 DEF Inv, SlotsMatch, Parked, PreparedExist, CanGet, Configuring
<1>9. SignalMeansBuffer'
  BY <1>1 DEF Inv, TypeOK, Parked, SignalMeansBuffer, CanGet, Configuring,
              Statuses
<1> QED
  BY <1>5, <1>7, <1>8, <1>9 DEF Inv

(* The HAL hands a buffer over to the client.                              *)
LEMMA DeliverKeeps ==
  ASSUME Inv, NEW f \in Frames, ReturnBufferToClient(f)
  PROVE  Inv'
<1>1. /\ status' = status /\ total' = total /\ pending' = pending
      /\ buffers' = buffers /\ free' = free /\ slots' = slots
      /\ monitored' = monitored /\ reported' = reported
      /\ prepared' = prepared /\ waiter' = waiter
      /\ streamActive' = TRUE /\ drained' = drained
      /\ f \in FramesAtHal
      /\ atClient' = atClient \cup {buffersMap[f]}
      /\ buffersMap' = [buffersMap EXCEPT ![f] = "none"]
  BY DEF ReturnBufferToClient
<1>2. Taken' = Taken
  BY <1>1 DEF Taken
<1>3. /\ FramesAtHal' = FramesAtHal \ {f}
      /\ \A g \in FramesAtHal' : buffersMap'[g] = buffersMap[g]
  BY <1>1 DEF FramesAtHal, Inv, TypeOK
<1>4. buffersMap[f] \in Taken /\ buffersMap[f] \in Handles
  BY <1>1 DEF Inv, OneHolder, Taken, TypeOK
<1>5. TypeOK'
  BY <1>1, <1>4 DEF Inv, TypeOK
<1>6. OneHolder'
  <2>1. \A g \in FramesAtHal' : buffersMap'[g] \in Taken' \ atClient'
    BY <1>1, <1>2, <1>3 DEF Inv, OneHolder
  <2>2. \A k \in Taken' \ atClient' :
          \E g \in FramesAtHal' : buffersMap'[g] = k
    BY <1>1, <1>2, <1>3 DEF Inv, OneHolder
  <2>3. \A g, k \in FramesAtHal' : buffersMap'[g] = buffersMap'[k] => g = k
    BY <1>3 DEF Inv, OneHolder
  <2>4. atClient' \subseteq Taken' /\ pending' = Cardinality(Taken')
    BY <1>1, <1>2, <1>4 DEF Inv, OneHolder
  <2> QED
    BY <2>1, <2>2, <2>3, <2>4 DEF OneHolder
<1> QED
  BY <1>1, <1>5, <1>6
     DEF Inv, SlotsMatch, Parked, SignalMeansBuffer, PreparedExist, CanGet

(* With nothing out, the buffers may all be freed.                         *)
LEMMA NothingOut ==
  ASSUME Inv, pending = 0
  PROVE  Taken = {} /\ FramesAtHal = {} /\ atClient = {}
<1>1. Taken = {}
  BY TakenFinite, FS_EmptySet DEF Inv, OneHolder
<1> QED
  BY <1>1 DEF Inv, OneHolder

LEMMA EmptyHolds ==
  ASSUME Inv, pending = 0, pending' = 0, UNCHANGED <<buffersMap, atClient>>,
         Taken' = {}
  PROVE  OneHolder'
<1>1. FramesAtHal' = {} /\ atClient' = {}
  BY NothingOut DEF FramesAtHal
<1> QED
  BY <1>1, FS_EmptySet DEF OneHolder

(* Where no buffer changes hands the holders stay.                         *)
LEMMA HoldersStay ==
  ASSUME OneHolder,
         UNCHANGED <<pending, buffersMap, atClient>>, Taken' = Taken
  PROVE  OneHolder'
<1>1. FramesAtHal' = FramesAtHal
  BY DEF FramesAtHal
<1> QED
  BY <1>1 DEF OneHolder

LEMMA PrepareKeeps ==
  ASSUME Inv, NEW h \in Handles, PrepareBuffer(h)
  PROVE  Inv'
<1> USE StreamAssumption
<1>1. /\ buffers' = buffers \cup {h} /\ free' = free \cup {h}
      /\ slots' = Append(slots, h) /\ h \notin buffers
      /\ Len(slots) < total /\ status = "PREPARE_ACTIVE"
      /\ \/ prepared' = prepared + 1 /\ prepared + 1 < total /\ status' = status
         \/ prepared' = 0 /\ status' = "CONFIGURED"
      /\ streamActive' = streamActive
      /\ UNCHANGED prepareUntouched
  BY DEF PrepareBuffer
<1> USE DEF prepareUntouched
<1>2. slots \in Seq(Handles) /\ Len(slots) \in Nat /\ total \in Nat
      /\ total <= ClientMax /\ prepared \in Nat
  BY DEF Inv, TypeOK
<1>3. /\ slots' \in Seq(Handles) /\ Len(slots') = Len(slots) + 1
      /\ DOMAIN slots = 1 .. Len(slots) /\ DOMAIN slots' = 1 .. Len(slots')
      /\ \A i \in 1 .. Len(slots') :
           slots'[i] = IF i = Len(slots) + 1 THEN h ELSE slots[i]
  BY <1>1, <1>2
<1>4. TypeOK'
  BY <1>1, <1>2, <1>3 DEF Inv, TypeOK, Statuses
<1>5. OneHolder'
  <2>1. Taken' = Taken
    BY <1>1 DEF Taken
  <2> QED
    BY <1>1, <2>1, HoldersStay DEF Inv
<1>6. SlotsMatch'
  <2>1. Range(slots) = buffers /\ IsInjective(slots) /\ Len(slots) <= total
    BY <1>1 DEF Inv, SlotsMatch, CanGet
  <2>2. Range(slots') = Range(slots) \cup {h}
    BY <1>2, <1>3 DEF Range
  <2>3. IsInjective(slots')
    BY <1>1, <1>2, <1>3, <2>1 DEF IsInjective, Range
  <2> QED
    BY <1>1, <1>2, <1>3, <2>1, <2>2, <2>3 DEF SlotsMatch
<1>7. Parked' /\ SignalMeansBuffer' /\ PreparedExist'
  BY <1>1, <1>2, <1>3
     DEF Inv, Parked, SignalMeansBuffer, PreparedExist, TypeOK
<1> QED
  BY <1>4, <1>5, <1>6, <1>7 DEF Inv

LEMMA EmptySlots ==
  ASSUME NEW s, s = <<>>
  PROVE  s \in Seq(Handles) /\ Len(s) = 0 /\ Range(s) = {} /\ IsInjective(s)
<1>1. s \in Seq(Handles) /\ Len(s) = 0 /\ DOMAIN s = {}
  OBVIOUS
<1>2. Range(s) = {}
  BY <1>1 DEF Range
<1>3. IsInjective(s)
  BY <1>1 DEF IsInjective
<1> QED
  BY <1>1, <1>2, <1>3

(* Freeing: all the buffers at once, with none out.                        *)
LEMMA ConfigureKeeps ==
  ASSUME Inv, EndConfigure \/ Close \/ Destroy \/ TearDown
  PROVE  Inv'
<1> USE StreamAssumption
<1>0. 0 \in 0 .. ClientMax /\ 0 <= ClientMax
  OBVIOUS
<1>1. CASE EndConfigure
  <2> USE <1>1 DEF EndConfigure
  <2>1. Taken = {} /\ Taken' = {}
    BY DEF Taken, Inv, Parked
  <2>2. pending = 0
    BY <2>1, FS_EmptySet DEF Inv, OneHolder
  <2>3. OneHolder'
    BY <2>1, <2>2, EmptyHolds
  <2>4. slots' \in Seq(Handles) /\ Len(slots') = 0 /\ Range(slots') = {}
        /\ IsInjective(slots')
    BY EmptySlots
  <2>5. TypeOK'
    BY <1>0, <2>4 DEF Inv, TypeOK, Statuses
  <2> QED
    BY <2>3, <2>4, <2>5 DEF Inv, TypeOK, SlotsMatch, Parked,
       SignalMeansBuffer, PreparedExist
<1>2. CASE Close
  <2> USE <1>2 DEF Close, CanClose, configUntouched
  <2>1. OneHolder'
    BY EmptyHolds DEF Taken
  <2>2. TypeOK'
    BY DEF Inv, TypeOK, Statuses
  <2> QED
    BY <2>1, <2>2 DEF Inv, TypeOK, SlotsMatch, Parked, SignalMeansBuffer,
       PreparedExist, CanGet, Configuring
<1>3. CASE Destroy
  <2> USE <1>3 DEF Destroy, CanClose, configUntouched
  <2>1. OneHolder'
    <3>1. CASE CanClose
      BY <3>1, EmptyHolds DEF Taken
    <3>2. CASE ~CanClose
      BY <3>2, HoldersStay DEF Taken, Inv
    <3> QED
      BY <3>1, <3>2
  <2>2. TypeOK'
    BY DEF Inv, TypeOK, Statuses
  <2> QED
    BY <2>1, <2>2 DEF Inv, TypeOK, SlotsMatch, Parked, SignalMeansBuffer,
       PreparedExist, CanGet, Configuring
<1>4. CASE TearDown
  <2> USE <1>4 DEF TearDown, prepareUntouched
  <2>1. Range(slots) = buffers
    BY DEF Inv, SlotsMatch, CanGet
  <2>2. slots = <<>> => buffers = {}
    BY <2>1 DEF Range
  <2>3. buffers' = {} /\ free' = {}
    BY <2>2 DEF Inv, TypeOK
  <2>4. OneHolder'
    BY <2>3, EmptyHolds DEF Taken
  <2>5. slots' \in Seq(Handles) /\ Len(slots') = 0 /\ Range(slots') = {}
        /\ IsInjective(slots')
    BY EmptySlots
  <2>6. TypeOK'
    BY <1>0, <2>3, <2>5 DEF Inv, TypeOK, Statuses
  <2> QED
    BY <2>3, <2>4, <2>5, <2>6 DEF Inv, TypeOK, SlotsMatch, Parked,
       SignalMeansBuffer, PreparedExist
<1> QED
  BY <1>1, <1>2, <1>3, <1>4

(* The steps that touch no buffer.                                         *)
LEMMA StatusKeeps ==
  ASSUME Inv,
         \/ BeginConfigure \/ EndReconfigure \/ AbortConfigure
         \/ BeginPrepare \/ EndPrepare
         \/ StartWait \/ WaitTimesOut
         \/ UNCHANGED vars
  PROVE  Inv'
<1> USE StreamAssumption
<1>1. /\ UNCHANGED <<buffers, free, slots, pending, buffersMap, atClient>>
  BY DEF BeginConfigure, EndReconfigure, AbortConfigure, BeginPrepare,
         EndPrepare, StartWait, WaitTimesOut, vars,
         configUntouched, prepareUntouched, getUntouched
<1>2. OneHolder'
  BY <1>1, HoldersStay DEF Taken, Inv
<1> USE DEF Inv, TypeOK, SlotsMatch, Parked, SignalMeansBuffer, PreparedExist,
            CanGet, Configuring, Statuses, configUntouched, prepareUntouched,
            getUntouched
<1>3. ASSUME BeginConfigure \/ EndReconfigure \/ AbortConfigure PROVE Inv'
  BY <1>2, <1>3 DEF BeginConfigure, EndReconfigure, AbortConfigure
<1>4. ASSUME BeginPrepare \/ EndPrepare PROVE Inv'
  BY <1>2, <1>4 DEF BeginPrepare, EndPrepare
<1>5. ASSUME StartWait \/ WaitTimesOut \/ UNCHANGED vars PROVE Inv'
  BY <1>2, <1>5 DEF StartWait, WaitTimesOut, vars
<1> QED
  BY <1>3, <1>4, <1>5

LEMMA InvPreserved == Inv /\ [Next]_vars => Inv'
<1> SUFFICES ASSUME Inv, [Next]_vars PROVE Inv'
  OBVIOUS
<1>1. ASSUME NEW f \in Frames, NEW h \in Handles,
             GetBuffer(f, h) \/ GetAfterWait(f, h)
      PROVE  Inv'
  <2>1. status \notin {"CONFIG_ACTIVE", "PREPARE_ACTIVE"}
    BY <1>1 DEF GetBuffer, GetAfterWait, Inv, Parked
  <2>2. f \notin FramesAtHal /\ GetBufferLocked(f, h) /\ waiter' = "none"
    BY <1>1 DEF GetBuffer, GetAfterWait
  <2> QED
    BY <2>1, <2>2, GetKeeps
<1>2. ASSUME NEW h \in Handles, ClientReturns(h) PROVE Inv'
  BY <1>2, ReturnKeeps DEF ClientReturns
<1>3. ASSUME NEW f \in Frames, HandleErrorRequest(f) PROVE Inv'
  <2>1. buffersMap[f] \in Handles
    BY <1>3 DEF HandleErrorRequest, FramesAtHal, Inv, TypeOK
  <2> QED
    BY <1>3, <2>1, ReturnKeeps DEF HandleErrorRequest
<1> QED
  BY <1>1, <1>2, <1>3, DeliverKeeps, PrepareKeeps, ConfigureKeeps, StatusKeeps
     DEF Next

LEMMA Invariance == Spec => []Inv
BY InitInv, InvPreserved, PTL DEF Spec

-----------------------------------------------------------------------------
(* The types: in particular pending_buffer_count_ and hw_buffer_allocated_ *)
(* never pass the client's buffer count.                                   *)
THEOREM TypeCorrect == Spec => []TypeOK
<1>1. Inv => TypeOK
  BY DEF Inv
<1> QED
  BY <1>1, Invariance, PTL

(* Every buffer that is out has exactly one holder and is counted once, in *)
(* whatever order the stream is configured, prepared, used and closed.     *)
THEOREM BuffersHaveOneHolder == Spec => []OneHolder
<1>1. Inv => OneHolder
  BY DEF Inv
<1> QED
  BY <1>1, Invariance, PTL

(* The slots list exactly the buffers of the map, each once.               *)
THEOREM SlotsAlwaysMatch == Spec => []SlotsMatch
<1>1. Inv => SlotsMatch
  BY DEF Inv
<1> QED
  BY <1>1, Invariance, PTL

(* The single if around the wait of GetBuffer is enough: whatever happens  *)
(* between the signal and the return of the lock, a buffer can be had.     *)
THEOREM SignalAlwaysMeansBuffer == Spec => []SignalMeansBuffer
<1>1. Inv => SignalMeansBuffer
  BY DEF Inv
<1> QED
  BY <1>1, Invariance, PTL

(* A preparation that runs to its end leaves total buffers allocated and   *)
(* free, whatever the stream had when it began.                            *)
THEOREM PreparationCompletes == Spec => PreparationComplete
<1>1. ASSUME Inv, [Next]_vars, status = "PREPARE_ACTIVE",
             status' = "CONFIGURED", buffers' # buffers
      PROVE  Cardinality(free') = total
  <2>1. PICK h \in Handles : PrepareBuffer(h)
    BY <1>1
       DEF Next, BeginConfigure, EndConfigure, EndReconfigure, AbortConfigure,
           Close, CanClose, Destroy, BeginPrepare, EndPrepare, TearDown,
           ClientReturns, ReturnBuffer, StartWait, WaitTimesOut,
           GetBuffer, GetAfterWait, GetBufferLocked, ReturnBufferToClient,
           HandleErrorRequest, Configuring, configUntouched, prepareUntouched,
           getUntouched, vars
  <2>2. /\ slots' = Append(slots, h) /\ Len(slots) < total
        /\ prepared + 1 >= total /\ total' = total
        /\ free' = free \cup {h} /\ buffers' = buffers \cup {h}
    BY <1>1, <2>1 DEF PrepareBuffer, prepareUntouched, Inv, TypeOK
  <2>3. /\ slots \in Seq(Handles) /\ Len(slots) \in Nat /\ total \in Nat
        /\ prepared \in Nat /\ prepared <= Len(slots)
    BY <1>1, StreamAssumption DEF Inv, TypeOK, PreparedExist
  <2>4. Len(slots') = total
    BY <2>2, <2>3
  <2>5. Inv'
    BY <1>1, InvPreserved
  <2>6. /\ slots' \in Seq(Handles) /\ IsInjective(slots')
        /\ Range(slots') = buffers'
    BY <1>1, <2>5 DEF Inv, TypeOK, SlotsMatch, CanGet
  <2>7. free' = buffers'
    <3>1. Taken = {}
      BY <1>1, NothingOut DEF Inv, PreparedExist
    <3> QED
      BY <1>1, <2>2, <3>1 DEF Taken, Inv, TypeOK
  <2> QED
    BY <2>4, <2>6, <2>7, RangeCardinality
<1>2. Inv /\ [Next]_vars =>
        [status = "PREPARE_ACTIVE" /\ status' = "CONFIGURED"
           /\ buffers' # buffers => Cardinality(free') = total]_vars
  BY <1>1
<1> QED
  BY <1>2, Invariance, PTL DEF Spec, PreparationComplete

-----------------------------------------------------------------------------
(* What the monitor has been told.  A stream being configured has no id,   *)
(* and in a drained device nothing is pending then.                        *)
Monitoring ==
  /\ status \in Configuring => ~monitored
  /\ NeverStuckActive
  /\ drained => /\ status \in Configuring => pending = 0 /\ waiter = "none"
                /\ ReportedTruthfully

LEMMA MonitoringPreserved == Inv /\ Monitoring /\ [Next]_vars => Monitoring'
<1> SUFFICES ASSUME Inv, Monitoring, [Next]_vars PROVE Monitoring'
  OBVIOUS
<1> USE StreamAssumption DEF Monitoring, NeverStuckActive, ReportedTruthfully,
                             Configuring
<1>0. pending \in Nat
  BY DEF Inv, TypeOK
<1>1. ASSUME BeginConfigure \/ EndConfigure \/ EndReconfigure
             \/ AbortConfigure \/ Close \/ Destroy
      PROVE  Monitoring'
  <2>1. CASE BeginConfigure
    BY <1>0, <2>1 DEF BeginConfigure, configUntouched
  <2>2. CASE EndConfigure \/ EndReconfigure \/ AbortConfigure
    BY <1>0, <2>2
       DEF EndConfigure, EndReconfigure, AbortConfigure, configUntouched
  <2>3. CASE Close \/ Destroy
    BY <1>0, <2>3 DEF Close, CanClose, Destroy, configUntouched
  <2> QED
    BY <1>1, <2>1, <2>2, <2>3
<1>2. ASSUME BeginPrepare \/ EndPrepare \/ TearDown
             \/ (\E h \in Handles : PrepareBuffer(h))
      PROVE  Monitoring'
  BY <1>0, <1>2
     DEF BeginPrepare, EndPrepare, TearDown, PrepareBuffer, prepareUntouched
<1>3. ASSUME NEW f \in Frames, NEW h \in Handles,
             GetBuffer(f, h) \/ GetAfterWait(f, h)
      PROVE  Monitoring'
  BY <1>0, <1>3 DEF GetBuffer, GetAfterWait, GetBufferLocked, getUntouched
<1>4. ASSUME NEW h \in Handles, ReturnBuffer(h) PROVE Monitoring'
  BY <1>0, <1>4 DEF ReturnBuffer
<1>5. ASSUME NEW h \in Handles, ClientReturns(h) PROVE Monitoring'
  BY <1>4, <1>5 DEF ClientReturns
<1>6. ASSUME NEW f \in Frames, HandleErrorRequest(f) PROVE Monitoring'
  <2>1. buffersMap[f] \in Handles /\ ReturnBuffer(buffersMap[f])
    BY <1>6 DEF HandleErrorRequest, FramesAtHal, Inv, TypeOK
  <2> QED
    BY <1>4, <2>1
<1>7. ASSUME \/ StartWait \/ WaitTimesOut \/ UNCHANGED vars
             \/ \E f \in Frames : ReturnBufferToClient(f)
      PROVE  Monitoring'
  BY <1>0, <1>7
     DEF StartWait, WaitTimesOut, ReturnBufferToClient, getUntouched,
         vars
<1> QED
  BY <1>1, <1>2, <1>3, <1>5, <1>6, <1>7 DEF Next

LEMMA MonitoringHolds == Spec => []Monitoring
<1>1. Init => Monitoring
  BY DEF Init, Monitoring, NeverStuckActive, ReportedTruthfully, Configuring
<1> QED
  BY <1>1, MonitoringPreserved, Invariance, PTL DEF Spec

(* A stream with nothing pending never keeps the device ACTIVE, not even   *)
(* when it is reconfigured with buffers out.                               *)
THEOREM IsNeverStuckActive == Spec => []NeverStuckActive
<1>1. Monitoring => NeverStuckActive
  BY DEF Monitoring
<1> QED
  BY <1>1, MonitoringHolds, PTL

(* And if it never is, the monitor knows exactly whether a buffer is out.    *)
THEOREM DrainedReportsAreTrue == Spec => []ReportedTruthfully
<1>1. Monitoring => ReportedTruthfully
  BY DEF Monitoring, ReportedTruthfully
<1> QED
  BY <1>1, MonitoringHolds, PTL

-----------------------------------------------------------------------------
(* The stream is a buffer pool: the moves of one handle, as its owner.     *)
poolOwner == [h \in Handles |-> Owner(h)]

OwnerFacts ==
  \A h \in Handles :
    /\ h \notin buffers => Owner(h) = "nobody"
    /\ h \in free => Owner(h) = "stream"
    /\ h \in Taken \ atClient => Owner(h) = "hal"
    /\ h \in atClient => Owner(h) = "client"

LEMMA OwnerIs == Inv => OwnerFacts
BY DEF Owner, OwnerFacts, Inv, TypeOK, OneHolder, Taken

LEMMA OwnerWillBe == Inv' => OwnerFacts'
BY OwnerIs, PTL

(* Only h changes hands.                                                   *)
LEMMA OneMoves ==
  ASSUME NEW h \in Handles,
         \A k \in Handles \ {h} : /\ k \in buffers' <=> k \in buffers
                                  /\ k \in free' <=> k \in free
                                  /\ k \in atClient' <=> k \in atClient
  PROVE  poolOwner' = [poolOwner EXCEPT ![h] = Owner(h)']
<1>1. \A k \in Handles \ {h} : Owner(k)' = Owner(k)
  BY DEF Owner, Taken
<1> QED
  BY <1>1 DEF poolOwner

LEMMA PoolStep ==
  ASSUME Inv, Inv', Next
  PROVE  Pool!Next \/ UNCHANGED poolOwner
<1> USE StreamAssumption, OwnerIs, OwnerWillBe DEF OwnerFacts
<1>1. ASSUME NEW f \in Frames, NEW h \in Handles,
             GetBuffer(f, h) \/ GetAfterWait(f, h)
      PROVE  Pool!Lend(h)
  <2>1. /\ buffers' = buffers \cup {h} /\ free' = free \ {h}
        /\ atClient' = atClient
        /\ Reusable(h) \/ Allocatable(h)
    BY <1>1 DEF GetBuffer, GetAfterWait, GetBufferLocked, getUntouched
  <2>2. Owner(h) \in {"nobody", "stream"}
    BY <2>1 DEF Reusable, Allocatable
  <2>3. h \notin atClient
    BY <2>1 DEF Inv, TypeOK, OneHolder, Taken, Reusable, Allocatable
  <2>4. Owner(h)' = "hal"
    BY <2>1, <2>3 DEF Taken
  <2>5. poolOwner' = [poolOwner EXCEPT ![h] = Owner(h)']
    BY <2>1, OneMoves
  <2> QED
    BY <2>2, <2>4, <2>5 DEF Pool!Lend, Pool!Pass, poolOwner
<1>2. ASSUME NEW h \in Handles, PrepareBuffer(h) PROVE Pool!Preallocate(h)
  <2>1. /\ buffers' = buffers \cup {h} /\ free' = free \cup {h}
        /\ atClient' = atClient /\ h \notin buffers
    BY <1>2 DEF PrepareBuffer, prepareUntouched
  <2>2. Owner(h) = "nobody" /\ Owner(h)' = "stream"
    BY <2>1 DEF Inv, TypeOK
  <2>3. poolOwner' = [poolOwner EXCEPT ![h] = Owner(h)']
    BY <2>1, OneMoves
  <2> QED
    BY <2>2, <2>3 DEF Pool!Preallocate, Pool!Pass, poolOwner
<1>3. ASSUME NEW h \in Handles, ReturnBuffer(h), h \in Taken,
             atClient' \subseteq atClient,
             \A k \in Handles \ {h} : k \in atClient => k \in atClient'
      PROVE  Pool!GiveBack(h)
  <2>1. buffers' = buffers /\ free' = free \cup {h} /\ h \in buffers
    BY <1>3 DEF ReturnBuffer
  <2>2. Owner(h) \in {"hal", "client"} /\ Owner(h)' = "stream"
    BY <1>3, <2>1 DEF Taken
  <2>3. poolOwner' = [poolOwner EXCEPT ![h] = Owner(h)']
    BY <1>3, <2>1, OneMoves
  <2> QED
    BY <2>2, <2>3 DEF Pool!GiveBack, Pool!Pass, poolOwner
<1>4. ASSUME NEW h \in Handles, ClientReturns(h) PROVE Pool!GiveBack(h)
  BY <1>3, <1>4 DEF ClientReturns, Inv, OneHolder
<1>5. ASSUME NEW f \in Frames, HandleErrorRequest(f) PROVE Pool!Next
  <2>1. f \in FramesAtHal /\ buffersMap[f] \in Taken /\ buffersMap[f] \in Handles
    BY <1>5 DEF HandleErrorRequest, FramesAtHal, Inv, OneHolder, TypeOK
  <2>2. Pool!GiveBack(buffersMap[f])
    BY <1>3, <1>5, <2>1 DEF HandleErrorRequest
  <2> QED
    BY <2>1, <2>2 DEF Pool!Next
<1>6. ASSUME NEW f \in Frames, ReturnBufferToClient(f) PROVE Pool!Next
  <2>0. PICK h \in Handles : h = buffersMap[f]
    BY <1>6 DEF ReturnBufferToClient, FramesAtHal, Inv, TypeOK
  <2>1. /\ h \in Taken \ atClient
        /\ buffers' = buffers /\ free' = free
        /\ atClient' = atClient \cup {h}
    BY <1>6, <2>0 DEF ReturnBufferToClient, Inv, OneHolder
  <2>2. Owner(h) = "hal" /\ Owner(h)' = "client"
    BY <2>1 DEF Taken
  <2>3. poolOwner' = [poolOwner EXCEPT ![h] = Owner(h)']
    BY <2>1, OneMoves
  <2>4. Pool!Deliver(h)
    BY <2>1, <2>2, <2>3 DEF Pool!Deliver, Pool!Pass, poolOwner
  <2> QED
    BY <2>1, <2>4 DEF Pool!Next
<1>7. ASSUME buffers' = {}, free' = {}, pending = 0
      PROVE  Pool!Next
  <2>1. Taken = {} /\ atClient = {}
    BY <1>7, NothingOut
  <2>2. \A h \in Handles : Owner(h) \in {"nobody", "stream"}
    BY <2>1 DEF Taken, Inv, TypeOK
  <2>3. \A h \in Handles : Owner(h)' = "nobody"
    BY <1>7
  <2>4. Pool!ReleaseAll
    BY <2>2, <2>3 DEF Pool!ReleaseAll, poolOwner
  <2> QED
    BY <2>4 DEF Pool!Next
<1>8. ASSUME buffers' = buffers, free' = free, atClient' = atClient
      PROVE  UNCHANGED poolOwner
  <2>1. \A h \in Handles : Owner(h)' = Owner(h)
    BY <1>8 DEF Owner, Taken
  <2> QED
    BY <2>1 DEF poolOwner
<1>9. ASSUME EndConfigure \/ Close \/ Destroy \/ TearDown
      PROVE  \/ buffers' = {} /\ free' = {} /\ pending = 0
             \/ buffers' = buffers /\ free' = free /\ atClient' = atClient
  <2>1. ASSUME EndConfigure PROVE pending = 0
    <3>1. Taken = {}
      BY <2>1 DEF EndConfigure, Taken, Inv, Parked
    <3> QED
      BY <3>1, FS_EmptySet DEF Inv, OneHolder
  <2> QED
    BY <1>9, <2>1 DEF EndConfigure, Close, Destroy, TearDown, CanClose,
                      configUntouched, prepareUntouched
<1>10. ASSUME \/ BeginConfigure \/ EndReconfigure \/ AbortConfigure
              \/ BeginPrepare \/ EndPrepare
              \/ StartWait \/ WaitTimesOut
       PROVE  UNCHANGED poolOwner
  BY <1>8, <1>10
     DEF BeginConfigure, EndReconfigure, AbortConfigure, BeginPrepare,
         EndPrepare, StartWait, WaitTimesOut, configUntouched,
         prepareUntouched, getUntouched
<1> QED
  BY <1>1, <1>2, <1>4, <1>5, <1>6, <1>7, <1>8, <1>9, <1>10
     DEF Next, Pool!Next

(* Every behaviour of the stream is one of the pool: a buffer moves only   *)
(* stream -> HAL -> client -> stream, or HAL -> stream for a request that  *)
(* never left, and no memory goes while the HAL or the client has any.     *)
THEOREM ImplementsBufferPool == Spec => ImplementsPool
<1>1. Init => Pool!Init
  <2>1. Init => \A h \in Handles : h \notin buffers
    BY DEF Init
  <2>2. Init => \A h \in Handles : Owner(h) = "nobody"
    BY <2>1, InitInv, OwnerIs DEF OwnerFacts
  <2> QED
    BY <2>2 DEF Pool!Init
<1>2. Inv /\ Inv' /\ [Next]_vars => [Pool!Next]_poolOwner
  <2> SUFFICES ASSUME Inv, Inv', [Next]_vars PROVE [Pool!Next]_poolOwner
    OBVIOUS
  <2>1. CASE Next
    BY <2>1, PoolStep
  <2>2. CASE UNCHANGED vars
    <3>1. \A h \in Handles : Owner(h)' = Owner(h)
      BY <2>2 DEF vars, Owner, Taken
    <3> QED
      BY <3>1 DEF poolOwner
  <2> QED
    BY <2>1, <2>2
<1>3. [Pool!Next]_poolOwner = [Pool!Next]_([h \in Handles |-> Owner(h)])
  BY DEF poolOwner
<1> QED
  BY <1>1, <1>2, <1>3, Invariance, PTL
     DEF Spec, ImplementsPool, Pool!Spec, poolOwner

-----------------------------------------------------------------------------
(* PrepareHandler.                                                         *)

Ids == {"this", "other"}

(* What the strengthening adds: a Prepare that starts a thread has found   *)
(* none, and the stream being prepared is not queued a second time.        *)
Alone ==
  /\ starting # "none" => ~prepareRunning
  /\ current # "none" /\ worker # "report" => current \notin Range(queue)

HandlerInv ==
  /\ HandlerTypeOK
  /\ PreparingIsKnown
  /\ QueueIsServed
  /\ Alone

LEMMA QueueEmpty ==
  ASSUME NEW q, q = <<>>
  PROVE  q \in Seq(Ids) /\ Range(q) = {} /\ IsInjective(q)
<1>1. q \in Seq(Ids) /\ DOMAIN q = {}
  OBVIOUS
<1> QED
  BY <1>1 DEF Range, IsInjective

LEMMA QueueAppend ==
  ASSUME NEW q \in Seq(Ids), NEW s \in Ids
  PROVE  /\ Append(q, s) \in Seq(Ids)
         /\ Append(q, s) # <<>>
         /\ Range(Append(q, s)) = Range(q) \cup {s}
         /\ IsInjective(q) /\ s \notin Range(q) => IsInjective(Append(q, s))
<1> DEFINE a == Append(q, s)
<1>1. /\ a \in Seq(Ids) /\ Len(q) \in Nat /\ Len(a) = Len(q) + 1
      /\ DOMAIN q = 1 .. Len(q) /\ DOMAIN a = 1 .. Len(a)
      /\ \A i \in 1 .. Len(a) : a[i] = IF i = Len(q) + 1 THEN s ELSE q[i]
  OBVIOUS
<1>2. a # <<>>
  BY <1>1
<1> HIDE DEF a
<1>3. Range(a) = Range(q) \cup {s}
  BY <1>1 DEF Range
<1>4. IsInjective(q) /\ s \notin Range(q) => IsInjective(a)
  BY <1>1 DEF Range, IsInjective
<1> QED
  BY <1>1, <1>2, <1>3, <1>4 DEF a

LEMMA QueueTail ==
  ASSUME NEW q \in Seq(Ids), q # <<>>
  PROVE  /\ Tail(q) \in Seq(Ids) /\ Head(q) \in Ids
         /\ Range(q) = Range(Tail(q)) \cup {Head(q)}
         /\ IsInjective(q) => /\ IsInjective(Tail(q))
                              /\ Head(q) \notin Range(Tail(q))
<1> DEFINE t == Tail(q)
<1>1. /\ t \in Seq(Ids) /\ Len(q) \in Nat \ {0} /\ Len(t) = Len(q) - 1
      /\ DOMAIN q = 1 .. Len(q) /\ DOMAIN t = 1 .. Len(t)
      /\ \A i \in 1 .. Len(t) : t[i] = q[i + 1]
      /\ Head(q) = q[1] /\ q[1] \in Ids
  OBVIOUS
<1> HIDE DEF t
<1>2. \A j \in 2 .. Len(q) : j - 1 \in 1 .. Len(t) /\ t[j - 1] = q[j]
  BY <1>1
<1>3. Range(q) = Range(t) \cup {Head(q)}
  <2>1. Range(q) \subseteq Range(t) \cup {Head(q)}
    <3> SUFFICES ASSUME NEW i \in 1 .. Len(q), i # 1
                 PROVE  q[i] \in Range(t)
      BY <1>1 DEF Range
    <3>1. i - 1 \in DOMAIN t /\ t[i - 1] = q[i]
      BY <1>1, <1>2
    <3> QED
      BY <3>1 DEF Range
  <2>2. \A i \in 1 .. Len(t) : i + 1 \in DOMAIN q
    BY <1>1
  <2>3. 1 \in DOMAIN q
    BY <1>1
  <2>4. Head(q) \in Range(q)
    BY <1>1, <2>3 DEF Range
  <2>5. ASSUME NEW i \in 1 .. Len(t) PROVE t[i] \in Range(q)
    BY <1>1, <2>2 DEF Range
  <2>6. Range(t) \subseteq Range(q)
    BY <1>1, <2>5 DEF Range
  <2> QED
    BY <2>1, <2>4, <2>6
<1>4. ASSUME IsInjective(q)
      PROVE  IsInjective(t) /\ Head(q) \notin Range(t)
  <2>1. \A i \in 1 .. Len(t) : i + 1 \in DOMAIN q /\ i + 1 # 1
    BY <1>1
  <2>2. \A i, j \in 1 .. Len(t) : i + 1 = j + 1 => i = j
    BY <1>1
  <2>3. 1 \in DOMAIN q
    BY <1>1
  <2>4. IsInjective(t)
    <3> SUFFICES ASSUME NEW i \in 1 .. Len(t), NEW j \in 1 .. Len(t),
                        t[i] = t[j]
                 PROVE  i = j
      BY <1>1 DEF IsInjective
    <3>1. q[i + 1] = q[j + 1]
      BY <1>1
    <3> QED
      BY <1>4, <2>1, <2>2, <3>1 DEF IsInjective
  <2>5. ASSUME NEW i \in 1 .. Len(t) PROVE t[i] # Head(q)
    <3>1. q[i + 1] # q[1]
      BY <1>4, <2>1, <2>3 DEF IsInjective
    <3> QED
      BY <1>1, <3>1
  <2>6. Head(q) \notin Range(t)
    BY <1>1, <2>5 DEF Range
  <2> QED
    BY <2>4, <2>6
<1> QED
  BY <1>1, <1>3, <1>4 DEF t

(* What the handler's sections do to the streams' statuses.                *)
LEMMA EndOfEnds ==
  ASSUME NEW S, EndOf(S), HandlerTypeOK
  PROVE  /\ status' = IF "this" \in S /\ status = "PREPARE_ACTIVE"
                      THEN "CONFIGURED" ELSE status
         /\ otherPreparing' = (otherPreparing /\ "other" \notin S)
         /\ Next \/ UNCHANGED vars
BY DEF EndOf, EndPrepare, vars, Next, HandlerTypeOK

LEMMA BeginOfBegins ==
  ASSUME NEW s \in Ids, BeginOf(s)
  PROVE  /\ s = "this"  => /\ status # "PREPARE_ACTIVE"
                           /\ status' = "PREPARE_ACTIVE"
                           /\ UNCHANGED otherPreparing
         /\ s = "other" => ~otherPreparing /\ otherPreparing' /\ UNCHANGED status
         /\ Next \/ UNCHANGED vars
BY DEF BeginOf, BeginPrepare, vars, Next, Ids

(* The stream's own steps neither begin nor end a preparation, except that *)
(* one that was stranded ends with its stream.                             *)
LEMMA StreamStepStatus ==
  ASSUME StreamStep
  PROVE  /\ Next /\ UNCHANGED handlerVars
         /\ status' = "PREPARE_ACTIVE" => status = "PREPARE_ACTIVE"
         /\ status = "PREPARE_ACTIVE" =>
              status' = "PREPARE_ACTIVE" \/ ~InHands("this")
<1>1. Next /\ UNCHANGED handlerVars
  BY DEF StreamStep, Next
<1>2. \/ UNCHANGED status
      \/ BeginConfigure \/ EndConfigure \/ EndReconfigure
      \/ AbortConfigure \/ Close
      \/ ~InHands("this") /\ Destroy
  BY DEF StreamStep, TearDown, ClientReturns, StartWait, WaitTimesOut, GetBuffer,
         GetAfterWait, ReturnBufferToClient, HandleErrorRequest, ReturnBuffer,
         GetBufferLocked, prepareUntouched, getUntouched
<1> QED
  BY <1>1, <1>2
     DEF BeginConfigure, EndConfigure, EndReconfigure, AbortConfigure, Close,
         Destroy, CanClose, Configuring

(* Every step of the composition is one of the stream, or leaves it be.    *)
LEMMA HandlerStepIsStreamStep ==
  HandlerTypeOK /\ [HandlerNext]_<<vars, handlerVars>> => [Next]_vars
<1> SUFFICES ASSUME HandlerTypeOK, HandlerNext PROVE [Next]_vars
  BY DEF handlerVars
<1>1. CASE \E s \in Ids : Prepare(s)
  BY <1>1, BeginOfBegins DEF Prepare
<1>2. CASE StartThread \/ StartFails \/ Clear \/ DestroyHandler
  BY <1>2, EndOfEnds
     DEF StartThread, StartFails, Clear, DestroyHandler
<1>3. CASE ThreadStep
  <2>1. CASE PrepareThis
    BY <2>1 DEF PrepareThis, Next
  <2>2. CASE ~PrepareThis
    BY <1>3, <2>2, EndOfEnds
       DEF ThreadStep, TakeStream, OutOfWork, AbortPrepared, GoOn,
           PrepareOther, PrepareFails, EndFailed, ReportPrepared
  <2> QED
    BY <2>1, <2>2
<1>4. CASE StreamStep
  BY <1>4, StreamStepStatus
<1> QED
  BY <1>1, <1>2, <1>3, <1>4 DEF HandlerNext, Ids

LEMMA HandlerInitInv == HandlerInit => HandlerInv
<1> SUFFICES ASSUME HandlerInit PROVE HandlerInv
  OBVIOUS
<1>1. queue = <<>> /\ status = "INITIALIZED"
  BY DEF HandlerInit, Init
<1>2. queue \in Seq(Ids) /\ Range(queue) = {} /\ IsInjective(queue)
  BY <1>1, QueueEmpty
<1> QED
  BY <1>1, <1>2
     DEF HandlerInit, HandlerInv, HandlerTypeOK, PreparingIsKnown, Preparing,
         QueueIsServed, Alone, Working, Ids

(* Everything the invariant reads, when only streams' statuses and the     *)
(* variables named in the proof change.                                    *)
LEMMA PrepareKeepsHandler ==
  ASSUME HandlerInv, NEW s \in Ids, Prepare(s)
  PROVE  HandlerInv'
<1>1. ~Preparing(s) /\ starting = "none"
  BY BeginOfBegins
     DEF Prepare, HandlerInv, PreparingIsKnown, Ids
<1>2. s \notin Range(queue) /\ queue \in Seq(Ids) /\ IsInjective(queue)
  BY <1>1 DEF Preparing, HandlerInv, HandlerTypeOK, PreparingIsKnown, Ids
<1>3. \/ /\ prepareRunning /\ starting' = starting
         /\ queue' \in Seq(Ids) /\ queue' # <<>> /\ IsInjective(queue')
         /\ Range(queue') = Range(queue) \cup {s}
      \/ ~prepareRunning /\ queue' = queue /\ starting' = s
  BY <1>2, QueueAppend DEF Prepare
<1>4. /\ s = "this"  => status' = "PREPARE_ACTIVE" /\ UNCHANGED otherPreparing
      /\ s = "other" => otherPreparing' /\ UNCHANGED status
      /\ otherPreparing' \in BOOLEAN
  BY BeginOfBegins DEF Prepare, BeginOf, HandlerInv, HandlerTypeOK, Ids
<1>5. UNCHANGED <<current, abort, prepareRunning, worker, closing, stranded>>
  BY DEF Prepare
<1>6. HandlerTypeOK'
  BY <1>3, <1>4, <1>5 DEF HandlerInv, HandlerTypeOK, Ids
<1>7. PreparingIsKnown'
  BY <1>1, <1>2, <1>3, <1>4, <1>5
     DEF HandlerInv, PreparingIsKnown, Preparing, Ids
<1>8. QueueIsServed' /\ Alone'
  BY <1>1, <1>2, <1>3, <1>4, <1>5
     DEF HandlerInv, QueueIsServed, Alone, Preparing, Ids
<1> QED
  BY <1>6, <1>7, <1>8 DEF HandlerInv

LEMMA StartKeepsHandler ==
  ASSUME HandlerInv, StartThread \/ StartFails
  PROVE  HandlerInv'
<1>1. queue = <<>> /\ current = "none" /\ starting \in Ids
  BY DEF StartThread, StartFails, HandlerInv, HandlerTypeOK, QueueIsServed, Ids
<1>2. queue \in Seq(Ids) /\ Range(queue) = {} /\ IsInjective(queue)
  BY <1>1, QueueEmpty
<1>3. UNCHANGED <<status, current, otherPreparing, closing>>
  BY DEF StartThread, StartFails, vars
<1>4. CASE StartThread
  <2>1. /\ queue' \in Seq(Ids) /\ queue' # <<>> /\ IsInjective(queue')
        /\ Range(queue') = {starting}
    BY <1>1, <1>2, <1>4, QueueAppend DEF StartThread
  <2>2. HandlerTypeOK' /\ QueueIsServed'
    BY <1>1, <1>3, <1>4, <2>1
       DEF StartThread, HandlerInv, HandlerTypeOK, QueueIsServed, Working, Ids
  <2>3. \A s \in Ids : Preparing(s)' <=> Preparing(s)
    BY <1>1, <1>2, <1>3, <1>4, <2>1 DEF StartThread, Preparing, Ids
  <2>4. PreparingIsKnown'
    BY <1>3, <1>4, <2>1, <2>3
       DEF StartThread, HandlerInv, PreparingIsKnown, Ids
  <2>5. Alone'
    BY <1>1, <1>3, <1>4, <2>1 DEF StartThread, HandlerInv, Alone, Ids
  <2> QED
    BY <2>2, <2>4, <2>5 DEF HandlerInv
<1>5. CASE StartFails
  BY <1>1, <1>2, <1>3, <1>5
     DEF StartFails, HandlerInv, HandlerTypeOK, PreparingIsKnown, Preparing,
         QueueIsServed, Alone, Working, Ids
<1> QED
  BY <1>4, <1>5

LEMMA ClearKeepsHandler ==
  ASSUME HandlerInv, Clear \/ DestroyHandler
  PROVE  HandlerInv'
<1>1. queue' \in Seq(Ids) /\ Range(queue') = {} /\ IsInjective(queue')
      /\ queue' = <<>>
  BY QueueEmpty DEF Clear, DestroyHandler
<1>2. HandlerTypeOK
  BY DEF HandlerInv
<1>3. CASE Clear
  <2>1. /\ status' = IF "this" \in Range(queue) /\ status = "PREPARE_ACTIVE"
                     THEN "CONFIGURED" ELSE status
        /\ otherPreparing' = (otherPreparing /\ "other" \notin Range(queue))
    BY <1>2, <1>3, EndOfEnds DEF Clear
  <2> QED
    BY <1>1, <1>3, <2>1
       DEF Clear, HandlerInv, HandlerTypeOK, PreparingIsKnown, Preparing,
           QueueIsServed, Alone, Working, Ids
<1>4. CASE DestroyHandler
  <2>1. queue = <<>> /\ current = "none"
    BY <1>4 DEF DestroyHandler, HandlerInv, QueueIsServed
  <2>2. Range(queue) \cup {current} = {"none"}
    BY <2>1, QueueEmpty
  <2>3. UNCHANGED <<status, otherPreparing>>
    BY <1>2, <1>4, <2>2, EndOfEnds DEF DestroyHandler, HandlerTypeOK
  <2> QED
    BY <1>1, <1>4, <2>1, <2>3, QueueEmpty
       DEF DestroyHandler, HandlerInv, HandlerTypeOK, PreparingIsKnown,
           Preparing, QueueIsServed, Alone, Working, Ids
<1> QED
  BY <1>3, <1>4

LEMMA ThreadKeepsHandler ==
  ASSUME HandlerInv, ThreadStep
  PROVE  HandlerInv'
<1> USE DEF HandlerInv, HandlerTypeOK, PreparingIsKnown, Preparing,
            QueueIsServed, Alone, Working, Ids, AtTop
<1>1. CASE TakeStream
  <2>1. queue \in Seq(Ids) /\ queue # <<>> /\ IsInjective(queue)
    BY <1>1 DEF TakeStream
  <2>2. /\ queue' \in Seq(Ids) /\ current' \in Ids /\ IsInjective(queue')
        /\ Range(queue) = Range(queue') \cup {current'}
        /\ current' \notin Range(queue')
    BY <1>1, <2>1, QueueTail DEF TakeStream
  <2>3. UNCHANGED status
    BY <1>1 DEF TakeStream, vars
  <2> QED
    BY <1>1, <2>1, <2>2, <2>3 DEF TakeStream
<1>2. CASE OutOfWork
  BY <1>2 DEF OutOfWork, vars
<1>3. CASE AbortPrepared \/ EndFailed
  <2>1. /\ status' = IF current = "this" /\ status = "PREPARE_ACTIVE"
                     THEN "CONFIGURED" ELSE status
        /\ otherPreparing' = (otherPreparing /\ current # "other")
    BY <1>3, EndOfEnds DEF AbortPrepared, EndFailed
  <2> QED
    BY <1>3, <2>1 DEF AbortPrepared, EndFailed, workUntouched
<1>4. CASE GoOn
  BY <1>4 DEF GoOn, vars
<1>7. CASE PrepareFails
  BY <1>7 DEF PrepareFails, workUntouched, vars
<1>8. CASE ReportPrepared
  BY <1>8 DEF ReportPrepared, vars
<1>5. CASE PrepareThis
  BY <1>5 DEF PrepareThis, PrepareBuffer, workUntouched
<1>6. CASE PrepareOther
  BY <1>6 DEF PrepareOther, workUntouched, vars
<1> QED
  BY <1>1, <1>2, <1>3, <1>4, <1>5, <1>6, <1>7, <1>8 DEF ThreadStep

LEMMA HandlerInvPreserved ==
  HandlerInv /\ [HandlerNext]_<<vars, handlerVars>> => HandlerInv'
<1> SUFFICES ASSUME HandlerInv, [HandlerNext]_<<vars, handlerVars>>
             PROVE  HandlerInv'
  OBVIOUS
<1>1. CASE StreamStep
  <2>1. UNCHANGED handlerVars
    BY <1>1, StreamStepStatus
  <2>2. HandlerTypeOK' /\ QueueIsServed' /\ Alone'
    BY <2>1 DEF handlerVars, HandlerInv, HandlerTypeOK, QueueIsServed, Alone
  <2>3. \A s \in Ids : Preparing(s)' <=> Preparing(s)
    BY <2>1 DEF handlerVars, Preparing
  <2>4. Preparing("this") => InHands("this")
    BY DEF Preparing, InHands
  <2>5. PreparingIsKnown'
    BY <1>1, <2>1, <2>3, <2>4, StreamStepStatus
       DEF handlerVars, HandlerInv, PreparingIsKnown, Ids
  <2> QED
    BY <2>2, <2>5 DEF HandlerInv
<1>2. CASE UNCHANGED <<vars, handlerVars>>
  BY <1>2
     DEF vars, handlerVars, HandlerInv, HandlerTypeOK, PreparingIsKnown,
         Preparing, QueueIsServed, Alone
<1> QED
  BY <1>1, <1>2, PrepareKeepsHandler, StartKeepsHandler, ClearKeepsHandler,
     ThreadKeepsHandler
     DEF HandlerNext, Ids

LEMMA HandlerInvariance == HandlerSpec => []HandlerInv
BY HandlerInitInv, HandlerInvPreserved, PTL DEF HandlerSpec

(* The prepare handler calls BeginPrepare, PrepareBuffer and EndPrepare    *)
(* only where CameraStream expects them: everything proved of the stream   *)
(* holds in the composition.                                               *)
THEOREM HandlerKeepsStream == HandlerSpec => Spec
<1>1. HandlerInit => Init
  BY DEF HandlerInit
<1>2. HandlerInv => HandlerTypeOK
  BY DEF HandlerInv
<1> QED
  BY <1>1, <1>2, HandlerInvariance, HandlerStepIsStreamStep, PTL
     DEF HandlerSpec, Spec

(* No stream is left in preparation but by a thread that did not start.    *)
THEOREM PreparingIsAlwaysKnown == HandlerSpec => []PreparingIsKnown
<1>1. HandlerInv => PreparingIsKnown
  BY DEF HandlerInv
<1> QED
  BY <1>1, HandlerInvariance, PTL

(* No accepted stream waits for a thread that has ended.                   *)
THEOREM QueueIsAlwaysServed == HandlerSpec => []QueueIsServed
<1>1. HandlerInv => QueueIsServed
  BY DEF HandlerInv
<1> QED
  BY <1>1, HandlerInvariance, PTL
=============================================================================
