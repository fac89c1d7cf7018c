------------------------ MODULE ResultTracker_proofs ------------------------
(***************************************************************************)
(* For any number of frames and streams, and whatever the HAL sends: no    *)
(* buffer comes back twice, results keep their order.  If the HAL keeps to *)
(* its contract no buffer is lost, and a frame that is not settled is one  *)
(* it still has something to send for; if it has no faults it is never     *)
(* blamed.                                                                 *)
(***************************************************************************)
EXTENDS ResultTracker, FiniteSetTheorems, TLAPS

(* Nothing is known of a frame before it is submitted.                     *)
Fresh ==
  \A f \in Frames : f >= next =>
    /\ f \notin registered
    /\ requests[f] = NewRequest(0)
    /\ returned[f] = {} /\ asked[f] = {} /\ atHal[f] = {}
    /\ f \notin dueShutter /\ f \notin dueMeta

(* buffersRemaining covers what the HAL has (a dropped result makes it     *)
(* exceed it).                                                             *)
Counted == \A f \in Frames : Cardinality(atHal[f]) <= requests[f].remaining

(* An erased request was complete and keeps no buffers.                    *)
Erased ==
  \A f \in Frames \ registered :
    requests[f].remaining = 0 /\ requests[f].pendingBuffers = {}

(* What next_result_frame_number_ and shutterTS say of what was delivered. *)
Delivered ==
  /\ \A i \in 1 .. Len(results) : results[i] < nextResult
  /\ \A f \in Frames : requests[f].shutter => f \in shuttered

Inv ==
  /\ TypeOK
  /\ Fresh
  /\ Counted
  /\ Erased
  /\ ReturnedOnce
  /\ Delivered
  /\ ResultsInOrder

(* Buffers leave the accounts only with a result that is dropped.          *)
Balanced ==
  Honest \/ ~deviceError =>
    \A f \in Frames :
      asked[f] = atHal[f] \cup requests[f].pendingBuffers \cup returned[f]

MetaOnce == Honest => \A f \in dueMeta : ~requests[f].meta

(* Metadata is kept until the shutter and passed on by it, unless all that *)
(* came was inline.                                                        *)
Passed ==
  \A f \in Frames : requests[f].meta => f \in inlineOnly \/
    IF requests[f].shutter
    THEN deviceError \/ \E i \in 1 .. Len(results) : results[i] = f
    ELSE requests[f].pendingMeta

Finished ==
  \A f \in Submitted \ registered :
    requests[f].failed \/ (requests[f].meta /\ requests[f].shutter)

Accounts == Balanced /\ MetaOnce /\ Passed /\ Finished

(* Of a HAL without faults: what it has still to send is what the requests *)
(* have still to get, but for metadata that came by the queue alone, and   *)
(* is later than all that was passed on.                                   *)
InStep ==
  /\ ~deviceError
  /\ nextShutter <= next /\ nextResult <= next
  /\ \A f \in Frames : ~requests[f].failed /\ ~requests[f].badBuffer
  /\ \A f \in Submitted : IF f \in dueMeta THEN ~requests[f].meta
                         ELSE requests[f].meta \/ f \in queueOnly
  /\ \A f \in Submitted : f \in dueShutter <=> ~requests[f].shutter
  /\ \A f \in Frames : requests[f].pendingMeta => requests[f].meta
  /\ \A g \in dueMeta : \A f \in Submitted \ dueMeta : f < g
  /\ \A g \in dueShutter : \A f \in Submitted \ dueShutter : f < g
  /\ \A g \in dueMeta \cup dueShutter : nextResult <= g
  /\ \A g \in dueShutter : nextShutter <= g

Blameless == conduct = "faultless" => InStep

-----------------------------------------------------------------------------
(* What RemovePendingRequestLocked does to the request it is called for.   *)
Settled(f, r, done) ==
  /\ registered' = registered \/ registered' = registered \ {f}
  /\ \A g \in Frames \ {f} :
       requests'[g] = requests[g] /\ returned'[g] = returned[g]
  /\ requests' \in [Frames -> Request]
  /\ returned' \in [Frames -> SUBSET Streams]
  /\ errorRequests' \subseteq Frames
  /\ requests'[f].remaining = r.remaining
  /\ requests'[f].meta = r.meta /\ requests'[f].shutter = r.shutter
  /\ requests'[f].pendingMeta = r.pendingMeta
  /\ requests'[f].failed = r.failed /\ requests'[f].badBuffer = r.badBuffer
  /\ \/ /\ requests'[f].pendingBuffers = r.pendingBuffers
        /\ returned'[f] = done /\ registered' = registered
     \/ /\ requests'[f].pendingBuffers = {}
        /\ returned'[f] = done \cup r.pendingBuffers
  /\ f \notin registered' /\ f \in registered =>
       /\ r.remaining = 0 /\ requests'[f].pendingBuffers = {}
       /\ r.failed \/ (r.meta /\ r.shutter)

LEMMA RemoveSettles ==
  ASSUME TypeOK, NEW f \in Frames, NEW r \in Request, NEW done \in SUBSET Streams,
         RemovePendingRequest(f, r, done)
  PROVE  Settled(f, r, done)
<1>1. CASE Complete(r)
  BY <1>1 DEF RemovePendingRequest, Complete, TypeOK, Request, Settled
<1>2. CASE ~Complete(r)
  BY <1>2 DEF RemovePendingRequest, Complete, TypeOK, Request, Settled
<1> QED
  BY <1>1, <1>2

LEMMA AtHalFinite ==
  ASSUME TypeOK, NEW f \in Frames, NEW bufs \in SUBSET atHal[f]
  PROVE  /\ IsFiniteSet(atHal[f]) /\ IsFiniteSet(bufs)
         /\ Cardinality(atHal[f]) \in Nat /\ Cardinality(bufs) \in Nat
         /\ Cardinality(atHal[f] \ bufs) = Cardinality(atHal[f]) - Cardinality(bufs)
<1>1. IsFiniteSet(atHal[f])
  BY TrackerAssumption, FS_Subset DEF TypeOK
<1>2. IsFiniteSet(bufs)
  BY <1>1, FS_Subset
<1>3. atHal[f] \cap bufs = bufs
  OBVIOUS
<1>4. Cardinality(atHal[f] \ bufs)
        = Cardinality(atHal[f]) - Cardinality(atHal[f] \cap bufs)
  BY <1>1, <1>2, FS_Difference
<1> QED
  BY <1>1, <1>2, <1>3, <1>4, FS_CardinalityType

(* The HAL has nothing of a frame that is not registered.                  *)
LEMMA ErasedIsGone ==
  ASSUME TypeOK, Counted, Erased, NEW f \in Frames \ registered
  PROVE  atHal[f] = {}
<1>1. Cardinality(atHal[f]) <= 0 /\ Cardinality(atHal[f]) \in Nat
  BY AtHalFinite DEF Counted, Erased
<1> QED
  BY <1>1, AtHalFinite, FS_EmptySet

(* The request a result or a shutter turns requests[f] into.               *)
Counting(f, bufs, meta) ==
  [requests[f] EXCEPT !.remaining = @ - Cardinality(bufs), !.meta = @ \/ meta]

Passing(f, bufs, bad, meta) ==
  [Counting(f, bufs, meta) EXCEPT !.failed = @ \/ bad # {}]

Keeping(f, bufs, bad, meta, full) ==
  [Counting(f, bufs, meta) EXCEPT !.pendingBuffers = @ \cup bufs,
                                  !.badBuffer = @ \/ bad # {},
                                  !.pendingMeta = @ \/ full]

Shuttering(f, flushing) ==
  [requests[f] EXCEPT !.shutter = TRUE,
                      !.failed = @ \/ (requests[f].badBuffer /\ ~flushing),
                      !.pendingBuffers = {}]

(* TakeResult after and before the shutter.                                *)
LEMMA TakeResultFacts ==
  ASSUME Inv, NEW f \in Frames, NEW bufs \in SUBSET atHal[f],
         NEW bad \in SUBSET bufs, NEW meta \in BOOLEAN, NEW full \in BOOLEAN,
         TakeResult(f, bufs, bad, meta, full)
  PROVE  /\ f \in registered /\ ~(meta /\ requests[f].meta)
         /\ UNCHANGED <<nextShutter, shuttered>>
         /\ Counting(f, bufs, meta) \in Request
         /\ \/ /\ requests[f].shutter
               /\ Settled(f, Passing(f, bufs, bad, meta), returned[f] \cup bufs)
               /\ SendCaptureResult(f, full)
               /\ deviceError' = (deviceError \/ OutOfOrder(f, full))
            \/ /\ ~requests[f].shutter
               /\ Settled(f, Keeping(f, bufs, bad, meta, full), returned[f])
               /\ UNCHANGED <<results, nextResult, deviceError>>
<1>1. requests[f].remaining - Cardinality(bufs) \in Nat
  <2>1. requests[f].remaining \in Nat
    BY DEF Inv, TypeOK, Request
  <2>2. Cardinality(atHal[f]) <= requests[f].remaining
    BY DEF Inv, Counted
  <2>3. /\ Cardinality(atHal[f]) \in Nat /\ Cardinality(bufs) \in Nat
        /\ Cardinality(atHal[f] \ bufs) = Cardinality(atHal[f]) - Cardinality(bufs)
    BY AtHalFinite DEF Inv
  <2>4. Cardinality(atHal[f] \ bufs) \in Nat
    <3>1. atHal[f] \ bufs \in SUBSET atHal[f]
      OBVIOUS
    <3> QED
      BY <3>1, AtHalFinite DEF Inv
  <2> QED
    BY <2>1, <2>2, <2>3, <2>4
<1>2. Counting(f, bufs, meta) \in Request
  <2>1. requests[f] \in Request
    BY DEF Inv, TypeOK
  <2> QED
    BY <1>1, <2>1 DEF Counting, Request
<1>3. /\ Passing(f, bufs, bad, meta) \in Request
      /\ Keeping(f, bufs, bad, meta, full) \in Request
  <2>1. bufs \subseteq Streams
    BY DEF Inv, TypeOK
  <2> QED
    BY <1>2, <2>1 DEF Passing, Keeping, Request
<1>4. returned[f] \in SUBSET Streams /\ returned[f] \cup bufs \in SUBSET Streams
  BY DEF Inv, TypeOK
<1>5. CASE requests[f].shutter
  <2>1. RemovePendingRequest(f, Passing(f, bufs, bad, meta), returned[f] \cup bufs)
    BY <1>5 DEF TakeResult, Passing, Counting
  <2>2. Settled(f, Passing(f, bufs, bad, meta), returned[f] \cup bufs)
    BY <2>1, <1>3, <1>4, RemoveSettles DEF Inv
  <2> QED
    BY <2>2, <1>2, <1>5 DEF TakeResult
<1>6. CASE ~requests[f].shutter
  <2>1. RemovePendingRequest(f, Keeping(f, bufs, bad, meta, full), returned[f])
    BY <1>6 DEF TakeResult, Keeping, Counting
  <2>2. Settled(f, Keeping(f, bufs, bad, meta, full), returned[f])
    BY <2>1, <1>3, <1>4, RemoveSettles DEF Inv
  <2> QED
    BY <2>2, <1>2, <1>6 DEF TakeResult
<1> QED
  BY <1>5, <1>6

LEMMA TakeShutterFacts ==
  ASSUME Inv, NEW f \in Frames, NEW flushing \in BOOLEAN, TakeShutter(f, flushing)
  PROVE  /\ f \in registered
         /\ f >= nextShutter /\ nextShutter' = f + 1
         /\ shuttered' = shuttered \cup {f}
         /\ Settled(f, Shuttering(f, flushing),
                    returned[f] \cup requests[f].pendingBuffers)
         /\ SendCaptureResult(f, requests[f].pendingMeta)
         /\ deviceError' = (deviceError \/ OutOfOrder(f, requests[f].pendingMeta))
<1>1. requests[f] \in Request /\ returned[f] \in SUBSET Streams
  BY DEF Inv, TypeOK
<1>2. Shuttering(f, flushing) \in Request
  BY <1>1 DEF Shuttering, Request
<1>3. returned[f] \cup requests[f].pendingBuffers \in SUBSET Streams
  BY <1>1 DEF Request
<1>4. RemovePendingRequest(f, Shuttering(f, flushing),
                           returned[f] \cup requests[f].pendingBuffers)
  BY DEF TakeShutter, Shuttering
<1>5. Settled(f, Shuttering(f, flushing),
              returned[f] \cup requests[f].pendingBuffers)
  BY <1>2, <1>3, <1>4, RemoveSettles DEF Inv
<1> QED
  BY <1>5 DEF TakeShutter

(* A result that is sent comes after all the others.                       *)
LEMMA SendKeepsOrder ==
  ASSUME TypeOK, ResultsInOrder, \A i \in 1 .. Len(results) : results[i] < nextResult,
         NEW f \in Frames, NEW send \in BOOLEAN, SendCaptureResult(f, send),
         shuttered \subseteq shuttered', send => f \in shuttered'
  PROVE  /\ results' \in Seq(Frames) /\ nextResult' \in 0 .. MaxFrame
         /\ ResultsInOrder'
         /\ \A i \in 1 .. Len(results') : results'[i] < nextResult'
         /\ \A i \in 1 .. Len(results) :
              \E j \in 1 .. Len(results') : results'[j] = results[i]
         /\ send => OutOfOrder(f, send)
                    \/ \E j \in 1 .. Len(results') : results'[j] = f
<1>0. /\ results \in Seq(Frames) /\ nextResult \in 0 .. MaxFrame
      /\ MaxFrame \in Nat /\ f \in 0 .. MaxFrame - 1
      /\ \A i \in 1 .. Len(results) : results[i] \in Frames
  BY TrackerAssumption DEF TypeOK, Frames
<1>1. CASE send /\ f >= nextResult
  <2>1. results' = Append(results, f) /\ nextResult' = f + 1
    BY <1>1 DEF SendCaptureResult
  <2>2. /\ Len(results') = Len(results) + 1
        /\ \A i \in 1 .. Len(results) : results'[i] = results[i]
        /\ results'[Len(results) + 1] = f
        /\ Len(results) \in Nat
    BY <2>1, <1>0
  <2>3. \A i \in 1 .. Len(results) : results[i] < f /\ results[i] \in Int
    BY <1>0, <1>1 DEF Frames
  <2>4. \A i, j \in 1 .. Len(results') : i < j => results'[i] < results'[j]
    <3> SUFFICES ASSUME NEW i \in 1 .. Len(results'), NEW j \in 1 .. Len(results'), i < j
                 PROVE  results'[i] < results'[j]
      OBVIOUS
    <3>1. i \in 1 .. Len(results)
      BY <2>2
    <3>2. CASE j \in 1 .. Len(results)
      BY <3>1, <3>2, <2>2 DEF ResultsInOrder
    <3>3. CASE j = Len(results) + 1
      BY <3>1, <3>3, <2>2, <2>3
    <3> QED
      BY <3>2, <3>3, <2>2
  <2>5. \A i \in 1 .. Len(results') : results'[i] \in shuttered'
    BY <2>2, <1>1 DEF ResultsInOrder
  <2>6. \A i \in 1 .. Len(results') : results'[i] < nextResult'
    BY <2>1, <2>2, <2>3, <1>0
  <2>7. \A i \in 1 .. Len(results) :
          \E j \in 1 .. Len(results') : results'[j] = results[i]
    BY <2>2
  <2>8. \E j \in 1 .. Len(results') : results'[j] = f
    BY <2>2
  <2>9. results' \in Seq(Frames) /\ nextResult' \in 0 .. MaxFrame
    BY <2>1, <1>0
  <2> QED
    BY <2>4, <2>5, <2>6, <2>7, <2>8, <2>9 DEF ResultsInOrder
<1>2. CASE ~(send /\ f >= nextResult)
  <2>1. results' = results /\ nextResult' = nextResult
    BY <1>2 DEF SendCaptureResult
  <2>2. send => OutOfOrder(f, send)
    BY <1>0, <1>2 DEF OutOfOrder
  <2> QED
    BY <2>1, <2>2, <1>0 DEF ResultsInOrder
<1> QED
  BY <1>1, <1>2

(* Of the buffers that come bufs are taken from the HAL, and whatever the  *)
(* request holds or has returned grows by just these.                      *)
LEMMA SettledBuffers ==
  ASSUME Inv, NEW f \in Frames, f \in registered, NEW bufs \in SUBSET atHal[f],
         NEW r \in Request, NEW done \in SUBSET Streams, Settled(f, r, done),
         done \cap r.pendingBuffers = {},
         done \cup r.pendingBuffers
           = returned[f] \cup requests[f].pendingBuffers \cup bufs,
         r.remaining = requests[f].remaining - Cardinality(bufs),
         atHal' = [atHal EXCEPT ![f] = @ \ bufs]
  PROVE  /\ Counted' /\ Erased' /\ ReturnedOnce'
         /\ returned'[f] \cup requests'[f].pendingBuffers
              = returned[f] \cup requests[f].pendingBuffers \cup bufs
<1>1. returned'[f] \cup requests'[f].pendingBuffers = done \cup r.pendingBuffers
  BY DEF Settled
<1>2. returned'[f] \cap requests'[f].pendingBuffers = {}
  BY DEF Settled
<1>3. Counted'
  <2>1. atHal'[f] = atHal[f] \ bufs /\ \A g \in Frames \ {f} : atHal'[g] = atHal[g]
    BY DEF Inv, TypeOK
  <2>2. Cardinality(atHal'[f]) = Cardinality(atHal[f]) - Cardinality(bufs)
    BY <2>1, AtHalFinite DEF Inv
  <2>3. /\ Cardinality(atHal[f]) \in Nat /\ Cardinality(bufs) \in Nat
        /\ Cardinality(atHal[f]) <= requests[f].remaining
        /\ requests[f].remaining \in Nat
    BY AtHalFinite DEF Inv, TypeOK, Request, Counted
  <2>4. Cardinality(atHal'[f]) <= requests'[f].remaining
    BY <2>2, <2>3 DEF Settled
  <2> QED
    BY <2>1, <2>4 DEF Settled, Inv, Counted
<1>4. Erased'
  BY DEF Settled, Inv, Erased, TypeOK
<1>5. ReturnedOnce'
  BY <1>1, <1>2 DEF Settled, Inv, ReturnedOnce, TypeOK
<1> QED
  BY <1>1, <1>3, <1>4, <1>5

LEMMA FreshStays ==
  ASSUME Inv, NEW f \in Submitted, NEW r, NEW done, Settled(f, r, done),
         \A g \in Frames \ {f} : atHal'[g] = atHal[g],
         UNCHANGED <<next, asked>>,
         dueMeta' \subseteq dueMeta, dueShutter' \subseteq dueShutter
  PROVE  Fresh'
<1> SUFFICES ASSUME NEW g \in Frames, g >= next
             PROVE  /\ g \notin registered'
                    /\ requests'[g] = NewRequest(0)
                    /\ returned'[g] = {} /\ asked'[g] = {} /\ atHal'[g] = {}
                    /\ g \notin dueShutter' /\ g \notin dueMeta'
  BY DEF Fresh, NewRequest
<1>1. g # f
  BY TrackerAssumption DEF Submitted, Frames, Inv, TypeOK
<1>2. /\ g \notin registered /\ requests[g] = NewRequest(0)
      /\ returned[g] = {} /\ asked[g] = {} /\ atHal[g] = {}
      /\ g \notin dueShutter /\ g \notin dueMeta
  BY DEF Inv, Fresh
<1> QED
  BY <1>1, <1>2 DEF Settled

(* What a result of any kind does to the HAL's side of the books.          *)
HalSends(f, bufs, way) ==
  /\ atHal' = [atHal EXCEPT ![f] = @ \ bufs]
  /\ dueMeta' = IF way # "none" THEN dueMeta \ {f} ELSE dueMeta
  /\ inlineOnly' = IF way = "inline" THEN inlineOnly \cup {f} ELSE inlineOnly
  /\ queueOnly' = IF way = "queue" /\ f \in dueMeta THEN queueOnly \cup {f}
                                                   ELSE queueOnly
  /\ UNCHANGED <<next, asked, dueShutter, refused, lateError>>

LEMMA HalSendsFacts ==
  ASSUME TypeOK, NEW f \in Frames, NEW bufs \in SUBSET atHal[f], NEW way \in Ways,
         HalSends(f, bufs, way)
  PROVE  /\ atHal' \in [Frames -> SUBSET Streams]
         /\ atHal'[f] = atHal[f] \ bufs
         /\ \A g \in Frames \ {f} : atHal'[g] = atHal[g]
         /\ \A g \in Frames : atHal'[g] \subseteq atHal[g]
         /\ dueMeta \ {f} \subseteq dueMeta' /\ dueMeta' \subseteq dueMeta
         /\ inlineOnly \subseteq inlineOnly' /\ inlineOnly' \subseteq Frames
         /\ queueOnly \subseteq queueOnly' /\ queueOnly' \subseteq Frames
         /\ \A g \in Frames \ {f} : g \in queueOnly' <=> g \in queueOnly
         /\ Present(way) \in BOOLEAN /\ Contents(way) \in BOOLEAN
BY DEF TypeOK, HalSends, Present, Contents

(* HalResult of a registered frame.                                        *)
HalResultTaken(f, bufs, bad, way) ==
  /\ TakeResult(f, bufs, bad, Present(way), Contents(way))
  /\ HalSends(f, bufs, way)

(* A result or a shutter of a registered frame keeps the invariant.        *)
LEMMA TakeResultKeepsInv ==
  ASSUME Inv, NEW f \in Submitted, NEW bufs \in SUBSET atHal[f],
         NEW bad \in SUBSET bufs, NEW way \in Ways,
         HalResultTaken(f, bufs, bad, way)
  PROVE  /\ Inv'
         /\ returned'[f] \cup requests'[f].pendingBuffers
              = returned[f] \cup requests[f].pendingBuffers \cup bufs
<1> DEFINE meta == Present(way)
           full == Contents(way)
<1>1. f \in Frames /\ f < next /\ next \in 0 .. MaxFrame /\ MaxFrame \in Nat
  BY TrackerAssumption DEF Submitted, Frames, Inv, TypeOK
<1>a. /\ TakeResult(f, bufs, bad, meta, full) /\ HalSends(f, bufs, way)
      /\ meta \in BOOLEAN /\ full \in BOOLEAN
  BY DEF HalResultTaken, Present, Contents
<1>0. /\ atHal' = [atHal EXCEPT ![f] = @ \ bufs]
      /\ UNCHANGED <<next, asked, dueShutter, refused, lateError>>
      /\ \A g \in Frames \ {f} : atHal'[g] = atHal[g]
      /\ atHal' \in [Frames -> SUBSET Streams]
      /\ dueMeta' \subseteq dueMeta
      /\ inlineOnly' \subseteq Frames /\ queueOnly' \subseteq Frames
  <2>1. TypeOK
    BY DEF Inv
  <2>2. UNCHANGED <<next, asked, dueShutter, refused, lateError>>
        /\ atHal' = [atHal EXCEPT ![f] = @ \ bufs]
    BY <1>a DEF HalSends
  <2> HIDE DEF meta, full
  <2> QED
    BY <1>1, <1>a, <2>1, <2>2, HalSendsFacts
<1> HIDE DEF meta, full
<1>b. /\ f \in registered /\ UNCHANGED <<nextShutter, shuttered>>
      /\ Counting(f, bufs, meta) \in Request
      /\ \/ /\ requests[f].shutter
            /\ Settled(f, Passing(f, bufs, bad, meta), returned[f] \cup bufs)
            /\ SendCaptureResult(f, full)
            /\ deviceError' = (deviceError \/ OutOfOrder(f, full))
         \/ /\ ~requests[f].shutter
            /\ Settled(f, Keeping(f, bufs, bad, meta, full), returned[f])
            /\ UNCHANGED <<results, nextResult, deviceError>>
  BY <1>1, <1>a, TakeResultFacts
<1> USE <1>0
<1>2. f \in registered /\ UNCHANGED <<nextShutter, shuttered>>
  BY <1>b
<1>3. /\ requests[f] \in Request /\ Counting(f, bufs, meta) \in Request
      /\ bufs \subseteq Streams /\ returned[f] \subseteq Streams
  BY <1>1, <1>b DEF Inv, TypeOK
<1>4. /\ returned[f] \cap requests[f].pendingBuffers = {}
      /\ (returned[f] \cup requests[f].pendingBuffers) \cap bufs = {}
  BY <1>1 DEF Inv, ReturnedOnce
<1>5. CASE requests[f].shutter
  <2> DEFINE r == Passing(f, bufs, bad, meta)
  <2>1. /\ Settled(f, r, returned[f] \cup bufs)
        /\ SendCaptureResult(f, full)
        /\ deviceError' = (deviceError \/ OutOfOrder(f, full))
    BY <1>5, <1>b
  <2>2. /\ r \in Request /\ r.pendingBuffers = requests[f].pendingBuffers
        /\ r.remaining = requests[f].remaining - Cardinality(bufs)
        /\ r.shutter = requests[f].shutter
    BY <1>3 DEF Passing, Counting, Request
  <2> HIDE DEF r
  <2>3. /\ Counted' /\ Erased' /\ ReturnedOnce'
        /\ returned'[f] \cup requests'[f].pendingBuffers
             = returned[f] \cup requests[f].pendingBuffers \cup bufs
    <3>1. (returned[f] \cup bufs) \cap r.pendingBuffers = {}
      BY <1>4, <2>2
    <3>2. (returned[f] \cup bufs) \cup r.pendingBuffers
            = returned[f] \cup requests[f].pendingBuffers \cup bufs
      BY <2>2
    <3>3. returned[f] \cup bufs \in SUBSET Streams
      BY <1>3
    <3> QED
      BY <1>1, <1>2, <2>1, <2>2, <3>1, <3>2, <3>3, SettledBuffers
  <2>4. f \in shuttered
    BY <1>1, <1>5 DEF Inv, Delivered
  <2>5. /\ results' \in Seq(Frames) /\ nextResult' \in 0 .. MaxFrame
        /\ ResultsInOrder'
        /\ \A i \in 1 .. Len(results') : results'[i] < nextResult'
    BY <1>1, <1>2, <1>a, <2>1, <2>4, SendKeepsOrder DEF Inv, Delivered
  <2>6. Delivered'
    BY <2>1, <2>2, <2>4, <2>5, <1>2 DEF Settled, Inv, Delivered
  <2>7. deviceError' \in BOOLEAN
    BY <2>1 DEF OutOfOrder, Inv, TypeOK
  <2>8. TypeOK'
    BY <1>2, <2>1, <2>5, <2>7 DEF Settled, Inv, TypeOK
  <2>9. Fresh'
    <3>1. dueMeta' \subseteq dueMeta /\ dueShutter' \subseteq dueShutter
      OBVIOUS
    <3> QED
      BY <2>1, <3>1, FreshStays
  <2> QED
    BY <2>3, <2>5, <2>6, <2>8, <2>9 DEF Inv
<1>6. CASE ~requests[f].shutter
  <2> DEFINE r == Keeping(f, bufs, bad, meta, full)
  <2>1. /\ Settled(f, r, returned[f])
        /\ UNCHANGED <<results, nextResult, deviceError>>
    BY <1>6, <1>b
  <2>2. /\ r \in Request /\ r.pendingBuffers = requests[f].pendingBuffers \cup bufs
        /\ r.remaining = requests[f].remaining - Cardinality(bufs)
        /\ r.shutter = requests[f].shutter
    <3> DEFINE c == Counting(f, bufs, meta)
    <3>1. /\ c.remaining = requests[f].remaining - Cardinality(bufs)
          /\ c.shutter = requests[f].shutter
          /\ c.pendingBuffers = requests[f].pendingBuffers
      BY <1>3 DEF Counting, Request
    <3>2. c \in Request
      BY <1>3
    <3> HIDE DEF c
    <3>3. r = [c EXCEPT !.pendingBuffers = @ \cup bufs,
                        !.badBuffer = @ \/ bad # {},
                        !.pendingMeta = @ \/ full]
      BY DEF Keeping, c
    <3> HIDE DEF r
    <3> QED
      BY <1>3, <3>1, <3>2, <3>3 DEF Request
  <2> HIDE DEF r
  <2>3. /\ Counted' /\ Erased' /\ ReturnedOnce'
        /\ returned'[f] \cup requests'[f].pendingBuffers
             = returned[f] \cup requests[f].pendingBuffers \cup bufs
    <3>1. returned[f] \cap r.pendingBuffers = {}
      BY <1>4, <2>2
    <3>2. returned[f] \cup r.pendingBuffers
            = returned[f] \cup requests[f].pendingBuffers \cup bufs
      BY <2>2
    <3> QED
      BY <1>1, <1>2, <1>3, <2>1, <2>2, <3>1, <3>2, SettledBuffers
  <2>4. Delivered' /\ ResultsInOrder'
    BY <2>1, <2>2, <1>2 DEF Settled, Inv, Delivered, ResultsInOrder
  <2>5. TypeOK'
    BY <1>2, <2>1 DEF Settled, Inv, TypeOK
  <2>6. Fresh'
    BY <2>1, FreshStays DEF Inv, TypeOK
  <2> QED
    BY <2>3, <2>4, <2>5, <2>6 DEF Inv
<1> QED
  BY <1>5, <1>6

LEMMA TakeShutterKeepsInv ==
  ASSUME Inv, NEW f \in Submitted, NEW flushing \in BOOLEAN,
         TakeShutter(f, flushing), dueShutter' = dueShutter \ {f},
         UNCHANGED <<next, asked, atHal, dueMeta, refused, lateError, sent>>
  PROVE  /\ Inv'
         /\ returned'[f] \cup requests'[f].pendingBuffers
              = returned[f] \cup requests[f].pendingBuffers
<1>1. f \in Frames /\ f < next /\ next \in 0 .. MaxFrame /\ MaxFrame \in Nat
  BY TrackerAssumption DEF Submitted, Frames, Inv, TypeOK
<1> DEFINE r == Shuttering(f, flushing)
           done == returned[f] \cup requests[f].pendingBuffers
<1>2. /\ f \in registered
      /\ nextShutter' = f + 1 /\ shuttered' = shuttered \cup {f}
      /\ Settled(f, r, done)
      /\ SendCaptureResult(f, requests[f].pendingMeta)
      /\ deviceError' = (deviceError \/ OutOfOrder(f, requests[f].pendingMeta))
  BY <1>1, TakeShutterFacts
<1>3. requests[f] \in Request /\ returned[f] \subseteq Streams
  BY <1>1 DEF Inv, TypeOK
<1>4. /\ r \in Request /\ r.pendingBuffers = {} /\ done \in SUBSET Streams
      /\ r.remaining = requests[f].remaining
  BY <1>3 DEF Shuttering, Request
<1>5. /\ Counted' /\ Erased' /\ ReturnedOnce'
      /\ returned'[f] \cup requests'[f].pendingBuffers = done
  <2>1. atHal' = [atHal EXCEPT ![f] = @ \ {}]
    BY DEF Inv, TypeOK
  <2>2. r.remaining = requests[f].remaining - Cardinality({})
    BY <1>3, <1>4, FS_EmptySet DEF Request
  <2>3. /\ done \cap r.pendingBuffers = {}
        /\ done \cup r.pendingBuffers
             = returned[f] \cup requests[f].pendingBuffers \cup {}
    BY <1>4
  <2>4. {} \in SUBSET atHal[f]
    OBVIOUS
  <2> HIDE DEF r
  <2> QED
    BY <1>1, <1>2, <1>4, <2>1, <2>2, <2>3, <2>4, SettledBuffers
<1>6. requests[f].pendingMeta \in BOOLEAN
  BY <1>3 DEF Request
<1>7. /\ results' \in Seq(Frames) /\ nextResult' \in 0 .. MaxFrame
      /\ ResultsInOrder'
      /\ \A i \in 1 .. Len(results') : results'[i] < nextResult'
  BY <1>1, <1>2, <1>6, SendKeepsOrder DEF Inv, Delivered
<1> HIDE DEF r, done
<1>8. Delivered'
  BY <1>2, <1>7 DEF Settled, Inv, Delivered
<1>9. deviceError' \in BOOLEAN
  <2>1. (deviceError \/ OutOfOrder(f, requests[f].pendingMeta)) \in BOOLEAN
    OBVIOUS
  <2> QED
    BY <1>2, <2>1, Zenon
<1>10. nextShutter' \in 0 .. MaxFrame
  BY <1>1, <1>2 DEF Frames
<1>11. TypeOK'
  <2>1. /\ requests' \in [Frames -> Request] /\ errorRequests' \subseteq Frames
        /\ returned' \in [Frames -> SUBSET Streams]
        /\ registered' = registered \/ registered' = registered \ {f}
    BY <1>2 DEF Settled
  <2>2. registered' \subseteq Frames /\ shuttered' \subseteq Frames
        /\ dueShutter' \subseteq Frames
    BY <2>1, <1>1, <1>2 DEF Inv, TypeOK
  <2> QED
    BY <2>1, <2>2, <1>7, <1>9, <1>10 DEF Inv, TypeOK, sent
<1>12. Fresh'
  <2>1. dueMeta' \subseteq dueMeta /\ dueShutter' \subseteq dueShutter
    OBVIOUS
  <2>2. \A g \in Frames \ {f} : atHal'[g] = atHal[g]
    OBVIOUS
  <2> QED
    BY <1>2, <2>1, <2>2, FreshStays
<1> QED
  BY <1>5, <1>7, <1>8, <1>11, <1>12 DEF Inv, done

(* A frame that is submitted, accepted or not.                             *)
LEMMA MarkKeepsInv ==
  ASSUME Inv, NEW streams \in SUBSET Streams, MarkPendingRequest(streams),
         deviceError' \in BOOLEAN, refused' \subseteq Frames,
         \/ UNCHANGED <<asked, hal>>
         \/ /\ asked' = [asked EXCEPT ![next] = streams]
            /\ atHal' = [atHal EXCEPT ![next] = streams]
            /\ dueShutter' \subseteq dueShutter \cup {next}
            /\ dueMeta' \subseteq dueMeta \cup {next}
  PROVE  Inv'
<1>1. /\ next \in Frames /\ next' = next + 1 /\ next \in Int
      /\ next' \in 0 .. MaxFrame
      /\ registered' = registered \cup {next}
      /\ requests' = [requests EXCEPT ![next] = NewRequest(Cardinality(streams))]
      /\ UNCHANGED <<errorRequests, nextShutter, nextResult, shuttered, results,
                     returned, lateError, inlineOnly, queueOnly>>
  BY TrackerAssumption DEF MarkPendingRequest, sent, Inv, TypeOK, Frames
<1>2. IsFiniteSet(streams) /\ Cardinality(streams) \in Nat
  BY TrackerAssumption, FS_Subset, FS_CardinalityType
<1>3. NewRequest(Cardinality(streams)) \in Request
  BY <1>2 DEF NewRequest, Request
<1>4. TypeOK'
  <2>1. requests' \in [Frames -> Request]
    BY <1>1, <1>3 DEF Inv, TypeOK
  <2>2. /\ asked' \in [Frames -> SUBSET Streams]
        /\ atHal' \in [Frames -> SUBSET Streams]
        /\ dueShutter' \subseteq Frames /\ dueMeta' \subseteq Frames
    BY <1>1 DEF hal, Inv, TypeOK
  <2> QED
    BY <1>1, <2>1, <2>2 DEF Inv, TypeOK
<1>5. /\ next \notin registered /\ returned[next] = {} /\ atHal[next] = {}
      /\ asked[next] = {}
  BY <1>1 DEF Inv, Fresh
<1>6. /\ atHal'[next] \subseteq streams
      /\ \A g \in Frames \ {next} : atHal'[g] = atHal[g] /\ asked'[g] = asked[g]
                                    /\ requests'[g] = requests[g]
      /\ requests'[next] = NewRequest(Cardinality(streams))
  BY <1>1, <1>5 DEF hal, Inv, TypeOK
<1>7. Fresh'
  <2> SUFFICES ASSUME NEW g \in Frames, g >= next'
               PROVE  /\ g \notin registered'
                      /\ requests'[g] = NewRequest(0)
                      /\ returned'[g] = {} /\ asked'[g] = {} /\ atHal'[g] = {}
                      /\ g \notin dueShutter' /\ g \notin dueMeta'
    BY DEF Fresh, NewRequest
  <2>1. g # next /\ g >= next
    BY <1>1 DEF Frames
  <2>2. /\ g \notin registered /\ requests[g] = NewRequest(0)
        /\ returned[g] = {} /\ asked[g] = {} /\ atHal[g] = {}
        /\ g \notin dueShutter /\ g \notin dueMeta
    BY <2>1 DEF Inv, Fresh
  <2> QED
    BY <2>1, <2>2, <1>1, <1>6 DEF hal
<1>8. Counted'
  <2>1. Cardinality(atHal'[next]) <= requests'[next].remaining
    <3>1. Cardinality(atHal'[next]) <= Cardinality(streams)
      BY <1>2, <1>6, FS_Subset
    <3> QED
      BY <3>1, <1>6 DEF NewRequest
  <2> QED
    BY <2>1, <1>6 DEF Inv, Counted
<1>9. Erased'
  BY <1>1, <1>6 DEF Inv, Erased
<1>10. ReturnedOnce'
  <2>1. requests'[next].pendingBuffers = {}
    BY <1>6 DEF NewRequest
  <2> QED
    BY <2>1, <1>1, <1>5, <1>6 DEF Inv, ReturnedOnce
<1>11. Delivered' /\ ResultsInOrder'
  <2>1. ~requests'[next].shutter
    BY <1>6 DEF NewRequest
  <2> QED
    BY <2>1, <1>1, <1>6 DEF Inv, Delivered, ResultsInOrder
<1> QED
  BY <1>4, <1>7, <1>8, <1>9, <1>10, <1>11 DEF Inv

(* A step that takes nothing away but what the HAL had to do, and changes  *)
(* at most the status of a frame that was submitted.                       *)
LEMMA QuietKeepsInv ==
  ASSUME Inv, TypeOK', next' = next, asked' = asked,
         \A g \in Frames :
           /\ atHal'[g] \subseteq atHal[g]
           /\ requests'[g].remaining = requests[g].remaining
           /\ requests'[g].pendingBuffers = requests[g].pendingBuffers
           /\ requests'[g].shutter = requests[g].shutter
           /\ g >= next => requests'[g] = requests[g],
         registered' = registered, returned' = returned, results' = results,
         nextResult' = nextResult, shuttered \subseteq shuttered',
         dueShutter' \subseteq dueShutter, dueMeta' \subseteq dueMeta
  PROVE  Inv'
<1>1. Fresh'
  <2> SUFFICES ASSUME NEW g \in Frames, g >= next
               PROVE  /\ g \notin registered'
                      /\ requests'[g] = NewRequest(0)
                      /\ returned'[g] = {} /\ asked'[g] = {} /\ atHal'[g] = {}
                      /\ g \notin dueShutter' /\ g \notin dueMeta'
    BY DEF Fresh, NewRequest
  <2>1. /\ g \notin registered /\ requests[g] = NewRequest(0)
        /\ returned[g] = {} /\ asked[g] = {} /\ atHal[g] = {}
        /\ g \notin dueShutter /\ g \notin dueMeta
    BY DEF Inv, Fresh
  <2> QED
    BY <2>1
<1>2. Counted'
  <2> SUFFICES ASSUME NEW g \in Frames
               PROVE  Cardinality(atHal'[g]) <= requests'[g].remaining
    BY DEF Counted
  <2>1. IsFiniteSet(atHal[g]) /\ Cardinality(atHal[g]) \in Nat
    BY AtHalFinite DEF Inv
  <2>2. Cardinality(atHal'[g]) <= Cardinality(atHal[g])
        /\ IsFiniteSet(atHal'[g])
    BY <2>1, FS_Subset
  <2>3. Cardinality(atHal'[g]) \in Nat /\ requests[g].remaining \in Nat
    BY <2>2, FS_CardinalityType DEF Inv, TypeOK, Request
  <2> QED
    BY <2>1, <2>2, <2>3 DEF Inv, Counted
<1>3. Erased' /\ ReturnedOnce'
  BY DEF Inv, Erased, ReturnedOnce
<1>4. Delivered' /\ ResultsInOrder'
  BY DEF Inv, Delivered, ResultsInOrder
<1> QED
  BY <1>1, <1>2, <1>3, <1>4 DEF Inv

LEMMA InitInv == Init => Inv
<1> SUFFICES ASSUME Init PROVE Inv
  OBVIOUS
<1>1. NewRequest(0) \in Request /\ MaxFrame \in Nat
  BY TrackerAssumption DEF NewRequest, Request
<1>2. TypeOK
  <2>1. results \in Seq(Frames)
    BY DEF Init
  <2>2. requests \in [Frames -> Request]
    BY <1>1 DEF Init
  <2>3. next \in 0 .. MaxFrame /\ nextShutter \in 0 .. MaxFrame
        /\ nextResult \in 0 .. MaxFrame
    BY <1>1 DEF Init
  <2>4. /\ returned \in [Frames -> SUBSET Streams]
        /\ asked \in [Frames -> SUBSET Streams]
        /\ atHal \in [Frames -> SUBSET Streams]
    BY DEF Init
  <2> QED
    BY <2>1, <2>2, <2>3, <2>4 DEF Init, TypeOK
<1>3. Fresh
  BY DEF Init, Fresh
<1>4. Counted
  BY FS_EmptySet DEF Init, Counted, NewRequest
<1>5. Erased /\ ReturnedOnce
  BY DEF Init, Erased, ReturnedOnce, NewRequest
<1>6. Delivered /\ ResultsInOrder
  BY DEF Init, Delivered, ResultsInOrder, NewRequest
<1> QED
  BY <1>2, <1>3, <1>4, <1>5, <1>6 DEF Inv

LEMMA SubmittedFrames ==
  ASSUME TypeOK, NEW f \in Submitted
  PROVE  f \in Frames /\ f < next /\ f \in Int /\ next \in Int
BY TrackerAssumption DEF TypeOK, Submitted, Frames

(* A result that is not taken: of a frame that is unknown or has its       *)
(* metadata already, or one with nothing inside that is looked at, or with *)
(* a block that cannot be read.                                            *)
Dropped(f, bufs, way) ==
  \/ NothingInside(bufs, way) /\ UNCHANGED tracker
  \/ way = "torn" /\ UnreadableResult
  \/ IgnoreResult(f)
  \/ RejectResult(f, Present(way))

LEMMA DroppedFacts ==
  ASSUME Inv, NEW f, NEW bufs, NEW way, Dropped(f, bufs, way)
  PROVE  /\ UNCHANGED <<registered, requests, nextShutter, nextResult, shuttered,
                        results, returned>>
         /\ errorRequests' \subseteq Frames
         /\ deviceError' \in BOOLEAN
         /\ deviceError => deviceError'
<1>1. CASE NothingInside(bufs, way) /\ UNCHANGED tracker
  BY <1>1 DEF tracker, Inv, TypeOK
<1>2. CASE way = "torn" /\ UnreadableResult
  BY <1>2 DEF UnreadableResult, Inv, TypeOK
<1>3. CASE IgnoreResult(f)
  <2>1. (deviceError \/ f \notin errorRequests) \in BOOLEAN
    OBVIOUS
  <2>2. deviceError' \in BOOLEAN
    BY <1>3, <2>1, Zenon DEF IgnoreResult
  <2> QED
    BY <1>3, <2>2 DEF IgnoreResult, Inv, TypeOK
<1>4. CASE RejectResult(f, Present(way))
  BY <1>4 DEF RejectResult, Inv, TypeOK
<1> QED
  BY <1>1, <1>2, <1>3, <1>4 DEF Dropped

LEMMA DroppedKeepsInv ==
  ASSUME Inv, NEW f \in Submitted, NEW bufs \in SUBSET atHal[f],
         NEW way \in Ways, Dropped(f, bufs, way), HalSends(f, bufs, way)
  PROVE  Inv'
<1>1. /\ UNCHANGED <<registered, requests, nextShutter, nextResult, shuttered,
                     results, returned>>
      /\ errorRequests' \subseteq Frames
      /\ deviceError' \in BOOLEAN
  BY DroppedFacts
<1>2. f \in Frames
  BY SubmittedFrames DEF Inv
<1>3. /\ atHal' \in [Frames -> SUBSET Streams]
      /\ \A g \in Frames : atHal'[g] \subseteq atHal[g]
      /\ dueMeta' \subseteq dueMeta
      /\ inlineOnly' \subseteq Frames /\ queueOnly' \subseteq Frames
      /\ UNCHANGED <<next, asked, dueShutter, refused, lateError>>
  BY <1>2, HalSendsFacts DEF Inv, HalSends
<1>4. TypeOK'
  BY <1>1, <1>3 DEF Inv, TypeOK
<1> QED
  BY <1>1, <1>3, <1>4, QuietKeepsInv

LEMMA RefusedShutterKeepsInv ==
  ASSUME Inv, NEW f \in Submitted, UnknownShutter(f) \/ LateShutter(f),
         dueShutter' = dueShutter \ {f},
         UNCHANGED <<next, asked, atHal, dueMeta, refused, lateError, sent>>
  PROVE  Inv'
<1>1. f \in Frames
  BY SubmittedFrames DEF Inv
<1>2. /\ UNCHANGED <<registered, requests, errorRequests, nextShutter,
                     nextResult, results, returned>>
      /\ shuttered \subseteq shuttered' /\ shuttered' \subseteq Frames
      /\ deviceError' \in BOOLEAN
  <2>1. CASE UnknownShutter(f)
    BY <2>1 DEF UnknownShutter, Inv, TypeOK
  <2>2. CASE LateShutter(f)
    BY <1>1, <2>2 DEF LateShutter, Inv, TypeOK
  <2> QED
    BY <2>1, <2>2
<1>3. TypeOK'
  BY <1>2 DEF Inv, TypeOK, sent
<1> QED
  BY <1>2, <1>3, QuietKeepsInv

(* What a reported error changes.                                          *)
LEMMA NotifyErrorFacts ==
  ASSUME Inv, NEW f \in Submitted, NotifyError(f)
  PROVE  /\ UNCHANGED <<registered, errorRequests, nextShutter, nextResult,
                        deviceError, shuttered, results, returned>>
         /\ requests' \in [Frames -> Request] /\ lateError' \subseteq Frames
         /\ \A g \in Frames :
              /\ requests'[g].remaining = requests[g].remaining
              /\ requests'[g].pendingBuffers = requests[g].pendingBuffers
              /\ requests'[g].shutter = requests[g].shutter
              /\ requests'[g].meta = requests[g].meta
              /\ requests'[g].pendingMeta = requests[g].pendingMeta
              /\ requests[g].failed => requests'[g].failed
              /\ g >= next => requests'[g] = requests[g]
<1>1. f \in Frames /\ f < next /\ f \in Int /\ next \in Int
  BY SubmittedFrames DEF Inv
<1>2. CASE f \in registered
  <2>1. requests' = [requests EXCEPT ![f].failed = TRUE] /\ lateError' \subseteq Frames
    BY <1>1, <1>2 DEF NotifyError, Inv, TypeOK
  <2>2. /\ requests' \in [Frames -> Request]
        /\ \A g \in Frames :
             /\ requests'[g].remaining = requests[g].remaining
             /\ requests'[g].pendingBuffers = requests[g].pendingBuffers
             /\ requests'[g].shutter = requests[g].shutter
             /\ requests'[g].meta = requests[g].meta
             /\ requests'[g].pendingMeta = requests[g].pendingMeta
             /\ requests[g].failed => requests'[g].failed
             /\ g # f => requests'[g] = requests[g]
    <3>1. requests[f] \in Request /\ requests \in [Frames -> Request]
      BY <1>1 DEF Inv, TypeOK
    <3> DEFINE r == [requests[f] EXCEPT !.failed = TRUE]
    <3>2. /\ r \in Request
          /\ r.remaining = requests[f].remaining
          /\ r.pendingBuffers = requests[f].pendingBuffers
          /\ r.shutter = requests[f].shutter /\ r.meta = requests[f].meta
          /\ r.pendingMeta = requests[f].pendingMeta /\ r.failed
      BY <3>1 DEF Request
    <3>3. requests' = [requests EXCEPT ![f] = r]
      BY <2>1
    <3> HIDE DEF r
    <3> QED
      BY <1>1, <3>1, <3>2, <3>3
  <2>3. \A g \in Frames : g >= next => g # f
    BY <1>1 DEF Frames
  <2> QED
    BY <2>1, <2>2, <2>3 DEF NotifyError
<1>3. CASE f \notin registered
  BY <1>3 DEF NotifyError, Inv, TypeOK
<1> QED
  BY <1>2, <1>3

LEMMA NotifyErrorKeepsInv ==
  ASSUME Inv, NEW f \in Submitted, NotifyError(f),
         dueShutter' \subseteq dueShutter, dueMeta' \subseteq dueMeta,
         UNCHANGED <<next, asked, atHal, refused, sent>>
  PROVE  Inv'
<1>1. TypeOK'
  BY NotifyErrorFacts DEF Inv, TypeOK, sent
<1> QED
  BY <1>1, NotifyErrorFacts, QuietKeepsInv

LEMMA NextKeepsInv == Inv /\ [Next]_vars => Inv'
<1> SUFFICES ASSUME Inv, [Next]_vars PROVE Inv'
  OBVIOUS
<1>1. ASSUME NEW streams \in SUBSET Streams, Submit(streams) PROVE Inv'
  <2>1. /\ dueShutter' \subseteq dueShutter \cup {next}
        /\ dueMeta' \subseteq dueMeta \cup {next}
    BY <1>1 DEF Submit
  <2>2. deviceError' \in BOOLEAN /\ refused' \subseteq Frames
    BY <1>1 DEF Submit, Inv, TypeOK
  <2> QED
    BY <1>1, <2>1, <2>2, MarkKeepsInv DEF Submit
<1>2. ASSUME NEW streams \in SUBSET Streams, SubmitFails(streams) PROVE Inv'
  <2>1. refused' \subseteq Frames /\ deviceError' \in BOOLEAN
    BY <1>2 DEF SubmitFails, MarkPendingRequest, Inv, TypeOK
  <2> QED
    BY <1>2, <2>1, MarkKeepsInv DEF SubmitFails
<1>3. ASSUME NEW f \in Submitted, HalShutter(f) PROVE Inv'
  <2>1. CASE UnknownShutter(f) \/ LateShutter(f)
    BY <1>3, <2>1, RefusedShutterKeepsInv DEF HalShutter
  <2>2. ASSUME NEW flushing \in BOOLEAN, TakeShutter(f, flushing) PROVE Inv'
    BY <1>3, <2>2, TakeShutterKeepsInv DEF HalShutter
  <2> QED
    BY <1>3, <2>1, <2>2 DEF HalShutter, NotifyShutter
<1>4. ASSUME NEW f \in Submitted, NEW bufs \in SUBSET atHal[f],
             NEW way \in Ways, NEW bad \in SUBSET bufs,
             HalResult(f, bufs, bad, way)
      PROVE  Inv'
  <2>1. HalSends(f, bufs, way) /\ HandleCaptureResult(f, bufs, bad, way)
    BY <1>4 DEF HalResult, HalSends
  <2>2. CASE Dropped(f, bufs, way)
    BY <2>1, <2>2, DroppedKeepsInv
  <2>3. CASE TakeResult(f, bufs, bad, Present(way), Contents(way))
    BY <2>1, <2>3, TakeResultKeepsInv DEF HalResultTaken
  <2> QED
    BY <2>1, <2>2, <2>3 DEF HandleCaptureResult, Dropped
<1>5. ASSUME NEW f \in Submitted,
             HalFailsRequest(f) \/ HalFailsResult(f) \/ HalFailsBuffer(f)
      PROVE  Inv'
  <2>1. NotifyError(f) /\ UNCHANGED <<next, asked, atHal, refused, sent>>
    BY <1>5 DEF HalFailsRequest, HalFailsResult, HalFailsBuffer, hal
  <2>2. dueShutter' \subseteq dueShutter /\ dueMeta' \subseteq dueMeta
    BY <1>5 DEF HalFailsRequest, HalFailsResult, HalFailsBuffer, hal
  <2> QED
    BY <2>1, <2>2, NotifyErrorKeepsInv
<1>6. ASSUME HalFailsDevice \/ ForgetErrors \/ UNCHANGED vars PROVE Inv'
  <2>1. /\ UNCHANGED <<next, registered, requests, nextShutter, nextResult,
                       shuttered, results, returned, asked, hal, refused,
                       lateError, sent>>
        /\ errorRequests' \subseteq Frames /\ deviceError' \in BOOLEAN
    BY <1>6 DEF HalFailsDevice, ForgetErrors, vars, tracker, Inv, TypeOK
  <2>2. TypeOK'
    BY <2>1 DEF hal, sent, Inv, TypeOK
  <2> QED
    BY <2>1, <2>2, QuietKeepsInv DEF hal
<1> QED
  BY <1>1, <1>2, <1>3, <1>4, <1>5, <1>6 DEF Next, HalAnswers, HalFails

(* Types, and with them that buffersRemaining never falls below zero.      *)
THEOREM TypeCorrect == Spec => []TypeOK
<1>1. Inv => TypeOK
  BY DEF Inv
<1> QED
  BY <1>1, InitInv, NextKeepsInv, PTL DEF Spec

(* No buffer is returned twice, whatever the HAL sends.                    *)
THEOREM BuffersComeBackOnce == Spec => []ReturnedOnce
<1>1. Inv => ReturnedOnce
  BY DEF Inv
<1> QED
  BY <1>1, InitInv, NextKeepsInv, PTL DEF Spec

(* Results are delivered in order and after their shutters, whatever the   *)
(* HAL sends.                                                              *)
THEOREM ResultsKeepOrder == Spec => []ResultsInOrder
<1>1. Inv => ResultsInOrder
  BY DEF Inv
<1> QED
  BY <1>1, InitInv, NextKeepsInv, PTL DEF Spec

-----------------------------------------------------------------------------
(* The books of a HAL that keeps to its contract.                          *)

LEMMA InitAccounts == Init => Accounts
<1> SUFFICES ASSUME Init PROVE Accounts
  OBVIOUS
<1>1. \A f \in Frames : /\ requests[f].pendingBuffers = {} /\ ~requests[f].meta
                        /\ asked[f] = {} /\ atHal[f] = {} /\ returned[f] = {}
  BY DEF Init, NewRequest
<1>2. Submitted = {} /\ dueMeta = {}
  BY DEF Init, Submitted
<1> QED
  BY <1>1, <1>2 DEF Accounts, Balanced, MetaOnce, Passed, Finished

LEMMA SettledAccounts ==
  ASSUME Inv, Accounts, NEW f \in Submitted, f \in registered,
         NEW r \in Request, NEW done, Settled(f, r, done),
         NEW send \in BOOLEAN, NEW bufs \in SUBSET atHal[f],
         \A i \in 1 .. Len(results) :
           \E j \in 1 .. Len(results') : results'[j] = results[i],
         send => deviceError' \/ \E j \in 1 .. Len(results') : results'[j] = f,
         deviceError => deviceError',
         UNCHANGED <<next, asked>>,
         atHal' = [atHal EXCEPT ![f] = @ \ bufs],
         returned'[f] \cup requests'[f].pendingBuffers
           = returned[f] \cup requests[f].pendingBuffers \cup bufs,
         r.meta /\ r.shutter => send \/ f \in inlineOnly' \/
                               (requests[f].meta /\ requests[f].shutter),
         r.meta /\ ~r.shutter => r.pendingMeta \/ f \in inlineOnly',
         inlineOnly \subseteq inlineOnly',
         dueMeta' \subseteq dueMeta, Honest /\ f \in dueMeta' => ~r.meta,
         UNCHANGED conduct
  PROVE  Accounts'
<1>1. f \in Frames /\ f < next
  BY SubmittedFrames DEF Inv
<1>2. /\ \A g \in Frames \ {f} : /\ requests'[g] = requests[g]
                                 /\ returned'[g] = returned[g]
                                 /\ atHal'[g] = atHal[g]
      /\ requests'[f].meta = r.meta /\ requests'[f].shutter = r.shutter
      /\ requests'[f].pendingMeta = r.pendingMeta
      /\ atHal'[f] = atHal[f] \ bufs
  BY <1>1 DEF Settled, Inv, TypeOK
<1>3. Balanced'
  <2> SUFFICES ASSUME Honest \/ ~deviceError', NEW g \in Frames
               PROVE  asked'[g] = atHal'[g] \cup requests'[g].pendingBuffers
                                  \cup returned'[g]
    BY DEF Balanced, Honest
  <2>1. asked[g] = atHal[g] \cup requests[g].pendingBuffers \cup returned[g]
    BY DEF Accounts, Balanced
  <2>2. CASE g = f
    BY <2>1, <2>2, <1>2
  <2>3. CASE g # f
    BY <2>1, <2>3, <1>2
  <2> QED
    BY <2>2, <2>3
<1>4. MetaOnce'
  <2> SUFFICES ASSUME Honest, NEW g \in dueMeta' PROVE ~requests'[g].meta
    BY DEF MetaOnce, Honest
  <2>1. CASE g = f
    BY <2>1, <1>2
  <2>2. CASE g # f
    <3>1. g \in Frames /\ ~requests[g].meta
      BY DEF Accounts, MetaOnce, Inv, TypeOK
    <3> QED
      BY <2>2, <3>1, <1>2
  <2> QED
    BY <2>1, <2>2
<1>5. Passed'
  <2> SUFFICES ASSUME NEW g \in Frames, requests'[g].meta, g \notin inlineOnly'
               PROVE  IF requests'[g].shutter
                      THEN deviceError' \/ \E j \in 1 .. Len(results') : results'[j] = g
                      ELSE requests'[g].pendingMeta
    BY DEF Passed
  <2>1. requests[g].meta /\ requests[g].shutter =>
          deviceError' \/ \E j \in 1 .. Len(results') : results'[j] = g
    BY DEF Accounts, Passed
  <2>2. CASE g = f
    BY <2>1, <2>2, <1>2
  <2>3. CASE g # f
    <3>1. requests[g].meta /\ ~requests[g].shutter => requests[g].pendingMeta
      BY DEF Accounts, Passed
    <3> QED
      BY <2>1, <2>3, <3>1, <1>2
  <2> QED
    BY <2>2, <2>3
<1>6. Finished'
  <2> SUFFICES ASSUME NEW g \in Submitted, g \notin registered'
               PROVE  requests'[g].failed \/ (requests'[g].meta /\ requests'[g].shutter)
    BY DEF Finished, Submitted
  <2>0. g \in Frames
    BY SubmittedFrames DEF Inv
  <2>1. CASE g = f
    BY <2>1 DEF Settled
  <2>2. CASE g # f
    <3>1. g \notin registered
      BY <2>2 DEF Settled
    <3> QED
      BY <2>0, <2>2, <3>1, <1>2 DEF Accounts, Finished
  <2> QED
    BY <2>1, <2>2
<1> QED
  BY <1>3, <1>4, <1>5, <1>6 DEF Accounts

LEMMA QuietAccounts ==
  ASSUME Inv, Accounts,
         UNCHANGED <<next, asked, registered, returned, results>>,
         \A g \in Frames :
           /\ requests'[g].pendingBuffers = requests[g].pendingBuffers
           /\ requests'[g].shutter = requests[g].shutter
           /\ requests'[g].meta = requests[g].meta
           /\ requests'[g].pendingMeta = requests[g].pendingMeta
           /\ requests[g].failed => requests'[g].failed,
         deviceError => deviceError', dueMeta' \subseteq dueMeta,
         inlineOnly \subseteq inlineOnly',
         Honest \/ ~deviceError' => \A g \in Frames : atHal'[g] = atHal[g],
         UNCHANGED conduct
  PROVE  Accounts'
<1>1. Balanced'
  BY DEF Accounts, Balanced, Honest
<1>2. MetaOnce'
  BY DEF Accounts, MetaOnce, Honest, Inv, TypeOK
<1>3. Passed'
  BY DEF Accounts, Passed
<1>4. Finished'
  <2> SUFFICES ASSUME NEW g \in Submitted, g \notin registered
               PROVE  requests'[g].failed \/ (requests'[g].meta /\ requests'[g].shutter)
    BY DEF Finished, Submitted
  <2>1. g \in Frames
    BY SubmittedFrames DEF Inv
  <2> QED
    BY <2>1 DEF Accounts, Finished
<1> QED
  BY <1>1, <1>2, <1>3, <1>4 DEF Accounts

LEMMA MarkAccounts ==
  ASSUME Inv, Accounts, NEW streams \in SUBSET Streams, MarkPendingRequest(streams),
         deviceError => deviceError',
         \/ UNCHANGED <<asked, hal>>
         \/ /\ asked' = [asked EXCEPT ![next] = streams]
            /\ atHal' = [atHal EXCEPT ![next] = streams]
            /\ dueMeta' \subseteq dueMeta \cup {next},
         UNCHANGED conduct
  PROVE  Accounts'
<1>1. /\ next \in Frames /\ next' = next + 1 /\ next \in Nat
      /\ registered' = registered \cup {next}
      /\ requests' = [requests EXCEPT ![next] = NewRequest(Cardinality(streams))]
      /\ UNCHANGED <<results, returned, inlineOnly>>
  BY TrackerAssumption DEF MarkPendingRequest, sent, Inv, TypeOK, Frames
<1>2. returned[next] = {} /\ atHal[next] = {} /\ asked[next] = {} /\ next \notin dueMeta
  BY <1>1 DEF Inv, Fresh
<1>3. /\ requests'[next].pendingBuffers = {} /\ ~requests'[next].meta
      /\ \A g \in Frames \ {next} : requests'[g] = requests[g]
  BY <1>1 DEF Inv, TypeOK, NewRequest
<1>4. /\ asked'[next] = atHal'[next]
      /\ \A g \in Frames \ {next} : asked'[g] = asked[g] /\ atHal'[g] = atHal[g]
      /\ dueMeta' \subseteq dueMeta \cup {next}
  BY <1>1, <1>2 DEF hal, Inv, TypeOK
<1>5. Balanced'
  <2> SUFFICES ASSUME Honest \/ ~deviceError', NEW g \in Frames
               PROVE  asked'[g] = atHal'[g] \cup requests'[g].pendingBuffers
                                  \cup returned'[g]
    BY DEF Balanced, Honest
  <2>1. CASE g = next
    BY <2>1, <1>1, <1>2, <1>3, <1>4
  <2>2. CASE g # next
    BY <2>2, <1>1, <1>3, <1>4 DEF Accounts, Balanced, Honest
  <2> QED
    BY <2>1, <2>2
<1>6. MetaOnce'
  BY <1>3, <1>4 DEF Accounts, MetaOnce, Honest, Inv, TypeOK
<1>7. Passed'
  BY <1>1, <1>3 DEF Accounts, Passed
<1>8. Finished'
  <2> SUFFICES ASSUME NEW g \in Submitted', g \notin registered'
               PROVE  requests'[g].failed \/ (requests'[g].meta /\ requests'[g].shutter)
    BY DEF Finished
  <2>1. g # next /\ g \notin registered
    BY <1>1
  <2>2. g \in Submitted
    BY <2>1, <1>1 DEF Submitted
  <2>3. g \in Frames
    BY <2>2, SubmittedFrames DEF Inv
  <2> QED
    BY <2>1, <2>2, <2>3, <1>3 DEF Accounts, Finished
<1> QED
  BY <1>5, <1>6, <1>7, <1>8 DEF Accounts

(* The fields of the requests the two handlers build.                      *)
LEMMA BuiltRequests ==
  ASSUME TypeOK, NEW f \in Frames, NEW bufs \in SUBSET Streams, NEW bad,
         NEW meta \in BOOLEAN, NEW full \in BOOLEAN,
         Counting(f, bufs, meta) \in Request
  PROVE  /\ Passing(f, bufs, bad, meta) \in Request
         /\ Passing(f, bufs, bad, meta).meta = (requests[f].meta \/ meta)
         /\ Passing(f, bufs, bad, meta).shutter = requests[f].shutter
         /\ Keeping(f, bufs, bad, meta, full) \in Request
         /\ Keeping(f, bufs, bad, meta, full).meta = (requests[f].meta \/ meta)
         /\ Keeping(f, bufs, bad, meta, full).shutter = requests[f].shutter
         /\ Keeping(f, bufs, bad, meta, full).pendingMeta
              = (requests[f].pendingMeta \/ full)
<1>1. requests[f] \in Request
  BY DEF TypeOK
<1>2. /\ Counting(f, bufs, meta).meta = (requests[f].meta \/ meta)
      /\ Counting(f, bufs, meta).shutter = requests[f].shutter
      /\ Counting(f, bufs, meta).pendingMeta = requests[f].pendingMeta
  BY <1>1 DEF Counting, Request
<1> DEFINE c == Counting(f, bufs, meta)
<1>3. /\ Passing(f, bufs, bad, meta) \in Request
      /\ Passing(f, bufs, bad, meta).meta = c.meta
      /\ Passing(f, bufs, bad, meta).shutter = c.shutter
  BY DEF Passing, Request
<1>4. Keeping(f, bufs, bad, meta, full) = [c EXCEPT !.pendingBuffers = @ \cup bufs,
                                              !.badBuffer = @ \/ bad # {},
                                              !.pendingMeta = @ \/ full]
  BY DEF Keeping
<1>5. c \in Request
  OBVIOUS
<1>6. /\ Keeping(f, bufs, bad, meta, full) \in Request
      /\ Keeping(f, bufs, bad, meta, full).meta = c.meta
      /\ Keeping(f, bufs, bad, meta, full).shutter = c.shutter
      /\ Keeping(f, bufs, bad, meta, full).pendingMeta = (c.pendingMeta \/ full)
  <2> HIDE DEF c
  <2> QED
    BY <1>4, <1>5 DEF Request
<1> QED
  BY <1>2, <1>3, <1>6

LEMMA TakeResultAccounts ==
  ASSUME Inv, Accounts, NEW f \in Submitted, NEW bufs \in SUBSET atHal[f],
         NEW bad \in SUBSET bufs, NEW way \in Ways,
         HalResultTaken(f, bufs, bad, way), UNCHANGED conduct
  PROVE  Accounts'
<1> DEFINE meta == Present(way)
           full == Contents(way)
<1>3. returned'[f] \cup requests'[f].pendingBuffers
        = returned[f] \cup requests[f].pendingBuffers \cup bufs
  BY TakeResultKeepsInv
<1>1. f \in Frames /\ bufs \in SUBSET Streams
  BY SubmittedFrames DEF Inv, TypeOK
<1>0. /\ TakeResult(f, bufs, bad, meta, full)
      /\ atHal' = [atHal EXCEPT ![f] = @ \ bufs]
      /\ dueMeta' \subseteq dueMeta /\ (f \in dueMeta' => ~meta)
      /\ inlineOnly \subseteq inlineOnly'
      /\ meta => full \/ f \in inlineOnly'
      /\ full => meta
      /\ meta \in BOOLEAN /\ full \in BOOLEAN
      /\ UNCHANGED <<next, asked, dueShutter, refused, lateError>>
  BY <1>1 DEF HalResultTaken, HalSends, Present, Contents
<1> USE <1>0
<1> HIDE DEF meta, full
<1>2. /\ f \in registered /\ Counting(f, bufs, meta) \in Request
      /\ UNCHANGED shuttered
  BY <1>1, TakeResultFacts
<1>5. Honest /\ f \in dueMeta' => ~requests[f].meta /\ ~meta
  BY DEF Accounts, MetaOnce
<1>6. CASE requests[f].shutter
  <2> DEFINE r == Passing(f, bufs, bad, meta)
  <2>1. /\ Settled(f, r, returned[f] \cup bufs)
        /\ SendCaptureResult(f, full)
        /\ deviceError' = (deviceError \/ OutOfOrder(f, full))
    BY <1>1, <1>6, TakeResultFacts
  <2>2. /\ r \in Request /\ r.meta = (requests[f].meta \/ meta)
        /\ r.shutter = requests[f].shutter
    BY <1>1, <1>2, BuiltRequests DEF Inv
  <2>3. f \in shuttered
    BY <1>1, <1>6 DEF Inv, Delivered
  <2>4. /\ \A i \in 1 .. Len(results) :
             \E j \in 1 .. Len(results') : results'[j] = results[i]
        /\ full => OutOfOrder(f, full)
                   \/ \E j \in 1 .. Len(results') : results'[j] = f
    BY <1>1, <1>2, <2>1, <2>3, SendKeepsOrder DEF Inv, Delivered
  <2>5. full => deviceError' \/ \E j \in 1 .. Len(results') : results'[j] = f
    BY <2>1, <2>4
  <2>6. deviceError => deviceError'
    BY <2>1
  <2>7. /\ r.meta /\ r.shutter => full \/ f \in inlineOnly' \/
                                  (requests[f].meta /\ requests[f].shutter)
        /\ r.meta /\ ~r.shutter => r.pendingMeta \/ f \in inlineOnly'
        /\ Honest /\ f \in dueMeta' => ~r.meta
    BY <1>5, <1>6, <2>2
  <2> DEFINE done == returned[f] \cup bufs
  <2>8. Settled(f, r, done) /\ next' = next /\ asked' = asked
    BY <2>1
  <2> HIDE DEF r, done
  <2> QED
    BY <1>2, <1>3, <2>2, <2>4, <2>5, <2>6, <2>7, <2>8, SettledAccounts
<1>7. CASE ~requests[f].shutter
  <2> DEFINE r == Keeping(f, bufs, bad, meta, full)
  <2>1. /\ Settled(f, r, returned[f])
        /\ UNCHANGED <<results, deviceError>>
    BY <1>1, <1>7, TakeResultFacts
  <2>2. /\ r \in Request /\ r.meta = (requests[f].meta \/ meta)
        /\ r.shutter = requests[f].shutter
        /\ r.pendingMeta = (requests[f].pendingMeta \/ full)
    BY <1>1, <1>2, BuiltRequests DEF Inv
  <2>3. \A i \in 1 .. Len(results) :
          \E j \in 1 .. Len(results') : results'[j] = results[i]
    BY <2>1
  <2>4. requests[f].meta => requests[f].pendingMeta \/ f \in inlineOnly'
    BY <1>1, <1>7 DEF Accounts, Passed
  <2>5. /\ r.meta /\ r.shutter => FALSE \/ f \in inlineOnly' \/
                                  (requests[f].meta /\ requests[f].shutter)
        /\ r.meta /\ ~r.shutter => r.pendingMeta \/ f \in inlineOnly'
        /\ Honest /\ f \in dueMeta' => ~r.meta
    BY <1>5, <1>7, <2>2, <2>4
  <2> DEFINE send == FALSE
  <2>6. /\ send \in BOOLEAN
        /\ send => deviceError' \/ \E j \in 1 .. Len(results') : results'[j] = f
        /\ deviceError => deviceError'
    BY <2>1
  <2> HIDE DEF r
  <2> QED
    BY <1>2, <1>3, <2>1, <2>2, <2>3, <2>5, <2>6, SettledAccounts
<1> QED
  BY <1>6, <1>7

LEMMA TakeShutterAccounts ==
  ASSUME Inv, Accounts, NEW f \in Submitted, NEW flushing \in BOOLEAN,
         TakeShutter(f, flushing), dueShutter' = dueShutter \ {f},
         UNCHANGED <<next, asked, atHal, dueMeta, refused, lateError, sent,
                     conduct>>
  PROVE  Accounts'
<1> DEFINE r == Shuttering(f, flushing)
           send == requests[f].pendingMeta
<1>1. f \in Frames
  BY SubmittedFrames DEF Inv
<1>2. /\ f \in registered /\ shuttered' = shuttered \cup {f}
      /\ Settled(f, r, returned[f] \cup requests[f].pendingBuffers)
      /\ SendCaptureResult(f, send)
      /\ deviceError' = (deviceError \/ OutOfOrder(f, send))
  BY <1>1, TakeShutterFacts
<1>3. requests[f] \in Request /\ send \in BOOLEAN
  BY <1>1 DEF Inv, TypeOK, Request
<1>4. r \in Request /\ r.meta = requests[f].meta /\ r.shutter
  BY <1>3 DEF Shuttering, Request
<1>5. requests[f].meta => send \/ requests[f].shutter \/ f \in inlineOnly'
  BY <1>1 DEF Accounts, Passed, sent
<1> HIDE DEF r, send
<1>6. /\ \A i \in 1 .. Len(results) :
           \E j \in 1 .. Len(results') : results'[j] = results[i]
      /\ send => OutOfOrder(f, send)
                 \/ \E j \in 1 .. Len(results') : results'[j] = f
  BY <1>1, <1>2, <1>3, SendKeepsOrder DEF Inv, Delivered
<1>7. /\ send => deviceError' \/ \E j \in 1 .. Len(results') : results'[j] = f
      /\ deviceError => deviceError'
  BY <1>2, <1>6
<1>8. /\ r.meta /\ r.shutter => send \/ f \in inlineOnly' \/
                                (requests[f].meta /\ requests[f].shutter)
      /\ r.meta /\ ~r.shutter => r.pendingMeta \/ f \in inlineOnly'
      /\ Honest /\ f \in dueMeta' => ~r.meta
  BY <1>4, <1>5 DEF Accounts, MetaOnce
<1> DEFINE none == {}
           done == returned[f] \cup requests[f].pendingBuffers
<1>9. returned'[f] \cup requests'[f].pendingBuffers
        = returned[f] \cup requests[f].pendingBuffers \cup none
  BY TakeShutterKeepsInv
<1>10. none \in SUBSET atHal[f] /\ atHal' = [atHal EXCEPT ![f] = @ \ none]
  BY <1>1 DEF Inv, TypeOK
<1>11. /\ Settled(f, r, done) /\ next' = next /\ asked' = asked
       /\ dueMeta' \subseteq dueMeta /\ inlineOnly' = inlineOnly
  BY <1>2 DEF sent
<1> HIDE DEF none, done
<1> QED
  BY <1>2, <1>3, <1>4, <1>6, <1>7, <1>8, <1>9, <1>10, <1>11, SettledAccounts

(* A result is dropped with no buffer in it, or by a HAL that broke its    *)
(* contract and is found out.                                              *)
LEMMA DroppedAccounts ==
  ASSUME Inv, Accounts, NEW f \in Submitted, NEW bufs \in SUBSET atHal[f],
         NEW way \in Ways, way # "none" => MaySendMeta(f),
         Honest => way # "torn",
         Dropped(f, bufs, way), HalSends(f, bufs, way), UNCHANGED conduct
  PROVE  Accounts'
<1>1. f \in Frames
  BY SubmittedFrames DEF Inv
<1>2. /\ UNCHANGED <<registered, requests, results, returned>>
      /\ deviceError => deviceError'
  BY DroppedFacts
<1>3. Honest \/ ~deviceError' => bufs = {}
  <2>1. CASE NothingInside(bufs, way)
    BY <2>1 DEF NothingInside
  <2>2. CASE way = "torn" /\ UnreadableResult
    BY <2>2 DEF UnreadableResult
  <2>3. CASE IgnoreResult(f)
    <3>1. atHal[f] = {}
      BY <1>1, <2>3, ErasedIsGone DEF Inv, IgnoreResult
    <3> QED
      BY <3>1
  <2>4. CASE RejectResult(f, Present(way))
    <3>1. deviceError' /\ Present(way) /\ requests[f].meta
      BY <2>4 DEF RejectResult
    <3>2. Honest => f \in dueMeta
      BY <3>1 DEF MaySendMeta, FirstOf, Present
    <3> QED
      BY <3>1, <3>2 DEF Accounts, MetaOnce
  <2> QED
    BY <2>1, <2>2, <2>3, <2>4 DEF Dropped
<1>4. Honest \/ ~deviceError' => \A g \in Frames : atHal'[g] = atHal[g]
  BY <1>1, <1>3 DEF Inv, TypeOK, HalSends
<1>5. /\ dueMeta' \subseteq dueMeta /\ inlineOnly \subseteq inlineOnly'
      /\ UNCHANGED <<next, asked>>
  BY DEF HalSends
<1> QED
  BY <1>2, <1>4, <1>5, QuietAccounts

LEMMA NextKeepsAccounts == Inv /\ Accounts /\ [Next]_vars => Accounts'
<1> SUFFICES ASSUME Inv, Accounts, [Next]_vars PROVE Accounts'
  OBVIOUS
<1> UNCHANGED conduct
  BY DEF Next, vars
<1>1. ASSUME NEW streams \in SUBSET Streams, Submit(streams) PROVE Accounts'
  <2>1. /\ deviceError => deviceError'
        /\ dueMeta' \subseteq dueMeta \cup {next}
    BY <1>1 DEF Submit
  <2> QED
    BY <1>1, <2>1, MarkAccounts DEF Submit
<1>2. ASSUME NEW streams \in SUBSET Streams, SubmitFails(streams) PROVE Accounts'
  BY <1>2, MarkAccounts DEF SubmitFails
<1>3. ASSUME NEW f \in Submitted, HalShutter(f) PROVE Accounts'
  <2>1. ASSUME UnknownShutter(f) \/ LateShutter(f) PROVE Accounts'
    BY <1>3, <2>1, QuietAccounts DEF HalShutter, UnknownShutter, LateShutter, sent
  <2>2. ASSUME NEW flushing \in BOOLEAN, TakeShutter(f, flushing) PROVE Accounts'
    BY <1>3, <2>2, TakeShutterAccounts DEF HalShutter, sent
  <2> QED
    BY <1>3, <2>1, <2>2 DEF HalShutter, NotifyShutter
<1>4. ASSUME NEW f \in Submitted, NEW bufs \in SUBSET atHal[f],
             NEW way \in Ways, NEW bad \in SUBSET bufs,
             HalResult(f, bufs, bad, way)
      PROVE  Accounts'
  <2>1. /\ HalSends(f, bufs, way) /\ HandleCaptureResult(f, bufs, bad, way)
        /\ way # "none" => MaySendMeta(f)
        /\ Honest => way # "torn"
    BY <1>4 DEF HalResult, HalSends
  <2>2. CASE Dropped(f, bufs, way)
    BY <2>1, <2>2, DroppedAccounts
  <2>3. CASE TakeResult(f, bufs, bad, Present(way), Contents(way))
    BY <2>1, <2>3, TakeResultAccounts DEF HalResultTaken
  <2> QED
    BY <2>1, <2>2, <2>3 DEF HandleCaptureResult, Dropped
<1>5. ASSUME NEW f \in Submitted,
             HalFailsRequest(f) \/ HalFailsResult(f) \/ HalFailsBuffer(f)
      PROVE  Accounts'
  <2>1. /\ NotifyError(f) /\ UNCHANGED <<next, asked, atHal, inlineOnly>>
        /\ dueMeta' \subseteq dueMeta
    BY <1>5 DEF HalFailsRequest, HalFailsResult, HalFailsBuffer, hal, sent
  <2> QED
    BY <2>1, NotifyErrorFacts, QuietAccounts
<1>6. ASSUME HalFailsDevice \/ ForgetErrors \/ UNCHANGED vars PROVE Accounts'
  <2>1. /\ UNCHANGED <<next, asked, registered, returned, results, requests, hal,
                       inlineOnly>>
        /\ deviceError => deviceError'
    BY <1>6 DEF HalFailsDevice, ForgetErrors, vars, tracker, hal, sent
  <2> QED
    BY <2>1, QuietAccounts DEF hal
<1> QED
  BY <1>1, <1>2, <1>3, <1>4, <1>5, <1>6 DEF Next, HalAnswers, HalFails

(* A HAL that keeps to its contract, errors or not, gets no buffer lost.   *)
THEOREM NoBufferIsLost == Spec => []NoneLost
<1>1. Inv /\ Accounts => NoneLost
  <2> SUFFICES ASSUME Inv, Accounts, Honest, NEW f \in Frames
               PROVE  asked[f] = atHal[f] \cup Kept(f) \cup returned[f]
    BY DEF NoneLost
  <2>1. Kept(f) = requests[f].pendingBuffers
    BY DEF Inv, Erased, Kept
  <2> QED
    BY <2>1 DEF Accounts, Balanced
<1> QED
  BY <1>1, InitInv, InitAccounts, NextKeepsInv, NextKeepsAccounts, PTL DEF Spec

(* No buffer is doubled or lost between HAL, request and stream.           *)
THEOREM BuffersAreConserved == Spec => []BuffersConserved
BY BuffersComeBackOnce, NoBufferIsLost, PTL DEF BuffersConserved

(* No frame is erased before its client has had everything there is - but  *)
(* for a result whose metadata came inline -, for any HAL and any number   *)
(* of frames and streams.                                                  *)
THEOREM FramesAreFinished == Spec => []NothingForgotten
<1>1. Inv /\ Accounts => NothingForgotten
  <2> SUFFICES ASSUME Inv, Accounts, NEW f \in Submitted \ registered,
                      ~requests[f].failed, ~deviceError
               PROVE  /\ f \in shuttered
                      /\ HasResult(f) \/ f \in inlineOnly
                      /\ returned[f] = asked[f]
    BY DEF NothingForgotten
  <2>1. f \in Frames \ registered
    BY SubmittedFrames DEF Inv
  <2>2. requests[f].meta /\ requests[f].shutter
    BY DEF Accounts, Finished
  <2>3. f \in shuttered /\ (HasResult(f) \/ f \in inlineOnly)
    BY <2>1, <2>2 DEF Accounts, Passed, Inv, Delivered, HasResult
  <2>4. atHal[f] = {} /\ requests[f].pendingBuffers = {}
    BY <2>1, ErasedIsGone DEF Inv, Erased
  <2> QED
    BY <2>1, <2>3, <2>4 DEF Accounts, Balanced
<1> QED
  BY <1>1, InitInv, InitAccounts, NextKeepsInv, NextKeepsAccounts, PTL DEF Spec

-----------------------------------------------------------------------------
(* A HAL without faults.                                                   *)

LEMMA InitInStep == Init => InStep
<1> SUFFICES ASSUME Init PROVE InStep
  OBVIOUS
<1>1. \A f \in Frames : /\ ~requests[f].failed /\ ~requests[f].badBuffer
                        /\ ~requests[f].pendingMeta
  BY DEF Init, NewRequest
<1>2. Submitted = {} /\ dueMeta = {} /\ dueShutter = {}
  BY DEF Init, Submitted
<1>3. ~deviceError /\ nextShutter <= next /\ nextResult <= next
  BY DEF Init
<1> QED
  BY <1>1, <1>2, <1>3 DEF InStep

(* What is still due is due for a registered frame.                        *)
LEMMA DueIsRegistered ==
  ASSUME Inv, Accounts, InStep, NEW f \in Submitted
  PROVE  /\ f \in dueMeta \cup dueShutter => f \in registered
         /\ atHal[f] # {} => f \in registered
<1>1. f \in Frames
  BY SubmittedFrames DEF Inv
<1>2. ASSUME f \notin registered PROVE f \notin dueMeta \cup dueShutter
  BY <1>1, <1>2 DEF Accounts, Finished, InStep
<1>3. ASSUME f \notin registered PROVE atHal[f] = {}
  BY <1>1, <1>3, ErasedIsGone DEF Inv
<1> QED
  BY <1>2, <1>3

LEMMA SubmitInStep ==
  ASSUME Inv, InStep, conduct = "faultless", NEW streams, Submit(streams)
  PROVE  InStep'
<1>1. /\ next \in Frames /\ next' = next + 1 /\ next \in Nat
      /\ requests' = [requests EXCEPT ![next] = NewRequest(Cardinality(streams))]
      /\ dueShutter' = dueShutter \cup {next} /\ dueMeta' = dueMeta \cup {next}
      /\ UNCHANGED <<nextShutter, nextResult, deviceError, queueOnly>>
  BY TrackerAssumption
     DEF Submit, MarkPendingRequest, Honest, sent, Inv, TypeOK, Frames
<1>2. /\ ~requests'[next].failed /\ ~requests'[next].badBuffer
      /\ ~requests'[next].meta /\ ~requests'[next].shutter
      /\ ~requests'[next].pendingMeta
      /\ \A g \in Frames \ {next} : requests'[g] = requests[g]
  BY <1>1 DEF Inv, TypeOK, NewRequest
<1>3. /\ Submitted' = Submitted \cup {next} /\ next \notin Submitted
      /\ \A g \in Submitted : g \in Frames /\ g < next
  BY <1>1, SubmittedFrames DEF Inv, Submitted
<1>4. nextShutter \in Int /\ nextResult \in Int
  BY DEF Inv, TypeOK
<1>5. /\ \A f \in Submitted' : IF f \in dueMeta' THEN ~requests'[f].meta
                              ELSE requests'[f].meta \/ f \in queueOnly'
      /\ \A f \in Submitted' : f \in dueShutter' <=> ~requests'[f].shutter
  BY <1>1, <1>2, <1>3 DEF InStep
<1>6. /\ \A g \in dueMeta' : \A f \in Submitted' \ dueMeta' : f < g
      /\ \A g \in dueShutter' : \A f \in Submitted' \ dueShutter' : f < g
  BY <1>1, <1>3 DEF InStep
<1>7. /\ \A g \in dueMeta' \cup dueShutter' : nextResult' <= g
      /\ \A g \in dueShutter' : nextShutter' <= g
  BY <1>1 DEF InStep
<1>8. nextShutter' <= next' /\ nextResult' <= next' /\ ~deviceError'
  BY <1>1, <1>4 DEF InStep
<1>9. \A f \in Frames : /\ ~requests'[f].failed /\ ~requests'[f].badBuffer
                        /\ requests'[f].pendingMeta => requests'[f].meta
  BY <1>2 DEF InStep
<1> QED
  BY <1>5, <1>6, <1>7, <1>8, <1>9 DEF InStep

(* Sending the result of f leaves everything that is due to come after it. *)
LEMMA SendInStep ==
  ASSUME Inv, InStep, NEW f \in Submitted, NEW send \in BOOLEAN,
         SendCaptureResult(f, send), next' = next,
         dueMeta' \subseteq dueMeta, dueShutter' \subseteq dueShutter,
         send => f \in dueMeta \cup dueShutter,
         send => \A g \in dueMeta' \cup dueShutter' : f < g
  PROVE  /\ ~OutOfOrder(f, send)
         /\ nextResult' <= next'
         /\ \A g \in dueMeta' \cup dueShutter' : nextResult' <= g
<1>1. f \in Int /\ f < next /\ next \in Int /\ nextResult \in Int
  BY SubmittedFrames DEF Inv, TypeOK
<1>2. dueMeta \cup dueShutter \subseteq Int
  BY DEF Inv, TypeOK, Frames
<1>3. CASE send
  <2>1. f >= nextResult
    BY <1>1, <1>3 DEF InStep
  <2>2. nextResult' = f + 1
    BY <1>3, <2>1 DEF SendCaptureResult
  <2>3. \A g \in dueMeta' \cup dueShutter' : f < g /\ g \in Int
    BY <1>2, <1>3
  <2> QED
    BY <1>1, <2>1, <2>2, <2>3 DEF OutOfOrder
<1>4. CASE ~send
  BY <1>4 DEF OutOfOrder, SendCaptureResult, InStep
<1> QED
  BY <1>3, <1>4

(* The first of what is due, or nothing, is done.                          *)
Done(f, due, left) == left = due \/ (FirstOf(f, due) /\ left = due \ {f})

LEMMA DoneInOrder ==
  ASSUME TypeOK, NEW f \in Submitted, NEW due \in SUBSET Frames, NEW left,
         Done(f, due, left), \A g \in due : \A h \in Submitted \ due : h < g
  PROVE  /\ left \subseteq due
         /\ \A g \in left : \A h \in Submitted \ left : h < g
<1>1. \A h \in Submitted : h \in Int
  BY SubmittedFrames
<1>2. due \subseteq Int
  BY DEF Frames
<1>3. CASE left = due
  BY <1>3
<1>4. CASE FirstOf(f, due) /\ left = due \ {f}
  <2> SUFFICES ASSUME NEW g \in left, NEW h \in Submitted \ left
               PROVE  h < g
    BY <1>4
  <2>1. g \in due /\ g # f /\ f <= g
    BY <1>4 DEF FirstOf
  <2>2. CASE h = f
    BY <1>1, <1>2, <2>1, <2>2
  <2>3. CASE h # f
    BY <1>4, <2>1, <2>3
  <2> QED
    BY <2>2, <2>3
<1> QED
  BY <1>3, <1>4 DEF Done

LEMMA SettledInStep ==
  ASSUME Inv, InStep, NEW f \in Submitted, NEW r \in Request, NEW done,
         Settled(f, r, done), next' = next,
         ~r.failed, ~r.badBuffer, r.pendingMeta => r.meta,
         IF f \in dueMeta' THEN ~r.meta ELSE r.meta \/ f \in queueOnly',
         queueOnly \subseteq queueOnly', f \in dueShutter' <=> ~r.shutter,
         Done(f, dueMeta, dueMeta'), Done(f, dueShutter, dueShutter'),
         ~deviceError', nextResult' <= next', nextShutter' <= next',
         \A g \in dueMeta' \cup dueShutter' : nextResult' <= g,
         \A g \in dueShutter' : nextShutter' <= g
  PROVE  InStep'
<1>1. f \in Frames /\ \A g \in Submitted : g \in Frames
  BY SubmittedFrames DEF Inv
<1>2. Submitted' = Submitted
  BY DEF Submitted
<1>3. /\ \A g \in Frames \ {f} : requests'[g] = requests[g]
      /\ requests'[f].meta = r.meta /\ requests'[f].shutter = r.shutter
      /\ requests'[f].pendingMeta = r.pendingMeta
      /\ requests'[f].failed = r.failed /\ requests'[f].badBuffer = r.badBuffer
  BY DEF Settled
<1>4. \A g \in Frames : /\ ~requests'[g].failed /\ ~requests'[g].badBuffer
                        /\ requests'[g].pendingMeta => requests'[g].meta
  <2> SUFFICES ASSUME NEW g \in Frames
               PROVE  /\ ~requests'[g].failed /\ ~requests'[g].badBuffer
                      /\ requests'[g].pendingMeta => requests'[g].meta
    OBVIOUS
  <2>1. CASE g = f
    BY <2>1, <1>3
  <2>2. CASE g # f
    BY <2>2, <1>3 DEF InStep
  <2> QED
    BY <2>1, <2>2
<1>5. \A g \in Submitted \ {f} : /\ g \in dueMeta' <=> g \in dueMeta
                                 /\ g \in dueShutter' <=> g \in dueShutter
  BY DEF Done
<1>6. \A g \in Submitted : /\ IF g \in dueMeta' THEN ~requests'[g].meta
                              ELSE requests'[g].meta \/ g \in queueOnly'
                           /\ g \in dueShutter' <=> ~requests'[g].shutter
  <2> SUFFICES ASSUME NEW g \in Submitted
               PROVE  /\ IF g \in dueMeta' THEN ~requests'[g].meta
                         ELSE requests'[g].meta \/ g \in queueOnly'
                      /\ g \in dueShutter' <=> ~requests'[g].shutter
    OBVIOUS
  <2>1. CASE g = f
    BY <2>1, <1>3
  <2>2. CASE g # f
    BY <2>2, <1>1, <1>3, <1>5 DEF InStep
  <2> QED
    BY <2>1, <2>2
<1>7. /\ \A g \in dueMeta' : \A h \in Submitted \ dueMeta' : h < g
      /\ \A g \in dueShutter' : \A h \in Submitted \ dueShutter' : h < g
  BY DoneInOrder DEF Inv, TypeOK, InStep
<1> QED
  BY <1>2, <1>4, <1>6, <1>7 DEF InStep

LEMMA ShutterInStep ==
  ASSUME Inv, Accounts, InStep, conduct = "faultless",
         NEW f \in Submitted, HalShutter(f)
  PROVE  InStep'
<1>1. f \in Frames /\ f < next /\ f \in Int /\ next \in Int
  BY SubmittedFrames DEF Inv
<1>2. FirstOf(f, dueShutter) /\ f \in dueShutter
  BY DEF HalShutter, MaySendShutter, FirstOf, Honest
<1>3. f \in registered /\ f >= nextShutter
  BY <1>1, <1>2, DueIsRegistered DEF InStep, Inv, TypeOK
<1>4. PICK flushing \in BOOLEAN : TakeShutter(f, flushing)
  <2>1. nextShutter \in Int
    BY DEF Inv, TypeOK
  <2> QED
    BY <1>1, <1>3, <2>1
       DEF HalShutter, NotifyShutter, UnknownShutter, LateShutter
<1> DEFINE r == Shuttering(f, flushing)
           send == requests[f].pendingMeta
<1>5. /\ Settled(f, r, returned[f] \cup requests[f].pendingBuffers)
      /\ nextShutter' = f + 1
      /\ SendCaptureResult(f, send)
      /\ deviceError' = (deviceError \/ OutOfOrder(f, send))
  BY <1>1, <1>4, TakeShutterFacts
<1>6. /\ dueShutter' = dueShutter \ {f} /\ dueMeta' = dueMeta /\ next' = next
      /\ queueOnly' = queueOnly
  BY DEF HalShutter, sent
<1>7. requests[f] \in Request /\ send \in BOOLEAN
  BY <1>1 DEF Inv, TypeOK, Request
<1>8. /\ r \in Request /\ r.meta = requests[f].meta /\ r.shutter
      /\ r.pendingMeta = requests[f].pendingMeta
      /\ r.badBuffer = requests[f].badBuffer
      /\ r.failed = (requests[f].failed \/ (requests[f].badBuffer /\ ~flushing))
  BY <1>7 DEF Shuttering, Request
<1>9. /\ ~requests[f].failed /\ ~requests[f].badBuffer
      /\ requests[f].pendingMeta => requests[f].meta
      /\ IF f \in dueMeta THEN ~requests[f].meta
         ELSE requests[f].meta \/ f \in queueOnly
  BY <1>1 DEF InStep
<1>10. \A g \in dueShutter' : f < g
  BY <1>1, <1>2, <1>6 DEF FirstOf, Inv, TypeOK, Frames
<1>11. send => \A g \in dueMeta' \cup dueShutter' : f < g
  BY <1>6, <1>9, <1>10 DEF InStep
<1> HIDE DEF r, send
<1>12. /\ ~OutOfOrder(f, send)
       /\ nextResult' <= next'
       /\ \A g \in dueMeta' \cup dueShutter' : nextResult' <= g
  BY <1>2, <1>5, <1>6, <1>7, <1>11, SendInStep
<1>13. ~deviceError'
  BY <1>5, <1>12 DEF InStep
<1>14. nextShutter' <= next' /\ \A g \in dueShutter' : nextShutter' <= g
  BY <1>1, <1>5, <1>6, <1>10 DEF Inv, TypeOK, Frames
<1>15. /\ Done(f, dueMeta, dueMeta') /\ Done(f, dueShutter, dueShutter')
       /\ IF f \in dueMeta' THEN ~r.meta ELSE r.meta \/ f \in queueOnly'
       /\ queueOnly \subseteq queueOnly'
       /\ f \in dueShutter' <=> ~r.shutter
  BY <1>2, <1>6, <1>8, <1>9 DEF Done
<1>16. ~r.failed /\ ~r.badBuffer /\ (r.pendingMeta => r.meta)
  BY <1>8, <1>9
<1> QED
  BY <1>5, <1>6, <1>8, <1>12, <1>13, <1>14, <1>15, <1>16, SettledInStep

(* Metadata that comes by the queue alone and is not looked at.            *)
LEMMA NothingInStep ==
  ASSUME Inv, InStep, NEW f \in Submitted, UNCHANGED tracker, next' = next,
         Done(f, dueMeta, dueMeta'), dueShutter' = dueShutter,
         queueOnly \subseteq queueOnly',
         f \notin dueMeta' => requests[f].meta \/ f \in queueOnly'
  PROVE  InStep'
<1>1. UNCHANGED <<requests, deviceError, nextShutter, nextResult>>
  BY DEF tracker
<1>2. /\ dueMeta' \subseteq dueMeta
      /\ \A g \in dueMeta' : \A h \in Submitted \ dueMeta' : h < g
  BY DoneInOrder DEF Inv, TypeOK, InStep
<1>3. \A g \in Submitted : IF g \in dueMeta' THEN ~requests[g].meta
                           ELSE requests[g].meta \/ g \in queueOnly'
  <2> TAKE g \in Submitted
  <2>1. CASE g = f
    BY <1>2, <2>1 DEF InStep
  <2>2. CASE g # f
    BY <2>2 DEF InStep, Done
  <2> QED
    BY <2>1, <2>2
<1>4. Submitted' = Submitted
  BY DEF Submitted
<1> QED
  BY <1>1, <1>2, <1>3, <1>4 DEF InStep

LEMMA ResultInStep ==
  ASSUME Inv, Accounts, InStep, conduct = "faultless",
         NEW f \in Submitted, NEW bufs \in SUBSET atHal[f],
         NEW bad \in SUBSET bufs, NEW way \in Ways,
         HalResult(f, bufs, bad, way)
  PROVE  InStep'
<1> DEFINE meta == Present(way)
           full == Contents(way)
<1>1. f \in Frames /\ bufs \in SUBSET Streams /\ \A g \in Submitted : g \in Frames
  BY SubmittedFrames DEF Inv, TypeOK
<1>2. /\ bad = {} /\ way # "torn"
      /\ way # "none" => FirstOf(f, dueMeta) /\ f \in dueMeta
      /\ dueMeta' = IF way # "none" THEN dueMeta \ {f} ELSE dueMeta
      /\ queueOnly' = IF way = "queue" /\ f \in dueMeta THEN queueOnly \cup {f}
                                                      ELSE queueOnly
      /\ dueShutter' = dueShutter /\ next' = next
      /\ bufs # {} \/ way # "none"
      /\ HandleCaptureResult(f, bufs, bad, way)
  BY DEF HalResult, MaySendMeta, FirstOf, Honest, MayReport
<1>a. /\ meta \in BOOLEAN /\ full \in BOOLEAN /\ (full => meta)
      /\ meta <=> way = "inline" \/ way = "both"
  BY DEF Present, Contents
<1> HIDE DEF meta, full
<1>3. f \in registered
  BY <1>2, DueIsRegistered
<1>7. /\ ~requests[f].failed /\ ~requests[f].badBuffer
      /\ requests[f].pendingMeta => requests[f].meta
      /\ IF f \in dueMeta THEN ~requests[f].meta
         ELSE requests[f].meta \/ f \in queueOnly
      /\ f \in dueShutter <=> ~requests[f].shutter
  BY <1>1 DEF InStep
<1>8. /\ Done(f, dueMeta, dueMeta') /\ Done(f, dueShutter, dueShutter')
      /\ IF f \in dueMeta' THEN ~(requests[f].meta \/ meta)
         ELSE requests[f].meta \/ meta \/ f \in queueOnly'
      /\ f \in dueShutter' <=> ~requests[f].shutter
      /\ dueMeta' \subseteq dueMeta
      /\ queueOnly \subseteq queueOnly'
  BY <1>2, <1>7, <1>a DEF Done, Ways
<1>b. CASE NothingInside(bufs, way) /\ UNCHANGED tracker
  <2>1. f \notin dueMeta' => requests[f].meta \/ f \in queueOnly'
    BY <1>2, <1>7, <1>b DEF NothingInside
  <2> QED
    BY <1>2, <1>8, <1>b, <2>1, NothingInStep
<1>c. SUFFICES ASSUME TakeResult(f, bufs, bad, meta, full) PROVE InStep'
  <2>1. ~(meta /\ requests[f].meta)
    BY <1>2, <1>7, <1>a
  <2> QED
    BY <1>2, <1>3, <1>b, <2>1
       DEF HandleCaptureResult, IgnoreResult, RejectResult, meta, full
<1>5. /\ Counting(f, bufs, meta) \in Request /\ UNCHANGED nextShutter
      /\ \/ /\ requests[f].shutter
            /\ Settled(f, Passing(f, bufs, bad, meta), returned[f] \cup bufs)
            /\ SendCaptureResult(f, full)
            /\ deviceError' = (deviceError \/ OutOfOrder(f, full))
         \/ /\ ~requests[f].shutter
            /\ Settled(f, Keeping(f, bufs, bad, meta, full), returned[f])
            /\ UNCHANGED <<results, nextResult, deviceError>>
  BY <1>1, <1>a, <1>c, TakeResultFacts
<1>6. requests[f] \in Request
  BY <1>1 DEF Inv, TypeOK
<1>9. nextShutter' <= next' /\ \A g \in dueShutter' : nextShutter' <= g
  BY <1>2, <1>5 DEF InStep
<1>10. CASE requests[f].shutter
  <2> DEFINE r == Passing(f, bufs, bad, meta)
  <2>1. /\ Settled(f, r, returned[f] \cup bufs)
        /\ SendCaptureResult(f, full)
        /\ deviceError' = (deviceError \/ OutOfOrder(f, full))
    BY <1>5, <1>10
  <2>2. /\ r \in Request /\ r.meta = (requests[f].meta \/ meta)
        /\ r.shutter = requests[f].shutter
    BY <1>1, <1>5, <1>a, BuiltRequests DEF Inv
  <2>3. /\ r.failed = Counting(f, bufs, meta).failed
        /\ r.badBuffer = Counting(f, bufs, meta).badBuffer
        /\ r.pendingMeta = Counting(f, bufs, meta).pendingMeta
    BY <1>2, <1>5 DEF Passing, Request
  <2>4. ~r.failed /\ ~r.badBuffer /\ (r.pendingMeta => r.meta)
    <3>1. /\ Counting(f, bufs, meta).failed = requests[f].failed
          /\ Counting(f, bufs, meta).badBuffer = requests[f].badBuffer
          /\ Counting(f, bufs, meta).pendingMeta = requests[f].pendingMeta
      BY <1>6 DEF Counting, Request
    <3> QED
      BY <1>7, <2>2, <2>3, <3>1
  <2>5. full => f \in dueMeta /\ \A g \in dueMeta' \cup dueShutter' : f < g
    BY <1>1, <1>2, <1>7, <1>10, <1>a DEF FirstOf, InStep, Inv, TypeOK, Frames
  <2>6. /\ ~OutOfOrder(f, full) /\ nextResult' <= next'
        /\ \A g \in dueMeta' \cup dueShutter' : nextResult' <= g
    BY <1>2, <1>8, <1>a, <2>1, <2>5, SendInStep
  <2>7. ~deviceError'
    BY <2>1, <2>6 DEF InStep
  <2> DEFINE done == returned[f] \cup bufs
  <2>8. Settled(f, r, done)
    BY <2>1
  <2> HIDE DEF r, done
  <2> QED
    BY <1>2, <1>8, <1>9, <2>2, <2>4, <2>6, <2>7, <2>8, SettledInStep
<1>11. CASE ~requests[f].shutter
  <2> DEFINE r == Keeping(f, bufs, bad, meta, full)
  <2>1. Settled(f, r, returned[f]) /\ UNCHANGED <<results, nextResult, deviceError>>
    BY <1>5, <1>11
  <2>2. /\ r \in Request /\ r.meta = (requests[f].meta \/ meta)
        /\ r.shutter = requests[f].shutter
        /\ r.pendingMeta = (requests[f].pendingMeta \/ full)
    BY <1>1, <1>5, <1>a, BuiltRequests DEF Inv
  <2>3. r.failed = requests[f].failed /\ r.badBuffer = requests[f].badBuffer
    <3> DEFINE c == Counting(f, bufs, meta)
    <3>1. c.failed = requests[f].failed /\ c.badBuffer = requests[f].badBuffer
      BY <1>6 DEF Counting, Request
    <3>2. r = [c EXCEPT !.pendingBuffers = @ \cup bufs,
                        !.badBuffer = @ \/ bad # {},
                        !.pendingMeta = @ \/ full]
      BY DEF Keeping
    <3>3. c \in Request
      BY <1>5
    <3> HIDE DEF c, r
    <3>4. r.failed = c.failed /\ r.badBuffer = (c.badBuffer \/ bad # {})
      BY <3>2, <3>3 DEF Request
    <3>5. c.badBuffer \in BOOLEAN
      BY <3>3 DEF Request
    <3> QED
      BY <1>2, <3>1, <3>4, <3>5
  <2>4. ~r.failed /\ ~r.badBuffer /\ (r.pendingMeta => r.meta)
    BY <1>7, <1>a, <2>2, <2>3
  <2>5. /\ ~deviceError' /\ nextResult' <= next'
        /\ \A g \in dueMeta' \cup dueShutter' : nextResult' <= g
    BY <1>2, <1>8, <2>1 DEF InStep
  <2> HIDE DEF r
  <2> QED
    BY <1>2, <1>8, <1>9, <2>1, <2>2, <2>4, <2>5, SettledInStep
<1> QED
  BY <1>10, <1>11

LEMMA NextKeepsBlameless ==
  Inv /\ Accounts /\ Blameless /\ [Next]_vars => Blameless'
<1> SUFFICES ASSUME Inv, Accounts, conduct = "faultless", InStep, [Next]_vars
             PROVE  InStep'
  BY DEF Blameless, Next, vars
<1>1. ASSUME NEW streams, Submit(streams) PROVE InStep'
  BY <1>1, SubmitInStep
<1>2. ASSUME NEW f \in Submitted, HalShutter(f) PROVE InStep'
  BY <1>2, ShutterInStep
<1>3. ASSUME NEW f \in Submitted, NEW bufs \in SUBSET atHal[f],
             NEW way \in Ways, NEW bad \in SUBSET bufs,
             HalResult(f, bufs, bad, way)
      PROVE  InStep'
  BY <1>3, ResultInStep
<1>4. CASE ForgetErrors \/ UNCHANGED vars
  BY <1>4 DEF ForgetErrors, vars, tracker, hal, sent, InStep, Submitted
<1>5. /\ ~HalFails
      /\ \A streams \in SUBSET Streams : ~SubmitFails(streams)
  BY DEF HalFails, HalFailsDevice, HalFailsRequest, HalFailsResult,
         HalFailsBuffer, SubmitFails, MayReport
<1> QED
  BY <1>1, <1>2, <1>3, <1>4, <1>5 DEF Next, HalAnswers

(* A HAL that keeps to its contract and has no faults is never accused of  *)
(* an error, for any number of frames and streams.                         *)
THEOREM HonestHalIsNotBlamed == Spec => []HonestHalNotBlamed
<1>1. Init => Inv /\ Accounts /\ Blameless
  BY InitInv, InitAccounts, InitInStep DEF Blameless
<1>2. Inv /\ Accounts /\ Blameless /\ [Next]_vars => (Inv /\ Accounts /\ Blameless)'
  BY NextKeepsInv, NextKeepsAccounts, NextKeepsBlameless
<1>3. Blameless => HonestHalNotBlamed
  BY DEF Blameless, InStep, HonestHalNotBlamed
<1> QED
  BY <1>1, <1>2, <1>3, PTL DEF Spec

-----------------------------------------------------------------------------
(* A frame that is still registered, though the HAL accepted it, its last  *)
(* news was no error and its metadata not left to the queue alone, is one  *)
(* the HAL has more to say of: its buffers are counted, and what it has    *)
(* not had it will get.                                                    *)
Expected(f) ==
  /\ requests[f].remaining = Cardinality(atHal[f])
  /\ ~Complete(requests[f])
  /\ f \in dueMeta \/ requests[f].meta \/ requests[f].failed
  /\ f \in dueShutter \/ requests[f].shutter \/ requests[f].failed

(* Its shutters are never late.                                            *)
Ahead == nextShutter <= next /\ \A f \in dueShutter : nextShutter <= f

Unsettled == registered \ (refused \cup lateError \cup queueOnly)

Expecting == Honest => Ahead /\ \A f \in Unsettled : Expected(f)

(* After RemovePendingRequestLocked a request that stays is not complete.  *)
LEMMA RemoveErases ==
  ASSUME TypeOK, NEW f \in Frames, NEW r, NEW done,
         RemovePendingRequest(f, r, done)
  PROVE  /\ f \in registered' => ~Complete(r) /\ requests'[f] = r
         /\ registered' \subseteq registered
         /\ \A g \in Frames \ {f} : requests'[g] = requests[g]
<1>1. requests \in [Frames -> Request]
  BY DEF TypeOK
<1>2. CASE Complete(r)
  BY <1>1, <1>2 DEF RemovePendingRequest
<1>3. CASE ~Complete(r)
  BY <1>1, <1>3 DEF RemovePendingRequest
<1> QED
  BY <1>2, <1>3

(* An answer for frame f leaves f as r, if at all, and other frames alone. *)
LEMMA AnswerKeepsExpected ==
  ASSUME Inv, Honest, \A g \in Unsettled : Expected(g),
         NEW f \in Frames, f \in registered, NEW r, NEW done,
         RemovePendingRequest(f, r, done), NEW bufs \in SUBSET atHal[f],
         UNCHANGED <<refused, lateError>>,
         atHal' = [atHal EXCEPT ![f] = @ \ bufs],
         dueMeta \ {f} \subseteq dueMeta', dueShutter \ {f} \subseteq dueShutter',
         r.remaining = requests[f].remaining - Cardinality(bufs),
         queueOnly \subseteq queueOnly',
         f \in dueMeta => f \in dueMeta' \/ r.meta \/ f \in queueOnly',
         f \in dueShutter => f \in dueShutter' \/ r.shutter,
         requests[f].meta => r.meta, requests[f].shutter => r.shutter,
         requests[f].failed => r.failed
  PROVE  \A g \in Unsettled' : Expected(g)'
<1>1. /\ f \in registered' => ~Complete(r) /\ requests'[f] = r
      /\ registered' \subseteq registered
      /\ \A g \in Frames \ {f} : requests'[g] = requests[g]
  BY RemoveErases DEF Inv
<1> TAKE g \in Unsettled'
<1>2. /\ g \in registered' /\ g \in Unsettled /\ g \in Frames /\ Expected(g)
      /\ g \notin queueOnly'
  BY <1>1 DEF Unsettled, Inv, TypeOK
<1>3. CASE g = f
  <2>1. Cardinality(atHal[f] \ bufs) = Cardinality(atHal[f]) - Cardinality(bufs)
    BY AtHalFinite DEF Inv
  <2>2. atHal'[f] = atHal[f] \ bufs
    BY DEF Inv, TypeOK
  <2> QED
    BY <1>1, <1>2, <1>3, <2>1, <2>2 DEF Expected
<1>4. CASE g # f
  <2>1. requests'[g] = requests[g] /\ atHal'[g] = atHal[g]
    BY <1>1, <1>2, <1>4 DEF Inv, TypeOK
  <2> QED
    BY <1>2, <1>4, <2>1 DEF Expected, Complete
<1> QED
  BY <1>3, <1>4

(* What says nothing to a registered frame changes nothing expected of it. *)
LEMMA OthersKeepExpected ==
  ASSUME Inv, \A g \in Unsettled : Expected(g), NEW f,
         f \notin registered,
         UNCHANGED <<registered, requests, refused, lateError>>,
         queueOnly \subseteq queueOnly',
         \A g \in registered : atHal'[g] = atHal[g],
         dueMeta \ {f} \subseteq dueMeta', dueShutter \ {f} \subseteq dueShutter'
  PROVE  \A g \in Unsettled' : Expected(g)'
BY DEF Unsettled, Expected, Complete

LEMMA ResultKeepsExpected ==
  ASSUME Inv, Accounts, Honest, \A g \in Unsettled : Expected(g),
         NEW f \in Submitted, NEW bufs \in SUBSET atHal[f],
         NEW bad \in SUBSET bufs, NEW way \in Ways,
         HalResult(f, bufs, bad, way)
  PROVE  \A g \in Unsettled' : Expected(g)'
<1> DEFINE meta == Present(way)
           full == Contents(way)
<1>1. /\ f \in Frames /\ bufs \in SUBSET Streams
      /\ HandleCaptureResult(f, bufs, bad, way)
      /\ atHal' = [atHal EXCEPT ![f] = @ \ bufs]
      /\ dueMeta \ {f} \subseteq dueMeta'
      /\ f \in dueMeta => f \in dueMeta' \/ meta \/ f \in queueOnly'
      /\ queueOnly \subseteq queueOnly'
      /\ UNCHANGED <<dueShutter, refused, lateError>>
      /\ meta => f \in dueMeta
      /\ way # "torn"
      /\ meta \in BOOLEAN /\ full \in BOOLEAN
  BY SubmittedFrames
     DEF Inv, TypeOK, HalResult, MaySendMeta, FirstOf, Present, Contents, Ways
<1>5. CASE NothingInside(bufs, way) /\ UNCHANGED tracker
  <2>1. UNCHANGED <<registered, requests>> /\ \A g \in Frames : atHal'[g] = atHal[g]
    BY <1>1, <1>5 DEF NothingInside, tracker, Inv, TypeOK
  <2>2. f \in dueMeta => f \in dueMeta' \/ f \in queueOnly'
    BY <1>1, <1>5 DEF NothingInside, Present
  <2> TAKE g \in Unsettled'
  <2>3. g \in Unsettled /\ g \in Frames /\ g \notin queueOnly' /\ Expected(g)
    BY <1>1, <2>1 DEF Unsettled, Inv, TypeOK
  <2> QED
    BY <1>1, <2>1, <2>2, <2>3 DEF Expected, Complete
<1> HIDE DEF meta, full
<1>2. CASE IgnoreResult(f)
  <2>1. /\ f \notin registered /\ UNCHANGED <<registered, requests>>
        /\ \A g \in registered : atHal'[g] = atHal[g]
    BY <1>1, <1>2 DEF IgnoreResult, Inv, TypeOK
  <2> QED
    BY <1>1, <2>1, OthersKeepExpected
<1>3. CASE RejectResult(f, meta)
  BY <1>1, <1>3 DEF RejectResult, Accounts, MetaOnce
<1>4. CASE TakeResult(f, bufs, bad, meta, full)
  <2>1. f \in registered /\ Counting(f, bufs, meta) \in Request
    BY <1>1, <1>4, TakeResultFacts
  <2> DEFINE n == requests[f].remaining - Cardinality(bufs)
  <2>2. PICK r, done :
          /\ RemovePendingRequest(f, r, done)
          /\ r.remaining = n
          /\ r.meta = (requests[f].meta \/ meta)
          /\ r.shutter = requests[f].shutter
          /\ requests[f].failed => r.failed
    <3>1. requests[f] \in Request
      BY <1>1 DEF Inv, TypeOK
    <3>2. /\ Counting(f, bufs, meta).remaining = n
          /\ Counting(f, bufs, meta).failed = requests[f].failed
      BY <3>1 DEF Counting, Request
    <3> DEFINE c == Counting(f, bufs, meta)
               p == Passing(f, bufs, bad, meta)
               k == Keeping(f, bufs, bad, meta, full)
    <3>3. /\ p.remaining = c.remaining /\ (c.failed => p.failed)
          /\ k.remaining = c.remaining /\ k.failed = c.failed
      <4>1. /\ p = [c EXCEPT !.failed = @ \/ bad # {}]
            /\ k = [c EXCEPT !.pendingBuffers = @ \cup bufs,
                             !.badBuffer = @ \/ bad # {},
                             !.pendingMeta = @ \/ full]
        BY DEF Passing, Keeping
      <4>2. c \in Request
        BY <2>1
      <4> HIDE DEF c, p, k
      <4> QED
        BY <4>1, <4>2 DEF Request
    <3>4. /\ p.meta = (requests[f].meta \/ meta)
          /\ p.shutter = requests[f].shutter
          /\ k.meta = (requests[f].meta \/ meta)
          /\ k.shutter = requests[f].shutter
      BY <1>1, <2>1, BuiltRequests DEF Inv
    <3>5. CASE requests[f].shutter
      <4>1. RemovePendingRequest(f, p, returned[f] \cup bufs)
        BY <1>4, <3>5 DEF TakeResult, Passing, Counting
      <4> HIDE DEF p, n
      <4> QED
        BY <3>2, <3>3, <3>4, <4>1
    <3>6. CASE ~requests[f].shutter
      <4>1. RemovePendingRequest(f, k, returned[f])
        BY <1>4, <3>6 DEF TakeResult, Keeping, Counting
      <4> HIDE DEF k, n
      <4> QED
        BY <3>2, <3>3, <3>4, <4>1
    <3> QED
      BY <3>5, <3>6
  <2> QED
    BY <1>1, <2>1, <2>2, AnswerKeepsExpected
<1> QED
  BY <1>1, <1>2, <1>3, <1>4, <1>5 DEF HandleCaptureResult, meta, full

LEMMA ShutterKeepsExpected ==
  ASSUME Inv, Honest, Ahead, \A g \in Unsettled : Expected(g),
         NEW f \in Submitted, HalShutter(f)
  PROVE  Ahead' /\ \A g \in Unsettled' : Expected(g)'
<1>1. /\ f \in Frames /\ f < next /\ f \in Int /\ next \in Int
      /\ f \in dueShutter /\ \A g \in dueShutter : f <= g
      /\ NotifyShutter(f) /\ dueShutter' = dueShutter \ {f}
      /\ UNCHANGED <<next, atHal, dueMeta, refused, lateError, queueOnly>>
      /\ dueShutter \subseteq Frames /\ nextShutter \in Int
  BY SubmittedFrames
     DEF Inv, TypeOK, HalShutter, MaySendShutter, FirstOf, sent
<1>2. ~LateShutter(f)
  BY <1>1 DEF LateShutter, Ahead
<1>3. CASE UnknownShutter(f)
  <2>1. f \notin registered /\ UNCHANGED <<registered, requests, nextShutter>>
    BY <1>3 DEF UnknownShutter
  <2>2. \A g \in Unsettled' : Expected(g)'
    BY <1>1, <2>1, OthersKeepExpected
  <2> QED
    BY <1>1, <2>1, <2>2 DEF Ahead
<1>4. ASSUME NEW flushing \in BOOLEAN, TakeShutter(f, flushing)
      PROVE  Ahead' /\ \A g \in Unsettled' : Expected(g)'
  <2>1. f \in registered /\ nextShutter' = f + 1
    BY <1>4 DEF TakeShutter
  <2>2. Ahead'
    <3>1. \A g \in dueShutter' : g \in Int /\ f <= g /\ g # f
      BY <1>1 DEF Frames
    <3> QED
      BY <1>1, <2>1, <3>1 DEF Ahead
  <2> DEFINE r == Shuttering(f, flushing)
  <2>3. RemovePendingRequest(f, r, returned[f] \cup requests[f].pendingBuffers)
    BY <1>4 DEF TakeShutter, Shuttering
  <2>4. /\ r.shutter /\ r.meta = requests[f].meta
        /\ r.remaining = requests[f].remaining
        /\ requests[f].failed => r.failed
        /\ requests[f].remaining \in Nat
    <3>1. requests[f] \in Request
      BY <1>1 DEF Inv, TypeOK
    <3> QED
      BY <3>1 DEF Shuttering, Request
  <2> HIDE DEF r
  <2> DEFINE bufs == {}
  <2>5. /\ bufs \in SUBSET atHal[f] /\ atHal' = [atHal EXCEPT ![f] = @ \ bufs]
        /\ r.remaining = requests[f].remaining - Cardinality(bufs)
    BY <1>1, <2>4, FS_EmptySet DEF Inv, TypeOK
  <2> HIDE DEF bufs
  <2> QED
    BY <1>1, <2>1, <2>2, <2>3, <2>4, <2>5, AnswerKeepsExpected
<1> QED
  BY <1>1, <1>2, <1>3, <1>4 DEF NotifyShutter

LEMMA ErrorKeepsExpected ==
  ASSUME Inv, Honest, \A g \in Unsettled : Expected(g), NEW f \in Submitted,
         NotifyError(f), UNCHANGED <<atHal, refused, queueOnly>>,
         dueMeta \ {f} \subseteq dueMeta', dueShutter \ {f} \subseteq dueShutter',
         f \notin registered => UNCHANGED lateError
  PROVE  \A g \in Unsettled' : Expected(g)'
<1>1. f \in Frames /\ requests \in [Frames -> Request] /\ registered \subseteq Frames
  BY SubmittedFrames DEF Inv, TypeOK
<1>2. registered' = registered
  BY DEF NotifyError
<1>3. CASE f \notin registered
  BY <1>1, <1>2, <1>3, OthersKeepExpected DEF NotifyError
<1>4. CASE f \in registered
  <2>1. /\ requests' = [requests EXCEPT ![f].failed = TRUE]
        /\ lateError' = IF requests[f].remaining = 0
                        THEN lateError \cup {f} ELSE lateError
    BY <1>4 DEF NotifyError
  <2> TAKE g \in Unsettled'
  <2>2. g \in Unsettled /\ g \in Frames /\ Expected(g)
    BY <1>1, <1>2, <2>1 DEF Unsettled
  <2>3. CASE g = f
    <3>1. requests[f].remaining # 0
      BY <2>1, <2>3 DEF Unsettled
    <3>2. /\ requests'[f].remaining = requests[f].remaining
          /\ requests'[f].failed
      <4>1. requests[f] \in Request
        BY <1>1
      <4> QED
        BY <1>1, <2>1, <4>1 DEF Request
    <3> QED
      BY <2>2, <2>3, <3>1, <3>2 DEF Expected, Complete
  <2>4. CASE g # f
    <3>1. requests'[g] = requests[g]
      BY <1>1, <2>1, <2>2, <2>4
    <3> QED
      BY <2>2, <2>4, <3>1 DEF Expected, Complete
  <2> QED
    BY <2>3, <2>4
<1> QED
  BY <1>3, <1>4

LEMMA MarkKeepsExpecting ==
  ASSUME Inv, Expecting, Honest, NEW streams \in SUBSET Streams,
         Submit(streams) \/ SubmitFails(streams), UNCHANGED conduct
  PROVE  Expecting'
<1>1. /\ next \in Frames /\ next' = next + 1 /\ next \in Int
      /\ registered' = registered \cup {next}
      /\ requests' = [requests EXCEPT ![next] = NewRequest(Cardinality(streams))]
      /\ UNCHANGED <<nextShutter, lateError, queueOnly>> /\ nextShutter \in Int
      /\ refused \subseteq refused'
  BY DEF Submit, SubmitFails, MarkPendingRequest, sent, Inv, TypeOK, Frames
<1>2. Ahead /\ \A g \in Unsettled : Expected(g)
  BY DEF Expecting
<1>3. dueShutter \subseteq Frames /\ dueShutter' \subseteq dueShutter \cup {next}
  BY DEF Submit, SubmitFails, hal, Inv, TypeOK
<1>4. Ahead'
  BY <1>1, <1>2, <1>3 DEF Ahead
<1>5. ASSUME NEW g \in Unsettled' PROVE Expected(g)'
  <2>1. CASE g = next
    <3>1. Submit(streams)
      BY <1>5, <2>1 DEF Submit, SubmitFails, Unsettled
    <3>2. /\ atHal'[next] = streams /\ next \in dueShutter' /\ next \in dueMeta'
      BY <1>1, <3>1 DEF Submit, Inv, TypeOK
    <3>3. requests'[next] = NewRequest(Cardinality(streams))
      BY <1>1 DEF Inv, TypeOK
    <3> QED
      BY <2>1, <3>2, <3>3 DEF Expected, Complete, NewRequest
  <2>2. CASE g # next
    <3>1. g \in Unsettled /\ g \in Frames
      BY <1>1, <2>2 DEF Unsettled, Inv, TypeOK
    <3>2. requests'[g] = requests[g] /\ atHal'[g] = atHal[g]
      BY <1>1, <2>2, <3>1 DEF Submit, SubmitFails, hal, Inv, TypeOK
    <3>3. dueMeta \subseteq dueMeta' /\ dueShutter \subseteq dueShutter'
      BY DEF Submit, SubmitFails, hal
    <3> QED
      BY <1>2, <3>1, <3>2, <3>3 DEF Expected, Complete
  <2> QED
    BY <2>1, <2>2
<1> QED
  BY <1>4, <1>5 DEF Expecting

LEMMA NextKeepsExpecting ==
  Inv /\ Accounts /\ Expecting /\ [Next]_vars => Expecting'
<1> SUFFICES ASSUME Inv, Accounts, Expecting, [Next]_vars, Honest
             PROVE  Expecting'
  BY DEF Next, vars, Honest, Expecting
<1>a. Ahead /\ \A g \in Unsettled : Expected(g)
  BY DEF Expecting
<1>b. UNCHANGED conduct
  BY DEF Next, vars
<1>1. ASSUME NEW streams \in SUBSET Streams,
             Submit(streams) \/ SubmitFails(streams)
      PROVE  Expecting'
  BY <1>b, <1>1, MarkKeepsExpecting
<1>2. ASSUME NEW f \in Submitted, HalShutter(f) PROVE Expecting'
  BY <1>a, <1>2, ShutterKeepsExpected DEF Expecting
<1>3. ASSUME NEW f \in Submitted, NEW bufs \in SUBSET atHal[f],
             NEW way \in Ways, NEW bad \in SUBSET bufs,
             HalResult(f, bufs, bad, way)
      PROVE  Expecting'
  <2>1. UNCHANGED <<next, dueShutter, nextShutter>>
    BY <1>3
       DEF HalResult, HandleCaptureResult, tracker, UnreadableResult,
           IgnoreResult, RejectResult, TakeResult
  <2>2. Ahead'
    BY <1>a, <2>1 DEF Ahead
  <2> QED
    BY <1>a, <1>3, <2>2, ResultKeepsExpected DEF Expecting
<1>4. ASSUME NEW f \in Submitted,
             HalFailsRequest(f) \/ HalFailsResult(f) \/ HalFailsBuffer(f)
      PROVE  Expecting'
  <2>1. /\ NotifyError(f)
        /\ UNCHANGED <<next, atHal, refused, nextShutter, queueOnly>>
        /\ dueMeta \ {f} \subseteq dueMeta'
        /\ dueShutter \ {f} \subseteq dueShutter' /\ dueShutter' \subseteq dueShutter
        /\ f \notin registered => UNCHANGED lateError
    BY <1>4
       DEF HalFailsRequest, HalFailsResult, HalFailsBuffer, NotifyError, hal, sent
  <2>2. Ahead'
    BY <1>a, <2>1 DEF Ahead
  <2> QED
    BY <1>a, <2>1, <2>2, ErrorKeepsExpected DEF Expecting
<1>5. ASSUME HalFailsDevice \/ ForgetErrors \/ UNCHANGED vars PROVE Expecting'
  BY <1>a, <1>5
     DEF HalFailsDevice, ForgetErrors, vars, tracker, hal, sent, Expecting,
         Ahead, Unsettled, Expected, Complete
<1> QED
  BY <1>1, <1>2, <1>3, <1>4, <1>5 DEF Next, HalAnswers, HalFails

(* A frame that stays registered, with no refusal, no late error and its   *)
(* metadata not left to the queue alone, is one for which an honest HAL    *)
(* has still something to send.                                            *)
StillOwed ==
  Honest => \A f \in registered \ (refused \cup lateError \cup queueOnly) :
              f \in dueShutter \cup dueMeta \/ atHal[f] # {}

(* The state part of EveryFrameSettles: RemovePendingRequestLocked is yet   *)
(* to be called for every frame that the list still holds, but for those    *)
(* that it lets lie.                                                        *)
THEOREM UnsettledIsOwed == Spec => []StillOwed
<1>1. Init => Expecting
  BY TrackerAssumption DEF Init, Expecting, Ahead, Unsettled
<1>2. Inv /\ Expecting => StillOwed
  <2> SUFFICES ASSUME Expecting, Inv, Honest, NEW f \in Unsettled,
                      f \notin dueShutter \cup dueMeta, atHal[f] = {}
               PROVE  FALSE
    BY DEF StillOwed, Unsettled
  <2>1. Expected(f)
    BY DEF Expecting
  <2>2. requests[f].remaining = 0
    BY <2>1, FS_EmptySet DEF Expected
  <2> QED
    BY <2>1, <2>2 DEF Expected, Complete
<1> QED
  BY <1>1, <1>2, InitInv, InitAccounts, NextKeepsInv, NextKeepsAccounts,
     NextKeepsExpecting, PTL DEF Spec

(* What the HAL has still to send.                                         *)
Owed ==
  {<<"shutter", f>> : f \in dueShutter} \cup {<<"metadata", f>> : f \in dueMeta}
  \cup UNION {{<<"buffer", f, s>> : s \in atHal[f]} : f \in Frames}

(* Every answer of an honest HAL is one less to come, and nothing but a    *)
(* submission adds any: so it has answered what it was given in the end.   *)
AnswersUsedUp ==
  [][Honest =>
       /\ HalAnswers => Owed' \subseteq Owed /\ Owed' # Owed
       /\ UNCHANGED next => Owed' \subseteq Owed]_vars

(* The other part: answers are given once.                                  *)
THEOREM AnswersComeToAnEnd == Spec => AnswersUsedUp
<1>1. ASSUME Inv, Honest, HalAnswers
      PROVE  Owed' \subseteq Owed /\ Owed' # Owed
  <2>1. ASSUME NEW f \in Submitted, HalShutter(f)
        PROVE  Owed' \subseteq Owed /\ Owed' # Owed
    <3>1. /\ f \in dueShutter /\ dueShutter' = dueShutter \ {f}
          /\ UNCHANGED <<dueMeta, atHal>>
      BY <1>1, <2>1 DEF HalShutter, MaySendShutter, FirstOf
    <3>2. <<"shutter", f>> \in Owed /\ <<"shutter", f>> \notin Owed'
      BY <3>1 DEF Owed
    <3>3. Owed' \subseteq Owed
      BY <3>1 DEF Owed
    <3> QED
      BY <3>2, <3>3
  <2>2. ASSUME NEW f \in Submitted, NEW bufs \in SUBSET atHal[f],
               NEW way \in Ways, NEW bad \in SUBSET bufs,
               HalResult(f, bufs, bad, way)
        PROVE  Owed' \subseteq Owed /\ Owed' # Owed
    <3>1. /\ dueShutter' = dueShutter
          /\ dueMeta' = IF way # "none" THEN dueMeta \ {f} ELSE dueMeta
          /\ atHal' = [atHal EXCEPT ![f] = @ \ bufs]
          /\ way # "none" => f \in dueMeta
          /\ bufs # {} \/ way # "none"
          /\ f \in Frames /\ atHal \in [Frames -> SUBSET Streams]
      BY <1>1, <2>2, SubmittedFrames
         DEF HalResult, MaySendMeta, FirstOf, Inv, TypeOK
    <3>2. atHal'[f] = atHal[f] \ bufs
          /\ \A g \in Frames : atHal'[g] \subseteq atHal[g]
      BY <3>1
    <3>3. Owed' \subseteq Owed
      BY <3>1, <3>2 DEF Owed
    <3>4. CASE way # "none"
      <4>1. <<"metadata", f>> \in Owed /\ <<"metadata", f>> \notin Owed'
        BY <3>1, <3>4 DEF Owed
      <4> QED
        BY <3>3, <4>1
    <3>5. ASSUME NEW s \in bufs PROVE Owed' # Owed
      <4>1. <<"buffer", f, s>> \in Owed /\ <<"buffer", f, s>> \notin Owed'
        BY <3>1, <3>2, <3>5 DEF Owed
      <4> QED
        BY <4>1
    <3> QED
      BY <3>1, <3>3, <3>4, <3>5
  <2> QED
    BY <1>1, <2>1, <2>2 DEF HalAnswers
<1>2. ASSUME Inv, Honest, Next, UNCHANGED next PROVE Owed' \subseteq Owed
  <2>1. \A streams : ~Submit(streams) /\ ~SubmitFails(streams)
    BY <1>2 DEF Submit, SubmitFails, MarkPendingRequest, Inv, TypeOK
  <2>2. HalAnswers \/ HalFails \/ ForgetErrors
    BY <1>2, <2>1 DEF Next
  <2>3. ASSUME HalFails \/ ForgetErrors PROVE Owed' \subseteq Owed
    <3>1. /\ dueShutter' \subseteq dueShutter /\ dueMeta' \subseteq dueMeta
          /\ atHal' = atHal
      BY <2>3
         DEF HalFails, ForgetErrors, HalFailsDevice, HalFailsRequest,
             HalFailsResult, HalFailsBuffer, hal
    <3> QED
      BY <3>1 DEF Owed
  <2> QED
    BY <1>1, <1>2, <2>2, <2>3
<1>3. Inv /\ [Next]_vars
        => [Honest =>
              /\ HalAnswers => Owed' \subseteq Owed /\ Owed' # Owed
              /\ UNCHANGED next => Owed' \subseteq Owed]_vars
  BY <1>1, <1>2
<1> QED
  BY <1>3, InitInv, NextKeepsInv, PTL DEF Spec, AnswersUsedUp
=============================================================================
