----------------------------- MODULE CameraBase -----------------------------
(***************************************************************************)
(* The camera of one display of the qmedia application (APPS/qmedia,       *)
(* CameraBase.java): startCamera and closeCamera, called on the user       *)
(* interface's thread, the callbacks of the camera service on a background *)
(* thread of its own, and a semaphore that makes closing wait for opening. *)
(*                                                                         *)
(* The service is external: it answers an open with onOpened or with       *)
(* onError, may give the camera up later, and tells of a close.            *)
(* onDisconnected does what onError does.                                  *)
(***************************************************************************)
EXTENDS Naturals

CONSTANT MaxPermits  \* bound: the service fails only while there are fewer

VARIABLES
  request,     \* where closeCamera is
  permits,     \* mCameraOpenCloseLock
  background,  \* mBackgroundThread
  looper,      \* where its callback is
  due,         \* callbacks posted to it
  device,      \* mCameraDevice # null
  session,     \* mCaptureSession # null
  holder,      \* mStreamSurfaceHolder # null
  camera,      \* external: the camera, as the service sees it
  thrown,      \* an exception nobody catches
  refused,     \* history: openCamera threw CameraAccessException
  hasty,       \* history: closed while onOpened was still at work
  faulted      \* history: onError came, or a close took longer than 2.5 s

histories == <<refused, hasty, faulted>>
serviceVars == <<background, looper, due, camera>>
cameraVars == <<request, permits, serviceVars, device, session, holder,
                thrown, histories>>

CameraTypeOK ==
  /\ request \in {"none", "acquire", "shut", "await", "join"}
  /\ permits \in Nat
  /\ background \in {"none", "alive", "quitting"}
  /\ looper \in {"idle", "opened", "create"}
  /\ due \in SUBSET {"onOpened", "onError", "onClosed", "onConfigured"}
  /\ camera \in {"closed", "opening", "open"}
  /\ {device, session, holder, thrown, refused, hasty, faulted} \subseteq BOOLEAN

\* A new object, addPreviewStream included.
NewCameraBase ==
  /\ permits = 1
  /\ background = "none" /\ looper = "idle" /\ due = {} /\ camera = "closed"
  /\ device = FALSE /\ session = FALSE /\ holder = TRUE
  /\ refused = FALSE /\ hasty = FALSE /\ faulted = FALSE

CameraInit == NewCameraBase /\ request = "none" /\ thrown = FALSE

\* The caller turns to another object.  What this one may still hold, it holds,
\* and nothing is said of it any more.
Renew ==
  /\ request = "none"
  /\ permits' = 1
  /\ background' = "none" /\ looper' = "idle" /\ due' = {} /\ camera' = "closed"
  /\ device' = FALSE /\ session' = FALSE /\ holder' = TRUE
  /\ refused' = FALSE /\ hasty' = FALSE /\ faulted' = FALSE
  /\ UNCHANGED <<request, thrown>>

-----------------------------------------------------------------------------
(* startCamera and closeCamera, on the user interface's thread.            *)

\* Without a permit it throws: tryAcquire's 2500 ms, in which another thread
\* might still give one, are taken as over.  The permit goes to onOpened or
\* onError, and with it is lost what they would have given back if the service
\* refuses.
StartCamera ==
  /\ request = "none" /\ request' = "none"
  /\ thrown' = (permits = 0)
  /\ permits > 0 =>
       /\ permits' = permits - 1 /\ background' = "alive"
       /\ \/ camera' = "opening" /\ refused' = refused
          \/ camera' = camera /\ refused' = TRUE
  /\ permits = 0 => UNCHANGED <<permits, background, camera, refused>>
  /\ UNCHANGED <<looper, due, device, session, holder, hasty, faulted>>

\* setFormat twice, if there is still a holder: that the surface may be created
\* anew is the caller's business.
ClearSurface ==
  /\ request = "none" /\ request' = "acquire"
  /\ UNCHANGED <<permits, serviceVars, device, session, holder, thrown, histories>>

(* Mutant: the close does not wait for the open.                           *)
AcquireClose_Blindly ==
  /\ request = "acquire" /\ request' = "shut"
  /\ permits' = IF permits > 0 THEN permits - 1 ELSE 0
  /\ UNCHANGED <<serviceVars, device, session, holder, thrown, histories>>

AcquireClose ==
  /\ request = "acquire" /\ request' = "shut"
  /\ permits > 0 /\ permits' = permits - 1
  /\ UNCHANGED <<serviceVars, device, session, holder, thrown, histories>>

\* A closed camera is not heard of but for onClosed.
Shut(callbacks) == (callbacks \ {"onOpened", "onError"}) \cup {"onClosed"}

CloseDevice ==
  /\ request = "shut" /\ request' = "await"
  /\ session' = FALSE /\ device' = FALSE
  /\ camera' = IF device THEN "closed" ELSE camera
  /\ due' = IF device THEN Shut(due) ELSE due
  /\ hasty' = (hasty \/ looper # "idle")
  /\ UNCHANGED <<permits, background, looper, holder, thrown, refused, faulted>>

\* onClosed gave a permit, which is taken and given back; then the background
\* thread is told to end, and a null pointer thrown if there is none.
QuitBackground ==
  /\ thrown' = (background = "none")
  /\ background' = IF background = "none" THEN "none" ELSE "quitting"
  /\ UNCHANGED <<looper, due, camera, device, session, holder, refused, hasty>>

ClosedInTime ==
  /\ request = "await" /\ request' = "join"
  /\ permits > 0
  /\ QuitBackground
  /\ UNCHANGED <<permits, faulted>>

\* After 2.5 s the permit is given back without having been taken: onClosed was
\* slow, or nothing was closed.
ClosedTooLate ==
  /\ request = "await" /\ request' = "join"
  /\ permits = 0 /\ permits' = 1
  /\ faulted' = (faulted \/ camera = "closed")
  /\ QuitBackground

\* quitSafely: callbacks that were due are still made.
JoinBackground ==
  /\ request = "join" /\ request' = "none"
  /\ looper = "idle" /\ due = {}
  /\ background' = "none"
  /\ UNCHANGED <<permits, looper, due, camera, device, session, holder, thrown, histories>>

-----------------------------------------------------------------------------
(* Callbacks on the background thread.                                     *)

Calling(callback) ==
  /\ background # "none" /\ looper = "idle"
  /\ callback \in due

(* Mutant: the permit is not given back.                                   *)
OnOpened_KeepsPermit ==
  /\ Calling("onOpened")
  /\ due' = due \ {"onOpened"}
  /\ looper' = "opened"
  /\ UNCHANGED <<request, permits, background, camera, device, session, holder,
                 thrown, histories>>

\* The permit is given back before the device is known.
OnOpened ==
  /\ Calling("onOpened")
  /\ due' = due \ {"onOpened"}
  /\ permits' = permits + 1
  /\ looper' = "opened"
  /\ UNCHANGED <<request, background, camera, device, session, holder, thrown, histories>>

SetDevice ==
  /\ looper = "opened" /\ looper' = "create"
  /\ device' = TRUE
  /\ UNCHANGED <<request, permits, background, due, camera, session, holder, thrown, histories>>

\* createAndStartCameraSession: null pointers if the device was closed by now,
\* or the holder forgotten by an earlier onClosed.
CreateSession ==
  /\ looper = "create" /\ looper' = "idle"
  /\ thrown' = ~(device /\ holder)
  /\ due' \in {due} \cup (IF device /\ holder THEN {due \cup {"onConfigured"}} ELSE {})
  /\ UNCHANGED <<request, permits, background, camera, device, session, holder, histories>>

OnConfigured ==
  /\ Calling("onConfigured")
  /\ due' = due \ {"onConfigured"}
  /\ session' = (session \/ device)
  /\ UNCHANGED <<request, permits, background, looper, camera, device, holder,
                 thrown, histories>>

\* onError, onDisconnected.
OnError ==
  /\ Calling("onError") /\ "onOpened" \notin due
  /\ permits' = permits + 1
  /\ camera' = "closed" /\ due' = Shut(due)
  /\ device' = FALSE
  /\ faulted' = TRUE
  /\ UNCHANGED <<request, background, looper, session, holder, thrown, refused, hasty>>

OnClosed ==
  /\ Calling("onClosed")
  /\ due' = due \ {"onClosed"}
  /\ holder' = FALSE
  /\ permits' = permits + 1
  /\ UNCHANGED <<request, background, looper, camera, device, session, thrown, histories>>

-----------------------------------------------------------------------------
(* The camera service.  What it posts to a thread that ends is lost.       *)

Post(callback) == IF background = "alive" THEN due \cup {callback} ELSE due

CameraOpens ==
  /\ camera = "opening" /\ camera' = "open"
  /\ due' = Post("onOpened")
  /\ UNCHANGED <<request, permits, background, looper, device, session, holder,
                 thrown, histories>>

CameraFails ==
  /\ camera \in {"opening", "open"} /\ camera' = "open"
  /\ background = "alive" /\ "onError" \notin due
  /\ permits < MaxPermits
  /\ due' = Post("onError")
  /\ UNCHANGED <<request, permits, background, looper, device, session, holder,
                 thrown, histories>>

Closing == \/ AcquireClose \/ CloseDevice \/ ClosedInTime \/ ClosedTooLate
           \/ JoinBackground
Callbacks == \/ OnOpened \/ SetDevice \/ CreateSession \/ OnConfigured
             \/ OnError \/ OnClosed
Service == CameraOpens \/ CameraFails
=============================================================================
