--------------------------- MODULE CameraPreview ---------------------------
(***************************************************************************)
(* A camera's preview and pictures: CameraInternal with its RendererHolder  *)
(* (serenegiant/opengl/renderer), CameraRendererHolder, ImageCapture and    *)
(* ImageSaver (herohan/uvcapp).  Threads:                                  *)
(*                                                                         *)
(*   helper    CameraHelper's requests, one after the other;               *)
(*   listener  CameraConnection's removal of the camera, once;             *)
(*   render    the RendererHolder's looper (queue), which makes the surface *)
(*             the camera draws on and calls startPreview for a new one;   *)
(*   saver     ImageCapture's executor.                                    *)
(*                                                                         *)
(* Two locks: CameraInternal.class, held over startPreview, and mLock of    *)
(* the RendererHolder with its condition, on which startPreview waits for a *)
(* new surface.  Of a surface it matters only whether it is the present     *)
(* one.  The slave surfaces, drawing, encoding and the recorder are left    *)
(* out; so is an opening that overlaps the removal (CameraConnection).      *)
(***************************************************************************)
EXTENDS Naturals, Sequences

CONSTANTS
    Sizes, Pictures,
    MaxQueue        \* bound on the render messages at a failed draw

ASSUME PreviewAssumption == Sizes # {} /\ MaxQueue \in Nat

VARIABLES
    opened,         \* mUVCCamera # null
    cameraSize,     \* its preview size
    streaming,      \* its preview runs
    display,        \* the surface it draws on: none, the present one, or stale
    mIsPreviewing,
    mRendererHolder, \* FALSE once released
    mVideoSize,     \* mVideoWidth and mVideoHeight
    mPrimarySurface, \* FALSE for null
    mCaptureHolder, \* FALSE for null
    queue, quit,    \* the render looper's messages; it takes no more
    classLock, mLock, \* the owner, or "free"
    awaiting,       \* threads in mCreatePrimarySurfaceCondition.await
    pc, read,       \* place; the surface startPreview has in hand
    mImageCapture,  \* FALSE for null
    picture,        \* where the request for a picture is
    shutdown,       \* pictures whose ImageCapture was released
    calls,          \* callbacks of a picture
    crossed,        \* the size changed, or a surface was awaited, while the
                    \* render thread might call startPreview
    missed          \* a wait was ended by a surface made for another request, or
                    \* the surface was replaced while startPreview had it in hand

NoArg == "none"

camera  == <<opened, cameraSize, streaming, display, mIsPreviewing>>
surface == <<mVideoSize, mPrimarySurface, mCaptureHolder>>
looper  == <<queue, quit>>
locks   == <<classLock, mLock, awaiting>>
capture == <<mImageCapture, picture, shutdown, calls>>
history == <<crossed, missed>>
vars == <<camera, mRendererHolder, surface, looper, locks, pc, read, capture,
          history>>

StartPlaces == {"start", "size", "sizeLock", "sizeAwait", "check", "checkLock",
                "checkAwait", "display"}
Places == StartPlaces \cup {"idle", "take", "close", "create", "created",
                            "resource", "done"}
Messages ==
    ({"init", "recreate", "release", "newHolder", "noHolder"} \X {NoArg})
        \cup ({"update"} \X Sizes) \cup ({"capture"} \X Pictures)

TypeOK ==
    /\ opened \in BOOLEAN /\ streaming \in BOOLEAN /\ mIsPreviewing \in BOOLEAN
    /\ cameraSize \in Sizes /\ mVideoSize \in Sizes
    /\ display \in {"none", "present", "stale"}
    /\ mRendererHolder \in BOOLEAN /\ mPrimarySurface \in BOOLEAN
    /\ mCaptureHolder \in BOOLEAN /\ quit \in BOOLEAN
    /\ queue \in Seq(Messages)
    /\ classLock \in {"free", "helper", "render"}
    /\ mLock \in {"free", "helper", "render"}
    /\ awaiting \subseteq {"helper", "render"}
    /\ pc \in [{"helper", "render", "listener"} -> Places]
    /\ pc["helper"] \in StartPlaces \cup {"idle", "take", "close"}
    /\ pc["render"] \in StartPlaces \cup {"idle", "create", "created"}
    /\ pc["listener"] \in {"idle", "close", "resource", "done"}
    /\ read \in [{"helper", "render"} -> {"none", "present", "stale"}]
    /\ mImageCapture \in BOOLEAN /\ shutdown \subseteq Pictures
    /\ picture \in [Pictures -> {"none", "taking", "queue", "saver", "over"}]
    /\ calls \in [Pictures -> 0 .. 2]
    /\ crossed \in BOOLEAN /\ missed \in BOOLEAN

\* The camera is open and the renderer's thread has been sent REQUEST_INIT.
Init ==
    /\ opened = TRUE /\ cameraSize \in Sizes /\ mVideoSize \in Sizes
    /\ streaming = FALSE /\ display = "none" /\ mIsPreviewing = FALSE
    /\ mRendererHolder = TRUE /\ mPrimarySurface = FALSE
    /\ mCaptureHolder = FALSE /\ queue = <<<<"init", NoArg>>>> /\ quit = FALSE
    /\ classLock = "free" /\ mLock = "free" /\ awaiting = {}
    /\ pc = [t \in {"helper", "render", "listener"} |-> "idle"]
    /\ read = [t \in {"helper", "render"} |-> "none"]
    /\ mImageCapture = TRUE /\ shutdown = {}
    /\ picture = [p \in Pictures |-> "none"]
    /\ calls = [p \in Pictures |-> 0]
    /\ crossed = FALSE /\ missed = FALSE

goto(t, place) == pc' = [pc EXCEPT ![t] = place]

\* A message sent to a looper that has quit is dropped.
sent(messages) == IF quit THEN queue ELSE queue \o messages

RenderMayStart == mIsPreviewing \/ pc["render"] \in StartPlaces

recreate == <<"recreate", NoArg>>
asked(messages) == {messages[i] : i \in DOMAIN messages}

----------------------------------------------------------------------------
(* startPreview, of the helper or of the render thread in its callback.     *)

\* startPreview returns; the render thread still holds mLock.
returned(t) == goto(t, IF t = "render" THEN "created" ELSE "idle")

startPreview(t) ==
    /\ pc[t] = "start" /\ classLock = "free"
    /\ IF opened /\ mRendererHolder THEN classLock' = t /\ goto(t, "size")
       ELSE classLock' = classLock /\ returned(t)
    /\ UNCHANGED <<camera, mRendererHolder, surface, looper, mLock, awaiting,
                   read, capture, history>>

updatePrimarySize(t) ==
    /\ pc[t] = "size" /\ opened
    /\ IF cameraSize = mVideoSize THEN goto(t, "check") /\ UNCHANGED crossed
       ELSE goto(t, "sizeLock") /\ crossed' = (crossed \/ RenderMayStart)
    /\ UNCHANGED <<camera, mRendererHolder, surface, looper, locks, read,
                   capture, missed>>

\* Under mLock: requests a surface, and waits.  await lets go of mLock, even
\* if the render thread held it already.
AwaitSurface(t, place, messages) ==
    /\ mLock \in {"free", t}
    /\ queue' = sent(messages)
    /\ mLock' = "free" /\ awaiting' = awaiting \cup {t}
    /\ goto(t, place)
    /\ UNCHANGED <<camera, mRendererHolder, surface, quit, classLock, read,
                   capture, history>>

awaitSize(t) ==
    /\ pc[t] = "sizeLock"
    /\ AwaitSurface(t, "sizeAwait", <<<<"update", cameraSize>>, recreate>>)

\* The signal has come, whoever it was meant for; mLock is taken and given up.
awaited(t) ==
    /\ pc[t] \in {"sizeAwait", "checkAwait"} /\ t \notin awaiting
    /\ mLock = "free"
    /\ mLock' = IF t = "render" THEN t ELSE "free"
    /\ IF pc[t] = "sizeAwait" THEN goto(t, "check") /\ read' = read
       ELSE /\ goto(t, "display")
            /\ read' = [read EXCEPT ![t] = IF mPrimarySurface THEN "present" ELSE @]
    /\ UNCHANGED <<camera, mRendererHolder, surface, looper, classLock,
                   awaiting, capture, history>>

checkPrimarySurface(t) ==
    /\ pc[t] = "check"
    /\ IF mPrimarySurface
       THEN /\ goto(t, "display") /\ read' = [read EXCEPT ![t] = "present"]
            /\ UNCHANGED crossed
       ELSE /\ goto(t, "checkLock") /\ read' = read
            /\ crossed' = (crossed \/ RenderMayStart)
    /\ UNCHANGED <<camera, mRendererHolder, surface, looper, locks, capture,
                   missed>>

awaitSurface(t) ==
    /\ pc[t] = "checkLock" /\ AwaitSurface(t, "checkAwait", <<recreate>>)

\* setPreviewDisplay with the surface read before, and startPreview.
displaySurface(t) ==
    /\ pc[t] = "display" /\ opened
    /\ display' = read[t]
    /\ streaming' = TRUE /\ mIsPreviewing' = TRUE
    /\ classLock' = "free"
    /\ read' = [read EXCEPT ![t] = "none"]
    /\ returned(t)
    /\ UNCHANGED <<opened, cameraSize, mRendererHolder, surface, looper, mLock,
                   awaiting, capture, history>>

\* setPreviewSize, which takes no lock, has destroyed the camera meanwhile: the
\* exception ends startPreview and is caught by its caller.
cameraGone(t) ==
    /\ pc[t] \in {"size", "display"} /\ ~opened
    /\ classLock' = "free"
    /\ read' = [read EXCEPT ![t] = "none"]
    /\ returned(t)
    /\ UNCHANGED <<camera, mRendererHolder, surface, looper, mLock, awaiting,
                   capture, history>>

StartStep(t) ==
    \/ startPreview(t) \/ updatePrimarySize(t) \/ awaitSize(t) \/ awaited(t)
    \/ checkPrimarySurface(t) \/ awaitSurface(t) \/ displaySurface(t)
    \/ cameraGone(t)

----------------------------------------------------------------------------
(* The helper's requests. *)

requestStart ==
    /\ pc["helper"] = "idle"
    /\ goto("helper", "start")
    /\ UNCHANGED <<camera, mRendererHolder, surface, looper, locks, read,
                   capture, history>>

stopPreview ==
    /\ pc["helper"] = "idle" /\ classLock = "free"
    /\ streaming' = FALSE /\ mIsPreviewing' = FALSE
    /\ UNCHANGED <<opened, cameraSize, display, mRendererHolder, surface,
                   looper, locks, pc, read, capture, history>>

\* A size that is refused destroys the camera.
setPreviewSize(s) ==
    /\ pc["helper"] = "idle" /\ opened
    /\ \/ cameraSize' = s /\ UNCHANGED <<opened, streaming>>
       \/ opened' = FALSE /\ streaming' = FALSE /\ UNCHANGED cameraSize
    /\ crossed' = (crossed \/ RenderMayStart)
    /\ UNCHANGED <<display, mIsPreviewing, mRendererHolder, surface, looper,
                   locks, pc, read, capture, missed>>

openCamera(s) ==
    /\ pc["helper"] = "idle" /\ pc["listener"] = "idle" /\ ~opened
    /\ opened' = TRUE /\ cameraSize' = s /\ display' = "none"
    /\ mImageCapture' = TRUE
    /\ UNCHANGED <<streaming, mIsPreviewing, mRendererHolder, surface, looper,
                   locks, pc, read, picture, shutdown, calls, history>>

\* closeCamera does not reset mIsPreviewing.
CloseCamera ==
    /\ classLock = "free"
    /\ opened' = FALSE /\ streaming' = FALSE
    /\ UNCHANGED <<cameraSize, display, mIsPreviewing, mRendererHolder, surface,
                   looper, locks, read, capture, history>>

\* CameraHelper tests isCameraOpened first; the listener may close the camera
\* between that test and the call, which then only releases mImageCapture.
closeCamera ==
    /\ pc["helper"] = "idle" /\ (opened \/ pc["listener"] # "idle")
    /\ CloseCamera /\ goto("helper", "close")

\* The executor saves what it has; what is not handed to it yet is refused.
ReleaseCapture ==
    /\ mImageCapture' = FALSE
    /\ shutdown' = IF mImageCapture
                   THEN {p \in Pictures : picture[p] # "none"} ELSE shutdown
    /\ UNCHANGED <<camera, mRendererHolder, surface, looper, locks, read,
                   picture, calls, history>>

releaseCapture ==
    /\ pc["helper"] = "close" /\ ReleaseCapture /\ goto("helper", "idle")

answer(p) == /\ picture' = [picture EXCEPT ![p] = "over"]
             /\ calls' = [calls EXCEPT ![p] = @ + 1]

takePicture(p) ==
    /\ pc["helper"] = "idle" /\ picture[p] = "none"
    /\ IF opened /\ mImageCapture
       THEN /\ goto("helper", "take")
            /\ picture' = [picture EXCEPT ![p] = "taking"] /\ calls' = calls
       ELSE answer(p) /\ UNCHANGED pc
    /\ UNCHANGED <<camera, mRendererHolder, surface, looper, locks, read,
                   mImageCapture, shutdown, history>>

\* captureImage.  A holder that was released may be gone for the collector,
\* which is told; or its looper has quit, and nobody is told.
captureImage(p) ==
    /\ pc["helper"] = "take" /\ picture[p] = "taking"
    /\ goto("helper", "idle")
    /\ \/ ~mRendererHolder /\ answer(p) /\ UNCHANGED queue
       \/ /\ queue' = sent(<<<<"capture", p>>>>)
          /\ picture' = [picture EXCEPT ![p] = IF quit THEN "over" ELSE "queue"]
          /\ calls' = calls
    /\ UNCHANGED <<camera, mRendererHolder, surface, quit, locks, read,
                   mImageCapture, shutdown, history>>

HelperStep == \/ StartStep("helper") \/ releaseCapture
              \/ \E p \in Pictures : captureImage(p)

----------------------------------------------------------------------------
(* The listener: CameraInternal.release. *)

release ==
    /\ pc["listener"] = "idle"
    /\ \/ /\ opened /\ CloseCamera /\ goto("listener", "close")
       \/ /\ ~opened /\ goto("listener", "resource")
          /\ UNCHANGED <<camera, mRendererHolder, surface, looper, locks, read,
                         capture, history>>

releaseListenerCapture ==
    /\ pc["listener"] = "close" /\ ReleaseCapture /\ goto("listener", "resource")

releaseResource ==
    /\ pc["listener"] = "resource" /\ classLock = "free"
    /\ goto("listener", "done")
    /\ mRendererHolder' = FALSE
    /\ queue' = sent(<<<<"release", NoArg>>>>)
    /\ UNCHANGED <<camera, surface, quit, locks, read, capture, history>>

ListenerStep == releaseListenerCapture \/ releaseResource

----------------------------------------------------------------------------
(* The render thread. *)

receive(kind, arg) ==
    /\ pc["render"] = "idle" /\ queue # <<>> /\ Head(queue) = <<kind, arg>>

\* Whoever holds the surface that goes holds a stale one.
stale(s) == IF s = "present" THEN "stale" ELSE s

dropSurface ==
    /\ display' = stale(display)
    /\ read' = [t \in DOMAIN read |-> stale(read[t])]

TakenEarly == \/ awaiting # {} /\ recreate \in asked(Tail(queue))
              \/ \E t \in DOMAIN read : read[t] = "present"

\* Mutant: who waits for the surface is not signalled.
handleReCreateSilent(kind) ==
    /\ receive(kind, NoArg) /\ mLock = "free"
    /\ queue' = Tail(queue)
    /\ mLock' = "render"
    /\ dropSurface
    /\ mPrimarySurface' = TRUE
    /\ goto("render", "create")
    /\ UNCHANGED <<opened, cameraSize, streaming, mIsPreviewing,
                   mRendererHolder, mVideoSize, mCaptureHolder, quit, classLock,
                   awaiting, capture, history>>

\* handleReCreatePrimarySurface takes mLock, replaces the surface and signals;
\* what waits is awake before the callback is called.
handleReCreatePrimarySurface(kind) ==
    /\ receive(kind, NoArg) /\ mLock = "free"
    /\ queue' = LET q == Tail(queue)
                IN IF mPrimarySurface /\ ~quit
                   THEN Append(q, <<"noHolder", NoArg>>) ELSE q
    /\ mLock' = "render"
    /\ IF mPrimarySurface THEN dropSurface ELSE UNCHANGED <<display, read>>
    /\ mPrimarySurface' = TRUE
    /\ awaiting' = {}
    /\ missed' = (missed \/ TakenEarly)
    /\ goto("render", "create")
    /\ UNCHANGED <<opened, cameraSize, streaming, mIsPreviewing,
                   mRendererHolder, mVideoSize, mCaptureHolder, quit, classLock,
                   capture, crossed>>

\* Mutant: the camera is left on the surface that was replaced.
onPrimarySurfaceIgnored ==
    /\ pc["render"] = "create"
    /\ goto("render", "created")
    /\ UNCHANGED <<camera, mRendererHolder, surface, looper, locks, read,
                   capture, history>>

onPrimarySurfaceCreate ==
    /\ pc["render"] = "create"
    /\ goto("render", IF mIsPreviewing THEN "start" ELSE "created")
    /\ UNCHANGED <<camera, mRendererHolder, surface, looper, locks, read,
                   capture, history>>

surfaceCreated ==
    /\ pc["render"] = "created"
    /\ goto("render", "idle")
    /\ mLock' = "free"
    /\ queue' = sent(<<<<"newHolder", NoArg>>>>)
    /\ UNCHANGED <<camera, mRendererHolder, surface, quit, classLock, awaiting,
                   read, capture, history>>

\* Messages that need no lock.
handle(kind, arg) ==
    /\ receive(kind, arg)
    /\ queue' = Tail(queue)
    /\ UNCHANGED <<opened, cameraSize, streaming, mIsPreviewing,
                   mRendererHolder, locks, pc, mImageCapture, shutdown, history>>

handleUpdateSize(s) ==
    /\ handle("update", s)
    /\ mVideoSize' = s
    /\ UNCHANGED <<display, mPrimarySurface, mCaptureHolder, quit, read,
                   picture, calls>>

handleHolder(kind) ==
    /\ handle(kind, NoArg)
    /\ mCaptureHolder' = (kind = "newHolder")
    /\ UNCHANGED <<display, mVideoSize, mPrimarySurface, quit, read, picture,
                   calls>>

\* quitSafely leaves the messages that were sent before.  The message to
\* release mCaptureHolder comes after them.
handleRelease ==
    /\ receive("release", NoArg)
    /\ queue' = LET q == Tail(queue)
                IN IF mPrimarySurface /\ ~quit
                   THEN Append(q, <<"noHolder", NoArg>>) ELSE q
    /\ dropSurface
    /\ mPrimarySurface' = FALSE /\ quit' = TRUE
    /\ UNCHANGED <<opened, cameraSize, streaming, mIsPreviewing,
                   mRendererHolder, mVideoSize, mCaptureHolder, locks, pc,
                   capture, history>>

\* Mutant: the error of a capture is caught and not passed on.
handleCaptureSilent(p) ==
    /\ handle("capture", p)
    /\ picture' = [picture EXCEPT
           ![p] = IF mCaptureHolder /\ p \notin shutdown THEN "saver" ELSE "over"]
    /\ UNCHANGED <<display, surface, quit, read, calls>>

\* Without mCaptureHolder, or without the executor, the picture is answered
\* with an error; drawing it may fail as well.
handleCapture(p) ==
    /\ handle("capture", p)
    /\ \/ /\ mCaptureHolder /\ p \notin shutdown
          /\ picture' = [picture EXCEPT ![p] = "saver"] /\ calls' = calls
       \/ answer(p)
    /\ UNCHANGED <<display, surface, quit, read>>

\* A draw that fails asks for another surface.
drawFails ==
    /\ pc["render"] = "idle" /\ streaming /\ display = "present" /\ ~quit
    /\ Len(queue) < MaxQueue
    /\ queue' = Append(queue, recreate)
    /\ UNCHANGED <<camera, mRendererHolder, surface, quit, locks, pc, read,
                   capture, history>>

RenderStep ==
    \/ StartStep("render") \/ onPrimarySurfaceCreate \/ surfaceCreated
    \/ \E kind \in {"init", "recreate"} : handleReCreatePrimarySurface(kind)
    \/ \E s \in Sizes : handleUpdateSize(s)
    \/ \E kind \in {"newHolder", "noHolder"} : handleHolder(kind)
    \/ handleRelease \/ \E p \in Pictures : handleCapture(p)

\* ImageSaver.run answers also when an IOException ends it.  Another exception
\* would end the process, and is left out.
save(p) ==
    /\ picture[p] = "saver" /\ answer(p)
    /\ UNCHANGED <<camera, mRendererHolder, surface, looper, locks, pc, read,
                   mImageCapture, shutdown, history>>

----------------------------------------------------------------------------
Next ==
    \/ requestStart \/ stopPreview \/ closeCamera
    \/ \E s \in Sizes : setPreviewSize(s) \/ openCamera(s)
    \/ \E p \in Pictures : takePicture(p) \/ save(p)
    \/ HelperStep \/ release \/ ListenerStep \/ RenderStep \/ drawFails

Spec == Init /\ [][Next]_vars

\* A thread that is ready runs; a lock that is free again and again is got.
Fairness ==
    /\ SF_vars(HelperStep) /\ SF_vars(ListenerStep) /\ SF_vars(RenderStep)
    /\ \A p \in Pictures : WF_vars(save(p))

FairSpec == Spec /\ Fairness

----------------------------------------------------------------------------
Quiet == /\ pc["helper"] = "idle" /\ pc["render"] = "idle" /\ queue = <<>>

(* While the preview runs and nothing is under way the camera draws on the  *)
(* present surface of the size it sends, whatever replaced the surface.     *)
DisplayPresent ==
    Quiet /\ streaming /\ mRendererHolder /\ ~crossed /\ ~missed
    => display = "present" /\ cameraSize = mVideoSize

(* A picture asked for is in one place or was answered once; it is lost     *)
(* only when it was asked of a renderer already released.                  *)
PictureOnce ==
    \A p \in Pictures :
        /\ calls[p] <= 1
        /\ calls[p] = 1 => picture[p] = "over"
        /\ picture[p] = "over" => calls[p] = 1 \/ ~mRendererHolder
        /\ picture[p] = "queue" <=> <<"capture", p>> \in asked(queue)
        /\ \A i, j \in DOMAIN queue :
              queue[i] = <<"capture", p>> /\ queue[j] = queue[i] => i = j

\* The deadlock of startPreview with itself: a thread wants mLock to wait for a
\* surface, or waits for one, while the render thread, which would make it and
\* holds mLock, is in startPreview.
Entangled ==
    /\ pc["render"] \in StartPlaces
    /\ \E t \in {"helper", "render"} :
          pc[t] \in {"sizeLock", "sizeAwait", "checkLock", "checkAwait"}

(* The requests end although the helper waits for the render thread and the *)
(* render thread calls startPreview: the helper's startPreview returns, and *)
(* a picture asked for is over, answered or lost as PictureOnce allows,     *)
(* unless the two get into the one deadlock of Entangled.                   *)
RequestsEnd ==
    /\ pc["helper"] = "start" ~> pc["helper"] = "idle" \/ Entangled
    /\ \A p \in Pictures :
          picture[p] = "taking" ~> picture[p] = "over" \/ Entangled

(* "After primary surface has been created during previewing, invoking      *)
(* startPreview method again" (CameraInternal.java:64): that call returns.  It *)
(* does not always, because of Entangled; no run checks it.                *)
RestartEnds == pc["render"] = "start" ~> pc["render"] = "idle"

=============================================================================
