-------------------------- MODULE CameraConnection --------------------------
(***************************************************************************)
(* One connection of the camera service: CameraHelper, the CameraConnection *)
(* in CameraConnectionService and the CameraInternal objects it keeps, in   *)
(* java/com/herohan/uvcapp.  Threads:                                      *)
(*                                                                         *)
(*   helper    CameraHelper's mAsyncHandler, which runs the application's   *)
(*             requests one after the other;                               *)
(*   listener  mListenerHandler: what USBMonitor posts (events).           *)
(*                                                                         *)
(* USBMonitor is taken for what UsbMonitor shows of it: a request for a     *)
(* device is answered by an open, a cancel or an error while the monitor is *)
(* registered.  The application sets its callback before its first request. *)
(* A section under CameraInternal.class is one step, so is one under        *)
(* mConnectionSync, but for removeCamera, which releases the camera in it.  *)
(* Cameras of a device are numbered.  What the camera does once it is open  *)
(* (preview, pictures, recording) is left out.                             *)
(***************************************************************************)
EXTENDS Naturals, Sequences, FiniteSets, SequencesExt

CONSTANTS
    Devices,
    MaxOpens,       \* bound on the answers "open" of each device
    MaxEvents       \* bound on the events posted when a request starts

ASSUME ConnectionAssumption ==
    /\ Devices # {} /\ IsFiniteSet(Devices)
    /\ MaxOpens \in Nat /\ MaxEvents \in Nat

VARIABLES
    attached,       \* devices in Android's list
    asked,          \* requests of the monitor: none, asked, or block opened
    blocks,         \* devices with a block in the monitor's table
    opens,          \* answers "open" so far, of each device
    events,         \* posted to mListenerHandler
    listening,      \* mUSBMonitor and the callback are set
    mCameras,       \* of each device its camera, 0 for none
    created,        \* cameras created so far, of each device
    mUVCCamera,     \* of each camera: "null", "open", "unready" if what follows
                    \* the native open threw, or "failed" to open
    mCallbacks,     \* of each camera: mIsCameraOpened of its callbacks
    releasedCameras, \* cameras whose mRendererHolder is null
    mLastCameraKey,
    mConnectionSync, \* "listener" while removeCamera holds it, or "free"
    mService,       \* FALSE once released
    mUsbDevice, mDetachedDeviceMap,
    pc, dev,        \* of each thread: place and device in hand
    op,             \* what the helper wants of getCamera
    cam,            \* of each thread: its camera of that device
    told,           \* what the application was told last of the camera
    overlapped      \* devices that opened while the listener handled them

external  == <<attached, asked, blocks, opens>>
table     == <<mCameras, created, mLastCameraKey>>
cameras   == <<mUVCCamera, mCallbacks, releasedCameras>>
selection == <<mService, mUsbDevice, mDetachedDeviceMap>>
threads   == <<pc, dev, cam, op>>
vars == <<external, events, listening, table, cameras, mConnectionSync,
          selection, threads, told, overlapped>>

None == "none"              \* no device: a key that is no device's
Cams == 1 .. MaxOpens
Opening == {"reset", "connect", "notice"}
Waiting == {"selectWait", "getWait"}
HelperPlaces == Opening \cup Waiting \cup
    {"idle", "select", "selectWoken", "test", "get", "getWoken", "error",
     "close", "release"}
ListenerPlaces == {"idle", "add", "register", "remove", "resource"}

TypeOK ==
    /\ attached \subseteq Devices /\ blocks \subseteq Devices
    /\ asked \in [Devices -> {"none", "asked", "opened"}]
    /\ opens \in [Devices -> 0 .. MaxOpens]
    /\ events \in Seq({"open", "close", "detach", "cancel"} \X Devices)
    /\ listening \in BOOLEAN /\ mService \in BOOLEAN
    /\ mCameras \in [Devices -> 0 .. MaxOpens]
    /\ created \in [Devices -> 0 .. MaxOpens]
    /\ \A d \in Devices : mCameras[d] <= created[d] /\ created[d] <= opens[d]
    /\ mUVCCamera \in [Devices \X Cams -> {"null", "open", "unready", "failed"}]
    /\ mCallbacks \in [Devices \X Cams -> SUBSET BOOLEAN]
    /\ releasedCameras \subseteq Devices \X Cams
    /\ mLastCameraKey \in Devices \cup {None}
    /\ mUsbDevice \in Devices \cup {None}
    /\ mConnectionSync \in {"free", "listener"}
    /\ mDetachedDeviceMap \subseteq Devices
    /\ pc \in [{"helper", "listener"} -> HelperPlaces \cup ListenerPlaces]
    /\ pc["helper"] \in HelperPlaces /\ pc["listener"] \in ListenerPlaces
    /\ dev \in [{"helper", "listener"} -> Devices \cup {None}]
    /\ cam \in [{"helper", "listener"} -> 0 .. MaxOpens]
    /\ op \in {"open", "close", "use"}
    /\ told \in [Devices -> {"nothing", "open", "closed", "error"}]
    /\ overlapped \subseteq Devices

Init ==
    /\ attached = Devices /\ blocks = {}
    /\ asked = [d \in Devices |-> "none"] /\ opens = [d \in Devices |-> 0]
    /\ events = <<>> /\ listening = TRUE
    /\ mCameras = [d \in Devices |-> 0] /\ created = [d \in Devices |-> 0]
    /\ mUVCCamera = [c \in Devices \X Cams |-> "null"]
    /\ mCallbacks = [c \in Devices \X Cams |-> {}]
    /\ releasedCameras = {}
    /\ mLastCameraKey = None /\ mConnectionSync = "free"
    /\ mService = TRUE /\ mUsbDevice = None /\ mDetachedDeviceMap = {}
    /\ pc = [t \in {"helper", "listener"} |-> "idle"]
    /\ dev = [t \in {"helper", "listener"} |-> None]
    /\ cam = [t \in {"helper", "listener"} |-> 0] /\ op = "use"
    /\ told = [d \in Devices |-> "nothing"] /\ overlapped = {}

goto(t, place) == pc' = [pc EXCEPT ![t] = place]

done(t) ==
    /\ goto(t, "idle")
    /\ dev' = [dev EXCEPT ![t] = None] /\ cam' = [cam EXCEPT ![t] = 0]
    /\ op' = IF t = "helper" THEN "use" ELSE op

\* The device and the camera a thread has in hand.
device(t) == dev[t]
camera(t) == <<dev[t], cam[t]>>

\* The helper opens the camera of d while the listener registers its callback
\* or releases it.  This can begin with a step of either.
Overlap(d) ==
    /\ pc["helper"] \in Opening /\ device("helper") = d
    /\ pc["listener"] \in {"register", "resource"} /\ device("listener") = d

watch == overlapped' = overlapped \cup {d \in Devices : Overlap(d)'}

tell(d, what) == told' = IF listening THEN [told EXCEPT ![d] = what] ELSE told

----------------------------------------------------------------------------
(* USBMonitor and the devices, external. *)

\* The monitor puts a block in the table ...
answerOpen(d) ==
    /\ asked[d] = "asked" /\ d \in attached /\ opens[d] < MaxOpens
    /\ asked' = [asked EXCEPT ![d] = "opened"]
    /\ opens' = [opens EXCEPT ![d] = @ + 1]
    /\ blocks' = blocks \cup {d}
    /\ UNCHANGED <<attached, events, listening, table, cameras,
                   mConnectionSync, selection, overlapped, threads, told>>

\* ... and posts onDeviceOpen, or posts onCancel or onError, which are handled
\* alike here.  Nothing is posted once the monitor was unregistered.
answer(d) ==
    /\ asked[d] # "none"
    /\ asked' = [asked EXCEPT ![d] = "none"]
    /\ events' = IF ~listening THEN events
                 ELSE Append(events, <<IF asked[d] = "opened"
                                       THEN "open" ELSE "cancel", d>>)
    /\ UNCHANGED <<attached, blocks, opens, listening, table, cameras,
                   mConnectionSync, selection, overlapped, threads, told>>

\* The monitor closes the device's block and posts that and the detach.
detach(d) ==
    /\ d \in attached
    /\ attached' = attached \ {d} /\ blocks' = blocks \ {d}
    /\ events' = IF ~listening THEN events
                 ELSE events \o [e \in 1 .. Cardinality(blocks \cap {d}) |->
                                     <<"close", d>>]
                             \o <<<<"detach", d>>>>
    /\ UNCHANGED <<asked, opens, listening, table, cameras, mConnectionSync,
                   selection, overlapped, threads, told>>

\* UVCCamera.close, part of UVCCamera.destroy: the clone's close posts
\* onDeviceClose and takes the device's block out of the table.
destroyUVCCamera(d) ==
    /\ events' = Append(events, <<"close", d>>)
    /\ blocks' = blocks \ {d}

----------------------------------------------------------------------------
(* CameraInternal. *)

processOnCameraOpen(c) ==
    /\ mCallbacks' = [mCallbacks EXCEPT ![c] = IF @ = {} THEN {} ELSE {TRUE}]
    /\ IF FALSE \in mCallbacks[c] THEN tell(c[1], "open") ELSE told' = told

processOnCameraClose(c) ==
    /\ mCallbacks' = [mCallbacks EXCEPT ![c] = IF @ = {} THEN {} ELSE {FALSE}]
    /\ IF TRUE \in mCallbacks[c] THEN tell(c[1], "closed") ELSE told' = told

\* A camera that failed to open is closed like an open one.  (If not even the
\* clone of its block was opened nothing is posted.)
closeCamera(c) ==
    IF mUVCCamera[c] = "null"
    THEN UNCHANGED <<mUVCCamera, mCallbacks, told, events, blocks>>
    ELSE /\ mUVCCamera' = [mUVCCamera EXCEPT ![c] = "null"]
         /\ processOnCameraClose(c)
         /\ \/ destroyUVCCamera(c[1])
            \/ mUVCCamera[c] = "failed" /\ UNCHANGED <<events, blocks>>

----------------------------------------------------------------------------
(* The listener: what USBMonitor posted. *)

listen(kind, d) ==
    /\ pc["listener"] = "idle" /\ events # <<>> /\ Head(events) = <<kind, d>>
    /\ events' = Tail(events)

onDeviceOpen(d) ==
    /\ listen("open", d)
    /\ goto("listener", "add") /\ dev' = [dev EXCEPT !["listener"] = d]
    /\ UNCHANGED <<external, listening, table, cameras, mConnectionSync,
                   selection, overlapped, cam, op, told>>

\* notifyAll wakes the helper if it waits; that is the only other thread.
Notified(helper) ==
    CASE helper = "selectWait" -> "selectWoken"
      [] helper = "getWait"    -> "getWoken"
      [] OTHER                 -> helper

gotoAndNotify(place) ==
    pc' = [pc EXCEPT !["helper"] = Notified(@), !["listener"] = place]

\* Mutant: the camera that exists is not looked up.
addCameraAgain ==
    /\ pc["listener"] = "add" /\ mConnectionSync = "free"
    /\ LET d == device("listener")
           c == created[d] + 1
       IN /\ mCameras' = [mCameras EXCEPT ![d] = c]
          /\ created' = [created EXCEPT ![d] = c]
          /\ cam' = [cam EXCEPT !["listener"] = c]
    /\ mLastCameraKey' = None
    /\ gotoAndNotify("register")
    /\ UNCHANGED <<external, events, listening, cameras, mConnectionSync,
                   selection, dev, op, told>>
    /\ watch

addCamera ==
    /\ pc["listener"] = "add" /\ mConnectionSync = "free"
    /\ LET d == device("listener")
           c == IF mCameras[d] # 0 THEN mCameras[d] ELSE created[d] + 1
       IN /\ mCameras' = [mCameras EXCEPT ![d] = c]
          /\ created' = [created EXCEPT ![d] = IF c > @ THEN c ELSE @]
          /\ cam' = [cam EXCEPT !["listener"] = c]
    /\ mLastCameraKey' = None
    /\ gotoAndNotify("register")
    /\ UNCHANGED <<external, events, listening, cameras, mConnectionSync,
                   selection, dev, op, told>>
    /\ watch

registerCallback ==
    /\ pc["listener"] = "register"
    /\ mCallbacks' = [mCallbacks EXCEPT ![camera("listener")] = @ \cup {FALSE}]
    /\ done("listener")
    /\ UNCHANGED <<external, events, listening, table, mUVCCamera,
                   releasedCameras, mConnectionSync, selection, overlapped,
                   told>>

\* onDeviceClose and onDetach tell the application first; onDetach also marks
\* the device, in CameraHelper's wrapper of the callback.
onDeviceClose(d) ==
    /\ listen("close", d)
    /\ tell(d, "closed")
    /\ goto("listener", "remove") /\ dev' = [dev EXCEPT !["listener"] = d]
    /\ UNCHANGED <<external, listening, table, cameras, mConnectionSync,
                   selection, overlapped, cam, op>>

onDetach(d) ==
    /\ listen("detach", d)
    /\ tell(d, "closed")
    /\ mDetachedDeviceMap' = IF listening THEN mDetachedDeviceMap \cup {d}
                             ELSE mDetachedDeviceMap
    /\ goto("listener", "remove") /\ dev' = [dev EXCEPT !["listener"] = d]
    /\ UNCHANGED <<external, listening, table, cameras, mConnectionSync,
                   mService, mUsbDevice, overlapped, cam, op>>

\* removeCamera under mConnectionSync: release closes the camera if it is
\* opened, then gives up its callbacks and its renderer.
removeCamera ==
    /\ pc["listener"] = "remove" /\ mConnectionSync = "free"
    /\ LET d == device("listener") IN
          /\ mLastCameraKey' = d
          /\ cam' = [cam EXCEPT !["listener"] = mCameras[d]]
          /\ IF mCameras[d] # 0 THEN closeCamera(<<d, mCameras[d]>>)
             ELSE UNCHANGED <<mUVCCamera, mCallbacks, told, events, blocks>>
    /\ mConnectionSync' = "listener"
    /\ goto("listener", "resource")
    /\ UNCHANGED <<attached, asked, opens, listening, mCameras, created,
                   releasedCameras, selection, dev, op>>
    /\ watch

releaseResource ==
    /\ pc["listener"] = "resource"
    /\ LET c == camera("listener") IN
          /\ mCallbacks' = [k \in DOMAIN mCallbacks |->
                               IF k = c THEN {} ELSE mCallbacks[k]]
          /\ releasedCameras' =
                 releasedCameras \cup ({c} \cap DOMAIN mCallbacks)
          /\ mCameras' = [mCameras EXCEPT ![c[1]] = 0]
    /\ mConnectionSync' = "free"
    /\ gotoAndNotify("idle")
    /\ dev' = [dev EXCEPT !["listener"] = None]
    /\ cam' = [cam EXCEPT !["listener"] = 0]
    /\ UNCHANGED <<external, events, listening, created, mLastCameraKey,
                   mUVCCamera, selection, overlapped, op, told>>

\* Mutant: nobody is notified of a cancel.
onCancelSilent(d) ==
    /\ listen("cancel", d) /\ mConnectionSync = "free"
    /\ UNCHANGED <<external, listening, table, cameras, mConnectionSync,
                   selection, overlapped, threads, told>>

\* onCancel and onError.
onCancel(d) ==
    /\ listen("cancel", d) /\ mConnectionSync = "free"
    /\ gotoAndNotify("idle")
    /\ UNCHANGED <<external, listening, table, cameras, mConnectionSync,
                   selection, overlapped, dev, cam, op, told>>

ListenerStep ==
    \/ \E d \in Devices : \/ onDeviceOpen(d) \/ onDeviceClose(d)
                          \/ onDetach(d) \/ onCancel(d)
    \/ addCamera \/ registerCallback \/ removeCamera \/ releaseResource

----------------------------------------------------------------------------
(* The helper: selectDevice. *)

selectDevice(d) ==
    /\ pc["helper"] = "idle" /\ mService /\ d \notin mDetachedDeviceMap
    /\ Len(events) < MaxEvents
    /\ mUsbDevice' = d
    /\ goto("helper", "select")
    /\ UNCHANGED <<external, events, listening, table, cameras,
                   mConnectionSync, mService, mDetachedDeviceMap, overlapped,
                   dev, cam, op, told>>

\* Without a monitor the call ends with an exception.
requestPermission ==
    /\ pc["helper"] = "select" /\ mConnectionSync = "free"
    /\ LET d == mUsbDevice IN
          IF ~listening THEN goto("helper", "idle") /\ UNCHANGED asked
          ELSE /\ asked' =
                      [asked EXCEPT ![d] = IF @ = "none" THEN "asked" ELSE @]
               /\ goto("helper",
                       IF mCameras[d] # 0 THEN "idle" ELSE "selectWait")
    /\ UNCHANGED <<attached, blocks, opens, events, listening, table, cameras,
                   mConnectionSync, selection, overlapped, dev, cam, op,
                   told>>

\* Whatever woke it, the select ends.
selected ==
    /\ pc["helper"] = "selectWoken" /\ mConnectionSync = "free"
    /\ goto("helper", "idle")
    /\ UNCHANGED <<external, events, listening, table, cameras,
                   mConnectionSync, selection, overlapped, dev, cam, op,
                   told>>

----------------------------------------------------------------------------
(* The helper: requests on the selected device. *)

\* openCamera and closeCamera test first; startPreview and the others go
\* straight to getCamera.
request(what) ==
    /\ pc["helper"] = "idle" /\ mService /\ mUsbDevice # None
    /\ what = "open" => mUsbDevice \notin mDetachedDeviceMap
    /\ Len(events) < MaxEvents
    /\ goto("helper", IF what = "use" THEN "get" ELSE "test")
    /\ dev' = [dev EXCEPT !["helper"] = mUsbDevice] /\ op' = what
    /\ UNCHANGED <<external, events, listening, table, cameras,
                   mConnectionSync, selection, overlapped, cam, told>>

IsCameraOpened(d) == mCameras[d] # 0 /\ mUVCCamera[<<d, mCameras[d]>>] # "null"

\* A camera to close that is not opened is told closed.
isCameraOpened ==
    /\ pc["helper"] = "test" /\ mConnectionSync = "free"
    /\ LET d == device("helper") IN
          IF IsCameraOpened(d) = (op = "close")
          THEN goto("helper", "get") /\ UNCHANGED <<dev, cam, op, told>>
          ELSE /\ done("helper")
               /\ IF op = "close" THEN tell(d, "closed") ELSE told' = told
    /\ UNCHANGED <<external, events, listening, table, cameras,
                   mConnectionSync, selection, overlapped>>

\* Where the request goes on, or ends, with the camera that was looked up.
found ==
    LET c == mCameras[device("helper")] IN
       IF c = 0 \/ op = "use" THEN done("helper")
       ELSE /\ goto("helper", IF op = "open" THEN "reset" ELSE "close")
            /\ cam' = [cam EXCEPT !["helper"] = c] /\ UNCHANGED <<dev, op>>

\* The wait is left out for the camera that was removed last.
getCamera ==
    /\ mConnectionSync = "free"
    /\ \/ /\ pc["helper"] = "get"
          /\ LET d == device("helper") IN
                IF mCameras[d] = 0 /\ mLastCameraKey # d
                THEN goto("helper", "getWait") /\ UNCHANGED <<dev, cam, op>>
                ELSE found
       \/ pc["helper"] = "getWoken" /\ found
    /\ UNCHANGED <<external, events, listening, table, cameras,
                   mConnectionSync, selection, told>>
    /\ watch

\* CameraInternal.openCamera; a released camera has no renderer to reset.
resetUVCCamera ==
    /\ pc["helper"] = "reset"
    /\ IF mUVCCamera[camera("helper")] # "null"
       THEN goto("helper", "notice") /\ UNCHANGED <<dev, cam, op>>
       ELSE IF camera("helper") \in releasedCameras THEN done("helper")
       ELSE goto("helper", "connect") /\ UNCHANGED <<dev, cam, op>>
    /\ UNCHANGED <<external, events, listening, table, cameras,
                   mConnectionSync, selection, overlapped, told>>

\* After a native open that succeeds preview, pictures and recorder are set up,
\* which may throw ("unready").  The camera then stays connected.
OpenResults(d) ==
    IF d \in attached THEN {"open", "unready", "failed"} ELSE {"failed"}

\* Mutant: the result of the native connect is not looked at.
connectUnchecked ==
    /\ pc["helper"] = "connect"
    /\ \E result \in OpenResults(device("helper")) :
          /\ mUVCCamera' = [mUVCCamera EXCEPT ![camera("helper")] = result]
          /\ goto("helper", "notice")
    /\ UNCHANGED <<external, events, listening, table, mCallbacks,
                   releasedCameras, mConnectionSync, selection, overlapped,
                   dev, cam, op, told>>

connect ==
    /\ pc["helper"] = "connect"
    /\ \E result \in OpenResults(device("helper")) :
          /\ mUVCCamera' = [mUVCCamera EXCEPT ![camera("helper")] = result]
          /\ goto("helper", IF result = "open" THEN "notice" ELSE "error")
    /\ UNCHANGED <<external, events, listening, table, mCallbacks,
                   releasedCameras, mConnectionSync, selection, overlapped,
                   dev, cam, op, told>>

\* Whoever is registered hears it, whether the camera was open for it or not.
processOnError(c) ==
    /\ IF mCallbacks[c] # {} THEN tell(c[1], "error") ELSE told' = told
    /\ UNCHANGED mCallbacks

openNotice ==
    /\ \/ pc["helper"] = "notice" /\ processOnCameraOpen(camera("helper"))
       \/ pc["helper"] = "error" /\ processOnError(camera("helper"))
    /\ done("helper")
    /\ UNCHANGED <<external, events, listening, table, mUVCCamera,
                   releasedCameras, mConnectionSync, selection, overlapped>>

close ==
    /\ pc["helper"] = "close"
    /\ closeCamera(camera("helper"))
    /\ done("helper")
    /\ UNCHANGED <<attached, asked, opens, listening, table, releasedCameras,
                   mConnectionSync, selection, overlapped>>

\* release, of the selected camera or of all, then of the connection: the
\* monitor closes the blocks left, unless unregister has taken it away.
\* Nobody is told of what is posted last.
release(ds) ==
    LET gone == {<<d, mCameras[d]>> : d \in {e \in ds : mCameras[e] # 0}}
        opened == {c \in gone : mUVCCamera[c] # "null"}
        closed == {c[1] : c \in opened} \cup IF listening THEN blocks ELSE {}
    IN /\ pc["helper"] = "idle" /\ mService /\ mConnectionSync = "free"
       /\ releasedCameras' = releasedCameras \cup gone
       /\ mUVCCamera' = [c \in DOMAIN mUVCCamera |->
                            IF c \in gone THEN "null" ELSE mUVCCamera[c]]
       /\ mCallbacks' = [c \in DOMAIN mCallbacks |->
                            IF c \in gone THEN {} ELSE mCallbacks[c]]
       /\ told' = [d \in Devices |->
                      IF listening /\ \E c \in opened :
                            c[1] = d /\ TRUE \in mCallbacks[c]
                      THEN "closed" ELSE told[d]]
       /\ mCameras' = [d \in Devices |-> IF d \in ds THEN 0 ELSE mCameras[d]]
       /\ blocks' = blocks \ closed
       /\ events' = events \o SetToSeq({"close"} \X closed)
       /\ listening' = FALSE
       /\ mService' = FALSE /\ mUsbDevice' = None
       /\ UNCHANGED <<attached, asked, opens, created, mLastCameraKey,
                      mConnectionSync, mDetachedDeviceMap, overlapped,
                      threads>>

\* setStateCallback(null), on the application's own thread.
unregisterCallback ==
    /\ mService /\ listening /\ listening' = FALSE
    /\ UNCHANGED <<external, events, table, cameras, mConnectionSync,
                   selection, overlapped, threads, told>>

HelperStep ==
    \/ requestPermission \/ selected \/ isCameraOpened \/ getCamera
    \/ resetUVCCamera \/ connect \/ openNotice \/ close

----------------------------------------------------------------------------
Next ==
    \/ \E d \in Devices : \/ answerOpen(d) \/ answer(d) \/ detach(d)
                          \/ selectDevice(d)
    \/ \E what \in {"open", "close", "use"} : request(what)
    \/ \E ds \in {Devices, {mUsbDevice} \cap Devices} : release(ds)
    \/ unregisterCallback
    \/ ListenerStep \/ HelperStep

Spec == Init /\ [][Next]_vars

Fairness ==
    /\ WF_vars(ListenerStep) /\ WF_vars(HelperStep)
    /\ \A d \in Devices : WF_vars(answer(d))

FairSpec == Spec /\ Fairness

----------------------------------------------------------------------------
\* Neither thread is at work on a camera, and no event is on its way.
Quiet ==
    /\ pc["helper"] \in {"idle"} \cup Waiting
    /\ pc["listener"] = "idle" /\ events = <<>>

(* What the application was told last is so once things are quiet: "open"   *)
(* exactly of the cameras that openCamera opened to the end, and "error" of *)
(* one whose open threw, be it that the camera did not open or that it did  *)
(* and is connected still (isCameraOpened says TRUE of both); so who heard  *)
(* "closed" has no camera left.  It is so in whatever order closes,         *)
(* detaches, failed and repeated opens arrived.  No promise once a camera   *)
(* was opened while the listener was handling the device.                  *)
ToldTruth ==
    Quiet /\ listening => \A d \in Devices \ overlapped :
        LET state == IF mCameras[d] = 0 THEN "null"
                     ELSE mUVCCamera[<<d, mCameras[d]>>]
        IN /\ told[d] = "open" <=> state = "open"
           /\ state \in {"unready", "failed"} => told[d] = "error"

(* A camera that the connection has given up is closed, whatever came of its *)
(* open: nothing else would ever close it.                                 *)
OrphansClosed ==
    \A d \in Devices \ overlapped, c \in Cams :
        mCameras[d] # c => mUVCCamera[<<d, c>>] = "null"

(* selectDevice comes to an end, with or without a camera, as long as the   *)
(* callback is not taken away.                                             *)
SelectEnds ==
    pc["helper"] = "selectWait" ~> pc["helper"] # "selectWait" \/ ~listening

(* The same for getCamera, whose wait is bypassed "to fix async thread      *)
(* deadlock bug" (CameraConnectionService.java:135).                       *)
GetCameraEnds ==
    pc["helper"] = "getWait" ~> pc["helper"] # "getWait" \/ ~listening

=============================================================================
