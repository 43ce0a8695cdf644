----------------------- MODULE CameraConnectionProofs -----------------------
(***************************************************************************)
(* For any finite set of devices, any openings and events: a camera that    *)
(* the connection has given up is closed, and what the application was told *)
(* last is so once things are quiet.                                       *)
(*                                                                         *)
(* OrphansClosed needs where each thread is with the camera it has in hand: *)
(* the helper opens none but the camera of its device (OpeningInv), and     *)
(* what the listener takes out of the table was closed before (RemovingInv), *)
(* as no other thread gets at the table meanwhile (SyncInv).  Both are said *)
(* of the devices that helper and listener did not work on together, which  *)
(* OverlapInv ties to their places.                                        *)
(*                                                                         *)
(* ToldTruth is about an end: ToldInv is what holds on the way there, where *)
(* the helper may be about to tell of an opening (NoticeInv) or of an error *)
(* (ErrorInv), the listener about to remove the camera it told closed.  A   *)
(* camera's own notices go through its callback only, so each camera of the *)
(* table has one, which counts it as opened only if it is (CallbackInv); one *)
(* that is to be opened is not open yet (ClosedYetInv).  A fresh camera is  *)
(* one never used before because cameras are numbered by creation           *)
(* (NumberInv), and are created no more often than the monitor opens their  *)
(* device, which CountInv counts along the way of its answer: in the        *)
(* monitor, posted, in the listener's hand.                                *)
(***************************************************************************)
EXTENDS CameraConnection, SequenceTheorems, FiniteSetTheorems, TLAPS

Threads == {"helper", "listener"}
InHand == Opening \cup {"test", "get", "getWait", "getWoken", "error", "close"}

DataTypes ==
    /\ mCameras \in [Devices -> Nat] /\ created \in [Devices -> Nat]
    /\ mUVCCamera \in [Devices \X Cams -> {"null", "open", "unready", "failed"}]
    /\ overlapped \subseteq Devices
    /\ mUsbDevice \in Devices \cup {None}
    /\ mConnectionSync \in {"free", "listener"}

PcTypes ==
    /\ pc \in [Threads -> HelperPlaces \cup ListenerPlaces]
    /\ pc["helper"] \in HelperPlaces /\ pc["listener"] \in ListenerPlaces

HandTypes ==
    /\ dev \in [Threads -> Devices \cup {None}] /\ cam \in [Threads -> Nat]
    /\ pc["listener"] # "idle" => dev["listener"] \in Devices
    /\ pc["helper"] \in InHand => dev["helper"] \in Devices

\* removeCamera holds mConnectionSync until the camera is taken out.
SyncInv == pc["listener"] = "resource" => mConnectionSync = "listener"

\* Where helper and listener are at work on one camera it is remembered.
OverlapInv == \A d \in Devices : Overlap(d) => d \in overlapped

\* What the helper is opening is the camera of its device.
OpeningInv ==
    \A d \in Devices \ overlapped :
        pc["helper"] \in Opening /\ dev["helper"] = d => mCameras[d] = cam["helper"]

\* What removeCamera takes out is closed.
RemovingInv ==
    \A d \in Devices \ overlapped, c \in Cams :
        pc["listener"] = "resource" /\ dev["listener"] = d
        => mUVCCamera[<<d, c>>] = "null"

IInv == /\ DataTypes /\ PcTypes /\ HandTypes /\ SyncInv /\ OverlapInv
        /\ OpeningInv /\ RemovingInv /\ OrphansClosed

----------------------------------------------------------------------------
(* The steps, one by one. *)

LEMMA NextIs ==
    ASSUME Next
    PROVE  \/ \E d \in Devices : answerOpen(d)
           \/ \E d \in Devices : answer(d)
           \/ \E d \in Devices : detach(d)
           \/ unregisterCallback
           \/ \E d \in Devices : selectDevice(d)
           \/ \E what \in {"open", "close", "use"} : request(what)
           \/ \E ds \in {Devices, {mUsbDevice} \cap Devices} : release(ds)
           \/ \E d \in Devices : onDeviceOpen(d)
           \/ \E d \in Devices : onDeviceClose(d)
           \/ \E d \in Devices : onDetach(d)
           \/ \E d \in Devices : onCancel(d)
           \/ addCamera
           \/ registerCallback
           \/ removeCamera
           \/ releaseResource
           \/ requestPermission
           \/ selected
           \/ isCameraOpened
           \/ getCamera
           \/ resetUVCCamera
           \/ connect
           \/ openNotice
           \/ close
  BY DEF Next, ListenerStep, HelperStep

LEMMA StepData ==
    ASSUME DataTypes, PcTypes, HandTypes, Next
    PROVE  DataTypes'
  <1> USE DEF DataTypes, HandTypes, InHand, Opening, Threads, goto, external,
     table, cameras, selection, threads
  <1>1. ASSUME NEW d \in Devices, selectDevice(d) PROVE DataTypes'
    BY <1>1 DEF selectDevice
  <1>2. ASSUME NEW ds \in {Devices, {mUsbDevice} \cap Devices}, release(ds)
        PROVE DataTypes'
    BY <1>2 DEF release
  <1>3. ASSUME addCamera PROVE DataTypes'
    BY <1>3 DEF addCamera, device, watch, gotoAndNotify, Notified
  <1>4. ASSUME removeCamera PROVE DataTypes'
    BY <1>4 DEF removeCamera, device, closeCamera, watch
  <1>5. ASSUME releaseResource PROVE DataTypes'
    BY <1>5 DEF releaseResource, camera, gotoAndNotify, Notified
  <1>6. ASSUME getCamera PROVE DataTypes'
    BY <1>6 DEF getCamera, found, device, done, watch
  <1>7. ASSUME connect PROVE DataTypes'
    BY <1>7 DEF connect, OpenResults, camera, device
  <1>8. ASSUME close PROVE DataTypes'
    BY <1>8 DEF close, camera, closeCamera, done
  <1>9. CASE \/ \E d \in Devices : answerOpen(d)
             \/ \E d \in Devices : answer(d)
             \/ \E d \in Devices : detach(d)
             \/ unregisterCallback
             \/ \E what \in {"open", "close", "use"} : request(what)
             \/ \E d \in Devices : onDeviceOpen(d)
             \/ \E d \in Devices : onDeviceClose(d)
    BY <1>9 DEF answerOpen, answer, detach, unregisterCallback, request,
       onDeviceOpen, listen, onDeviceClose
  <1>10. CASE \/ \E d \in Devices : onDetach(d)
              \/ \E d \in Devices : onCancel(d)
              \/ registerCallback
              \/ requestPermission
              \/ selected
              \/ isCameraOpened
              \/ resetUVCCamera
    BY <1>10 DEF onDetach, listen, onCancel, gotoAndNotify, Notified,
       registerCallback, done, requestPermission, selected, isCameraOpened,
       device, resetUVCCamera
  <1>11. CASE \/ openNotice
    BY <1>11 DEF openNotice, done, camera
  <1> QED BY <1>1, <1>2, <1>3, <1>4, <1>5, <1>6, <1>7, <1>8, <1>9, <1>10,
       <1>11, NextIs

LEMMA StepPc ==
    ASSUME PcTypes, Next
    PROVE  PcTypes'
  <1> USE DEF PcTypes, Threads, HelperPlaces, ListenerPlaces, Opening, Waiting,
     InHand, goto, external, table, cameras, selection, threads
  <1>1. ASSUME NEW d \in Devices, selectDevice(d) PROVE PcTypes'
    BY <1>1 DEF selectDevice
  <1>2. ASSUME NEW what \in {"open", "close", "use"}, request(what)
        PROVE PcTypes'
    BY <1>2 DEF request
  <1>3. ASSUME NEW d \in Devices, onDeviceOpen(d) PROVE PcTypes'
    BY <1>3 DEF onDeviceOpen, listen
  <1>4. ASSUME NEW d \in Devices, onDeviceClose(d) PROVE PcTypes'
    BY <1>4 DEF onDeviceClose, listen
  <1>5. ASSUME NEW d \in Devices, onDetach(d) PROVE PcTypes'
    BY <1>5 DEF onDetach, listen
  <1>6. ASSUME NEW d \in Devices, onCancel(d) PROVE PcTypes'
    BY <1>6 DEF onCancel, listen, gotoAndNotify, Notified
  <1>7. ASSUME addCamera PROVE PcTypes'
    BY <1>7 DEF addCamera, device, watch, gotoAndNotify, Notified
  <1>8. ASSUME registerCallback PROVE PcTypes'
    BY <1>8 DEF registerCallback, done
  <1>9. ASSUME removeCamera PROVE PcTypes'
    BY <1>9 DEF removeCamera, device, closeCamera, watch
  <1>10. ASSUME releaseResource PROVE PcTypes'
    BY <1>10 DEF releaseResource, camera, gotoAndNotify, Notified
  <1>11. ASSUME requestPermission PROVE PcTypes'
    BY <1>11 DEF requestPermission
  <1>12. ASSUME selected PROVE PcTypes'
    BY <1>12 DEF selected
  <1>13. ASSUME isCameraOpened PROVE PcTypes'
    BY <1>13 DEF isCameraOpened, device, done
  <1>14. ASSUME getCamera PROVE PcTypes'
    BY <1>14 DEF getCamera, found, device, done, watch
  <1>15. ASSUME resetUVCCamera PROVE PcTypes'
    BY <1>15 DEF resetUVCCamera, done
  <1>16. ASSUME connect PROVE PcTypes'
    BY <1>16 DEF connect, camera, device
  <1>17. ASSUME openNotice PROVE PcTypes'
    BY <1>17 DEF openNotice, done, camera
  <1>18. ASSUME close PROVE PcTypes'
    BY <1>18 DEF close, camera, closeCamera, done
  <1>19. CASE \/ \E d \in Devices : answerOpen(d)
              \/ \E d \in Devices : answer(d)
              \/ \E d \in Devices : detach(d)
              \/ unregisterCallback
              \/ \E ds \in {Devices, {mUsbDevice} \cap Devices} : release(ds)
    BY <1>19 DEF answerOpen, answer, detach, unregisterCallback, release
  <1> QED BY <1>1, <1>2, <1>3, <1>4, <1>5, <1>6, <1>7, <1>8, <1>9, <1>10,
       <1>11, <1>12, <1>13, <1>14, <1>15, <1>16, <1>17, <1>18, <1>19, NextIs

LEMMA StepHand ==
    ASSUME DataTypes, PcTypes, HandTypes, Next
    PROVE  HandTypes'
  <1> USE DEF DataTypes, PcTypes, HandTypes, Threads, HelperPlaces,
     ListenerPlaces, Opening, Waiting, InHand, goto, external, table, cameras,
     selection, threads
  <1>1. ASSUME NEW d \in Devices, selectDevice(d) PROVE HandTypes'
    BY <1>1 DEF selectDevice
  <1>2. ASSUME NEW what \in {"open", "close", "use"}, request(what)
        PROVE HandTypes'
    BY <1>2 DEF request
  <1>3. ASSUME NEW d \in Devices, onDeviceOpen(d) PROVE HandTypes'
    BY <1>3 DEF onDeviceOpen, listen
  <1>4. ASSUME NEW d \in Devices, onDeviceClose(d) PROVE HandTypes'
    BY <1>4 DEF onDeviceClose, listen
  <1>5. ASSUME NEW d \in Devices, onDetach(d) PROVE HandTypes'
    BY <1>5 DEF onDetach, listen
  <1>6. ASSUME NEW d \in Devices, onCancel(d) PROVE HandTypes'
    BY <1>6 DEF onCancel, listen, gotoAndNotify, Notified
  <1>7. ASSUME addCamera PROVE HandTypes'
    BY <1>7 DEF addCamera, device, watch, gotoAndNotify, Notified
  <1>8. ASSUME registerCallback PROVE HandTypes'
    BY <1>8 DEF registerCallback, done
  <1>9. ASSUME removeCamera PROVE HandTypes'
    BY <1>9 DEF removeCamera, device, closeCamera, watch
  <1>10. ASSUME releaseResource PROVE HandTypes'
    BY <1>10 DEF releaseResource, camera, gotoAndNotify, Notified
  <1>11. ASSUME requestPermission PROVE HandTypes'
    BY <1>11 DEF requestPermission
  <1>12. ASSUME selected PROVE HandTypes'
    BY <1>12 DEF selected
  <1>13. ASSUME isCameraOpened PROVE HandTypes'
    BY <1>13 DEF isCameraOpened, device, done
  <1>14. ASSUME getCamera PROVE HandTypes'
    BY <1>14 DEF getCamera, found, device, done, watch
  <1>15. ASSUME resetUVCCamera PROVE HandTypes'
    BY <1>15 DEF resetUVCCamera, done
  <1>16. ASSUME connect PROVE HandTypes'
    BY <1>16 DEF connect, camera, device
  <1>17. ASSUME openNotice PROVE HandTypes'
    BY <1>17 DEF openNotice, done, camera
  <1>18. ASSUME close PROVE HandTypes'
    BY <1>18 DEF close, camera, closeCamera, done
  <1>19. CASE \/ \E d \in Devices : answerOpen(d)
              \/ \E d \in Devices : answer(d)
              \/ \E d \in Devices : detach(d)
              \/ unregisterCallback
              \/ \E ds \in {Devices, {mUsbDevice} \cap Devices} : release(ds)
    BY <1>19 DEF answerOpen, answer, detach, unregisterCallback, release
  <1> QED BY <1>1, <1>2, <1>3, <1>4, <1>5, <1>6, <1>7, <1>8, <1>9, <1>10,
       <1>11, <1>12, <1>13, <1>14, <1>15, <1>16, <1>17, <1>18, <1>19, NextIs

LEMMA StepSync ==
    ASSUME DataTypes, PcTypes, SyncInv, Next
    PROVE  SyncInv'
  <1> USE DEF PcTypes, SyncInv, Threads, goto, external, table, cameras,
     selection, threads
  <1>1. ASSUME NEW d \in Devices, selectDevice(d) PROVE SyncInv'
    BY <1>1 DEF selectDevice
  <1>2. ASSUME NEW what \in {"open", "close", "use"}, request(what)
        PROVE SyncInv'
    BY <1>2 DEF request
  <1>3. ASSUME NEW d \in Devices, onDeviceOpen(d) PROVE SyncInv'
    BY <1>3 DEF onDeviceOpen, listen
  <1>4. ASSUME NEW d \in Devices, onDeviceClose(d) PROVE SyncInv'
    BY <1>4 DEF onDeviceClose, listen
  <1>5. ASSUME NEW d \in Devices, onDetach(d) PROVE SyncInv'
    BY <1>5 DEF onDetach, listen
  <1>6. ASSUME NEW d \in Devices, onCancel(d) PROVE SyncInv'
    BY <1>6 DEF onCancel, listen, gotoAndNotify, Notified
  <1>7. ASSUME addCamera PROVE SyncInv'
    BY <1>7 DEF addCamera, device, watch, gotoAndNotify, Notified
  <1>8. ASSUME registerCallback PROVE SyncInv'
    BY <1>8 DEF registerCallback, done
  <1>9. ASSUME removeCamera PROVE SyncInv'
    BY <1>9 DEF removeCamera, device, closeCamera, watch
  <1>10. ASSUME releaseResource PROVE SyncInv'
    BY <1>10 DEF releaseResource, camera, gotoAndNotify, Notified
  <1>11. ASSUME requestPermission PROVE SyncInv'
    BY <1>11 DEF requestPermission
  <1>12. ASSUME selected PROVE SyncInv'
    BY <1>12 DEF selected
  <1>13. ASSUME isCameraOpened PROVE SyncInv'
    BY <1>13 DEF isCameraOpened, device, done
  <1>14. ASSUME getCamera PROVE SyncInv'
    BY <1>14 DEF getCamera, found, device, done, watch
  <1>15. ASSUME resetUVCCamera PROVE SyncInv'
    BY <1>15 DEF resetUVCCamera, done
  <1>16. ASSUME connect PROVE SyncInv'
    BY <1>16 DEF connect, camera, device
  <1>17. ASSUME openNotice PROVE SyncInv'
    BY <1>17 DEF openNotice, done, camera
  <1>18. ASSUME close PROVE SyncInv'
    BY <1>18 DEF close, camera, closeCamera, done
  <1>19. CASE \/ \E d \in Devices : answerOpen(d)
              \/ \E d \in Devices : answer(d)
              \/ \E d \in Devices : detach(d)
              \/ unregisterCallback
              \/ \E ds \in {Devices, {mUsbDevice} \cap Devices} : release(ds)
    BY <1>19 DEF answerOpen, answer, detach, unregisterCallback, release
  <1> QED BY <1>1, <1>2, <1>3, <1>4, <1>5, <1>6, <1>7, <1>8, <1>9, <1>10,
       <1>11, <1>12, <1>13, <1>14, <1>15, <1>16, <1>17, <1>18, <1>19, NextIs

LEMMA StepOverlap ==
    ASSUME DataTypes, PcTypes, HandTypes, OverlapInv, Next
    PROVE  OverlapInv'
  <1> USE DEF PcTypes, HandTypes, OverlapInv, Overlap, device, Threads,
     Opening, goto, external, table, cameras, selection, threads
  <1>1. ASSUME NEW d \in Devices, selectDevice(d) PROVE OverlapInv'
    BY <1>1 DEF selectDevice
  <1>2. ASSUME NEW what \in {"open", "close", "use"}, request(what)
        PROVE OverlapInv'
    BY <1>2 DEF request
  <1>3. ASSUME NEW d \in Devices, onDeviceOpen(d) PROVE OverlapInv'
    BY <1>3 DEF onDeviceOpen, listen
  <1>4. ASSUME NEW d \in Devices, onDeviceClose(d) PROVE OverlapInv'
    BY <1>4 DEF onDeviceClose, listen
  <1>5. ASSUME NEW d \in Devices, onDetach(d) PROVE OverlapInv'
    BY <1>5 DEF onDetach, listen
  <1>6. ASSUME NEW d \in Devices, onCancel(d) PROVE OverlapInv'
    BY <1>6 DEF onCancel, listen, gotoAndNotify, Notified
  <1>7. ASSUME addCamera PROVE OverlapInv'
    BY <1>7 DEF addCamera, device, watch, gotoAndNotify, Notified
  <1>8. ASSUME registerCallback PROVE OverlapInv'
    BY <1>8 DEF registerCallback, done
  <1>9. ASSUME removeCamera PROVE OverlapInv'
    BY <1>9 DEF removeCamera, device, closeCamera, watch
  <1>10. ASSUME releaseResource PROVE OverlapInv'
    BY <1>10 DEF releaseResource, camera, gotoAndNotify, Notified
  <1>11. ASSUME requestPermission PROVE OverlapInv'
    BY <1>11 DEF requestPermission
  <1>12. ASSUME selected PROVE OverlapInv'
    BY <1>12 DEF selected
  <1>13. ASSUME isCameraOpened PROVE OverlapInv'
    BY <1>13 DEF isCameraOpened, device, done
  <1>14. ASSUME getCamera PROVE OverlapInv'
    BY <1>14 DEF getCamera, found, device, done, watch
  <1>15. ASSUME resetUVCCamera PROVE OverlapInv'
    BY <1>15 DEF resetUVCCamera, done
  <1>16. ASSUME connect PROVE OverlapInv'
    BY <1>16 DEF connect, camera, device
  <1>17. ASSUME openNotice PROVE OverlapInv'
    BY <1>17 DEF openNotice, done, camera
  <1>18. ASSUME close PROVE OverlapInv'
    BY <1>18 DEF close, camera, closeCamera, done
  <1>19. CASE \/ \E d \in Devices : answerOpen(d)
              \/ \E d \in Devices : answer(d)
              \/ \E d \in Devices : detach(d)
              \/ unregisterCallback
              \/ \E ds \in {Devices, {mUsbDevice} \cap Devices} : release(ds)
    BY <1>19 DEF answerOpen, answer, detach, unregisterCallback, release
  <1> QED BY <1>1, <1>2, <1>3, <1>4, <1>5, <1>6, <1>7, <1>8, <1>9, <1>10,
       <1>11, <1>12, <1>13, <1>14, <1>15, <1>16, <1>17, <1>18, <1>19, NextIs

\* Threads that now work on one camera are remembered.
LEMMA OverlapNow ==
    ASSUME DataTypes, PcTypes, HandTypes, OverlapInv, Next, NEW d \in Devices,
           pc'["helper"] \in Opening, dev'["helper"] = d,
           pc'["listener"] \in {"register", "resource"}, dev'["listener"] = d
    PROVE  d \in overlapped'
  BY StepOverlap DEF OverlapInv, Overlap, device

LEMMA OverlappedStay ==
    ASSUME Next
    PROVE  overlapped \subseteq overlapped'
  <1> USE DEF goto, external, table, cameras, selection, threads
  <1>1. ASSUME addCamera PROVE overlapped \subseteq overlapped'
    BY <1>1 DEF addCamera, device, watch, gotoAndNotify, Notified
  <1>2. ASSUME removeCamera PROVE overlapped \subseteq overlapped'
    BY <1>2 DEF removeCamera, device, closeCamera, watch
  <1>3. ASSUME getCamera PROVE overlapped \subseteq overlapped'
    BY <1>3 DEF getCamera, found, device, done, watch
  <1>4. CASE \/ \E d \in Devices : answerOpen(d)
             \/ \E d \in Devices : answer(d)
             \/ \E d \in Devices : detach(d)
             \/ unregisterCallback
             \/ \E d \in Devices : selectDevice(d)
             \/ \E what \in {"open", "close", "use"} : request(what)
             \/ \E ds \in {Devices, {mUsbDevice} \cap Devices} : release(ds)
    BY <1>4 DEF answerOpen, answer, detach, unregisterCallback, selectDevice,
       request, release
  <1>5. CASE \/ \E d \in Devices : onDeviceOpen(d)
             \/ \E d \in Devices : onDeviceClose(d)
             \/ \E d \in Devices : onDetach(d)
             \/ \E d \in Devices : onCancel(d)
             \/ registerCallback
             \/ releaseResource
             \/ requestPermission
    BY <1>5 DEF onDeviceOpen, listen, onDeviceClose, onDetach, onCancel,
       gotoAndNotify, Notified, registerCallback, done, releaseResource,
       camera, requestPermission
  <1>6. CASE \/ selected
             \/ isCameraOpened
             \/ resetUVCCamera
             \/ connect
             \/ openNotice
             \/ close
    BY <1>6 DEF selected, isCameraOpened, device, done, resetUVCCamera,
       connect, camera, openNotice, close, closeCamera
  <1> QED BY <1>1, <1>2, <1>3, <1>4, <1>5, <1>6, NextIs

LEMMA StepOpening ==
    ASSUME DataTypes, PcTypes, HandTypes, SyncInv, OverlapInv, OpeningInv, Next
    PROVE  OpeningInv'
  <1> USE DEF DataTypes, PcTypes, HandTypes, OpeningInv, Threads, Opening,
     goto, external, table, cameras, selection, threads
  <1>1. ASSUME NEW d \in Devices, selectDevice(d) PROVE OpeningInv'
    BY <1>1, OverlapNow, OverlappedStay DEF selectDevice
  <1>2. ASSUME NEW what \in {"open", "close", "use"}, request(what)
        PROVE OpeningInv'
    BY <1>2, OverlapNow, OverlappedStay DEF request
  <1>3. ASSUME NEW ds \in {Devices, {mUsbDevice} \cap Devices}, release(ds)
        PROVE OpeningInv'
    BY <1>3, OverlapNow, OverlappedStay DEF release
  <1>4. ASSUME NEW d \in Devices, onDeviceOpen(d) PROVE OpeningInv'
    BY <1>4, OverlapNow, OverlappedStay DEF onDeviceOpen, listen
  <1>5. ASSUME NEW d \in Devices, onDeviceClose(d) PROVE OpeningInv'
    BY <1>5, OverlapNow, OverlappedStay DEF onDeviceClose, listen
  <1>6. ASSUME NEW d \in Devices, onDetach(d) PROVE OpeningInv'
    BY <1>6, OverlapNow, OverlappedStay DEF onDetach, listen
  <1>7. ASSUME NEW d \in Devices, onCancel(d) PROVE OpeningInv'
    BY <1>7, OverlapNow, OverlappedStay DEF onCancel, listen, gotoAndNotify,
       Notified
  <1>8. ASSUME addCamera PROVE OpeningInv'
    BY <1>8, OverlapNow, OverlappedStay DEF addCamera, device, watch,
       gotoAndNotify, Notified
  <1>9. ASSUME registerCallback PROVE OpeningInv'
    BY <1>9, OverlapNow, OverlappedStay DEF registerCallback, done
  <1>10. ASSUME removeCamera PROVE OpeningInv'
    BY <1>10, OverlapNow, OverlappedStay DEF removeCamera, device, closeCamera,
       watch
  <1>11. ASSUME releaseResource PROVE OpeningInv'
    <2> SUFFICES ASSUME NEW d \in Devices \ overlapped', pc'["helper"] \in Opening,
                        dev'["helper"] = d
                 PROVE  mCameras'[d] = cam'["helper"]
      OBVIOUS
    <2>1. pc["helper"] \in Opening /\ dev["helper"] = d /\ cam'["helper"] = cam["helper"]
      BY <1>11 DEF releaseResource, camera, gotoAndNotify, Notified
    <2>2. d \notin overlapped
      BY OverlappedStay
    <2>3. dev["listener"] # d
      BY <1>11, <2>1, <2>2 DEF OverlapInv, Overlap, device, releaseResource
    <2>4. mCameras' = [mCameras EXCEPT ![dev["listener"]] = 0]
      BY <1>11 DEF releaseResource, camera
    <2> QED BY <2>1, <2>2, <2>3, <2>4
  <1>12. ASSUME requestPermission PROVE OpeningInv'
    BY <1>12, OverlapNow, OverlappedStay DEF requestPermission
  <1>13. ASSUME selected PROVE OpeningInv'
    BY <1>13, OverlapNow, OverlappedStay DEF selected
  <1>14. ASSUME isCameraOpened PROVE OpeningInv'
    BY <1>14, OverlapNow, OverlappedStay DEF isCameraOpened, device, done
  <1>15. ASSUME getCamera PROVE OpeningInv'
    BY <1>15, OverlapNow, OverlappedStay DEF getCamera, found, device, done,
       watch
  <1>16. ASSUME resetUVCCamera PROVE OpeningInv'
    BY <1>16, OverlapNow, OverlappedStay DEF resetUVCCamera, done
  <1>17. ASSUME connect PROVE OpeningInv'
    BY <1>17, OverlapNow, OverlappedStay DEF connect, camera, device
  <1>18. ASSUME openNotice PROVE OpeningInv'
    BY <1>18, OverlapNow, OverlappedStay DEF openNotice, done, camera
  <1>19. ASSUME close PROVE OpeningInv'
    BY <1>19, OverlapNow, OverlappedStay DEF close, camera, closeCamera, done
  <1>20. CASE \/ \E d \in Devices : answerOpen(d)
              \/ \E d \in Devices : answer(d)
              \/ \E d \in Devices : detach(d)
              \/ unregisterCallback
    BY <1>20, OverlapNow, OverlappedStay DEF answerOpen, answer, detach,
       unregisterCallback
  <1> QED BY <1>1, <1>2, <1>3, <1>4, <1>5, <1>6, <1>7, <1>8, <1>9, <1>10,
       <1>11, <1>12, <1>13, <1>14, <1>15, <1>16, <1>17, <1>18, <1>19, <1>20, NextIs

LEMMA StepRemoving ==
    ASSUME DataTypes, PcTypes, HandTypes, SyncInv, OverlapInv, RemovingInv,
           OrphansClosed, Next
    PROVE  RemovingInv'
  <1> USE DEF DataTypes, PcTypes, HandTypes, RemovingInv, Threads, Opening,
     goto, external, table, cameras, selection, threads
  <1>1. ASSUME NEW d \in Devices, selectDevice(d) PROVE RemovingInv'
    BY <1>1, OverlapNow, OverlappedStay DEF selectDevice
  <1>2. ASSUME NEW what \in {"open", "close", "use"}, request(what)
        PROVE RemovingInv'
    BY <1>2, OverlapNow, OverlappedStay DEF request
  <1>3. ASSUME NEW ds \in {Devices, {mUsbDevice} \cap Devices}, release(ds)
        PROVE RemovingInv'
    BY <1>3, OverlapNow, OverlappedStay DEF release
  <1>4. ASSUME NEW d \in Devices, onDeviceOpen(d) PROVE RemovingInv'
    BY <1>4, OverlapNow, OverlappedStay DEF onDeviceOpen, listen
  <1>5. ASSUME NEW d \in Devices, onDeviceClose(d) PROVE RemovingInv'
    BY <1>5, OverlapNow, OverlappedStay DEF onDeviceClose, listen
  <1>6. ASSUME NEW d \in Devices, onDetach(d) PROVE RemovingInv'
    BY <1>6, OverlapNow, OverlappedStay DEF onDetach, listen
  <1>7. ASSUME NEW d \in Devices, onCancel(d) PROVE RemovingInv'
    BY <1>7, OverlapNow, OverlappedStay DEF onCancel, listen, gotoAndNotify,
       Notified
  <1>8. ASSUME addCamera PROVE RemovingInv'
    BY <1>8, OverlapNow, OverlappedStay DEF addCamera, device, watch,
       gotoAndNotify, Notified
  <1>9. ASSUME registerCallback PROVE RemovingInv'
    BY <1>9, OverlapNow, OverlappedStay DEF registerCallback, done
  <1>10. ASSUME removeCamera PROVE RemovingInv'
    <2> SUFFICES ASSUME NEW d \in Devices \ overlapped', NEW c \in Cams,
                        dev'["listener"] = d
                 PROVE  mUVCCamera'[<<d, c>>] = "null"
      OBVIOUS
    <2>1. d \notin overlapped /\ dev["listener"] = d
      BY <1>10, OverlappedStay DEF removeCamera
    <2>2. /\ mUVCCamera' \in {mUVCCamera, [mUVCCamera EXCEPT ![<<d, mCameras[d]>>] = "null"]}
          /\ \/ mUVCCamera' = [mUVCCamera EXCEPT ![<<d, mCameras[d]>>] = "null"]
             \/ mUVCCamera[<<d, mCameras[d]>>] = "null"
             \/ mCameras[d] = 0
      BY <1>10, <2>1 DEF removeCamera, device, closeCamera
    <2>3. CASE c = mCameras[d]
      BY <2>2, <2>3 DEF Cams
    <2>4. CASE c # mCameras[d]
      <3>1. mUVCCamera[<<d, c>>] = "null"
        BY <2>1, <2>4 DEF OrphansClosed
      <3> QED BY <2>2, <2>4, <3>1
    <2> QED BY <2>3, <2>4
  <1>11. ASSUME releaseResource PROVE RemovingInv'
    BY <1>11, OverlapNow, OverlappedStay DEF releaseResource, camera,
       gotoAndNotify, Notified
  <1>12. ASSUME requestPermission PROVE RemovingInv'
    BY <1>12, OverlapNow, OverlappedStay DEF requestPermission
  <1>13. ASSUME selected PROVE RemovingInv'
    BY <1>13, OverlapNow, OverlappedStay DEF selected
  <1>14. ASSUME isCameraOpened PROVE RemovingInv'
    BY <1>14, OverlapNow, OverlappedStay DEF isCameraOpened, device, done
  <1>15. ASSUME getCamera PROVE RemovingInv'
    BY <1>15, OverlapNow, OverlappedStay DEF getCamera, found, device, done,
       watch
  <1>16. ASSUME resetUVCCamera PROVE RemovingInv'
    BY <1>16, OverlapNow, OverlappedStay DEF resetUVCCamera, done
  <1>17. ASSUME connect PROVE RemovingInv'
    <2>1. /\ mCameras' = mCameras /\ dev' = dev /\ pc["helper"] = "connect"
          /\ pc'["listener"] = pc["listener"] /\ dev["helper"] \in Devices
          /\ \A k \in Devices \X Cams :
                k # <<dev["helper"], cam["helper"]>> => mUVCCamera'[k] = mUVCCamera[k]
      BY <1>17 DEF connect, camera, InHand
    <2>2. pc["listener"] = "resource" => dev["listener"] # dev["helper"]
                                         \/ dev["listener"] \in overlapped
      BY <2>1 DEF OverlapInv, Overlap, device
    <2> QED BY <2>1, <2>2, OverlappedStay
  <1>18. ASSUME openNotice PROVE RemovingInv'
    BY <1>18, OverlapNow, OverlappedStay DEF openNotice, done, camera
  <1>19. ASSUME close PROVE RemovingInv'
    BY <1>19, OverlapNow, OverlappedStay DEF close, camera, closeCamera, done
  <1>20. CASE \/ \E d \in Devices : answerOpen(d)
              \/ \E d \in Devices : answer(d)
              \/ \E d \in Devices : detach(d)
              \/ unregisterCallback
    BY <1>20, OverlapNow, OverlappedStay DEF answerOpen, answer, detach,
       unregisterCallback
  <1> QED BY <1>1, <1>2, <1>3, <1>4, <1>5, <1>6, <1>7, <1>8, <1>9, <1>10,
       <1>11, <1>12, <1>13, <1>14, <1>15, <1>16, <1>17, <1>18, <1>19, <1>20, NextIs

LEMMA StepOrphans ==
    ASSUME DataTypes, PcTypes, HandTypes, SyncInv, OverlapInv, OpeningInv,
           RemovingInv, OrphansClosed, Next
    PROVE  OrphansClosed'
  <1> USE DEF DataTypes, PcTypes, HandTypes, OrphansClosed, Threads, Opening,
     goto, external, table, cameras, selection, threads
  <1>1. ASSUME NEW what \in {"open", "close", "use"}, request(what)
        PROVE OrphansClosed'
    <2>1. UNCHANGED <<mCameras, mUVCCamera>>
      BY <1>1 DEF request
    <2> QED BY <2>1, OverlappedStay
  <1>2. ASSUME NEW ds \in {Devices, {mUsbDevice} \cap Devices}, release(ds)
        PROVE OrphansClosed'
    BY <1>2, OverlappedStay DEF release
  <1>3. ASSUME NEW d \in Devices, onDeviceOpen(d) PROVE OrphansClosed'
    <2>1. UNCHANGED <<mCameras, mUVCCamera>>
      BY <1>3 DEF onDeviceOpen
    <2> QED BY <2>1, OverlappedStay
  <1>4. ASSUME NEW d \in Devices, onDeviceClose(d) PROVE OrphansClosed'
    <2>1. UNCHANGED <<mCameras, mUVCCamera>>
      BY <1>4 DEF onDeviceClose
    <2> QED BY <2>1, OverlappedStay
  <1>5. ASSUME NEW d \in Devices, onDetach(d) PROVE OrphansClosed'
    <2>1. UNCHANGED <<mCameras, mUVCCamera>>
      BY <1>5 DEF onDetach
    <2> QED BY <2>1, OverlappedStay
  <1>6. ASSUME NEW d \in Devices, onCancel(d) PROVE OrphansClosed'
    <2>1. UNCHANGED <<mCameras, mUVCCamera>>
      BY <1>6 DEF onCancel
    <2> QED BY <2>1, OverlappedStay
  <1>7. ASSUME addCamera PROVE OrphansClosed'
    <2>1. /\ mUVCCamera' = mUVCCamera /\ dev["listener"] \in Devices
          /\ \/ mCameras' = mCameras
             \/ /\ mCameras[dev["listener"]] = 0
                /\ mCameras' = [mCameras EXCEPT
                       ![dev["listener"]] = created[dev["listener"]] + 1]
      BY <1>7 DEF addCamera, device
    <2>2. \A c \in Cams : c # 0
      BY DEF Cams
    <2> QED BY <2>1, <2>2, OverlappedStay
  <1>8. ASSUME registerCallback PROVE OrphansClosed'
    <2>1. UNCHANGED <<mCameras, mUVCCamera>>
      BY <1>8 DEF registerCallback, done
    <2> QED BY <2>1, OverlappedStay
  <1>9. ASSUME removeCamera PROVE OrphansClosed'
    BY <1>9, OverlappedStay DEF removeCamera, device, closeCamera, watch
  <1>10. ASSUME releaseResource PROVE OrphansClosed'
    <2>1. mUVCCamera' = mUVCCamera /\ pc["listener"] = "resource"
          /\ mCameras' = [mCameras EXCEPT ![dev["listener"]] = 0]
      BY <1>10 DEF releaseResource, camera
    <2> QED BY <2>1, OverlappedStay DEF RemovingInv
  <1>11. ASSUME requestPermission PROVE OrphansClosed'
    <2>1. UNCHANGED <<mCameras, mUVCCamera>>
      BY <1>11 DEF requestPermission
    <2> QED BY <2>1, OverlappedStay
  <1>12. ASSUME isCameraOpened PROVE OrphansClosed'
    <2>1. UNCHANGED <<mCameras, mUVCCamera>>
      BY <1>12 DEF isCameraOpened, device, done
    <2> QED BY <2>1, OverlappedStay
  <1>13. ASSUME getCamera PROVE OrphansClosed'
    <2>1. UNCHANGED <<mCameras, mUVCCamera>>
      BY <1>13 DEF getCamera
    <2> QED BY <2>1, OverlappedStay
  <1>14. ASSUME connect PROVE OrphansClosed'
    <2>1. PICK result \in {"open", "unready", "failed"} :
             mUVCCamera' = [mUVCCamera EXCEPT ![<<dev["helper"], cam["helper"]>>] = result]
      BY <1>14 DEF connect, OpenResults, camera
    <2>2. dev["helper"] \notin overlapped => mCameras[dev["helper"]] = cam["helper"]
      BY <1>14 DEF OpeningInv, connect, InHand
    <2>3. mCameras' = mCameras
      BY <1>14 DEF connect
    <2> QED BY <2>1, <2>2, <2>3, OverlappedStay
  <1>15. ASSUME close PROVE OrphansClosed'
    BY <1>15, OverlappedStay DEF close, camera, closeCamera, done
  <1>16. CASE \/ \E d \in Devices : answerOpen(d)
              \/ \E d \in Devices : answer(d)
              \/ \E d \in Devices : detach(d)
              \/ unregisterCallback
              \/ \E d \in Devices : selectDevice(d)
    <2>1. UNCHANGED <<mCameras, mUVCCamera>>
      BY <1>16 DEF answerOpen, answer, detach, unregisterCallback, selectDevice
    <2> QED BY <2>1, OverlappedStay
  <1>17. CASE \/ selected
              \/ resetUVCCamera
              \/ openNotice
    BY <1>17, OverlappedStay DEF selected, resetUVCCamera, done, openNotice,
       camera
  <1> QED BY <1>1, <1>2, <1>3, <1>4, <1>5, <1>6, <1>7, <1>8, <1>9, <1>10,
       <1>11, <1>12, <1>13, <1>14, <1>15, <1>16, <1>17, NextIs

----------------------------------------------------------------------------
(* The theorem. *)

LEMMA InitIInv == Init => IInv
  <1> SUFFICES ASSUME Init PROVE IInv
    OBVIOUS
  <1>1. DataTypes /\ PcTypes /\ HandTypes
    BY DEF Init, DataTypes, PcTypes, HandTypes, Threads, HelperPlaces,
           ListenerPlaces, InHand, Opening, Waiting
  <1>2. SyncInv /\ OverlapInv /\ OpeningInv /\ RemovingInv
    BY DEF Init, SyncInv, OverlapInv, Overlap, OpeningInv, RemovingInv, Opening
  <1>3. OrphansClosed
    BY DEF Init, OrphansClosed
  <1> QED BY <1>1, <1>2, <1>3 DEF IInv

LEMMA NextIInv == IInv /\ [Next]_vars => IInv'
  <1>1. ASSUME IInv, Next PROVE IInv'
    <2>1. DataTypes' /\ PcTypes' /\ HandTypes' /\ SyncInv' /\ OverlapInv'
      BY <1>1, StepData, StepPc, StepHand, StepSync, StepOverlap DEF IInv
    <2>2. OpeningInv' /\ RemovingInv' /\ OrphansClosed'
      BY <1>1, StepOpening, StepRemoving, StepOrphans DEF IInv
    <2> QED BY <2>1, <2>2 DEF IInv
  <1>2. ASSUME IInv, UNCHANGED vars PROVE IInv'
    BY <1>2 DEF vars, external, table, cameras, selection, threads, IInv,
       DataTypes, PcTypes, HandTypes, SyncInv, OverlapInv, Overlap, device,
       OpeningInv, RemovingInv, OrphansClosed
  <1> QED BY <1>1, <1>2

(* removeCamera, openCamera and closeCamera: whatever detaches, closes and  *)
(* reopens, a camera that the connection no longer has is closed.          *)
THEOREM CamerasGivenUpAreClosed == Spec => []OrphansClosed
  <1>1. IInv => OrphansClosed
    BY DEF IInv
  <1> QED BY InitIInv, NextIInv, <1>1, PTL DEF Spec

----------------------------------------------------------------------------
(* What the application was told. *)

Posted == {"open", "close", "detach", "cancel"} \X Devices

\* Answers "open" of the monitor that addCamera has not handled yet.
OpensIn(s, d) == {i \in 1 .. Len(s) : s[i] = <<"open", d>>}
Answered(d) == IF asked[d] = "opened" THEN 1 ELSE 0
Adding(d) == IF pc["listener"] = "add" /\ dev["listener"] = d THEN 1 ELSE 0

\* addCamera does not run more often than the monitor opens the device.
CountInv ==
    \A d \in Devices :
        created[d] + Cardinality(OpensIn(events, d)) + Answered(d) + Adding(d)
            <= opens[d]

HelperHas == Opening \cup {"error", "close"}

\* The cameras in the table, and in the helper's hand, were created.
NumberInv ==
    /\ \A d \in Devices : mCameras[d] <= created[d]
    /\ \A d \in Devices, c \in Cams :
          c > created[d] => mUVCCamera[<<d, c>>] = "null"
    /\ pc["helper"] \in HelperHas
          => cam["helper"] \in 1 .. created[dev["helper"]]
    /\ pc["listener"] = "register"
          => mCameras[dev["listener"]] \in {0, cam["listener"]}

\* openCamera goes for a camera that is not opened, not even by a failure.
ClosedYetInv ==
    /\ pc["helper"] \in {"get", "getWait", "getWoken"} /\ op = "open"
          => LET d == dev["helper"] IN
                mCameras[d] # 0 => mUVCCamera[<<d, mCameras[d]>>] = "null"
    /\ pc["helper"] \in {"reset", "connect"}
          => mUVCCamera[camera("helper")] = "null"

\* A callback that counts the camera as opened is that of an open camera.
CallbackInv ==
    \A d \in Devices \ overlapped :
        /\ \A c \in Cams : TRUE \in mCallbacks[<<d, c>>]
                              => mUVCCamera[<<d, c>>] = "open"
        /\ mCameras[d] # 0 => \/ mCallbacks[<<d, mCameras[d]>>] # {}
                              \/ pc["listener"] = "register" /\ dev["listener"] = d

\* The camera to give notice of is open, and its callback not told yet.
NoticeInv ==
    pc["helper"] = "notice" /\ dev["helper"] \notin overlapped
        => /\ mUVCCamera[camera("helper")] = "open"
           /\ FALSE \in mCallbacks[camera("helper")]

IsOpen(d) == mCameras[d] # 0 /\ mUVCCamera[<<d, mCameras[d]>>] = "open"

\* Its open threw: it is connected but not ready, or not even connected.
Broken(d) ==
    mCameras[d] # 0 /\ mUVCCamera[<<d, mCameras[d]>>] \in {"unready", "failed"}

\* An error to report is that of a camera with a callback, unless it was closed
\* in between; no other camera of the device was opened.
ErrorInv ==
    LET d == dev["helper"] IN
    pc["helper"] = "error" /\ d \notin overlapped
        => /\ ~IsOpen(d)
           /\ Broken(d) => /\ mCameras[d] = cam["helper"]
                           /\ mCallbacks[<<d, cam["helper"]>>] # {}

\* What was told is true, but for an opening or an error that is not told of
\* yet and a removal that the listener is about to do.
ToldInv ==
    listening => \A d \in Devices \ overlapped :
        /\ told[d] = "open" => /\ IsOpen(d)
                               /\ TRUE \in mCallbacks[<<d, mCameras[d]>>]
        /\ IsOpen(d) => \/ told[d] = "open"
                        \/ pc["helper"] = "notice" /\ dev["helper"] = d
                        \/ pc["listener"] = "remove" /\ dev["listener"] = d
        /\ Broken(d) => \/ told[d] = "error"
                        \/ pc["helper"] = "error" /\ dev["helper"] = d
                        \/ pc["listener"] = "remove" /\ dev["listener"] = d

LEMMA OpensAreFinite ==
    ASSUME NEW s \in Seq(Posted), NEW d
    PROVE  IsFiniteSet(OpensIn(s, d)) /\ Cardinality(OpensIn(s, d)) \in Nat
  <1>1. Len(s) \in Nat
    BY LenProperties
  <1>2. IsFiniteSet(1 .. Len(s))
    BY <1>1, FS_Interval
  <1>3. OpensIn(s, d) \in SUBSET (1 .. Len(s))
    BY DEF OpensIn
  <1> QED BY <1>2, <1>3, FS_Subset, FS_CardinalityType

\* Posting at the end, an "open" or anything else.
LEMMA OpensPosted ==
    ASSUME NEW s \in Seq(Posted), NEW e \in Posted, NEW d
    PROVE  /\ Append(s, e) \in Seq(Posted)
           /\ Cardinality(OpensIn(Append(s, e), d))
              = Cardinality(OpensIn(s, d)) + IF e = <<"open", d>> THEN 1 ELSE 0
  <1> DEFINE t == Append(s, e)
  <1>1. /\ t \in Seq(Posted) /\ Len(t) = Len(s) + 1 /\ Len(s) \in Nat
        /\ \A i \in 1 .. Len(s) : t[i] = s[i]
        /\ t[Len(s) + 1] = e
    BY AppendProperties, LenProperties
  <1> HIDE DEF t
  <1>2. CASE e = <<"open", d>>
    <2>1. OpensIn(t, d) = OpensIn(s, d) \cup {Len(s) + 1}
      BY <1>1, <1>2 DEF OpensIn
    <2>2. Len(s) + 1 \notin OpensIn(s, d)
      BY <1>1 DEF OpensIn
    <2> QED BY <1>1, <1>2, <2>1, <2>2, OpensAreFinite, FS_AddElement DEF t
  <1>3. CASE e # <<"open", d>>
    <2>1. OpensIn(t, d) = OpensIn(s, d)
      <3>1. ASSUME NEW i \in 1 .. Len(t)
            PROVE  t[i] = <<"open", d>>
                   <=> i \in 1 .. Len(s) /\ s[i] = <<"open", d>>
        <4>1. CASE i = Len(s) + 1
          <5>1. t[i] = e /\ ~(i \in 1 .. Len(s))
            BY <1>1, <4>1
          <5> QED BY <1>3, <5>1, Zenon
        <4>2. CASE i # Len(s) + 1
          <5>1. i \in 1 .. Len(s) /\ t[i] = s[i]
            BY <1>1, <4>2
          <5> QED BY <5>1, Zenon
        <4> QED BY <4>1, <4>2
      <3>2. 1 .. Len(s) \subseteq 1 .. Len(t)
        BY <1>1
      <3> QED BY <3>1, <3>2, Zenon DEF OpensIn
    <2> QED BY <1>1, <1>3, <2>1, OpensAreFinite DEF t
  <1> QED BY <1>2, <1>3

LEMMA NoOpensPosted ==
    ASSUME NEW s \in Seq(Posted), NEW t \in Seq(Posted), NEW d,
           \A i \in 1 .. Len(t) : t[i] # <<"open", d>>
    PROVE  s \o t \in Seq(Posted) /\ OpensIn(s \o t, d) = OpensIn(s, d)
  <1> DEFINE u == s \o t
  <1>1. /\ u \in Seq(Posted) /\ Len(u) = Len(s) + Len(t)
        /\ \A i \in 1 .. Len(s) + Len(t) :
              u[i] = IF i <= Len(s) THEN s[i] ELSE t[i - Len(s)]
        /\ Len(s) \in Nat /\ Len(t) \in Nat
    BY ConcatProperties, LenProperties
  <1> HIDE DEF u
  <1>2. ASSUME NEW i \in 1 .. Len(u), i > Len(s) PROVE u[i] # <<"open", d>>
    <2>1. u[i] = t[i - Len(s)] /\ i - Len(s) \in 1 .. Len(t)
      BY <1>1, <1>2
    <2> QED BY <2>1
  <1>3. OpensIn(u, d) = OpensIn(s, d)
    <2>1. ASSUME NEW i \in 1 .. Len(u)
          PROVE  u[i] = <<"open", d>>
                 <=> i \in 1 .. Len(s) /\ s[i] = <<"open", d>>
      BY <1>1, <1>2
    <2>2. 1 .. Len(s) \subseteq 1 .. Len(u)
      BY <1>1
    <2> QED BY <2>1, <2>2, Zenon DEF OpensIn
  <1> QED BY <1>1, <1>3 DEF u

\* Handling the first.
LEMMA OpensHandled ==
    ASSUME NEW s \in Seq(Posted), s # << >>, NEW d
    PROVE  /\ Tail(s) \in Seq(Posted)
           /\ Cardinality(OpensIn(s, d)) = Cardinality(OpensIn(Tail(s), d))
                + IF Head(s) = <<"open", d>> THEN 1 ELSE 0
  <1> DEFINE t == Tail(s)
  <1>1. /\ t \in Seq(Posted) /\ Len(t) = Len(s) - 1 /\ Len(t) \in Nat
        /\ Len(s) \in Nat /\ \A i \in 1 .. Len(t) : t[i] = s[i + 1]
    BY HeadTailProperties, LenProperties
  <1>2. Head(s) = s[1]
    OBVIOUS
  <1> HIDE DEF t
  <1> DEFINE S == OpensIn(s, d) \ {1}
             T == OpensIn(t, d)
             f == [i \in T |-> i + 1]
  <1>3. f \in Bijection(T, S)
    <2>1. \A i \in T : i \in 1 .. Len(t) /\ i + 1 \in S
      BY <1>1 DEF OpensIn
    <2>2. f \in [T -> S] /\ \A i, j \in T : f[i] = f[j] => i = j
      BY <2>1
    <2>3. ASSUME NEW j \in S PROVE \E i \in T : f[i] = j
      <3>1. j \in 1 .. Len(s) /\ j # 1 /\ s[j] = <<"open", d>>
        BY DEF OpensIn
      <3>2. j - 1 \in 1 .. Len(t) /\ t[j - 1] = s[j]
        BY <1>1, <3>1
      <3>3. j - 1 \in T /\ f[j - 1] = j
        BY <3>1, <3>2 DEF OpensIn
      <3> QED BY <3>3
    <2> QED BY <2>2, <2>3 DEF Bijection, Injection, Surjection, IsInjective
  <1>4. IsFiniteSet(T) /\ Cardinality(T) \in Nat
    BY <1>1, OpensAreFinite
  <1>5. Cardinality(S) = Cardinality(T)
    <2>1. ExistsBijection(T, S)
      BY <1>3 DEF ExistsBijection
    <2> HIDE DEF f, T, S
    <2> QED BY <1>4, <2>1, FS_Bijection
  <1>6. Cardinality(S) = IF 1 \in OpensIn(s, d) THEN Cardinality(OpensIn(s, d)) - 1
                         ELSE Cardinality(OpensIn(s, d))
    BY OpensAreFinite, FS_RemoveElement
  <1>7. 1 \in OpensIn(s, d) <=> Head(s) = <<"open", d>>
    <2>1. 1 \in 1 .. Len(s)
      BY <1>1
    <2> QED BY <1>2, <2>1 DEF OpensIn
  <1>8. Cardinality(OpensIn(s, d)) \in Nat
    BY OpensAreFinite
  <1> HIDE DEF S, T, f
  <1>9. Cardinality(OpensIn(s, d)) = Cardinality(T)
           + IF Head(s) = <<"open", d>> THEN 1 ELSE 0
    BY <1>4, <1>5, <1>6, <1>7, <1>8
  <1> QED BY <1>1, <1>9 DEF T, t

\* The closes that release posts come in some order.
LEMMA ClosesPosted ==
    ASSUME NEW S \in SUBSET Devices
    PROVE  /\ SetToSeq({"close"} \X S) \in Seq(Posted)
           /\ \A d : \A i \in 1 .. Len(SetToSeq({"close"} \X S)) :
                 SetToSeq({"close"} \X S)[i] # <<"open", d>>
  <1> DEFINE X == {"close"} \X S
             g == [d \in S |-> <<"close", d>>]
  <1>1. IsFiniteSet(X)
    <2>1. IsFiniteSet(S)
      BY FS_Subset, ConnectionAssumption
    <2>2. g \in Bijection(S, X)
      BY DEF Bijection, Injection, Surjection, IsInjective
    <2>3. ExistsBijection(S, X)
      BY <2>2 DEF ExistsBijection
    <2> HIDE DEF g, X
    <2> QED BY <2>1, <2>3, FS_Bijection
  <1>2. X \subseteq Posted /\ \A x \in X : \A d : x # <<"open", d>>
    BY DEF Posted
  <1> HIDE DEF X, g
  <1>3. Cardinality(X) \in Nat /\ ExistsBijection(1 .. Cardinality(X), X)
    BY <1>1, FS_CardinalityType
  <1>4. \E f \in [1 .. Cardinality(X) -> X] : IsInjective(f)
    BY <1>3 DEF ExistsBijection, Bijection, Injection
  <1>5. SetToSeq(X) \in [1 .. Cardinality(X) -> X]
    BY <1>4 DEF SetToSeq
  <1>6. SetToSeq(X) \in Seq(X) /\ Len(SetToSeq(X)) \in Nat
        /\ DOMAIN SetToSeq(X) = 1 .. Len(SetToSeq(X))
    <2>1. SetToSeq(X) \in Seq(X)
      BY <1>3, <1>5, SeqDef
    <2> QED BY <2>1, LenProperties
  <1>7. \A i \in 1 .. Len(SetToSeq(X)) : SetToSeq(X)[i] \in X
    BY <1>6, ElementOfSeq
  <1>8. SetToSeq(X) \in Seq(Posted)
    BY <1>2, <1>3, <1>5, SeqDef
  <1> QED BY <1>2, <1>7, <1>8 DEF X

EventTypes ==
    /\ attached \subseteq Devices /\ blocks \subseteq Devices
    /\ asked \in [Devices -> {"none", "asked", "opened"}]
    /\ opens \in [Devices -> 0 .. MaxOpens]
    /\ events \in Seq(Posted)

\* What is posted, if anything, is no "open".
NoNewOpens ==
    /\ events' \in Seq(Posted)
    /\ \A d \in Devices : Cardinality(OpensIn(events', d))
                              <= Cardinality(OpensIn(events, d))

LEMMA EventsUnchanged ==
    ASSUME EventTypes, events' = events
    PROVE  NoNewOpens
  BY OpensAreFinite DEF EventTypes, NoNewOpens

LEMMA ListenEvents ==
    ASSUME EventTypes, NEW kind \in {"open", "close", "detach", "cancel"},
           NEW d \in Devices, listen(kind, d)
    PROVE  /\ NoNewOpens
           /\ kind = "open" => Cardinality(OpensIn(events, d))
                             = Cardinality(OpensIn(events', d)) + 1
  <1>1. /\ events \in Seq(Posted) /\ events # << >> /\ events' = Tail(events)
        /\ Head(events) = <<kind, d>>
    BY DEF EventTypes, listen
  <1>2. \A e : /\ events' \in Seq(Posted)
               /\ Cardinality(OpensIn(events, e))
                  = Cardinality(OpensIn(events', e))
                    + IF Head(events) = <<"open", e>> THEN 1 ELSE 0
    BY <1>1, OpensHandled
  <1>3. \A e : Cardinality(OpensIn(events', e)) \in Nat
    BY <1>2, OpensAreFinite
  <1>4. \A e : Cardinality(OpensIn(events', e)) <= Cardinality(OpensIn(events, e))
    BY <1>2, <1>3
  <1>5. kind = "open" => Head(events) = <<"open", d>>
    BY <1>1
  <1> QED BY <1>2, <1>4, <1>5 DEF NoNewOpens

LEMMA CloseEvents ==
    ASSUME EventTypes, NEW d \in Devices,
           events' \in {events, Append(events, <<"close", d>>)}
    PROVE  NoNewOpens
  <1>1. <<"close", d>> \in Posted /\ \A e : <<"close", d>> # <<"open", e>>
    BY DEF Posted
  <1>2. CASE events' = events
    BY <1>2, EventsUnchanged
  <1>3. CASE events' = Append(events, <<"close", d>>)
    <2>1. \A e : /\ events' \in Seq(Posted)
                 /\ Cardinality(OpensIn(events', e)) = Cardinality(OpensIn(events, e))
                    + IF <<"close", d>> = <<"open", e>> THEN 1 ELSE 0
      BY <1>1, <1>3, OpensPosted DEF EventTypes
    <2>2. \A e : Cardinality(OpensIn(events, e)) \in Nat
      BY OpensAreFinite DEF EventTypes
    <2>3. \A e : Cardinality(OpensIn(events', e)) <= Cardinality(OpensIn(events, e))
      BY <1>1, <2>1, <2>2
    <2> QED BY <2>1, <2>3 DEF NoNewOpens
  <1> QED BY <1>2, <1>3

LEMMA MoreEvents ==
    ASSUME EventTypes, NEW t \in Seq(Posted), events' = events \o t,
           \A d : \A i \in 1 .. Len(t) : t[i] # <<"open", d>>
    PROVE  NoNewOpens
  <1>1. events \in Seq(Posted)
    BY DEF EventTypes
  <1>2. ASSUME NEW d
        PROVE  events' \in Seq(Posted) /\ OpensIn(events', d) = OpensIn(events, d)
    <2>1. \A i \in 1 .. Len(t) : t[i] # <<"open", d>>
      OBVIOUS
    <2> QED BY <1>1, <2>1, NoOpensPosted
  <1>3. \A d : Cardinality(OpensIn(events, d)) \in Nat
    BY <1>1, OpensAreFinite
  <1> QED BY <1>2, <1>3 DEF NoNewOpens

LEMMA DetachEvents ==
    ASSUME EventTypes, NEW d \in Devices, detach(d)
    PROVE  NoNewOpens
  <1> DEFINE n == Cardinality(blocks \cap {d})
             s == [e \in 1 .. n |-> <<"close", d>>]
             t == <<<<"detach", d>>>>
  <1>1. n \in Nat
    <2>1. IsFiniteSet({d}) /\ blocks \cap {d} \in SUBSET {d}
      BY FS_Singleton
    <2> QED BY <2>1, FS_Subset, FS_CardinalityType
  <1>2. <<"close", d>> \in Posted /\ <<"detach", d>> \in Posted
    BY DEF Posted
  <1> HIDE DEF n
  <1>3. s \in Seq(Posted) /\ Len(s) = n
    <2>1. s \in [1 .. n -> Posted]
      BY <1>2
    <2>2. s \in Seq(Posted)
      BY <1>1, <2>1, SeqDef
    <2>3. Len(s) \in Nat /\ DOMAIN s = 1 .. Len(s) /\ DOMAIN s = 1 .. n
      BY <2>1, <2>2, LenProperties
    <2> QED BY <1>1, <2>2, <2>3
  <1>4. t \in Seq(Posted) /\ Len(t) = 1 /\ t[1] = <<"detach", d>>
    BY <1>2
  <1>5. \A i \in 1 .. Len(s) : s[i] = <<"close", d>>
    BY <1>3
  <1> HIDE DEF s, t
  <1>6. /\ s \o t \in Seq(Posted) /\ Len(s \o t) = n + 1
        /\ \A i \in 1 .. n + 1 : (s \o t)[i] = IF i <= n THEN s[i] ELSE t[i - n]
    <2>1. s \in Seq(Posted) /\ t \in Seq(Posted)
      BY <1>3, <1>4
    <2>2. /\ s \o t \in Seq(Posted) /\ Len(s \o t) = Len(s) + Len(t)
          /\ \A i \in 1 .. Len(s) + Len(t) :
                (s \o t)[i] = IF i <= Len(s) THEN s[i] ELSE t[i - Len(s)]
      BY <2>1, ConcatProperties
    <2> QED BY <1>3, <1>4, <2>2
  <1>7. \A i \in 1 .. n + 1 : (s \o t)[i] \in {<<"close", d>>, <<"detach", d>>}
    <2> SUFFICES ASSUME NEW i \in 1 .. n + 1
                 PROVE  (s \o t)[i] \in {<<"close", d>>, <<"detach", d>>}
      OBVIOUS
    <2>1. CASE i <= n
      <3>1. i \in 1 .. Len(s) /\ (s \o t)[i] = s[i]
        BY <1>1, <1>3, <1>6, <2>1
      <3> QED BY <1>5, <3>1
    <2>2. CASE ~(i <= n)
      <3>1. i - n = 1 /\ (s \o t)[i] = t[i - n]
        BY <1>1, <1>6, <2>2
      <3> QED BY <1>4, <3>1
    <2> QED BY <2>1, <2>2
  <1>8. \A e : \A i \in 1 .. Len(s \o t) : (s \o t)[i] # <<"open", e>>
    <2>1. \A e : /\ <<"close", d>> # <<"open", e>>
                 /\ <<"detach", d>> # <<"open", e>>
      OBVIOUS
    <2>2. 1 .. Len(s \o t) = 1 .. n + 1
      BY <1>6
    <2> QED BY <1>7, <2>1, <2>2, Zenon
  <1>9. events' = events \/ events' = events \o (s \o t)
    <2>1. events' = IF ~listening THEN events ELSE events \o s \o t
      BY DEF detach, s, t, n
    <2>2. events \o s \o t = events \o (s \o t)
      <3>1. s \in Seq(Posted) /\ t \in Seq(Posted) /\ events \in Seq(Posted)
        BY <1>3, <1>4 DEF EventTypes
      <3> QED BY <3>1, ConcatAssociative
    <2> QED BY <2>1, <2>2
  <1> QED BY <1>6, <1>8, <1>9, EventsUnchanged, MoreEvents

LEMMA ReleaseEvents ==
    ASSUME EventTypes, NEW ds \in SUBSET Devices, release(ds)
    PROVE  NoNewOpens
  <1>1. PICK S \in SUBSET Devices : events' = events \o SetToSeq({"close"} \X S)
    <2> DEFINE gone == {<<d, mCameras[d]>> : d \in {e \in ds : mCameras[e] # 0}}
               opened == {c \in gone : mUVCCamera[c] # "null"}
               closed == {c[1] : c \in opened} \cup IF listening THEN blocks ELSE {}
    <2>1. closed \subseteq Devices
      BY DEF EventTypes
    <2>2. events' = events \o SetToSeq({"close"} \X closed)
      BY Zenon DEF release
    <2> QED BY <2>1, <2>2
  <1> QED BY <1>1, ClosesPosted, MoreEvents

\* A second way to say what answer posts.
LEMMA AnswerEvents ==
    ASSUME EventTypes, NEW d \in Devices, answer(d)
    PROVE  /\ events' \in Seq(Posted)
           /\ \A e \in Devices :
                 Cardinality(OpensIn(events', e))
                 <= Cardinality(OpensIn(events, e))
                    + IF e = d /\ asked[d] = "opened" THEN 1 ELSE 0
  <1>1. events \in Seq(Posted) /\ \A e : Cardinality(OpensIn(events, e)) \in Nat
    BY OpensAreFinite DEF EventTypes
  <1>2. CASE events' = events
    BY <1>1, <1>2
  <1>3. CASE events' = Append(events, <<"cancel", d>>)
    <2>1. <<"cancel", d>> \in Posted /\ \A e : <<"cancel", d>> # <<"open", e>>
      BY DEF Posted
    <2>2. \A e : /\ events' \in Seq(Posted)
                 /\ Cardinality(OpensIn(events', e)) = Cardinality(OpensIn(events, e))
                    + IF <<"cancel", d>> = <<"open", e>> THEN 1 ELSE 0
      BY <1>1, <1>3, <2>1, OpensPosted
    <2> QED BY <1>1, <2>1, <2>2
  <1>4. CASE asked[d] = "opened" /\ events' = Append(events, <<"open", d>>)
    <2>1. <<"open", d>> \in Posted /\ \A e : <<"open", d>> = <<"open", e>> => e = d
      BY DEF Posted
    <2>2. \A e : /\ events' \in Seq(Posted)
                 /\ Cardinality(OpensIn(events', e)) = Cardinality(OpensIn(events, e))
                    + IF <<"open", d>> = <<"open", e>> THEN 1 ELSE 0
      BY <1>1, <1>4, <2>1, OpensPosted
    <2> QED BY <1>1, <1>4, <2>1, <2>2
  <1> QED BY <1>2, <1>3, <1>4 DEF answer

\* The listener's cameras and the helper's, as the events see them.
LEMMA StepNoNewOpens ==
    ASSUME EventTypes, DataTypes, PcTypes, HandTypes, Next,
           ~\E d \in Devices : answer(d)
    PROVE  NoNewOpens
  <1>1. ASSUME NEW d \in Devices, detach(d) PROVE NoNewOpens
    BY <1>1, DetachEvents
  <1>2. ASSUME NEW ds \in {Devices, {mUsbDevice} \cap Devices}, release(ds)
        PROVE NoNewOpens
    <2>1. ds \in SUBSET Devices
      OBVIOUS
    <2> QED BY <1>2, <2>1, ReleaseEvents
  <1>3. ASSUME NEW d \in Devices, \/ onDeviceOpen(d) \/ onDeviceClose(d)
                                  \/ onDetach(d) \/ onCancel(d)
        PROVE NoNewOpens
    <2>1. PICK kind \in {"open", "close", "detach", "cancel"} : listen(kind, d)
      BY <1>3 DEF onDeviceOpen, onDeviceClose, onDetach, onCancel
    <2> QED BY <2>1, ListenEvents
  <1>4. ASSUME removeCamera PROVE NoNewOpens
    <2>1. dev["listener"] \in Devices
          /\ events' \in {events, Append(events, <<"close", dev["listener"]>>)}
      BY <1>4 DEF removeCamera, closeCamera, destroyUVCCamera, device, HandTypes,
         PcTypes, Threads
    <2> QED BY <2>1, CloseEvents
  <1>5. ASSUME close PROVE NoNewOpens
    <2>1. dev["helper"] \in Devices
          /\ events' \in {events, Append(events, <<"close", dev["helper"]>>)}
      BY <1>5 DEF close, closeCamera, destroyUVCCamera, camera, HandTypes,
         PcTypes, Threads, InHand
    <2> QED BY <2>1, CloseEvents
  <1>6. CASE \/ \E d \in Devices : answerOpen(d)
             \/ unregisterCallback
             \/ \E d \in Devices : selectDevice(d)
             \/ \E what \in {"open", "close", "use"} : request(what)
             \/ addCamera
             \/ registerCallback
             \/ releaseResource
             \/ requestPermission
             \/ selected
             \/ isCameraOpened
             \/ getCamera
             \/ resetUVCCamera
             \/ connect
             \/ openNotice
    <2>1. events' = events
      BY <1>6 DEF answerOpen, unregisterCallback, selectDevice, request, addCamera,
         registerCallback, releaseResource, requestPermission, selected,
         isCameraOpened, getCamera, resetUVCCamera, connect, openNotice
    <2> QED BY <2>1, EventsUnchanged
  <1> QED BY <1>1, <1>2, <1>3, <1>4, <1>5, <1>6, NextIs

LEMMA StepEventTypes ==
    ASSUME EventTypes, DataTypes, PcTypes, HandTypes, Next
    PROVE  EventTypes'
  <1>1. events' \in Seq(Posted)
    BY StepNoNewOpens, AnswerEvents DEF NoNewOpens
  <1>2. attached' \subseteq Devices /\ blocks' \subseteq Devices
        /\ asked' \in [Devices -> {"none", "asked", "opened"}]
        /\ opens' \in [Devices -> 0 .. MaxOpens]
    <2> USE DEF EventTypes, external, table, cameras, selection, threads
    <2>1. ASSUME NEW d \in Devices, answerOpen(d) PROVE <1>2!:
      <3>1. opens[d] + 1 \in 0 .. MaxOpens
        BY <2>1, ConnectionAssumption DEF answerOpen
      <3> QED BY <2>1, <3>1 DEF answerOpen
    <2>2. ASSUME NEW d \in Devices, answer(d) \/ detach(d) PROVE <1>2!:
      BY <2>2 DEF answer, detach
    <2>3. ASSUME removeCamera PROVE <1>2!:
      BY <2>3 DEF removeCamera, closeCamera, destroyUVCCamera
    <2>4. ASSUME close PROVE <1>2!:
      BY <2>4 DEF close, closeCamera, destroyUVCCamera
    <2>5. ASSUME requestPermission PROVE <1>2!:
      BY <2>5 DEF requestPermission
    <2>6. ASSUME NEW ds \in {Devices, {mUsbDevice} \cap Devices}, release(ds)
          PROVE <1>2!:
      BY <2>6 DEF release
    <2>7. CASE \/ unregisterCallback
               \/ \E d \in Devices : selectDevice(d)
               \/ \E what \in {"open", "close", "use"} : request(what)
               \/ \E d \in Devices : onDeviceOpen(d)
               \/ \E d \in Devices : onDeviceClose(d)
               \/ \E d \in Devices : onDetach(d)
               \/ \E d \in Devices : onCancel(d)
               \/ addCamera
               \/ registerCallback
               \/ releaseResource
               \/ selected
               \/ isCameraOpened
               \/ getCamera
               \/ resetUVCCamera
               \/ connect
               \/ openNotice
      <3>1. UNCHANGED external
        BY <2>7 DEF unregisterCallback, selectDevice, request, onDeviceOpen,
           onDeviceClose, onDetach, onCancel, addCamera, registerCallback,
           releaseResource, selected, isCameraOpened, getCamera, resetUVCCamera,
           connect, openNotice
      <3> QED BY <3>1
    <2> QED BY <2>1, <2>2, <2>3, <2>4, <2>5, <2>6, <2>7, NextIs
  <1> QED BY <1>1, <1>2 DEF EventTypes

\* The count does not rise unless the monitor answers, or addCamera creates.
LEMMA CountKept ==
    ASSUME EventTypes, EventTypes', DataTypes, CountInv, NoNewOpens,
           UNCHANGED <<created, opens>>,
           \A d \in Devices : Answered(d)' <= Answered(d) /\ Adding(d)' <= Adding(d)
    PROVE  CountInv'
  <1> SUFFICES ASSUME NEW d \in Devices
               PROVE  (created[d] + Cardinality(OpensIn(events, d)) + Answered(d)
                          + Adding(d) <= opens[d])'
    BY DEF CountInv
  <1> DEFINE n == Cardinality(OpensIn(events, d))
             m == Cardinality(OpensIn(events', d))
  <1>1. n \in Nat /\ m \in Nat /\ m <= n
    BY OpensAreFinite DEF EventTypes, NoNewOpens
  <1>2. created[d] \in Nat /\ opens[d] \in Nat
    BY DEF DataTypes, EventTypes
  <1>3. /\ Answered(d) \in Nat /\ Answered(d)' \in Nat
        /\ Adding(d) \in Nat /\ Adding(d)' \in Nat
    BY DEF Answered, Adding
  <1>4. created[d] + n + Answered(d) + Adding(d) <= opens[d]
    BY DEF CountInv
  <1>5. /\ created'[d] = created[d] /\ opens'[d] = opens[d]
        /\ Answered(d)' <= Answered(d) /\ Adding(d)' <= Adding(d)
    OBVIOUS
  <1> HIDE DEF n, m
  <1>6. created'[d] + m + Answered(d)' + Adding(d)' <= opens'[d]
    BY <1>1, <1>2, <1>3, <1>4, <1>5
  <1> QED BY <1>6 DEF m

LEMMA StepCount ==
    ASSUME EventTypes, DataTypes, PcTypes, HandTypes, CountInv, NumberInv, Next
    PROVE  CountInv'
  <1> USE DEF external, table, cameras, selection, threads
  <1>1. EventTypes' /\ DataTypes'
    BY StepEventTypes, StepData
  <1>2. \A d \in Devices : /\ Answered(d) \in Nat /\ Adding(d) \in Nat
                           /\ created[d] \in Nat /\ opens[d] \in Nat
                           /\ Cardinality(OpensIn(events, d)) \in Nat
    BY OpensAreFinite DEF Answered, Adding, DataTypes, EventTypes
  <1>3. ASSUME NEW d \in Devices, answerOpen(d) PROVE CountInv'
    <2> SUFFICES ASSUME NEW e \in Devices
                 PROVE  (created[e] + Cardinality(OpensIn(events, e)) + Answered(e)
                            + Adding(e) <= opens[e])'
      BY DEF CountInv
    <2>1. /\ created' = created /\ events' = events /\ Adding(e)' = Adding(e)
          /\ opens'[e] = IF e = d THEN opens[e] + 1 ELSE opens[e]
          /\ Answered(e)' = IF e = d THEN 1 ELSE Answered(e)
          /\ e = d => Answered(e) = 0
      BY <1>3 DEF answerOpen, Adding, Answered, EventTypes
    <2>2. created[e] + Cardinality(OpensIn(events, e)) + Answered(e) + Adding(e)
            <= opens[e]
      BY DEF CountInv
    <2> QED BY <1>2, <2>1, <2>2
  <1>4. ASSUME NEW d \in Devices, answer(d) PROVE CountInv'
    <2> SUFFICES ASSUME NEW e \in Devices
                 PROVE  (created[e] + Cardinality(OpensIn(events, e)) + Answered(e)
                            + Adding(e) <= opens[e])'
      BY DEF CountInv
    <2>1. /\ created' = created /\ Adding(e)' = Adding(e) /\ opens' = opens
          /\ Answered(e)' = IF e = d THEN 0 ELSE Answered(e)
          /\ Answered(e) = IF asked[e] = "opened" THEN 1 ELSE 0
      BY <1>4 DEF answer, Adding, Answered, EventTypes
    <2>2. created[e] + Cardinality(OpensIn(events, e)) + Answered(e) + Adding(e)
            <= opens[e]
      BY DEF CountInv
    <2>3. Cardinality(OpensIn(events', e)) <= Cardinality(OpensIn(events, e))
                + IF e = d /\ asked[d] = "opened" THEN 1 ELSE 0
      BY <1>4, AnswerEvents
    <2>4. Cardinality(OpensIn(events', e)) \in Nat
      BY <1>1, OpensAreFinite DEF EventTypes
    <2> QED BY <1>2, <2>1, <2>2, <2>3, <2>4
  <1>5. ASSUME NEW d \in Devices, onDeviceOpen(d) PROVE CountInv'
    <2> SUFFICES ASSUME NEW e \in Devices
                 PROVE  (created[e] + Cardinality(OpensIn(events, e)) + Answered(e)
                            + Adding(e) <= opens[e])'
      BY DEF CountInv
    <2>1. /\ created' = created /\ opens' = opens /\ Answered(e)' = Answered(e)
          /\ Adding(e) = 0 /\ Adding(e)' = IF e = d THEN 1 ELSE 0
      BY <1>5 DEF onDeviceOpen, listen, goto, Adding, Answered, PcTypes, HandTypes,
         Threads
    <2>2. created[e] + Cardinality(OpensIn(events, e)) + Answered(e) + Adding(e)
            <= opens[e]
      BY DEF CountInv
    <2>3. /\ NoNewOpens
          /\ Cardinality(OpensIn(events, d)) = Cardinality(OpensIn(events', d)) + 1
      BY <1>5, ListenEvents DEF onDeviceOpen
    <2>4. Cardinality(OpensIn(events', e)) \in Nat
          /\ Cardinality(OpensIn(events', e)) <= Cardinality(OpensIn(events, e))
      BY <1>1, <2>3, OpensAreFinite DEF EventTypes, NoNewOpens
    <2> QED BY <1>2, <2>1, <2>2, <2>3, <2>4
  <1>6. ASSUME addCamera PROVE CountInv'
    <2> SUFFICES ASSUME NEW e \in Devices
                 PROVE  (created[e] + Cardinality(OpensIn(events, e)) + Answered(e)
                            + Adding(e) <= opens[e])'
      BY DEF CountInv
    <2>1. /\ opens' = opens /\ events' = events /\ Answered(e)' = Answered(e)
          /\ Adding(e)' = 0 /\ Adding(e) = IF dev["listener"] = e THEN 1 ELSE 0
      BY <1>6 DEF addCamera, gotoAndNotify, Adding, Answered, PcTypes, Threads
    <2>2. created'[e] \in Nat
          /\ created'[e] <= created[e] + IF dev["listener"] = e THEN 1 ELSE 0
      <3>1. mCameras[e] <= created[e] /\ mCameras[e] \in Nat /\ created[e] \in Nat
        BY DEF NumberInv, DataTypes
      <3>2. CASE dev["listener"] = e
        <4>1. created'[e] = IF mCameras[e] # 0 THEN created[e] ELSE created[e] + 1
          BY <1>6, <3>1, <3>2 DEF addCamera, device, DataTypes
        <4> QED BY <3>1, <3>2, <4>1
      <3>3. CASE dev["listener"] # e
        <4>1. created'[e] = created[e]
          BY <1>6, <3>3 DEF addCamera, device, DataTypes
        <4> QED BY <3>1, <3>3, <4>1
      <3> QED BY <3>2, <3>3
    <2>3. created[e] + Cardinality(OpensIn(events, e)) + Answered(e) + Adding(e)
            <= opens[e]
      BY DEF CountInv
    <2> QED BY <1>2, <2>1, <2>2, <2>3
  <1>7. ASSUME NoNewOpens, UNCHANGED <<created, opens>>,
               \A d \in Devices : asked'[d] = "opened" => asked[d] = "opened",
               pc'["listener"] = "add" => UNCHANGED <<pc["listener"], dev["listener"]>>
        PROVE  CountInv'
    <2>1. \A d \in Devices : Answered(d)' <= Answered(d) /\ Adding(d)' <= Adding(d)
      BY <1>7 DEF Answered, Adding
    <2> QED BY <1>1, <1>7, <2>1, CountKept
  <1>8. ASSUME ~\E d \in Devices : answer(d),
               UNCHANGED <<created, opens>>,
               \A d \in Devices : asked'[d] = "opened" => asked[d] = "opened",
               pc'["listener"] = "add" => UNCHANGED <<pc["listener"], dev["listener"]>>
        PROVE  CountInv'
    BY <1>7, <1>8, StepNoNewOpens
  <1>9. CASE \/ \E d \in Devices : detach(d)
             \/ unregisterCallback
             \/ \E d \in Devices : selectDevice(d)
             \/ \E what \in {"open", "close", "use"} : request(what)
             \/ \E ds \in {Devices, {mUsbDevice} \cap Devices} : release(ds)
    <2>1. UNCHANGED <<created, opens, asked>>
      BY <1>9 DEF detach, unregisterCallback, selectDevice, request, release
    <2>2. pc'["listener"] = pc["listener"] /\ dev'["listener"] = dev["listener"]
      BY <1>9 DEF detach, unregisterCallback, selectDevice, request, release, goto,
         PcTypes, HandTypes, Threads
    <2> QED BY <2>1, <2>2, <1>8, <1>4
  <1>10. CASE \/ \E d \in Devices : onDeviceClose(d)
              \/ \E d \in Devices : onDetach(d)
              \/ \E d \in Devices : onCancel(d)
              \/ registerCallback
              \/ removeCamera
              \/ releaseResource
    <2>1. UNCHANGED <<created, opens, asked>>
      BY <1>10 DEF onDeviceClose, onDetach, onCancel, registerCallback, removeCamera,
         releaseResource
    <2>2. pc'["listener"] # "add"
      BY <1>10 DEF onDeviceClose, onDetach, onCancel, registerCallback, removeCamera,
         releaseResource, goto, gotoAndNotify, done, PcTypes, Threads
    <2> QED BY <2>1, <2>2, <1>8, <1>4
  <1>11. CASE requestPermission
    <2>1. UNCHANGED <<created, opens>>
          /\ \A d \in Devices : asked'[d] = "opened" => asked[d] = "opened"
      BY <1>11 DEF requestPermission, EventTypes
    <2>2. pc'["listener"] = pc["listener"] /\ dev'["listener"] = dev["listener"]
      BY <1>11 DEF requestPermission, goto, PcTypes, Threads
    <2> QED BY <2>1, <2>2, <1>8, <1>4
  <1>12. CASE \/ selected \/ isCameraOpened \/ getCamera \/ resetUVCCamera
              \/ connect \/ openNotice \/ close
    <2>1. UNCHANGED <<created, opens, asked>>
      BY <1>12 DEF selected, isCameraOpened, getCamera, resetUVCCamera, connect,
         openNotice, close
    <2>2. pc'["listener"] = pc["listener"] /\ dev'["listener"] = dev["listener"]
      BY <1>12 DEF selected, isCameraOpened, getCamera, found, resetUVCCamera, connect,
         openNotice, close, goto, done, PcTypes, HandTypes, Threads
    <2> QED BY <2>1, <2>2, <1>8, <1>4
  <1> QED BY <1>3, <1>4, <1>5, <1>6, <1>9, <1>10, <1>11, <1>12, NextIs

LEMMA StepNumber ==
    ASSUME DataTypes, PcTypes, HandTypes, NumberInv, Next
    PROVE  NumberInv'
  <1> USE DEF DataTypes, PcTypes, HandTypes, NumberInv, HelperHas, InHand,
     Threads, Opening, goto, external, table, cameras, selection, threads
  <1>1. ASSUME NEW d \in Devices, selectDevice(d)
        PROVE NumberInv'
    BY <1>1 DEF selectDevice
  <1>2. ASSUME NEW what \in {"open", "close", "use"}, request(what)
        PROVE NumberInv'
    BY <1>2 DEF request
  <1>3. ASSUME NEW ds \in {Devices, {mUsbDevice} \cap Devices}, release(ds)
        PROVE NumberInv'
    BY <1>3 DEF release
  <1>4. ASSUME NEW d \in Devices, onDeviceOpen(d)
        PROVE NumberInv'
    BY <1>4 DEF onDeviceOpen, listen
  <1>5. ASSUME NEW d \in Devices, onDeviceClose(d)
        PROVE NumberInv'
    BY <1>5 DEF onDeviceClose, listen
  <1>6. ASSUME NEW d \in Devices, onDetach(d)
        PROVE NumberInv'
    BY <1>6 DEF onDetach, listen
  <1>7. ASSUME NEW d \in Devices, onCancel(d)
        PROVE NumberInv'
    BY <1>7 DEF onCancel, listen, gotoAndNotify,
       Notified
  <1>8. ASSUME addCamera
        PROVE NumberInv'
    <2> DEFINE e == dev["listener"]
    <2>1. /\ e \in Devices /\ dev' = dev /\ mUVCCamera' = mUVCCamera
          /\ mCameras[e] \in Nat /\ created[e] \in Nat /\ mCameras[e] <= created[e]
      BY <1>8 DEF addCamera
    <2>2. PICK c \in Nat :
             /\ c = IF mCameras[e] # 0 THEN mCameras[e] ELSE created[e] + 1
             /\ mCameras' = [mCameras EXCEPT ![e] = c]
             /\ created' = [created EXCEPT ![e] = IF c > @ THEN c ELSE @]
             /\ cam' = [cam EXCEPT !["listener"] = c]
      <3> DEFINE k == IF mCameras[e] # 0 THEN mCameras[e] ELSE created[e] + 1
      <3>1. k \in Nat
        BY <2>1
      <3>2. /\ mCameras' = [mCameras EXCEPT ![e] = k]
            /\ created' = [created EXCEPT ![e] = IF k > @ THEN k ELSE @]
            /\ cam' = [cam EXCEPT !["listener"] = k]
        BY <1>8, Zenon DEF addCamera, device
      <3>3. k = IF mCameras[e] # 0 THEN mCameras[e] ELSE created[e] + 1
        OBVIOUS
      <3> HIDE DEF k
      <3> QED BY <3>1, <3>2, <3>3
    <2>3. c <= created'[e] /\ created'[e] >= created[e] /\ created'[e] \in Nat
          /\ \A d \in Devices : d # e => created'[d] = created[d]
                                        /\ mCameras'[d] = mCameras[d]
      BY <2>1, <2>2
    <2>4. pc'["helper"] \in HelperHas
             => pc["helper"] \in HelperHas /\ cam'["helper"] = cam["helper"]
                /\ dev["helper"] \in Devices
      BY <1>8, <2>2 DEF addCamera, gotoAndNotify, Notified
    <2>5. \A d \in Devices : mCameras'[d] <= created'[d] /\ created'[d] >= created[d]
                             /\ created'[d] \in Nat
      BY <2>1, <2>2, <2>3
    <2>6. \A d \in Devices, k \in Cams :
             k > created'[d] => mUVCCamera'[<<d, k>>] = "null"
      BY <2>1, <2>5 DEF Cams
    <2>7. pc'["helper"] \in HelperHas
             => cam'["helper"] \in 1 .. created'[dev'["helper"]]
      BY <2>1, <2>4, <2>5
    <2>8. mCameras'[dev'["listener"]] = cam'["listener"]
      BY <2>1, <2>2
    <2> HIDE DEF e
    <2> QED BY <2>5, <2>6, <2>7, <2>8
  <1>9. ASSUME registerCallback
        PROVE NumberInv'
    BY <1>9 DEF registerCallback, done
  <1>10. ASSUME removeCamera
        PROVE NumberInv'
    BY <1>10 DEF removeCamera, device, closeCamera,
       watch
  <1>11. ASSUME releaseResource
        PROVE NumberInv'
    BY <1>11 DEF releaseResource, camera,
       gotoAndNotify, Notified
  <1>12. ASSUME requestPermission
        PROVE NumberInv'
    BY <1>12 DEF requestPermission
  <1>13. ASSUME selected
        PROVE NumberInv'
    BY <1>13 DEF selected
  <1>14. ASSUME isCameraOpened
        PROVE NumberInv'
    BY <1>14 DEF isCameraOpened, device, done
  <1>15. ASSUME getCamera
        PROVE NumberInv'
    BY <1>15 DEF getCamera, found, device, done, watch
  <1>16. ASSUME resetUVCCamera
        PROVE NumberInv'
    BY <1>16 DEF resetUVCCamera, done
  <1>17. ASSUME connect
        PROVE NumberInv'
    BY <1>17 DEF connect, camera, device
  <1>18. ASSUME openNotice
        PROVE NumberInv'
    BY <1>18 DEF openNotice, done, camera
  <1>19. ASSUME close
        PROVE NumberInv'
    BY <1>19 DEF close, camera, closeCamera, done
  <1>20. CASE \/ \E d \in Devices : answerOpen(d)
              \/ \E d \in Devices : answer(d)
              \/ \E d \in Devices : detach(d)
              \/ unregisterCallback
    BY <1>20 DEF answerOpen, answer, detach, unregisterCallback
  <1> QED BY <1>1, <1>2, <1>3, <1>4, <1>5, <1>6, <1>7, <1>8, <1>9, <1>10, <1>11, <1>12, <1>13, <1>14, <1>15, <1>16, <1>17, <1>18, <1>19, <1>20, NextIs

\* addCamera has a number left for its camera.
LEMMA CreatedBound ==
    ASSUME EventTypes, DataTypes, CountInv, NEW d \in Devices
    PROVE  /\ created[d] \in 0 .. MaxOpens
           /\ pc["listener"] = "add" /\ dev["listener"] = d => created[d] + 1 \in Cams
  <1>1. /\ created[d] \in Nat /\ opens[d] \in 0 .. MaxOpens /\ MaxOpens \in Nat
        /\ Cardinality(OpensIn(events, d)) \in Nat
    BY OpensAreFinite, ConnectionAssumption DEF EventTypes, DataTypes
  <1>2. created[d] + Cardinality(OpensIn(events, d)) + Answered(d) + Adding(d)
            <= opens[d]
    BY DEF CountInv
  <1> QED BY <1>1, <1>2 DEF Answered, Adding, Cams

LEMMA StepClosedYet ==
    ASSUME EventTypes, DataTypes, PcTypes, HandTypes, CountInv, NumberInv,
           ClosedYetInv, Next
    PROVE  ClosedYetInv'
  <1> USE DEF DataTypes, PcTypes, HandTypes, ClosedYetInv, HelperHas, InHand,
     Threads, Opening, camera, goto, external, table, cameras, selection,
     threads
  <1>1. ASSUME NEW d \in Devices, selectDevice(d)
        PROVE ClosedYetInv'
    BY <1>1 DEF selectDevice
  <1>2. ASSUME NEW what \in {"open", "close", "use"}, request(what)
        PROVE ClosedYetInv'
    BY <1>2 DEF request
  <1>3. ASSUME NEW ds \in {Devices, {mUsbDevice} \cap Devices}, release(ds)
        PROVE ClosedYetInv'
    BY <1>3 DEF release
  <1>4. ASSUME NEW d \in Devices, onDeviceOpen(d)
        PROVE ClosedYetInv'
    BY <1>4 DEF onDeviceOpen, listen
  <1>5. ASSUME NEW d \in Devices, onDeviceClose(d)
        PROVE ClosedYetInv'
    BY <1>5 DEF onDeviceClose, listen
  <1>6. ASSUME NEW d \in Devices, onDetach(d)
        PROVE ClosedYetInv'
    BY <1>6 DEF onDetach, listen
  <1>7. ASSUME NEW d \in Devices, onCancel(d)
        PROVE ClosedYetInv'
    BY <1>7 DEF onCancel, listen, gotoAndNotify,
       Notified
  <1>8. ASSUME addCamera
        PROVE ClosedYetInv'
    <2> DEFINE e == dev["listener"]
    <2>1. /\ e \in Devices /\ mUVCCamera' = mUVCCamera /\ dev' = dev /\ op' = op
          /\ mCameras[e] \in Nat /\ created[e] \in Nat
          /\ \/ mCameras' = mCameras
             \/ mCameras' = [mCameras EXCEPT ![e] = created[e] + 1]
      BY <1>8 DEF addCamera, device
    <2>2. pc["listener"] = "add"
      BY <1>8 DEF addCamera
    <2>3. created[e] + 1 \in Cams
      BY <2>1, <2>2, CreatedBound
    <2>4. mUVCCamera[<<e, created[e] + 1>>] = "null"
      BY <2>1, <2>3 DEF NumberInv
    <2>5. \A d \in Devices : mCameras'[d] = mCameras[d]
                             \/ mUVCCamera[<<d, mCameras'[d]>>] = "null"
      BY <2>1, <2>4
    <2>6. /\ pc'["helper"] \in {"get", "getWait", "getWoken"}
             => pc["helper"] \in {"get", "getWait", "getWoken"}
          /\ pc'["helper"] \in {"reset", "connect"}
             => pc["helper"] \in {"reset", "connect"} /\ cam'["helper"] = cam["helper"]
      BY <1>8 DEF addCamera, gotoAndNotify, Notified
    <2> HIDE DEF e
    <2> QED BY <2>1, <2>5, <2>6
  <1>9. ASSUME registerCallback
        PROVE ClosedYetInv'
    BY <1>9 DEF registerCallback, done
  <1>10. ASSUME removeCamera
        PROVE ClosedYetInv'
    <2>1. \A x \in Devices \X Cams : mUVCCamera'[x] \in {mUVCCamera[x], "null"}
      BY <1>10 DEF removeCamera, device, closeCamera
    <2>2. /\ UNCHANGED <<op, mCameras, dev>> /\ cam'["helper"] = cam["helper"]
          /\ pc'["helper"] = pc["helper"]
      BY <1>10 DEF removeCamera
    <2>3. \A d \in Devices : mCameras[d] # 0 => mCameras[d] \in Cams
      <3>1. \A d \in Devices : created[d] \in 0 .. MaxOpens
        BY CreatedBound
      <3> QED BY <3>1, ConnectionAssumption DEF NumberInv, Cams
    <2>4. pc["helper"] \in {"reset", "connect"} => cam["helper"] \in Cams
      <3>1. \A d \in Devices : created[d] \in 0 .. MaxOpens
        BY CreatedBound
      <3> QED BY <3>1, ConnectionAssumption DEF NumberInv, Cams
    <2> QED BY <2>1, <2>2, <2>3, <2>4
  <1>11. ASSUME releaseResource
        PROVE ClosedYetInv'
    BY <1>11 DEF releaseResource, camera,
       gotoAndNotify, Notified
  <1>12. ASSUME requestPermission
        PROVE ClosedYetInv'
    BY <1>12 DEF requestPermission
  <1>13. ASSUME selected
        PROVE ClosedYetInv'
    BY <1>13 DEF selected
  <1>14. ASSUME isCameraOpened
        PROVE ClosedYetInv'
    BY <1>14 DEF isCameraOpened, IsCameraOpened, device,
       done
  <1>15. ASSUME getCamera
        PROVE ClosedYetInv'
    BY <1>15 DEF getCamera, found, device, done, watch
  <1>16. ASSUME resetUVCCamera
        PROVE ClosedYetInv'
    BY <1>16 DEF resetUVCCamera, done
  <1>17. ASSUME connect
        PROVE ClosedYetInv'
    BY <1>17 DEF connect, camera, device
  <1>18. ASSUME openNotice
        PROVE ClosedYetInv'
    BY <1>18 DEF openNotice, done, camera
  <1>19. ASSUME close
        PROVE ClosedYetInv'
    BY <1>19 DEF close, camera, closeCamera, done
  <1>20. CASE \/ \E d \in Devices : answerOpen(d)
              \/ \E d \in Devices : answer(d)
              \/ \E d \in Devices : detach(d)
              \/ unregisterCallback
    BY <1>20 DEF answerOpen, answer, detach, unregisterCallback
  <1> QED BY <1>1, <1>2, <1>3, <1>4, <1>5, <1>6, <1>7, <1>8, <1>9, <1>10, <1>11, <1>12, <1>13, <1>14, <1>15, <1>16, <1>17, <1>18, <1>19, <1>20, NextIs

ToldTypes ==
    /\ mCallbacks \in [Devices \X Cams -> SUBSET BOOLEAN]
    /\ told \in [Devices -> {"nothing", "open", "closed", "error"}]
    /\ listening \in BOOLEAN

LEMMA TableBound ==
    ASSUME EventTypes, DataTypes, CountInv, NumberInv
    PROVE  /\ \A d \in Devices : mCameras[d] # 0 => mCameras[d] \in Cams
           /\ pc["helper"] \in HelperHas /\ dev["helper"] \in Devices
              => cam["helper"] \in Cams
  <1>1. \A d \in Devices : created[d] \in 0 .. MaxOpens
    BY CreatedBound
  <1> QED BY <1>1, ConnectionAssumption DEF NumberInv, DataTypes, Cams

\* What closeCamera does to the camera, its callbacks and what was told.
LEMMA CloseDoes ==
    ASSUME DataTypes, ToldTypes, NEW d \in Devices, NEW n \in Cams,
           closeCamera(<<d, n>>)
    PROVE  /\ mUVCCamera' = [mUVCCamera EXCEPT ![<<d, n>>] = "null"]
           /\ mCallbacks' \in [Devices \X Cams -> SUBSET BOOLEAN]
           /\ \A c \in Devices \X Cams :
                 c # <<d, n>> => mCallbacks'[c] = mCallbacks[c]
           /\ mCallbacks'[<<d, n>>] =
                 IF mUVCCamera[<<d, n>>] = "null" \/ mCallbacks[<<d, n>>] = {}
                 THEN mCallbacks[<<d, n>>] ELSE {FALSE}
           /\ told' = IF mUVCCamera[<<d, n>>] # "null" /\ listening
                         /\ TRUE \in mCallbacks[<<d, n>>]
                      THEN [told EXCEPT ![d] = "closed"] ELSE told
  <1> DEFINE c == <<d, n>>
  <1>1. c \in Devices \X Cams /\ c[1] = d
    OBVIOUS
  <1>2. CASE mUVCCamera[c] = "null"
    <2>1. UNCHANGED <<mUVCCamera, mCallbacks, told>>
      BY <1>2 DEF closeCamera
    <2>2. mUVCCamera = [mUVCCamera EXCEPT ![c] = "null"]
      BY <1>1, <1>2 DEF DataTypes
    <2> QED BY <1>2, <2>1, <2>2 DEF ToldTypes
  <1>3. CASE mUVCCamera[c] # "null"
    <2>1. /\ mUVCCamera' = [mUVCCamera EXCEPT ![c] = "null"]
          /\ mCallbacks' = [mCallbacks EXCEPT ![c] = IF @ = {} THEN {} ELSE {FALSE}]
          /\ told' = IF TRUE \in mCallbacks[c] /\ listening
                     THEN [told EXCEPT ![c[1]] = "closed"] ELSE told
      BY <1>3 DEF closeCamera, processOnCameraClose, tell
    <2>2. /\ mCallbacks' \in [Devices \X Cams -> SUBSET BOOLEAN]
          /\ mCallbacks'[c] = IF mCallbacks[c] = {} THEN {} ELSE {FALSE}
          /\ \A k \in Devices \X Cams : k # c => mCallbacks'[k] = mCallbacks[k]
      <3> DEFINE v == IF mCallbacks[c] = {} THEN {} ELSE {FALSE}
      <3>1. mCallbacks' = [mCallbacks EXCEPT ![c] = v]
        BY <2>1
      <3>2. v \in SUBSET BOOLEAN
        OBVIOUS
      <3> HIDE DEF v, c
      <3>3. /\ mCallbacks' \in [Devices \X Cams -> SUBSET BOOLEAN]
            /\ mCallbacks'[c] = v
            /\ \A k \in Devices \X Cams : k # c => mCallbacks'[k] = mCallbacks[k]
        BY <1>1, <3>1, <3>2 DEF ToldTypes
      <3> QED BY <3>3 DEF v
    <2> HIDE DEF c
    <2>3. c[1] = d
      BY <1>1
    <2> QED BY <1>3, <2>1, <2>2, <2>3 DEF c
  <1> QED BY <1>2, <1>3

LEMMA NoticeDoes ==
    ASSUME ToldTypes, openNotice, pc["helper"] = "notice",
           NEW d \in Devices, NEW n \in Cams, camera("helper") = <<d, n>>
    PROVE  /\ mCallbacks' \in [Devices \X Cams -> SUBSET BOOLEAN]
           /\ \A c \in Devices \X Cams :
                 c # <<d, n>> => mCallbacks'[c] = mCallbacks[c]
           /\ mCallbacks'[<<d, n>>] =
                 IF mCallbacks[<<d, n>>] = {} THEN {} ELSE {TRUE}
           /\ told' = IF FALSE \in mCallbacks[<<d, n>>] /\ listening
                      THEN [told EXCEPT ![d] = "open"] ELSE told
  <1> DEFINE c == <<d, n>>
             v == IF mCallbacks[c] = {} THEN {} ELSE {TRUE}
  <1>1. c \in Devices \X Cams /\ c[1] = d
    OBVIOUS
  <1>2. /\ mCallbacks' = [mCallbacks EXCEPT ![c] = v]
        /\ told' = IF FALSE \in mCallbacks[c] /\ listening
                   THEN [told EXCEPT ![c[1]] = "open"] ELSE told
    BY DEF openNotice, processOnCameraOpen, tell
  <1>3. v \in SUBSET BOOLEAN
    OBVIOUS
  <1> HIDE DEF v, c
  <1>4. /\ mCallbacks' \in [Devices \X Cams -> SUBSET BOOLEAN]
        /\ mCallbacks'[c] = v
        /\ \A k \in Devices \X Cams : k # c => mCallbacks'[k] = mCallbacks[k]
    BY <1>1, <1>2, <1>3 DEF ToldTypes
  <1> QED BY <1>1, <1>2, <1>4 DEF v, c

\* The helper's camera, when it notifies or closes it.
LEMMA HelperCamera ==
    ASSUME EventTypes, DataTypes, HandTypes, CountInv, NumberInv,
           pc["helper"] \in HelperHas
    PROVE  /\ dev["helper"] \in Devices /\ cam["helper"] \in Cams
           /\ camera("helper") = <<dev["helper"], cam["helper"]>>
  <1>1. pc["helper"] \in InHand
    BY DEF HelperHas, InHand, Opening
  <1> QED BY <1>1, TableBound DEF HandTypes, camera

\* removeCamera closes the camera of the table, if there is one.
LEMMA RemoveDoes ==
    ASSUME EventTypes, DataTypes, PcTypes, HandTypes, CountInv, NumberInv,
           removeCamera
    PROVE  LET d == dev["listener"] IN
           /\ d \in Devices /\ dev' = dev /\ mCameras' = mCameras
           /\ pc["listener"] = "remove" /\ pc'["listener"] = "resource"
           /\ pc'["helper"] = pc["helper"] /\ cam'["helper"] = cam["helper"]
           /\ listening' = listening
           /\ \/ mCameras[d] = 0 /\ UNCHANGED <<mUVCCamera, mCallbacks, told>>
              \/ mCameras[d] \in Cams /\ closeCamera(<<d, mCameras[d]>>)
  <1>1. dev["listener"] \in Devices
    BY DEF removeCamera, HandTypes
  <1>2. mCameras[dev["listener"]] # 0 => mCameras[dev["listener"]] \in Cams
    BY <1>1, TableBound
  <1>3. /\ dev' = dev /\ mCameras' = mCameras
        /\ pc["listener"] = "remove" /\ pc'["listener"] = "resource"
        /\ pc'["helper"] = pc["helper"] /\ cam'["helper"] = cam["helper"]
        /\ listening' = listening
    BY DEF removeCamera, goto, PcTypes, HandTypes, Threads
  <1>4. IF mCameras[dev["listener"]] # 0
        THEN closeCamera(<<dev["listener"], mCameras[dev["listener"]]>>)
        ELSE UNCHANGED <<mUVCCamera, mCallbacks, told>>
    BY DEF removeCamera, device
  <1> QED BY <1>1, <1>2, <1>3, <1>4

LEMMA CloseStep ==
    ASSUME EventTypes, DataTypes, PcTypes, HandTypes, CountInv, NumberInv,
           close
    PROVE  /\ dev["helper"] \in Devices /\ cam["helper"] \in Cams
           /\ closeCamera(<<dev["helper"], cam["helper"]>>)
           /\ mCameras' = mCameras /\ listening' = listening
           /\ pc["helper"] = "close" /\ pc'["helper"] = "idle"
           /\ pc'["listener"] = pc["listener"] /\ dev'["listener"] = dev["listener"]
  <1>1. pc["helper"] \in HelperHas
    BY DEF close, HelperHas
  <1>2. dev["helper"] \in Devices /\ cam["helper"] \in Cams
    BY <1>1, HelperCamera
  <1>3. closeCamera(<<dev["helper"], cam["helper"]>>)
    BY DEF close, camera
  <1> QED BY <1>2, <1>3 DEF close, done, goto, table, PcTypes, HandTypes, Threads

LEMMA StepToldTypes ==
    ASSUME EventTypes, DataTypes, PcTypes, HandTypes, ToldTypes, CountInv,
           NumberInv, Next
    PROVE  ToldTypes'
  <1> USE DEF external, table, cameras, selection, threads
  <1>1. ASSUME NEW ds \in {Devices, {mUsbDevice} \cap Devices}, release(ds)
        PROVE ToldTypes'
    BY <1>1 DEF release, ToldTypes
  <1>2. ASSUME NEW d \in Devices, onDeviceClose(d) \/ onDetach(d)
        PROVE ToldTypes'
    BY <1>2 DEF onDeviceClose, onDetach, tell, ToldTypes
  <1>3. ASSUME registerCallback \/ releaseResource PROVE ToldTypes'
    <2>1. UNCHANGED <<told, listening>>
      BY <1>3 DEF registerCallback, releaseResource
    <2>2. CASE registerCallback
      <3>1. mCallbacks' =
               [mCallbacks EXCEPT ![camera("listener")] = @ \cup {FALSE}]
        BY <2>2 DEF registerCallback
      <3> QED BY <2>1, <3>1 DEF ToldTypes
    <2>3. CASE releaseResource
      <3>1. mCallbacks' = [k \in DOMAIN mCallbacks |->
                              IF k = camera("listener") THEN {} ELSE mCallbacks[k]]
        BY <2>3, Zenon DEF releaseResource
      <3> QED BY <2>1, <3>1 DEF ToldTypes
    <2> QED BY <1>3, <2>2, <2>3
  <1>4. ASSUME isCameraOpened PROVE ToldTypes'
    BY <1>4 DEF isCameraOpened, tell, ToldTypes
  <1>5. ASSUME removeCamera PROVE ToldTypes'
    <2>1. listening' = listening /\ dev["listener"] \in Devices
      BY <1>5, RemoveDoes
    <2>2. CASE UNCHANGED <<mCallbacks, told>>
      BY <2>1, <2>2 DEF ToldTypes
    <2>3. ASSUME NEW n \in Cams, closeCamera(<<dev["listener"], n>>)
          PROVE ToldTypes'
      BY <2>1, <2>3, CloseDoes DEF ToldTypes
    <2> QED BY <1>5, <2>2, <2>3, RemoveDoes
  <1>6. ASSUME close PROVE ToldTypes'
    BY <1>6, CloseStep, CloseDoes DEF ToldTypes
  <1>7. ASSUME openNotice PROVE ToldTypes'
    <2>1. CASE pc["helper"] = "notice"
      <3>1. pc["helper"] \in HelperHas /\ listening' = listening
        BY <1>7, <2>1 DEF openNotice, HelperHas, Opening
      <3> QED BY <1>7, <2>1, <3>1, HelperCamera, NoticeDoes DEF ToldTypes
    <2>2. CASE pc["helper"] # "notice"
      <3>1. /\ UNCHANGED <<mCallbacks, listening>>
            /\ told' \in {told, [told EXCEPT ![camera("helper")[1]] = "error"]}
        BY <1>7, <2>2 DEF openNotice, processOnError, tell
      <3> QED BY <3>1 DEF ToldTypes
    <2> QED BY <2>1, <2>2
  <1>8. CASE UNCHANGED <<mCallbacks, told>> /\ listening' \in {listening, FALSE}
    BY <1>8 DEF ToldTypes
  <1>9. CASE \/ \E d \in Devices : answerOpen(d)
             \/ \E d \in Devices : answer(d)
             \/ \E d \in Devices : detach(d)
             \/ unregisterCallback
             \/ \E d \in Devices : selectDevice(d)
             \/ \E what \in {"open", "close", "use"} : request(what)
             \/ \E d \in Devices : onDeviceOpen(d)
             \/ \E d \in Devices : onCancel(d)
             \/ addCamera
             \/ requestPermission
             \/ selected
             \/ getCamera
             \/ resetUVCCamera
             \/ connect
    <2>1. UNCHANGED <<mCallbacks, told>> /\ listening' \in {listening, FALSE}
      BY <1>9 DEF answerOpen, answer, detach, unregisterCallback, selectDevice,
         request, onDeviceOpen, onCancel, addCamera, requestPermission, selected,
         getCamera, resetUVCCamera, connect
    <2> QED BY <1>8, <2>1
  <1> QED BY <1>1, <1>2, <1>3, <1>4, <1>5, <1>6, <1>7, <1>9, NextIs

\* Most steps leave the cameras, and what the listener has in hand.
Calm ==
    \/ \E d \in Devices : \/ answerOpen(d) \/ answer(d) \/ detach(d)
                          \/ selectDevice(d) \/ onDeviceOpen(d)
                          \/ onDeviceClose(d) \/ onDetach(d) \/ onCancel(d)
    \/ \E what \in {"open", "close", "use"} : request(what)
    \/ unregisterCallback \/ requestPermission \/ selected \/ isCameraOpened
    \/ getCamera \/ resetUVCCamera

LEMMA CalmIs ==
    ASSUME Calm, PcTypes, HandTypes
    PROVE  /\ UNCHANGED <<mUVCCamera, mCallbacks, mCameras>>
           /\ pc["listener"] \notin {"idle", "add"}
              => pc'["listener"] = pc["listener"] /\ dev'["listener"] = dev["listener"]
           /\ pc'["helper"] = "notice"
              => /\ pc["helper"] \in {"reset", "notice"}
                 /\ dev'["helper"] = dev["helper"] /\ cam'["helper"] = cam["helper"]
           /\ pc["helper"] = "reset" /\ pc'["helper"] = "notice"
              => mUVCCamera[camera("helper")] # "null"
           /\ pc["helper"] \in {"notice", "error"}
              => pc'["helper"] = pc["helper"] /\ dev'["helper"] = dev["helper"]
           /\ pc'["helper"] = "error"
              => /\ pc["helper"] = "error"
                 /\ dev'["helper"] = dev["helper"] /\ cam'["helper"] = cam["helper"]
  <1> USE DEF table, cameras, selection, threads
  <1>1. UNCHANGED <<mUVCCamera, mCallbacks, mCameras>>
    BY DEF Calm, answerOpen, answer, detach, selectDevice, onDeviceOpen,
       onDeviceClose, onDetach, onCancel, request, unregisterCallback,
       requestPermission, selected, isCameraOpened, getCamera, resetUVCCamera
  <1>2. CASE \/ \E d \in Devices : \/ answerOpen(d) \/ answer(d) \/ detach(d)
             \/ unregisterCallback
    BY <1>1, <1>2 DEF answerOpen, answer, detach, unregisterCallback
  <1>3. CASE \E d \in Devices : \/ onDeviceOpen(d) \/ onDeviceClose(d)
                                \/ onDetach(d) \/ onCancel(d)
    BY <1>1, <1>3 DEF onDeviceOpen, onDeviceClose, onDetach, onCancel, listen, goto,
       gotoAndNotify, Notified, PcTypes, HandTypes, Threads
  <1>4. CASE \/ \E d \in Devices : selectDevice(d)
             \/ \E what \in {"open", "close", "use"} : request(what)
             \/ requestPermission \/ selected
    BY <1>1, <1>4 DEF selectDevice, request, requestPermission, selected, goto,
       PcTypes, HandTypes, Threads
  <1>5. CASE isCameraOpened \/ getCamera \/ resetUVCCamera
    BY <1>1, <1>5 DEF isCameraOpened, getCamera, found, resetUVCCamera, goto, done,
       PcTypes, HandTypes, Threads
  <1> QED BY <1>2, <1>3, <1>4, <1>5 DEF Calm

LEMMA CalmOr ==
    ASSUME Next
    PROVE  \/ Calm
           \/ \E ds \in {Devices, {mUsbDevice} \cap Devices} : release(ds)
           \/ addCamera
           \/ registerCallback
           \/ removeCamera
           \/ releaseResource
           \/ connect
           \/ openNotice
           \/ close
  BY NextIs DEF Calm

\* A fresh camera has no callback, so that its listener registers one.
LEMMA AddDoes ==
    ASSUME EventTypes, DataTypes, PcTypes, HandTypes, CountInv, NumberInv,
           addCamera
    PROVE  LET d == dev["listener"] IN
           /\ d \in Devices /\ dev' = dev
           /\ UNCHANGED <<mUVCCamera, mCallbacks, told, listening>>
           /\ pc["listener"] = "add" /\ pc'["listener"] = "register"
           /\ pc'["helper"] = Notified(pc["helper"]) /\ cam'["helper"] = cam["helper"]
           /\ \A e \in Devices : e # d => mCameras'[e] = mCameras[e]
           /\ \/ mCameras'[d] = mCameras[d] /\ mCameras[d] # 0
              \/ /\ mCameras[d] = 0 /\ mCameras'[d] \in Cams
                 /\ mUVCCamera[<<d, mCameras'[d]>>] = "null"
  <1> DEFINE d == dev["listener"]
  <1>1. /\ d \in Devices /\ dev' = dev
        /\ UNCHANGED <<mUVCCamera, mCallbacks, told, listening>>
        /\ pc["listener"] = "add" /\ pc'["listener"] = "register"
        /\ pc'["helper"] = Notified(pc["helper"]) /\ cam'["helper"] = cam["helper"]
    BY DEF addCamera, cameras, gotoAndNotify, PcTypes, HandTypes, Threads
  <1>2. created[d] \in Nat /\ created[d] + 1 \in Cams
    BY <1>1, CreatedBound DEF DataTypes
  <1>3. mUVCCamera[<<d, created[d] + 1>>] = "null"
    BY <1>1, <1>2 DEF NumberInv
  <1>4. /\ \A e \in Devices : e # d => mCameras'[e] = mCameras[e]
        /\ mCameras'[d] = IF mCameras[d] # 0 THEN mCameras[d] ELSE created[d] + 1
    BY <1>1 DEF addCamera, device, DataTypes
  <1> QED BY <1>1, <1>2, <1>3, <1>4

LEMMA RegisterDoes ==
    ASSUME PcTypes, HandTypes, ToldTypes, registerCallback
    PROVE  /\ UNCHANGED <<mUVCCamera, mCameras, told, listening>>
           /\ pc["listener"] = "register" /\ dev["listener"] \in Devices
           /\ pc'["listener"] = "idle" /\ pc'["helper"] = pc["helper"]
           /\ dev'["helper"] = dev["helper"] /\ cam'["helper"] = cam["helper"]
           /\ \A c \in Devices \X Cams :
                 mCallbacks'[c] = IF c = <<dev["listener"], cam["listener"]>>
                                  THEN mCallbacks[c] \cup {FALSE} ELSE mCallbacks[c]
  <1>1. /\ UNCHANGED <<mUVCCamera, mCameras, told, listening>>
        /\ pc["listener"] = "register" /\ dev["listener"] \in Devices
    BY DEF registerCallback, HandTypes, table
  <1>2. /\ pc'["listener"] = "idle" /\ pc'["helper"] = pc["helper"]
        /\ dev'["helper"] = dev["helper"] /\ cam'["helper"] = cam["helper"]
    BY DEF registerCallback, done, goto, PcTypes, HandTypes, Threads
  <1>3. mCallbacks' = [mCallbacks EXCEPT ![<<dev["listener"], cam["listener"]>>]
                                         = @ \cup {FALSE}]
    BY DEF registerCallback, camera
  <1>4. \A c \in Devices \X Cams :
           mCallbacks'[c] = IF c = <<dev["listener"], cam["listener"]>>
                            THEN mCallbacks[c] \cup {FALSE} ELSE mCallbacks[c]
    <2> DEFINE l == <<dev["listener"], cam["listener"]>>
    <2>1. mCallbacks' = [mCallbacks EXCEPT ![l] = @ \cup {FALSE}]
      BY <1>3
    <2> HIDE DEF l
    <2>2. \A c \in Devices \X Cams :
             mCallbacks'[c] = IF c = l THEN mCallbacks[c] \cup {FALSE} ELSE mCallbacks[c]
      BY <2>1 DEF ToldTypes
    <2> QED BY <2>2 DEF l
  <1> QED BY <1>1, <1>2, <1>4

LEMMA ResourceDoes ==
    ASSUME DataTypes, PcTypes, HandTypes, ToldTypes, releaseResource
    PROVE  /\ UNCHANGED <<mUVCCamera, told, listening>>
           /\ pc["listener"] = "resource" /\ dev["listener"] \in Devices
           /\ pc'["listener"] = "idle" /\ pc'["helper"] = Notified(pc["helper"])
           /\ dev'["helper"] = dev["helper"] /\ cam'["helper"] = cam["helper"]
           /\ mCameras'[dev["listener"]] = 0
           /\ \A d \in Devices : d # dev["listener"] => mCameras'[d] = mCameras[d]
           /\ \A c \in Devices \X Cams :
                 /\ mCallbacks'[c] \in {mCallbacks[c], {}}
                 /\ c[1] # dev["listener"] => mCallbacks'[c] = mCallbacks[c]
  <1>1. /\ UNCHANGED <<mUVCCamera, told, listening>>
        /\ pc["listener"] = "resource" /\ dev["listener"] \in Devices
    BY DEF releaseResource, HandTypes
  <1>2. /\ pc'["listener"] = "idle" /\ pc'["helper"] = Notified(pc["helper"])
        /\ dev'["helper"] = dev["helper"] /\ cam'["helper"] = cam["helper"]
    BY DEF releaseResource, gotoAndNotify, PcTypes, HandTypes, Threads
  <1>3. mCameras' = [mCameras EXCEPT ![dev["listener"]] = 0]
    BY DEF releaseResource, camera
  <1>4. mCallbacks' = [k \in DOMAIN mCallbacks |->
                          IF k = camera("listener") THEN {} ELSE mCallbacks[k]]
    BY Zenon DEF releaseResource
  <1>5. \A c \in Devices \X Cams :
           /\ mCallbacks'[c] \in {mCallbacks[c], {}}
           /\ c[1] # dev["listener"] => mCallbacks'[c] = mCallbacks[c]
    BY <1>4 DEF ToldTypes, camera
  <1> QED BY <1>1, <1>2, <1>3, <1>5 DEF DataTypes

LEMMA ReleaseDoes ==
    ASSUME DataTypes, ToldTypes, NEW ds \in SUBSET Devices, release(ds)
    PROVE  /\ listening' = FALSE /\ pc' = pc /\ dev' = dev /\ cam' = cam
           /\ pc["helper"] = "idle"
           /\ \A d \in Devices, n \in Cams :
                 /\ mCallbacks'[<<d, n>>] \in {mCallbacks[<<d, n>>], {}}
                 /\ mCallbacks'[<<d, n>>] = {}
                    \/ /\ mUVCCamera'[<<d, n>>] = mUVCCamera[<<d, n>>]
                       /\ mCallbacks'[<<d, n>>] = mCallbacks[<<d, n>>]
           /\ \A d \in Devices :
                 mCameras'[d] # 0
                 => /\ mCameras'[d] = mCameras[d]
                    /\ mCameras[d] \in Cams =>
                          mCallbacks'[<<d, mCameras[d]>>] = mCallbacks[<<d, mCameras[d]>>]
  <1> DEFINE gone == {<<d, mCameras[d]>> : d \in {e \in ds : mCameras[e] # 0}}
  <1>1. /\ listening' = FALSE /\ pc' = pc /\ dev' = dev /\ cam' = cam
        /\ pc["helper"] = "idle"
    BY DEF release, threads
  <1>2. /\ mUVCCamera' = [c \in DOMAIN mUVCCamera |->
                             IF c \in gone THEN "null" ELSE mUVCCamera[c]]
        /\ mCallbacks' = [c \in DOMAIN mCallbacks |->
                             IF c \in gone THEN {} ELSE mCallbacks[c]]
        /\ mCameras' = [d \in Devices |-> IF d \in ds THEN 0 ELSE mCameras[d]]
    BY Zenon DEF release
  <1>3. \A d \in Devices, n \in Cams :
           /\ <<d, n>> \in gone => mCallbacks'[<<d, n>>] = {}
           /\ <<d, n>> \notin gone => /\ mUVCCamera'[<<d, n>>] = mUVCCamera[<<d, n>>]
                                      /\ mCallbacks'[<<d, n>>] = mCallbacks[<<d, n>>]
    <2> HIDE DEF gone
    <2> QED BY <1>2 DEF DataTypes, ToldTypes
  <1>4. \A d \in Devices : d \notin ds => <<d, mCameras[d]>> \notin gone
    OBVIOUS
  <1> HIDE DEF gone
  <1>5. \A d \in Devices : mCameras'[d] # 0 => d \notin ds /\ mCameras'[d] = mCameras[d]
    BY <1>2
  <1> QED BY <1>1, <1>3, <1>4, <1>5

LEMMA ConnectDoes ==
    ASSUME EventTypes, DataTypes, PcTypes, HandTypes, CountInv, NumberInv, connect
    PROVE  LET c == <<dev["helper"], cam["helper"]>> IN
           /\ UNCHANGED <<mCallbacks, mCameras, told, listening, dev, cam>>
           /\ c \in Devices \X Cams /\ camera("helper") = c
           /\ pc["helper"] = "connect" /\ pc'["listener"] = pc["listener"]
           /\ pc'["helper"] = IF mUVCCamera'[c] = "open" THEN "notice" ELSE "error"
           /\ \A k \in Devices \X Cams : k # c => mUVCCamera'[k] = mUVCCamera[k]
  <1>1. dev["helper"] \in Devices /\ cam["helper"] \in Cams
        /\ camera("helper") = <<dev["helper"], cam["helper"]>>
    BY HelperCamera DEF connect, HelperHas, Opening
  <1>2. PICK result \in {"open", "unready", "failed"} :
           /\ mUVCCamera' = [mUVCCamera EXCEPT ![camera("helper")] = result]
           /\ goto("helper", IF result = "open" THEN "notice" ELSE "error")
    BY DEF connect, OpenResults
  <1>3. /\ UNCHANGED <<mCallbacks, mCameras, told, listening, dev, cam>>
        /\ pc["helper"] = "connect"
    BY DEF connect, table
  <1> QED BY <1>1, <1>2, <1>3 DEF DataTypes, goto, PcTypes, Threads

\* Callbacks stay as they were, or count the camera as closed; there are as
\* many as before, and none counts as opened what is not.
CallbacksFollow(d) ==
    \A c \in Cams :
        /\ TRUE \in mCallbacks'[<<d, c>>]
           => /\ TRUE \in mCallbacks[<<d, c>>]
              /\ mUVCCamera[<<d, c>>] = "open" => mUVCCamera'[<<d, c>>] = "open"
        /\ mCallbacks[<<d, c>>] # {} => mCallbacks'[<<d, c>>] # {}

LEMMA CloseKeeps ==
    ASSUME DataTypes, ToldTypes, NEW d \in Devices, NEW n \in Cams,
           closeCamera(<<d, n>>), NEW e \in Devices
    PROVE  /\ CallbacksFollow(e)
           /\ \A c \in Cams :
                 mUVCCamera'[<<e, c>>]
                   = IF e = d /\ c = n THEN "null" ELSE mUVCCamera[<<e, c>>]
           /\ \A c \in Cams : e # d \/ c # n
                             => mCallbacks'[<<e, c>>] = mCallbacks[<<e, c>>]
  <1> SUFFICES ASSUME NEW c \in Cams
               PROVE  /\ TRUE \in mCallbacks'[<<e, c>>]
                         => /\ TRUE \in mCallbacks[<<e, c>>]
                            /\ mUVCCamera[<<e, c>>] = "open"
                               => mUVCCamera'[<<e, c>>] = "open"
                      /\ mCallbacks[<<e, c>>] # {} => mCallbacks'[<<e, c>>] # {}
                      /\ mUVCCamera'[<<e, c>>]
                           = IF e = d /\ c = n THEN "null" ELSE mUVCCamera[<<e, c>>]
                      /\ e # d \/ c # n => mCallbacks'[<<e, c>>] = mCallbacks[<<e, c>>]
    BY DEF CallbacksFollow
  <1> DEFINE x == <<d, n>>
             y == <<e, c>>
  <1>1. x \in Devices \X Cams /\ y \in Devices \X Cams
        /\ (x = y <=> e = d /\ c = n)
    OBVIOUS
  <1>2. /\ mUVCCamera' = [mUVCCamera EXCEPT ![x] = "null"]
        /\ y # x => mCallbacks'[y] = mCallbacks[y]
        /\ mCallbacks'[x] = IF mUVCCamera[x] = "null" \/ mCallbacks[x] = {}
                            THEN mCallbacks[x] ELSE {FALSE}
    BY <1>1, CloseDoes
  <1> HIDE DEF x, y
  <1>3. mUVCCamera'[y] = IF y = x THEN "null" ELSE mUVCCamera[y]
    BY <1>1, <1>2 DEF DataTypes
  <1>4. /\ TRUE \in mCallbacks'[y]
           => /\ TRUE \in mCallbacks[y]
              /\ mUVCCamera[y] = "open" => mUVCCamera'[y] = "open"
        /\ mCallbacks[y] # {} => mCallbacks'[y] # {}
    <2>1. CASE y = x
      <3>1. TRUE \in mCallbacks'[x] => TRUE \in mCallbacks[x]
                                       /\ mUVCCamera[x] # "open"
        BY <1>2
      <3> QED BY <1>2, <2>1, <3>1
    <2>2. CASE y # x
      BY <1>2, <1>3, <2>2
    <2> QED BY <2>1, <2>2
  <1> QED BY <1>1, <1>2, <1>3, <1>4 DEF x, y

CallbackOf(d) ==
    /\ \A c \in Cams : TRUE \in mCallbacks[<<d, c>>]
                          => mUVCCamera[<<d, c>>] = "open"
    /\ mCameras[d] # 0 => \/ mCallbacks[<<d, mCameras[d]>>] # {}
                          \/ pc["listener"] = "register" /\ dev["listener"] = d

LEMMA StepCallbackOf ==
    ASSUME EventTypes, DataTypes, PcTypes, HandTypes, ToldTypes, CountInv,
           NumberInv, ClosedYetInv, NoticeInv, Next,
           NEW d \in Devices, d \notin overlapped, CallbackOf(d)
    PROVE  CallbackOf(d)'
  <1> USE DEF CallbackOf
  <1>1. mCameras[d] # 0 => mCameras[d] \in Cams
    BY TableBound
  <1>2. CASE Calm
    BY <1>2, CalmIs
  <1>3. ASSUME NEW ds \in {Devices, {mUsbDevice} \cap Devices}, release(ds)
        PROVE  CallbackOf(d)'
    <2>1. ds \in SUBSET Devices
      OBVIOUS
    <2> QED BY <1>1, <1>3, <2>1, ReleaseDoes
  <1>4. CASE addCamera
    BY <1>4, AddDoes
  <1>5. CASE registerCallback
    <2>1. \A c \in Cams : /\ TRUE \in mCallbacks'[<<d, c>>] => TRUE \in mCallbacks[<<d, c>>]
                          /\ mCallbacks[<<d, c>>] # {} => mCallbacks'[<<d, c>>] # {}
      BY <1>5, RegisterDoes
    <2>2. dev["listener"] = d /\ mCameras[d] # 0 => mCallbacks'[<<d, mCameras[d]>>] # {}
      <3>1. dev["listener"] = d /\ mCameras[d] # 0 => cam["listener"] = mCameras[d]
        BY <1>5, RegisterDoes DEF NumberInv
      <3> QED BY <1>1, <1>5, <3>1, RegisterDoes
    <2> QED BY <1>1, <1>5, <2>1, <2>2, RegisterDoes
  <1>6. CASE removeCamera
    <2>1. CASE UNCHANGED <<mUVCCamera, mCallbacks>>
      BY <1>6, <2>1, RemoveDoes
    <2>2. ASSUME mCameras[dev["listener"]] \in Cams,
                 closeCamera(<<dev["listener"], mCameras[dev["listener"]]>>)
          PROVE  CallbackOf(d)'
      <3>1. /\ dev["listener"] \in Devices /\ mCameras' = mCameras
            /\ pc["listener"] = "remove"
        BY <1>6, RemoveDoes
      <3>2. CallbacksFollow(d)
        BY <2>2, <3>1, CloseKeeps
      <3> QED BY <1>1, <3>1, <3>2 DEF CallbacksFollow
    <2> QED BY <1>6, <2>1, <2>2, RemoveDoes
  <1>7. CASE releaseResource
    <2>1. \A c \in Cams : TRUE \in mCallbacks'[<<d, c>>] => TRUE \in mCallbacks[<<d, c>>]
      BY <1>7, ResourceDoes
    <2>2. mCameras'[d] # 0 => mCameras'[d] = mCameras[d] /\ dev["listener"] # d
      BY <1>7, ResourceDoes
    <2>3. dev["listener"] # d
          => \A c \in Cams : mCallbacks'[<<d, c>>] = mCallbacks[<<d, c>>]
      BY <1>7, ResourceDoes
    <2> QED BY <1>1, <1>7, <2>1, <2>2, <2>3, ResourceDoes
  <1>8. CASE connect
    <2>1. mUVCCamera[camera("helper")] = "null"
      BY <1>8 DEF connect, ClosedYetInv
    <2>2. \A c \in Cams : TRUE \in mCallbacks'[<<d, c>>]
                          => mUVCCamera'[<<d, c>>] = mUVCCamera[<<d, c>>]
      BY <1>8, <2>1, ConnectDoes
    <2> QED BY <1>8, <2>2, ConnectDoes
  <1>9. CASE openNotice
    <2>1. CASE pc["helper"] = "notice"
      <3>1. /\ dev["helper"] \in Devices /\ cam["helper"] \in Cams
            /\ camera("helper") = <<dev["helper"], cam["helper"]>>
        BY <2>1, HelperCamera DEF HelperHas, Opening
      <3>2. ASSUME NEW c \in Cams, d # dev["helper"] \/ c # cam["helper"]
            PROVE  mCallbacks'[<<d, c>>] = mCallbacks[<<d, c>>]
        <4>1. <<d, c>> # <<dev["helper"], cam["helper"]>>
          BY <3>2
        <4>2. \A k \in Devices \X Cams : k # <<dev["helper"], cam["helper"]>>
                                        => mCallbacks'[k] = mCallbacks[k]
          BY <1>9, <2>1, <3>1, NoticeDoes
        <4> QED BY <4>1, <4>2
      <3>3. ASSUME d = dev["helper"]
            PROVE  /\ mCallbacks[<<d, cam["helper"]>>] # {}
                      => mCallbacks'[<<d, cam["helper"]>>] # {}
                   /\ mUVCCamera[<<d, cam["helper"]>>] = "open"
        <4>1. mUVCCamera[<<d, cam["helper"]>>] = "open"
          BY <2>1, <3>1, <3>3 DEF NoticeInv
        <4>2. mCallbacks'[<<d, cam["helper"]>>]
                = IF mCallbacks[<<d, cam["helper"]>>] = {} THEN {} ELSE {TRUE}
          BY <1>9, <2>1, <3>1, <3>3, NoticeDoes
        <4> QED BY <4>1, <4>2
      <3>4. /\ UNCHANGED <<mUVCCamera, mCameras>>
            /\ pc'["listener"] = pc["listener"] /\ dev'["listener"] = dev["listener"]
        BY <1>9 DEF openNotice, done, goto, table, PcTypes, HandTypes, Threads
      <3>5. \A c \in Cams :
               /\ TRUE \in mCallbacks'[<<d, c>>] => mUVCCamera[<<d, c>>] = "open"
               /\ mCallbacks[<<d, c>>] # {} => mCallbacks'[<<d, c>>] # {}
        <4> TAKE c \in Cams
        <4>1. CASE d # dev["helper"] \/ c # cam["helper"]
          BY <3>2, <4>1
        <4>2. CASE d = dev["helper"] /\ c = cam["helper"]
          BY <3>3, <4>2
        <4> QED BY <4>1, <4>2
      <3> QED BY <1>1, <3>4, <3>5
    <2>2. CASE pc["helper"] # "notice"
      <3>1. /\ UNCHANGED <<mUVCCamera, mCameras, mCallbacks>>
            /\ pc'["listener"] = pc["listener"] /\ dev'["listener"] = dev["listener"]
        BY <1>9, <2>2 DEF openNotice, processOnError, done, goto, table, PcTypes,
           HandTypes, Threads
      <3> QED BY <3>1
    <2> QED BY <2>1, <2>2
  <1>10. CASE close
    <2>1. /\ dev["helper"] \in Devices /\ cam["helper"] \in Cams
          /\ closeCamera(<<dev["helper"], cam["helper"]>>) /\ mCameras' = mCameras
          /\ pc'["listener"] = pc["listener"] /\ dev'["listener"] = dev["listener"]
      BY <1>10, CloseStep
    <2>2. CallbacksFollow(d)
      BY <2>1, CloseKeeps
    <2> QED BY <1>1, <2>1, <2>2 DEF CallbacksFollow
  <1> QED BY <1>2, <1>3, <1>4, <1>5, <1>6, <1>7, <1>8, <1>9, <1>10, CalmOr

LEMMA StepCallback ==
    ASSUME EventTypes, DataTypes, PcTypes, HandTypes, ToldTypes, CountInv,
           NumberInv, ClosedYetInv, NoticeInv, CallbackInv, Next
    PROVE  CallbackInv'
  <1>1. \A d \in Devices : d \notin overlapped => CallbackOf(d)
    BY DEF CallbackInv, CallbackOf
  <1>2. \A d \in Devices : d \notin overlapped => CallbackOf(d)'
    BY <1>1, StepCallbackOf
  <1>3. overlapped \subseteq overlapped'
    BY OverlappedStay
  <1> QED BY <1>2, <1>3 DEF CallbackInv, CallbackOf

LEMMA CloseElsewhere ==
    ASSUME DataTypes, ToldTypes, NEW d \in Devices, NEW n \in Cams,
           closeCamera(<<d, n>>), NEW e \in Devices, NEW c \in Cams,
           e # d \/ c # n
    PROVE  /\ mUVCCamera'[<<e, c>>] = mUVCCamera[<<e, c>>]
           /\ mCallbacks'[<<e, c>>] = mCallbacks[<<e, c>>]
  <1> DEFINE x == <<d, n>>
             y == <<e, c>>
  <1>1. x \in Devices \X Cams /\ y \in Devices \X Cams /\ x # y
    OBVIOUS
  <1>2. /\ mUVCCamera' = [mUVCCamera EXCEPT ![x] = "null"]
        /\ y # x => mCallbacks'[y] = mCallbacks[y]
    BY <1>1, CloseDoes
  <1> HIDE DEF x, y
  <1>3. mUVCCamera'[y] = mUVCCamera[y]
    BY <1>1, <1>2 DEF DataTypes
  <1> QED BY <1>1, <1>2, <1>3 DEF x, y

LEMMA StepNotice ==
    ASSUME EventTypes, DataTypes, PcTypes, HandTypes, OverlapInv, OpeningInv,
           ToldTypes, CountInv, NumberInv, ClosedYetInv, CallbackInv,
           NoticeInv, Next
    PROVE  NoticeInv'
  <1> SUFFICES ASSUME pc'["helper"] = "notice", dev'["helper"] \notin overlapped'
               PROVE  (/\ mUVCCamera[camera("helper")] = "open"
                       /\ FALSE \in mCallbacks[camera("helper")])'
    BY DEF NoticeInv
  <1> DEFINE d == dev["helper"]
             n == cam["helper"]
  <1>1. overlapped \subseteq overlapped'
    BY OverlappedStay
  <1>2. /\ PcTypes' /\ HandTypes' /\ camera("helper")' = <<dev'["helper"], cam'["helper"]>>
        /\ camera("helper") = <<d, n>>
    BY StepPc, StepHand DEF camera
  <1>3. ASSUME pc["helper"] = "notice", dev'["helper"] = d, cam'["helper"] = n
        PROVE  /\ d \in Devices /\ n \in Cams /\ d \notin overlapped
               /\ mUVCCamera[<<d, n>>] = "open" /\ FALSE \in mCallbacks[<<d, n>>]
    <2>1. d \in Devices /\ n \in Cams
      BY <1>3, HelperCamera DEF HelperHas, Opening
    <2> QED BY <1>1, <1>2, <1>3, <2>1 DEF NoticeInv
  <1>4. CASE Calm
    <2>1. pc["helper"] = "notice"
      BY <1>4, CalmIs DEF ClosedYetInv
    <2> QED BY <1>2, <1>3, <1>4, <2>1, CalmIs
  <1>5. ASSUME NEW ds \in {Devices, {mUsbDevice} \cap Devices}, release(ds)
        PROVE  FALSE
    <2>1. ds \in SUBSET Devices
      OBVIOUS
    <2> QED BY <1>5, <2>1, ReleaseDoes
  <1>6. CASE addCamera
    BY <1>2, <1>3, <1>6, AddDoes DEF Notified
  <1>7. CASE registerCallback
    <2>1. pc["helper"] = "notice" /\ dev'["helper"] = d /\ cam'["helper"] = n
          /\ mUVCCamera' = mUVCCamera
      BY <1>7, RegisterDoes
    <2>2. FALSE \in mCallbacks[<<d, n>>] => FALSE \in mCallbacks'[<<d, n>>]
      BY <1>3, <1>7, <2>1, RegisterDoes
    <2> QED BY <1>2, <1>3, <2>1, <2>2
  <1>8. CASE removeCamera
    <2>1. /\ pc["helper"] = "notice" /\ dev'["helper"] = d /\ cam'["helper"] = n
          /\ pc'["listener"] = "resource" /\ dev' = dev /\ dev["listener"] \in Devices
      BY <1>8, RemoveDoes
    <2>2. d # dev["listener"]
      BY <1>3, <2>1, OverlapNow DEF Opening
    <2>3. CASE UNCHANGED <<mUVCCamera, mCallbacks>>
      BY <1>2, <1>3, <2>1, <2>3
    <2>4. ASSUME NEW m \in Cams, closeCamera(<<dev["listener"], m>>)
          PROVE  /\ mUVCCamera'[<<d, n>>] = mUVCCamera[<<d, n>>]
                 /\ mCallbacks'[<<d, n>>] = mCallbacks[<<d, n>>]
      BY <1>3, <2>1, <2>2, <2>4, CloseElsewhere
    <2> QED BY <1>2, <1>3, <1>8, <2>1, <2>3, <2>4, RemoveDoes
  <1>9. CASE releaseResource
    <2>1. /\ pc["helper"] = "notice" /\ dev'["helper"] = d /\ cam'["helper"] = n
          /\ pc["listener"] = "resource" /\ mUVCCamera' = mUVCCamera
      BY <1>9, ResourceDoes DEF Notified
    <2>2. d # dev["listener"]
      BY <1>3, <2>1 DEF OverlapInv, Overlap, device, Opening
    <2>3. mCallbacks'[<<d, n>>] = mCallbacks[<<d, n>>]
      BY <1>3, <1>9, <2>1, <2>2, ResourceDoes
    <2> QED BY <1>2, <1>3, <2>1, <2>3
  <1>10. CASE connect
    <2>1. /\ UNCHANGED <<mCallbacks, dev, cam>> /\ d \in Devices /\ n \in Cams
          /\ pc["helper"] = "connect" /\ mUVCCamera'[<<d, n>>] = "open"
      BY <1>10, ConnectDoes
    <2>2. d \notin overlapped /\ mCameras[d] = n /\ n # 0
      BY <1>1, <2>1 DEF OpeningInv, Opening, Cams
    <2>3. ~(pc["listener"] = "register" /\ dev["listener"] = d)
      BY <2>1, <2>2 DEF OverlapInv, Overlap, device, Opening
    <2>4. mUVCCamera[<<d, n>>] = "null"
      BY <1>2, <2>1 DEF ClosedYetInv
    <2>5. mCallbacks[<<d, n>>] # {} /\ TRUE \notin mCallbacks[<<d, n>>]
      BY <2>1, <2>2, <2>3, <2>4 DEF CallbackInv
    <2>6. mCallbacks[<<d, n>>] \in SUBSET BOOLEAN
      BY <2>1 DEF ToldTypes
    <2>7. FALSE \in mCallbacks[<<d, n>>]
      BY <2>5, <2>6
    <2> QED BY <1>2, <2>1, <2>7
  <1>11. CASE openNotice \/ close
    BY <1>11 DEF openNotice, close, done, goto, PcTypes, Threads
  <1> QED BY <1>4, <1>5, <1>6, <1>7, <1>8, <1>9, <1>10, <1>11, CalmOr

LEMMA StepError ==
    ASSUME EventTypes, DataTypes, PcTypes, HandTypes, OverlapInv, OpeningInv,
           ToldTypes, CountInv, NumberInv, CallbackInv, ErrorInv, Next
    PROVE  ErrorInv'
  <1> USE DEF IsOpen, Broken
  <1> DEFINE d == dev["helper"]
             n == cam["helper"]
  <1> SUFFICES ASSUME pc'["helper"] = "error", dev'["helper"] \notin overlapped'
               PROVE  (/\ ~IsOpen(dev["helper"])
                       /\ Broken(dev["helper"]) =>
                             /\ mCameras[dev["helper"]] = cam["helper"]
                             /\ mCallbacks[<<dev["helper"], cam["helper"]>>] # {})'
    BY DEF ErrorInv
  <1>1. overlapped \subseteq overlapped'
    BY OverlappedStay
  <1>2. ASSUME pc["helper"] = "error", dev'["helper"] = d
        PROVE  /\ d \in Devices /\ n \in Cams /\ d \notin overlapped
               /\ ~IsOpen(d)
               /\ Broken(d) => mCameras[d] = n /\ mCallbacks[<<d, n>>] # {}
    <2>1. d \in Devices /\ n \in Cams
      BY <1>2, HelperCamera DEF HelperHas
    <2> QED BY <1>1, <1>2, <2>1 DEF ErrorInv
  <1>3. \A e \in Devices : mCameras[e] # 0 => mCameras[e] \in Cams
    BY TableBound
  <1>4. CASE Calm
    <2>1. pc["helper"] = "error" /\ dev'["helper"] = d /\ cam'["helper"] = n
          /\ UNCHANGED <<mUVCCamera, mCallbacks, mCameras>>
      BY <1>4, CalmIs
    <2> QED BY <1>2, <2>1
  <1>5. ASSUME NEW ds \in {Devices, {mUsbDevice} \cap Devices}, release(ds)
        PROVE  FALSE
    <2>1. ds \in SUBSET Devices
      OBVIOUS
    <2> QED BY <1>5, <2>1, ReleaseDoes
  <1>6. CASE addCamera
    <2>1. /\ pc["helper"] = "error" /\ dev'["helper"] = d /\ cam'["helper"] = n
          /\ UNCHANGED <<mUVCCamera, mCallbacks>> /\ dev["listener"] \in Devices
          /\ d \in Devices /\ d # dev["listener"] => mCameras'[d] = mCameras[d]
          /\ d = dev["listener"] => \/ mCameras'[d] = mCameras[d]
                                    \/ mUVCCamera[<<d, mCameras'[d]>>] = "null"
      BY <1>6, AddDoes DEF Notified
    <2> QED BY <1>2, <2>1
  <1>7. CASE registerCallback
    <2>1. /\ pc["helper"] = "error" /\ dev'["helper"] = d /\ cam'["helper"] = n
          /\ UNCHANGED <<mUVCCamera, mCameras>>
      BY <1>7, RegisterDoes
    <2>2. mCallbacks[<<d, n>>] # {} => mCallbacks'[<<d, n>>] # {}
      BY <1>2, <1>7, <2>1, RegisterDoes
    <2> QED BY <1>2, <2>1, <2>2
  <1>8. CASE removeCamera
    <2> DEFINE e == dev["listener"]
    <2>1. /\ pc["helper"] = "error" /\ dev' = dev /\ cam'["helper"] = n
          /\ e \in Devices /\ mCameras' = mCameras
          /\ \/ UNCHANGED <<mUVCCamera, mCallbacks>>
             \/ mCameras[e] \in Cams /\ closeCamera(<<e, mCameras[e]>>)
      BY <1>8, RemoveDoes
    <2>2. CASE UNCHANGED <<mUVCCamera, mCallbacks>>
      BY <1>2, <2>1, <2>2
    <2>3. CASE d = e /\ mCameras[e] \in Cams /\ closeCamera(<<e, mCameras[e]>>)
      <3>1. mUVCCamera' = [mUVCCamera EXCEPT ![<<e, mCameras[e]>>] = "null"]
        BY <2>1, <2>3, CloseDoes
      <3>2. mUVCCamera'[<<d, mCameras[d]>>] = "null"
        BY <2>1, <2>3, <3>1 DEF DataTypes
      <3> QED BY <2>1, <3>2
    <2>4. CASE d # e /\ mCameras[e] \in Cams /\ closeCamera(<<e, mCameras[e]>>)
      <3>1. \A c \in Cams : /\ mUVCCamera'[<<d, c>>] = mUVCCamera[<<d, c>>]
                            /\ mCallbacks'[<<d, c>>] = mCallbacks[<<d, c>>]
        BY <1>2, <2>1, <2>4, CloseElsewhere
      <3> QED BY <1>2, <1>3, <2>1, <3>1
    <2> QED BY <2>1, <2>2, <2>3, <2>4
  <1>9. CASE releaseResource
    <2>1. /\ pc["helper"] = "error" /\ dev'["helper"] = d /\ cam'["helper"] = n
          /\ mUVCCamera' = mUVCCamera
      BY <1>9, ResourceDoes DEF Notified
    <2>2. CASE d = dev["listener"]
      <3>1. mCameras'[d] = 0
        BY <1>9, <2>2, ResourceDoes
      <3> QED BY <2>1, <3>1
    <2>3. CASE d # dev["listener"]
      <3>1. mCameras'[d] = mCameras[d] /\ mCallbacks'[<<d, n>>] = mCallbacks[<<d, n>>]
        BY <1>2, <1>9, <2>1, <2>3, ResourceDoes
      <3> QED BY <1>2, <2>1, <3>1
    <2> QED BY <2>2, <2>3
  <1>10. CASE connect
    <2>1. /\ UNCHANGED <<mCallbacks, mCameras, dev, cam>>
          /\ d \in Devices /\ n \in Cams
          /\ pc["helper"] = "connect" /\ mUVCCamera'[<<d, n>>] # "open"
      BY <1>10, ConnectDoes
    <2>2. d \notin overlapped /\ mCameras[d] = n /\ n # 0
      BY <1>1, <2>1 DEF OpeningInv, Opening, Cams
    <2>3. ~(pc["listener"] = "register" /\ dev["listener"] = d)
      BY <2>1, <2>2 DEF OverlapInv, Overlap, device, Opening
    <2>4. mCallbacks[<<d, n>>] # {}
      BY <2>1, <2>2, <2>3 DEF CallbackInv
    <2> QED BY <2>1, <2>2, <2>4
  <1>11. CASE openNotice \/ close
    BY <1>11 DEF openNotice, close, done, goto, PcTypes, Threads
  <1> QED BY <1>4, <1>5, <1>6, <1>7, <1>8, <1>9, <1>10, <1>11, CalmOr

\* Who is told closed then has no camera, or is about to lose it.
LEMMA CalmTold ==
    ASSUME Calm, DataTypes, PcTypes, HandTypes, ToldTypes
    PROVE  /\ listening' => listening
           /\ \A d \in Devices :
                 \/ told'[d] = told[d]
                 \/ /\ told'[d] = "closed"
                    /\ \/ pc'["listener"] = "remove" /\ dev'["listener"] = d
                       \/ ~IsOpen(d) /\ ~Broken(d)
  <1> USE DEF table, cameras, selection, threads
  <1>1. CASE \/ \E d \in Devices : \/ answerOpen(d) \/ answer(d) \/ detach(d)
                                   \/ selectDevice(d) \/ onDeviceOpen(d)
                                   \/ onCancel(d)
             \/ \E what \in {"open", "close", "use"} : request(what)
             \/ unregisterCallback \/ requestPermission \/ selected
             \/ getCamera \/ resetUVCCamera
    <2>1. told' = told /\ listening' \in {listening, FALSE}
      BY <1>1 DEF answerOpen, answer, detach, selectDevice, onDeviceOpen, onCancel,
         request, unregisterCallback, requestPermission, selected, getCamera,
         resetUVCCamera
    <2>2. listening \in BOOLEAN
      BY DEF ToldTypes
    <2>3. listening' => listening
      BY <2>1, <2>2
    <2> QED BY <2>1, <2>3
  <1>2. ASSUME NEW e \in Devices, onDeviceClose(e) \/ onDetach(e)
        PROVE  /\ listening' => listening
               /\ \A d \in Devices :
                     \/ told'[d] = told[d]
                     \/ /\ told'[d] = "closed"
                        /\ pc'["listener"] = "remove" /\ dev'["listener"] = d
    BY <1>2 DEF onDeviceClose, onDetach, tell, goto, PcTypes, HandTypes, Threads,
       ToldTypes
  <1>3. CASE isCameraOpened
    <2>1. /\ listening' = listening
          /\ \/ told' = told
             \/ /\ told' = [told EXCEPT ![dev["helper"]] = "closed"]
                /\ op = "close"
                /\ ~IsCameraOpened(dev["helper"])
      BY <1>3 DEF isCameraOpened, tell, device
    <2>2. ~IsCameraOpened(dev["helper"])
          => ~IsOpen(dev["helper"]) /\ ~Broken(dev["helper"])
      BY DEF IsCameraOpened, IsOpen, Broken
    <2> QED BY <2>1, <2>2 DEF ToldTypes
  <1> QED BY <1>1, <1>2, <1>3 DEF Calm

ToldOf(d) ==
    /\ told[d] = "open" => /\ IsOpen(d)
                           /\ TRUE \in mCallbacks[<<d, mCameras[d]>>]
    /\ IsOpen(d) => \/ told[d] = "open"
                    \/ pc["helper"] = "notice" /\ dev["helper"] = d
                    \/ pc["listener"] = "remove" /\ dev["listener"] = d
    /\ Broken(d) => \/ told[d] = "error"
                    \/ pc["helper"] = "error" /\ dev["helper"] = d
                    \/ pc["listener"] = "remove" /\ dev["listener"] = d

LEMMA RemoveTold ==
    ASSUME EventTypes, DataTypes, PcTypes, HandTypes, ToldTypes, CountInv,
           NumberInv, removeCamera, listening, NEW d \in Devices, ToldOf(d)
    PROVE  ToldOf(d)'
  <1> USE DEF ToldOf, IsOpen, Broken
  <1> DEFINE e == dev["listener"]
             m == mCameras[e]
  <1>1. /\ e \in Devices /\ dev' = dev /\ mCameras' = mCameras
        /\ pc["listener"] = "remove" /\ pc'["helper"] = pc["helper"]
        /\ \/ m = 0 /\ UNCHANGED <<mUVCCamera, mCallbacks, told>>
           \/ m \in Cams /\ closeCamera(<<e, m>>)
    BY RemoveDoes
  <1>2. mCameras[d] # 0 => mCameras[d] \in Cams
    BY TableBound
  <1>3. CASE m = 0 /\ UNCHANGED <<mUVCCamera, mCallbacks, told>>
    BY <1>1, <1>3
  <1>4. CASE m \in Cams /\ closeCamera(<<e, m>>)
    <2>1. told' = IF mUVCCamera[<<e, m>>] # "null" /\ listening
                     /\ TRUE \in mCallbacks[<<e, m>>]
                  THEN [told EXCEPT ![e] = "closed"] ELSE told
      BY <1>1, <1>4, CloseDoes
    <2>2. CASE d # e
      <3>1. told'[d] = told[d]
        BY <2>1, <2>2 DEF ToldTypes
      <3>2. mCameras[d] # 0 =>
               /\ mUVCCamera'[<<d, mCameras[d]>>] = mUVCCamera[<<d, mCameras[d]>>]
               /\ mCallbacks'[<<d, mCameras[d]>>] = mCallbacks[<<d, mCameras[d]>>]
        BY <1>1, <1>2, <1>4, <2>2, CloseElsewhere
      <3> QED BY <1>1, <2>2, <3>1, <3>2
    <2>3. CASE d = e
      <3>1. told'[d] # "open"
        BY <1>1, <2>1, <2>3 DEF ToldTypes
      <3>2. mUVCCamera' = [mUVCCamera EXCEPT ![<<e, m>>] = "null"]
        BY <1>1, <1>4, CloseDoes
      <3>3. mUVCCamera'[<<d, m>>] = "null"
        BY <1>1, <1>4, <2>3, <3>2 DEF DataTypes
      <3> QED BY <1>1, <2>3, <3>1, <3>3
    <2> QED BY <2>2, <2>3
  <1> QED BY <1>1, <1>3, <1>4

LEMMA NoticeTold ==
    ASSUME EventTypes, DataTypes, PcTypes, HandTypes, ToldTypes, CountInv,
           NumberInv, OpeningInv, NoticeInv, ErrorInv, openNotice, listening,
           NEW d \in Devices, d \notin overlapped, ToldOf(d)
    PROVE  ToldOf(d)'
  <1> USE DEF ToldOf, IsOpen, Broken
  <1>1. /\ UNCHANGED <<mUVCCamera, mCameras>>
        /\ pc'["listener"] = pc["listener"] /\ dev'["listener"] = dev["listener"]
    BY DEF openNotice, done, goto, table, PcTypes, HandTypes, Threads
  <1>2. mCameras[d] # 0 => mCameras[d] \in Cams
    BY TableBound
  <1>3. CASE pc["helper"] # "notice"
    <2> DEFINE e == dev["helper"]
               n == cam["helper"]
    <2>1. /\ pc["helper"] = "error" /\ e \in Devices
          /\ camera("helper") = <<e, n>> /\ UNCHANGED mCallbacks
          /\ told' = IF mCallbacks[<<e, n>>] # {}
                     THEN [told EXCEPT ![e] = "error"] ELSE told
      BY <1>3, HelperCamera DEF openNotice, processOnError, tell, HelperHas
    <2>2. CASE d # e
      <3>1. told'[d] = told[d]
        BY <2>1, <2>2 DEF ToldTypes
      <3> QED BY <1>1, <1>3, <2>1, <2>2, <3>1
    <2>3. CASE d = e
      <3>1. ~IsOpen(d) /\ (Broken(d) => mCallbacks[<<e, n>>] # {})
        BY <2>1, <2>3 DEF ErrorInv
      <3>2. told'[d] # "open"
        BY <2>1, <2>3, <3>1 DEF ToldTypes
      <3>3. Broken(d) => told'[d] = "error"
        BY <2>1, <2>3, <3>1 DEF ToldTypes
      <3> QED BY <1>1, <3>1, <3>2, <3>3
    <2> QED BY <2>2, <2>3
  <1>4. CASE pc["helper"] = "notice"
    <2> DEFINE e == dev["helper"]
               n == cam["helper"]
    <2>1. e \in Devices /\ n \in Cams /\ camera("helper") = <<e, n>>
      BY <1>4, HelperCamera DEF HelperHas, Opening
    <2>2. /\ \A c \in Devices \X Cams : c # <<e, n>> => mCallbacks'[c] = mCallbacks[c]
          /\ mCallbacks'[<<e, n>>] = IF mCallbacks[<<e, n>>] = {} THEN {} ELSE {TRUE}
          /\ told' = IF FALSE \in mCallbacks[<<e, n>>] /\ listening
                     THEN [told EXCEPT ![e] = "open"] ELSE told
      BY <1>4, <2>1, NoticeDoes
    <2>3. CASE d # e
      <3>1. told'[d] = told[d]
        BY <2>2, <2>3 DEF ToldTypes
      <3>2. mCameras[d] # 0 =>
               mCallbacks'[<<d, mCameras[d]>>] = mCallbacks[<<d, mCameras[d]>>]
        BY <1>2, <2>2, <2>3
      <3> QED BY <1>1, <2>3, <3>1, <3>2
    <2>4. CASE d = e
      <3>1. mCameras[d] = n /\ n # 0
        BY <1>4, <2>1, <2>4 DEF OpeningInv, Opening, Cams
      <3>2. mUVCCamera[<<d, n>>] = "open" /\ FALSE \in mCallbacks[<<d, n>>]
        BY <1>4, <2>1, <2>4 DEF NoticeInv
      <3>3. told'[d] = "open" /\ TRUE \in mCallbacks'[<<d, n>>]
        BY <2>2, <2>4, <3>2 DEF ToldTypes
      <3> QED BY <1>1, <3>1, <3>2, <3>3
    <2> QED BY <2>3, <2>4
  <1> QED BY <1>3, <1>4

\* What the helper closes is its own camera, or one given up long ago.
LEMMA CloseTold ==
    ASSUME EventTypes, DataTypes, PcTypes, HandTypes, ToldTypes, CountInv,
           NumberInv, CallbackInv, OrphansClosed, close, listening,
           NEW d \in Devices, d \notin overlapped, ToldOf(d)
    PROVE  ToldOf(d)'
  <1> USE DEF ToldOf, IsOpen, Broken
  <1> DEFINE e == dev["helper"]
             n == cam["helper"]
  <1>1. /\ e \in Devices /\ n \in Cams /\ closeCamera(<<e, n>>)
        /\ mCameras' = mCameras /\ pc["helper"] = "close"
        /\ pc'["listener"] = pc["listener"] /\ dev'["listener"] = dev["listener"]
    BY CloseStep
  <1>2. mCameras[d] # 0 => mCameras[d] \in Cams
    BY TableBound
  <1>3. /\ mUVCCamera' = [mUVCCamera EXCEPT ![<<e, n>>] = "null"]
        /\ told' = IF mUVCCamera[<<e, n>>] # "null" /\ listening
                      /\ TRUE \in mCallbacks[<<e, n>>]
                   THEN [told EXCEPT ![e] = "closed"] ELSE told
    BY <1>1, CloseDoes
  <1>4. CASE d # e \/ mCameras[d] # n
    <2>1. mCameras[d] # 0 =>
             /\ mUVCCamera'[<<d, mCameras[d]>>] = mUVCCamera[<<d, mCameras[d]>>]
             /\ mCallbacks'[<<d, mCameras[d]>>] = mCallbacks[<<d, mCameras[d]>>]
      BY <1>1, <1>2, <1>4, CloseElsewhere
    <2>2. told'[d] = told[d]
      <3>1. CASE d # e
        BY <1>3, <3>1 DEF ToldTypes
      <3>2. CASE d = e
        <4>1. mUVCCamera[<<d, n>>] # "open"
          BY <1>1, <1>4, <3>2 DEF OrphansClosed
        <4>2. TRUE \notin mCallbacks[<<d, n>>]
          BY <1>1, <4>1 DEF CallbackInv
        <4> QED BY <1>3, <3>2, <4>2
      <3> QED BY <3>1, <3>2
    <2> QED BY <1>1, <2>1, <2>2
  <1>5. CASE d = e /\ mCameras[d] = n
    <2>1. told'[d] # "open"
      BY <1>1, <1>3, <1>5 DEF ToldTypes
    <2>2. mUVCCamera'[<<d, n>>] = "null"
      BY <1>1, <1>3, <1>5 DEF DataTypes
    <2> QED BY <1>1, <1>5, <2>1, <2>2
  <1> QED BY <1>4, <1>5

LEMMA ConnectTold ==
    ASSUME EventTypes, DataTypes, PcTypes, HandTypes, ToldTypes, CountInv,
           NumberInv, ClosedYetInv, connect, NEW d \in Devices, ToldOf(d)
    PROVE  ToldOf(d)'
  <1> USE DEF ToldOf, IsOpen, Broken
  <1> DEFINE c == <<dev["helper"], cam["helper"]>>
  <1>1. /\ UNCHANGED <<mCallbacks, mCameras, told, dev>>
        /\ c \in Devices \X Cams /\ camera("helper") = c
        /\ pc["helper"] = "connect" /\ pc'["listener"] = pc["listener"]
        /\ pc'["helper"] = IF mUVCCamera'[c] = "open" THEN "notice" ELSE "error"
        /\ \A k \in Devices \X Cams : k # c => mUVCCamera'[k] = mUVCCamera[k]
    BY ConnectDoes
  <1>2. mCameras[d] # 0 => mCameras[d] \in Cams
    BY TableBound
  <1>3. mUVCCamera[c] = "null"
    BY <1>1 DEF ClosedYetInv
  <1>4. CASE <<d, mCameras[d]>> = c
    <2>1. told[d] # "open" /\ dev["helper"] = d
      BY <1>3, <1>4
    <2> QED BY <1>1, <1>4, <2>1
  <1>5. CASE <<d, mCameras[d]>> # c
    <2>1. mCameras[d] # 0 =>
             mUVCCamera'[<<d, mCameras[d]>>] = mUVCCamera[<<d, mCameras[d]>>]
      BY <1>1, <1>2, <1>5
    <2> QED BY <1>1, <2>1
  <1> QED BY <1>4, <1>5

LEMMA StepToldOf ==
    ASSUME EventTypes, IInv, ToldTypes, CountInv, NumberInv, ClosedYetInv,
           CallbackInv, NoticeInv, ErrorInv, Next, listening',
           NEW d \in Devices, d \notin overlapped, listening => ToldOf(d)
    PROVE  ToldOf(d)'
  <1>1. /\ DataTypes /\ PcTypes /\ HandTypes /\ OpeningInv /\ RemovingInv
        /\ OrphansClosed
    BY DEF IInv
  <1>2. mCameras[d] # 0 => mCameras[d] \in Cams
    BY <1>1, TableBound
  <1>3. CASE Calm
    <2>1. /\ listening
          /\ \/ told'[d] = told[d]
             \/ /\ told'[d] = "closed"
                /\ \/ pc'["listener"] = "remove" /\ dev'["listener"] = d
                   \/ ~IsOpen(d) /\ ~Broken(d)
      BY <1>1, <1>3, CalmTold
    <2>2. /\ UNCHANGED <<mUVCCamera, mCallbacks, mCameras>>
          /\ pc["listener"] \notin {"idle", "add"}
             => pc'["listener"] = pc["listener"] /\ dev'["listener"] = dev["listener"]
          /\ pc["helper"] \in {"notice", "error"}
             => pc'["helper"] = pc["helper"] /\ dev'["helper"] = dev["helper"]
      BY <1>1, <1>3, CalmIs
    <2> QED BY <2>1, <2>2 DEF ToldOf, IsOpen, Broken
  <1>4. ASSUME NEW ds \in {Devices, {mUsbDevice} \cap Devices}, release(ds)
        PROVE  FALSE
    <2>1. ds \in SUBSET Devices
      OBVIOUS
    <2> QED BY <1>1, <1>4, <2>1, ReleaseDoes
  <1>5. CASE addCamera
    BY <1>1, <1>5, AddDoes DEF ToldOf, IsOpen, Broken, Notified
  <1>6. CASE registerCallback
    BY <1>1, <1>2, <1>6, RegisterDoes DEF ToldOf, IsOpen, Broken
  <1>7. CASE removeCamera
    <2>1. listening' = listening
      BY <1>1, <1>7, RemoveDoes
    <2> QED BY <1>1, <1>7, <2>1, RemoveTold
  <1>8. CASE releaseResource
    <2>1. /\ UNCHANGED <<mUVCCamera, told, listening>>
          /\ pc["listener"] = "resource" /\ dev["listener"] \in Devices
          /\ pc'["helper"] = Notified(pc["helper"]) /\ dev'["helper"] = dev["helper"]
      BY <1>1, <1>8, ResourceDoes
    <2>2. CASE d = dev["listener"]
      <3>1. mCameras'[d] = 0
        BY <1>1, <1>8, <2>2, ResourceDoes
      <3>2. told[d] # "open"
        BY <1>1, <1>2, <2>1, <2>2 DEF ToldOf, IsOpen, Broken, RemovingInv
      <3> QED BY <2>1, <3>1, <3>2 DEF ToldOf, IsOpen, Broken
    <2>3. CASE d # dev["listener"]
      <3>1. /\ mCameras'[d] = mCameras[d]
            /\ \A c \in Cams : mCallbacks'[<<d, c>>] = mCallbacks[<<d, c>>]
        BY <1>1, <1>8, <2>3, ResourceDoes
      <3> QED BY <1>2, <2>1, <2>3, <3>1 DEF ToldOf, IsOpen, Broken, Notified
    <2> QED BY <2>2, <2>3
  <1>9. CASE connect
    <2>1. listening' = listening
      BY <1>1, <1>9, ConnectDoes
    <2> QED BY <1>1, <1>9, <2>1, ConnectTold
  <1>10. CASE openNotice
    <2>1. listening' = listening
      BY <1>10 DEF openNotice
    <2> QED BY <1>1, <1>10, <2>1, NoticeTold
  <1>11. CASE close
    <2>1. listening' = listening
      BY <1>11 DEF close
    <2> QED BY <1>1, <1>11, <2>1, CloseTold
  <1> QED BY <1>3, <1>4, <1>5, <1>6, <1>7, <1>8, <1>9, <1>10, <1>11, CalmOr

LEMMA StepTold ==
    ASSUME EventTypes, IInv, ToldTypes, CountInv, NumberInv, ClosedYetInv,
           CallbackInv, NoticeInv, ErrorInv, ToldInv, Next
    PROVE  ToldInv'
  <1>1. \A d \in Devices : d \notin overlapped => (listening => ToldOf(d))
    BY DEF ToldInv, ToldOf
  <1>2. listening' => \A d \in Devices : d \notin overlapped => ToldOf(d)'
    BY <1>1, StepToldOf
  <1>3. overlapped \subseteq overlapped'
    BY OverlappedStay
  <1> QED BY <1>2, <1>3 DEF ToldInv, ToldOf

----------------------------------------------------------------------------
(* The theorem about what was told. *)

ReportInv == /\ IInv /\ EventTypes /\ ToldTypes /\ CountInv /\ NumberInv
             /\ ClosedYetInv /\ CallbackInv /\ NoticeInv /\ ErrorInv /\ ToldInv

LEMMA InitReport == Init => ReportInv
  <1> SUFFICES ASSUME Init PROVE ReportInv
    OBVIOUS
  <1>1. IInv
    BY InitIInv
  <1>2. events = <<>> /\ EventTypes
    <2>1. events = <<>> /\ events \in Seq(Posted)
      BY DEF Init
    <2>2. opens \in [Devices -> 0 .. MaxOpens]
      BY ConnectionAssumption DEF Init
    <2> QED BY <2>1, <2>2 DEF Init, EventTypes
  <1>3. ToldTypes
    BY DEF Init, ToldTypes
  <1>4. NumberInv /\ ClosedYetInv /\ CallbackInv /\ NoticeInv /\ ErrorInv /\ ToldInv
    <2>1. NumberInv
      BY DEF Init, NumberInv, HelperHas, Opening
    <2>2. ClosedYetInv /\ NoticeInv /\ ErrorInv
      BY DEF Init, ClosedYetInv, NoticeInv, ErrorInv
    <2>3. CallbackInv
      BY DEF Init, CallbackInv
    <2>4. ToldInv
      BY DEF Init, ToldInv, IsOpen, Broken
    <2> QED BY <2>1, <2>2, <2>3, <2>4
  <1>5. CountInv
    <2> SUFFICES ASSUME NEW d \in Devices
                 PROVE  created[d] + Cardinality(OpensIn(events, d))
                            + Answered(d) + Adding(d) <= opens[d]
      BY DEF CountInv
    <2>1. OpensIn(events, d) = {}
      BY <1>2 DEF OpensIn
    <2>2. Cardinality(OpensIn(events, d)) = 0
      BY <2>1, FS_EmptySet
    <2>3. /\ created[d] = 0 /\ opens[d] = 0
          /\ Answered(d) = 0 /\ Adding(d) = 0
      BY DEF Init, Answered, Adding
    <2> QED BY <2>2, <2>3
  <1> QED BY <1>1, <1>2, <1>3, <1>4, <1>5 DEF ReportInv

LEMMA NextReport == ReportInv /\ [Next]_vars => ReportInv'
  <1>1. ASSUME ReportInv, Next PROVE ReportInv'
    <2>1. IInv'
      BY <1>1, NextIInv DEF ReportInv
    <2>2. DataTypes /\ PcTypes /\ HandTypes /\ OverlapInv /\ OpeningInv
      BY <1>1 DEF ReportInv, IInv
    <2>3. EventTypes' /\ ToldTypes' /\ CountInv' /\ NumberInv'
      BY <1>1, <2>2, StepEventTypes, StepToldTypes, StepCount, StepNumber
         DEF ReportInv
    <2>4. ClosedYetInv' /\ CallbackInv' /\ NoticeInv' /\ ErrorInv' /\ ToldInv'
      BY <1>1, <2>2, StepClosedYet, StepCallback, StepNotice, StepError, StepTold
         DEF ReportInv
    <2> QED BY <2>1, <2>3, <2>4 DEF ReportInv
  <1>2. ASSUME ReportInv, UNCHANGED vars PROVE ReportInv'
    <2>1. IInv'
      BY <1>2, NextIInv DEF ReportInv
    <2>2. EventTypes' /\ ToldTypes' /\ CountInv' /\ NumberInv'
      BY <1>2 DEF vars, external, table, cameras, selection, threads, ReportInv,
         EventTypes, ToldTypes, CountInv, OpensIn, Answered, Adding, NumberInv
    <2>3. ClosedYetInv' /\ CallbackInv' /\ NoticeInv'
      BY <1>2 DEF vars, external, table, cameras, selection, threads, ReportInv,
         ClosedYetInv, camera, CallbackInv, NoticeInv
    <2>4. UNCHANGED <<mCameras, mUVCCamera, mCallbacks, pc, dev, cam, told,
                      listening, overlapped>>
      BY <1>2 DEF vars, table, cameras, threads
    <2>5. ErrorInv'
      BY <1>2, <2>4 DEF ReportInv, ErrorInv, IsOpen, Broken
    <2>6. ToldInv'
      BY <1>2, <2>4 DEF ReportInv, ToldInv, IsOpen, Broken
    <2> QED BY <2>1, <2>2, <2>3, <2>5, <2>6 DEF ReportInv
  <1> QED BY <1>1, <1>2

(* onCameraOpen, onCameraClose and the closes of USBMonitor: whatever opens *)
(* again, fails, closes or detaches, what the application was told last of  *)
(* a device is so once both threads have come to rest.                     *)
THEOREM ToldIsTrue == Spec => []ToldTruth
  <1>1. ReportInv => ToldTruth
    BY DEF ReportInv, ToldInv, ToldTruth, Quiet, Waiting, IsOpen, Broken
  <1> QED BY InitReport, NextReport, <1>1, PTL DEF Spec

----------------------------------------------------------------------------
(* Type correctness. *)

RestTypes ==
    /\ mService \in BOOLEAN
    /\ releasedCameras \subseteq Devices \X Cams
    /\ mLastCameraKey \in Devices \cup {None}
    /\ mDetachedDeviceMap \subseteq Devices
    /\ cam \in [Threads -> 0 .. MaxOpens]
    /\ op \in {"open", "close", "use"}

LEMMA StepRest ==
    ASSUME EventTypes, DataTypes, PcTypes, HandTypes, ToldTypes, CountInv,
           NumberInv, RestTypes, Next
    PROVE  RestTypes'
  <1> USE DEF RestTypes, Threads, external, table, cameras, selection, threads
  <1>1. /\ \A d \in Devices : mCameras[d] \in 0 .. MaxOpens
        /\ Cams \subseteq 0 .. MaxOpens
    BY TableBound, ConnectionAssumption DEF Cams, DataTypes
  <1>2. 0 \in 0 .. MaxOpens
    BY ConnectionAssumption
  <1>3. ASSUME NEW ds \in {Devices, {mUsbDevice} \cap Devices}, release(ds)
        PROVE RestTypes'
    <2> DEFINE gone == {<<d, mCameras[d]>> : d \in {e \in ds : mCameras[e] # 0}}
    <2>1. ds \in SUBSET Devices
      OBVIOUS
    <2>2. gone \subseteq Devices \X Cams
      <3>1. \A d \in ds : mCameras[d] # 0 => d \in Devices /\ mCameras[d] \in Cams
        BY <2>1, TableBound
      <3> QED BY <3>1
    <2>3. /\ releasedCameras' = releasedCameras \cup gone /\ mService' = FALSE
          /\ UNCHANGED <<mLastCameraKey, mDetachedDeviceMap, cam, op>>
      BY <1>3 DEF release
    <2> QED BY <2>2, <2>3
  <1>4. ASSUME addCamera PROVE RestTypes'
    <2>1. dev["listener"] \in Devices
      BY <1>4, AddDoes
    <2>2. created[dev["listener"]] + 1 \in Cams
      BY <1>4, <2>1, CreatedBound DEF addCamera
    <2> QED BY <1>1, <1>4, <2>1, <2>2 DEF addCamera, device
  <1>5. ASSUME releaseResource PROVE RestTypes'
    <2>1. releasedCameras' =
             releasedCameras \cup ({camera("listener")} \cap DOMAIN mCallbacks)
      BY <1>5 DEF releaseResource
    <2>2. DOMAIN mCallbacks = Devices \X Cams
      BY DEF ToldTypes
    <2>3. releasedCameras' \subseteq Devices \X Cams
      BY <2>1, <2>2
    <2>4. /\ cam' = [cam EXCEPT !["listener"] = 0]
          /\ UNCHANGED <<mService, mLastCameraKey, mDetachedDeviceMap, op>>
      BY <1>5 DEF releaseResource
    <2> QED BY <1>2, <2>3, <2>4
  <1>6. ASSUME removeCamera PROVE RestTypes'
    <2>1. dev["listener"] \in Devices
      BY <1>6, RemoveDoes
    <2>2. /\ cam' = [cam EXCEPT !["listener"] = mCameras[dev["listener"]]]
          /\ mLastCameraKey' = dev["listener"]
          /\ UNCHANGED <<mService, releasedCameras, mDetachedDeviceMap, op>>
      BY <1>6 DEF removeCamera, device
    <2> QED BY <1>1, <2>1, <2>2
  <1>7. ASSUME getCamera PROVE RestTypes'
    <2>1. dev["helper"] \in Devices
      BY <1>7 DEF getCamera, HandTypes, InHand
    <2>2. UNCHANGED <<mService, releasedCameras, mLastCameraKey, mDetachedDeviceMap>>
      BY <1>7 DEF getCamera
    <2>3. CASE UNCHANGED <<cam, op>>
      BY <2>2, <2>3
    <2>4. CASE found
      BY <1>1, <1>2, <2>1, <2>2, <2>4 DEF found, device, done
    <2> QED BY <1>7, <2>3, <2>4 DEF getCamera
  <1>8. CASE \/ \E d \in Devices : \/ answerOpen(d) \/ answer(d) \/ detach(d)
                                   \/ selectDevice(d) \/ onDeviceOpen(d)
                                   \/ onDeviceClose(d) \/ onCancel(d)
             \/ unregisterCallback \/ requestPermission \/ selected \/ connect
    <2>1. UNCHANGED <<mService, releasedCameras, mLastCameraKey,
                      mDetachedDeviceMap, cam, op>>
      BY <1>8 DEF answerOpen, answer, detach, selectDevice, onDeviceOpen,
         onDeviceClose, onCancel, unregisterCallback, requestPermission, selected,
         connect
    <2> QED BY <2>1
  <1>9. ASSUME NEW d \in Devices, onDetach(d) PROVE RestTypes'
    BY <1>9 DEF onDetach
  <1>10. ASSUME NEW what \in {"open", "close", "use"}, request(what)
         PROVE  RestTypes'
    BY <1>10 DEF request
  <1>11. ASSUME \/ registerCallback \/ isCameraOpened \/ resetUVCCamera
                \/ openNotice \/ close
         PROVE  RestTypes'
    <2>1. /\ UNCHANGED <<mService, releasedCameras, mLastCameraKey, mDetachedDeviceMap>>
          /\ \/ UNCHANGED <<cam, op>>
             \/ done("listener") \/ done("helper")
      BY <1>11 DEF registerCallback, isCameraOpened, resetUVCCamera, openNotice, close
    <2> QED BY <1>2, <2>1 DEF done
  <1> QED BY <1>3, <1>4, <1>5, <1>6, <1>7, <1>8, <1>9, <1>10, <1>11, NextIs

\* Whatever opens and closes, every variable keeps its type, and no device has
\* a camera that was not created for an answer of the monitor.
THEOREM TypeCorrect == Spec => []TypeOK
  <1>1. Init => RestTypes
    BY ConnectionAssumption DEF Init, RestTypes, Threads
  <1>2. ReportInv /\ RestTypes /\ [Next]_vars => RestTypes'
    <2>1. ASSUME ReportInv, RestTypes, Next PROVE RestTypes'
      BY <2>1, StepRest DEF ReportInv, IInv
    <2>2. ASSUME RestTypes, UNCHANGED vars PROVE RestTypes'
      BY <2>2 DEF vars, table, cameras, selection, threads, RestTypes
    <2> QED BY <2>1, <2>2
  <1>3. ReportInv /\ RestTypes => TypeOK
    <2> SUFFICES ASSUME ReportInv, RestTypes PROVE TypeOK
      OBVIOUS
    <2>1. /\ EventTypes /\ DataTypes /\ PcTypes /\ HandTypes /\ ToldTypes
          /\ CountInv /\ NumberInv
      BY DEF ReportInv, IInv
    <2>2. \A d \in Devices : /\ mCameras[d] \in 0 .. MaxOpens
                             /\ created[d] \in 0 .. MaxOpens
                             /\ mCameras[d] <= created[d] /\ created[d] <= opens[d]
      <3> SUFFICES ASSUME NEW d \in Devices
                   PROVE  /\ mCameras[d] \in 0 .. MaxOpens
                          /\ created[d] \in 0 .. MaxOpens
                          /\ mCameras[d] <= created[d] /\ created[d] <= opens[d]
        OBVIOUS
      <3>1. created[d] \in 0 .. MaxOpens
        BY <2>1, CreatedBound
      <3>2. mCameras[d] \in Nat /\ mCameras[d] <= created[d]
        BY <2>1 DEF NumberInv, DataTypes
      <3>3. created[d] <= opens[d]
        <4>1. /\ Cardinality(OpensIn(events, d)) \in Nat /\ opens[d] \in Nat
              /\ Answered(d) \in Nat /\ Adding(d) \in Nat
          BY <2>1, OpensAreFinite DEF EventTypes, Answered, Adding
        <4>2. created[d] + Cardinality(OpensIn(events, d)) + Answered(d)
                  + Adding(d) <= opens[d]
          BY <2>1 DEF CountInv
        <4> QED BY <3>1, <4>1, <4>2
      <3> QED BY <3>1, <3>2, <3>3, ConnectionAssumption
    <2>3. /\ mCameras \in [Devices -> 0 .. MaxOpens]
          /\ created \in [Devices -> 0 .. MaxOpens]
      BY <2>1, <2>2 DEF DataTypes
    <2> QED BY <2>1, <2>2, <2>3 DEF TypeOK, RestTypes, EventTypes, Posted,
               DataTypes, PcTypes, HandTypes, ToldTypes, Threads
  <1> QED BY InitReport, NextReport, <1>1, <1>2, <1>3, PTL DEF Spec

=============================================================================
