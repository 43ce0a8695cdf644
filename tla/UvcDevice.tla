----------------------------- MODULE UvcDevice -----------------------------
(***************************************************************************)
(* One UVCCamera, from Java to libusb: open, close and destroy of           *)
(* UVCCamera.java, connect, release and the destructor of UVCCamera.cpp,    *)
(* uvc_wrap and uvc_close with the status transfer (device.c), the event    *)
(* thread (init.c) and UVCStatusCallback.  UVCButtonCallback has the same   *)
(* form and is not a second object here.                                   *)
(*                                                                         *)
(*   caller   whoever is in open, close or destroy: they are synchronized;  *)
(*   setter   a caller of setStatusCallback, which is not;                 *)
(*   event    the context's handler thread, in libusb or in a callback.     *)
(*                                                                         *)
(* A context has one device.  The preview that release stops first is       *)
(* UVCPreview; the control block is UsbMonitor's and gives a descriptor      *)
(* other than 0 (UVCCamera.cpp:95 is left out).  What a wild access does    *)
(* is not modelled: raced remembers it.                                    *)
(***************************************************************************)
EXTENDS Naturals

CONSTANTS
    Callbacks, None,
    MaxFd,          \* bound: the descriptors of the process
    MaxOpens,       \* bound: calls of open
    MaxOthers       \* bound: descriptors opened by others

ASSUME DeviceAssumption ==
    None \notin Callbacks /\ MaxFd \in Nat /\ MaxOpens \in Nat /\ MaxOthers \in Nat

VARIABLES
    mNativePtr,     \* FALSE for 0
    mContext,       \* FALSE for NULL, and once freed
    mFd, fds,       \* 0 or a descriptor; who has each descriptor open
    mDeviceHandle,  \* FALSE for NULL, and once freed
    devFd,          \* the descriptor libusb reads for the device
    status_xfer,    \* the status transfer
    status_cb, status_user_ptr, \* FALSE for NULL
    mStatusCallback, \* the callback object: FALSE if there is none
    mStatusCallbackObj, \* its reference to the application's
    status_mutex,
    kill_handler_thread,
    pc,             \* place of each thread
    wrapped,        \* the descriptor connect is about to keep
    passed,         \* what the setter was called with
    calling,        \* the reference onStatus is called on
    opens, others,  \* counted
    busy,           \* open was called while the device was open
    raced,          \* a callback object was used after its end, or too early
    stolen          \* a descriptor that somebody else had opened was closed

fd       == <<mFd, fds, devFd, wrapped, others, stolen>>
status   == <<status_xfer, status_cb, status_user_ptr>>
callback == <<mStatusCallback, mStatusCallbackObj, status_mutex, calling>>
object   == <<mNativePtr, mContext, mDeviceHandle, kill_handler_thread>>
counts   == <<opens, busy>>
vars == <<fd, status, callback, object, counts, pc, passed, raced>>

InCallback == {"status", "call", "notify", "unlock", "resubmit"}
EventPlaces == {"none", "loop", "wait", "over"} \cup InCallback
CallerPlaces == {"idle", "connect", "wrap", "thread", "callback", "pointer",
                 "release", "kill", "close", "join", "free", "delete", "forget"}

TypeOK ==
    /\ mNativePtr \in BOOLEAN /\ mContext \in BOOLEAN /\ mDeviceHandle \in BOOLEAN
    /\ mFd \in 0 .. MaxFd /\ devFd \in 0 .. MaxFd /\ wrapped \in 0 .. MaxFd
    /\ fds \in [1 .. MaxFd -> {"free", "camera", "other"}]
    /\ status_xfer \in {"none", "flying", "callback", "idle"}
    /\ status_cb \in BOOLEAN /\ status_user_ptr \in BOOLEAN
    /\ mStatusCallback \in BOOLEAN
    /\ mStatusCallbackObj \in Callbacks \cup {None}
    /\ status_mutex \in {"free", "event"}
    /\ kill_handler_thread \in BOOLEAN
    /\ pc \in [caller : CallerPlaces, setter : {"idle", "lock"},
               event : EventPlaces, destroying : BOOLEAN]
    /\ passed \in Callbacks \cup {None} /\ calling \in Callbacks \cup {None}
    /\ opens \in 0 .. MaxOpens /\ others \in 0 .. MaxOthers
    /\ busy \in BOOLEAN /\ raced \in BOOLEAN /\ stolen \in BOOLEAN

Init ==
    /\ mNativePtr = TRUE /\ mContext = FALSE /\ mDeviceHandle = FALSE
    /\ mFd = 0 /\ devFd = 0 /\ wrapped = 0
    /\ fds = [n \in 1 .. MaxFd |-> "free"]
    /\ status_xfer = "none" /\ status_cb = FALSE /\ status_user_ptr = FALSE
    /\ mStatusCallback = FALSE /\ mStatusCallbackObj = None
    /\ status_mutex = "free" /\ kill_handler_thread = FALSE
    /\ pc = [caller |-> "idle", setter |-> "idle", event |-> "none",
             destroying |-> FALSE]
    /\ passed = None /\ calling = None /\ opens = 0 /\ others = 0
    /\ busy = FALSE /\ raced = FALSE /\ stolen = FALSE

goto(t, place) == pc' = [pc EXCEPT ![t] = place]

----------------------------------------------------------------------------
(* Descriptors: the system gives the lowest number that is free. *)

IsLowest(n) == /\ n \in 1 .. MaxFd /\ fds[n] = "free"
               /\ \A k \in 1 .. n - 1 : fds[k] # "free"

closed(n) == /\ fds' = [fds EXCEPT ![n] = "free"]
             /\ stolen' = (stolen \/ fds[n] # "camera")

otherOpens ==
    /\ others < MaxOthers
    /\ \E n \in 1 .. MaxFd : IsLowest(n) /\ fds' = [fds EXCEPT ![n] = "other"]
    /\ others' = others + 1
    /\ UNCHANGED <<mFd, devFd, wrapped, stolen, status, callback, object,
                   counts, pc, passed, raced>>

----------------------------------------------------------------------------
(* open: UVCCamera::connect *)

\* The control block may have no descriptor to give.
open ==
    /\ pc.caller = "idle" /\ opens < MaxOpens
    /\ opens' = opens + 1
    /\ busy' = (busy \/ mDeviceHandle)
    /\ \/ mNativePtr /\ goto("caller", "connect")
       \/ UNCHANGED pc
    /\ UNCHANGED <<fd, status, callback, object, passed, raced>>

\* The descriptor that was kept is closed, whether or not the device is open.
connect ==
    /\ pc.caller = "connect"
    /\ IF mFd # 0 THEN closed(mFd) /\ mFd' = 0
       ELSE UNCHANGED <<mFd, fds, stolen>>
    /\ goto("caller", IF mDeviceHandle THEN "idle" ELSE "wrap")
    /\ UNCHANGED <<devFd, wrapped, others, status, callback, object, counts,
                   passed, raced>>

initFails ==
    /\ pc.caller = "wrap" /\ ~mContext
    /\ goto("caller", "idle")
    /\ UNCHANGED <<fd, status, callback, object, counts, passed, raced>>

\* Mutant: the duplicate is not closed when uvc_wrap fails.
wrapFailsOpen ==
    /\ pc.caller = "wrap"
    /\ mContext' = TRUE
    /\ \E n \in 1 .. MaxFd : IsLowest(n) /\ fds' = [fds EXCEPT ![n] = "camera"]
    /\ goto("caller", "idle")
    /\ UNCHANGED <<mFd, devFd, wrapped, others, stolen, status, callback,
                   mNativePtr, mDeviceHandle, kill_handler_thread, counts,
                   passed, raced>>

\* uvc_wrap fails: the duplicate is closed, the context stays.
wrapFails ==
    /\ pc.caller = "wrap"
    /\ mContext' = TRUE
    /\ goto("caller", "idle")
    /\ UNCHANGED <<fd, status, callback, mNativePtr, mDeviceHandle,
                   kill_handler_thread, counts, passed, raced>>

\* Not every camera has a status endpoint.
wrap ==
    /\ pc.caller = "wrap"
    /\ \E n \in 1 .. MaxFd :
          IsLowest(n) /\ fds' = [fds EXCEPT ![n] = "camera"]
          /\ wrapped' = n /\ devFd' = n
    /\ mContext' = TRUE /\ mDeviceHandle' = TRUE
    /\ status_xfer' \in {"none", "flying"}
    /\ goto("caller", "thread")
    /\ UNCHANGED <<mFd, others, stolen, status_cb, status_user_ptr, callback,
                   mNativePtr, kill_handler_thread, counts, passed, raced>>

startHandlerThread ==
    /\ pc.caller = "thread"
    /\ pc' = [pc EXCEPT !.caller = "callback", !.event = "loop"]
    /\ UNCHANGED <<fd, status, callback, object, counts, passed, raced>>

\* new UVCStatusCallback; uvc_set_status_callback stores one, then the other.
newStatusCallback ==
    /\ pc.caller = "callback"
    /\ mFd' = wrapped
    /\ mStatusCallback' = TRUE /\ mStatusCallbackObj' = None
    /\ status_mutex' = "free" /\ status_cb' = TRUE
    /\ goto("caller", "pointer")
    /\ UNCHANGED <<fds, devFd, wrapped, others, stolen, status_xfer,
                   status_user_ptr, calling, object, counts, passed, raced>>

setUserPtr ==
    /\ pc.caller = "pointer"
    /\ status_user_ptr' = TRUE
    /\ goto("caller", "idle")
    /\ UNCHANGED <<fd, status_xfer, status_cb, callback, object, counts,
                   passed, raced>>

----------------------------------------------------------------------------
(* close and destroy: UVCCamera::release, uvc_close, ~UVCCamera *)

Close(destroying) ==
    /\ pc.caller = "idle" /\ mNativePtr
    /\ pc' = [pc EXCEPT !.destroying = destroying,
              !.caller = IF mDeviceHandle THEN "release"
                         ELSE IF destroying THEN "delete" ELSE "idle"]
    /\ UNCHANGED <<fd, status, callback, object, counts, passed, raced>>

close == Close(FALSE)
destroy == Close(TRUE)

\* The callback object goes before the device is closed.
deleteStatusCallback ==
    /\ pc.caller = "release"
    /\ mStatusCallback' = FALSE
    /\ raced' = (raced \/ pc.event \in {"notify", "unlock"})
    /\ goto("caller", "kill")
    /\ UNCHANGED <<fd, status, mStatusCallbackObj, status_mutex, calling,
                   object, counts, passed>>

\* Mutant: the last device is not recognised, and nothing tells the thread.
killNobody ==
    /\ pc.caller = "kill" /\ goto("caller", "close")
    /\ UNCHANGED <<fd, status, callback, object, counts, passed, raced>>

killHandlerThread ==
    /\ pc.caller = "kill"
    /\ kill_handler_thread' = TRUE
    /\ goto("caller", "close")
    /\ UNCHANGED <<fd, status, callback, mNativePtr, mContext, mDeviceHandle,
                   counts, passed, raced>>

\* libusb_close waits for the lock of event handling, and interrupts it; it
\* drops the transfer that is in flight.
libusbClose ==
    /\ pc.caller = "close" /\ pc.event \notin InCallback
    /\ status_xfer' = IF status_xfer = "flying" THEN "idle" ELSE status_xfer
    /\ pc' = [pc EXCEPT !.caller = "join",
              !.event = IF @ = "wait" THEN "loop" ELSE @]
    /\ UNCHANGED <<fd, status_cb, status_user_ptr, callback, object, counts,
                   passed, raced>>

\* Mutant: the thread is left to end by itself.
joinNobody ==
    /\ pc.caller = "join" /\ goto("caller", "free")
    /\ UNCHANGED <<fd, status, callback, object, counts, passed, raced>>

joinHandlerThread ==
    /\ pc.caller = "join" /\ pc.event = "over"
    /\ pc' = [pc EXCEPT !.caller = "free", !.event = "none"]
    /\ UNCHANGED <<fd, status, callback, object, counts, passed, raced>>

freeDevice ==
    /\ pc.caller = "free"
    /\ mDeviceHandle' = FALSE
    /\ status_xfer' = "none" /\ status_cb' = FALSE /\ status_user_ptr' = FALSE
    /\ devFd' = 0
    /\ goto("caller", IF pc.destroying THEN "delete" ELSE "idle")
    /\ UNCHANGED <<mFd, fds, wrapped, others, stolen, callback, mNativePtr,
                   mContext, kill_handler_thread, counts, passed, raced>>

\* uvc_exit finds no open device; the descriptor is closed at last.
deleteCamera ==
    /\ pc.caller = "delete"
    /\ mContext' = FALSE
    /\ IF mFd # 0 THEN closed(mFd) /\ mFd' = 0
       ELSE UNCHANGED <<mFd, fds, stolen>>
    /\ goto("caller", "forget")
    /\ UNCHANGED <<devFd, wrapped, others, status, callback, mNativePtr,
                   mDeviceHandle, kill_handler_thread, counts, passed, raced>>

forgetNative ==
    /\ pc.caller = "forget"
    /\ mNativePtr' = FALSE
    /\ goto("caller", "idle")
    /\ UNCHANGED <<fd, status, callback, mContext, mDeviceHandle,
                   kill_handler_thread, counts, passed, raced>>

----------------------------------------------------------------------------
(* setStatusCallback *)

setStatusCallback(c) ==
    /\ pc.setter = "idle" /\ mNativePtr
    /\ raced' = (raced \/ pc.caller = "forget")
    /\ IF mStatusCallback THEN goto("setter", "lock") /\ passed' = c
       ELSE UNCHANGED <<pc, passed>>
    /\ UNCHANGED <<fd, status, callback, object, counts>>

\* Under status_mutex; the object may have gone since it was looked up.
setCallback ==
    /\ pc.setter = "lock"
    /\ \/ mStatusCallback /\ status_mutex = "free"
          /\ mStatusCallbackObj' = passed /\ raced' = raced
       \/ ~mStatusCallback /\ raced' = TRUE /\ UNCHANGED mStatusCallbackObj
    /\ goto("setter", "idle")
    /\ passed' = None
    /\ UNCHANGED <<fd, status, mStatusCallback, status_mutex, calling, object,
                   counts>>

----------------------------------------------------------------------------
(* _uvc_handle_events *)

handleEvents ==
    /\ pc.event = "loop"
    /\ goto("event", IF kill_handler_thread THEN "over" ELSE "wait")
    /\ UNCHANGED <<fd, status, callback, object, counts, passed, raced>>

\* After a minute, or for an event of another transfer.
handleEventsReturns ==
    /\ pc.event = "wait" /\ goto("event", "loop")
    /\ UNCHANGED <<fd, status, callback, object, counts, passed, raced>>

\* _uvc_status_callback, for a status that is to be given to the callback or a
\* retry, and for an error or the device's removal.
statusCallback ==
    /\ pc.event = "wait" /\ status_xfer = "flying"
    /\ \/ /\ status_xfer' = "callback"
          /\ \E place \in {"status", "resubmit"} : goto("event", place)
       \/ status_xfer' = "idle" /\ goto("event", "loop")
    /\ UNCHANGED <<fd, status_cb, status_user_ptr, callback, object, counts,
                   passed, raced>>

processStatus ==
    /\ pc.event = "status"
    /\ goto("event", IF status_cb THEN "call" ELSE "resubmit")
    /\ UNCHANGED <<fd, status, callback, object, counts, passed, raced>>

\* notifyStatusCallback takes the mutex of the object it was given.
notifyStatusCallback ==
    /\ pc.event = "call"
    /\ IF status_user_ptr /\ mStatusCallback
       THEN /\ status_mutex = "free" /\ status_mutex' = "event"
            /\ goto("event", "notify") /\ calling' = mStatusCallbackObj
            /\ UNCHANGED raced
       ELSE /\ raced' = TRUE /\ goto("event", "resubmit")
            /\ UNCHANGED <<status_mutex, calling>>
    /\ UNCHANGED <<fd, status, mStatusCallback, mStatusCallbackObj, object,
                   counts, passed>>

\* onStatus returns.
onStatus ==
    /\ pc.event = "notify"
    /\ calling' = None
    /\ goto("event", "unlock")
    /\ UNCHANGED <<fd, status, mStatusCallback, mStatusCallbackObj,
                   status_mutex, object, counts, passed, raced>>

unlock ==
    /\ pc.event = "unlock"
    /\ status_mutex' = "free"
    /\ goto("event", "resubmit")
    /\ UNCHANGED <<fd, status, mStatusCallback, mStatusCallbackObj, calling,
                   object, counts, passed, raced>>

\* libusb may refuse the transfer.
resubmit ==
    /\ pc.event = "resubmit"
    /\ status_xfer' \in {"flying", "idle"}
    /\ goto("event", "loop")
    /\ UNCHANGED <<fd, status_cb, status_user_ptr, callback, object, counts,
                   passed, raced>>

----------------------------------------------------------------------------
CallerStep ==
    \/ connect \/ initFails \/ wrapFails \/ wrap \/ startHandlerThread
    \/ newStatusCallback \/ setUserPtr \/ deleteStatusCallback
    \/ killHandlerThread \/ libusbClose \/ joinHandlerThread \/ freeDevice
    \/ deleteCamera \/ forgetNative

EventStep ==
    \/ handleEvents \/ handleEventsReturns \/ statusCallback \/ processStatus
    \/ notifyStatusCallback \/ onStatus \/ unlock \/ resubmit

Next ==
    \/ otherOpens \/ open \/ close \/ destroy \/ CallerStep \/ EventStep
    \/ \E c \in Callbacks \cup {None} : setStatusCallback(c)
    \/ setCallback

Spec == Init /\ [][Next]_vars

\* A thread that is ready runs; the event lock and the mutex are got when they
\* are free again and again; a callback of the application returns.
Fairness == SF_vars(CallerStep) /\ WF_vars(EventStep)

FairSpec == Spec /\ Fairness

----------------------------------------------------------------------------
(* Handle, transfer, context and the application's callback outlive their   *)
(* use by the event thread, whatever open, close, destroy and               *)
(* setStatusCallback do meanwhile; short of the callback object, which      *)
(* release deletes under it (UVCCamera.cpp:135).                           *)
NothingFreedInUse ==
    /\ pc.event \notin {"none", "over"} => mDeviceHandle /\ mContext
    /\ pc.event \in InCallback => status_xfer = "callback"
    /\ calling # None /\ ~raced => calling = mStatusCallbackObj

(* As long as the device is open it has its descriptor (device.c:274),      *)
(* unless open is called again; no other's descriptor is ever closed and a  *)
(* destroyed camera leaves none open.                                      *)
DescriptorsHeld ==
    /\ mDeviceHandle /\ ~busy => fds[devFd] = "camera"
    /\ ~stolen
    /\ ~mNativePtr => \A n \in DOMAIN fds : fds[n] # "camera"

(* close and destroy come to their end: the handler thread, waiting or in   *)
(* a callback, is told and joined.                                         *)
CloseEnds == pc.caller = "release" ~> pc.caller = "idle"

=============================================================================
