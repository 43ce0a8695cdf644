----------------------------- MODULE UVCPreview -----------------------------
(***************************************************************************)
(* The frame pipeline of jni/UVCCamera/UVCPreview.cpp.  Five kinds of       *)
(* threads share one UVCPreview object:                                    *)
(*                                                                         *)
(*   ctl      the Java thread in setPreviewDisplay, startPreview,           *)
(*            stopPreview or destroy (those are synchronized in            *)
(*            UVCCamera.java, so at most one of them runs at a time);      *)
(*   cap      the Java thread in setFrameCallback, startCapture or         *)
(*            stopCapture (these are not synchronized with the others);    *)
(*   usb      the libuvc thread that runs uvc_preview_frame_callback;      *)
(*   preview  preview_thread_func, one per started session;                *)
(*   capture  capture_thread_func, one per started session, indexed by     *)
(*            the session: an old one can outlive its session.             *)
(*                                                                         *)
(* A critical section in which nothing blocks is one action.  A thread     *)
(* blocked in pthread_cond_wait has the control state "waiting" (preview   *)
(* on preview_sync, capture on capture_sync) or "handshake" (cap on        *)
(* capture_sync); a signal picks one waiter and is lost when there is      *)
(* none.  mIsRunning and mIsCapturing are read and written outside the     *)
(* mutexes, as in the code.                                                *)
(***************************************************************************)
EXTENDS Integers, Sequences, FiniteSets

CONSTANTS
    Frame,          \* the uvc_frame_t the heap can hold at once (a bound)
    NoFrame,        \* the NULL frame pointer
    Window,         \* the ANativeWindow references setCaptureDisplay is given
    Callback,       \* the IFrameCallback objects setFrameCallback is given
    Null,           \* the NULL window or callback object
    Formats,        \* the frame formats the camera may negotiate
    MAX_FRAME,      \* capacity of previewFrames
    FRAME_POOL_SZ,  \* capacity of mFramePool
    MaxSessions,    \* bound on the successful calls of startPreview
    MaxCalls        \* bound on the calls of setCaptureDisplay/setFrameCallback

ASSUME FrameAssumption == NoFrame \notin Frame
ASSUME NullAssumption == Null \notin Window /\ Null \notin Callback
ASSUME FormatAssumption == Formats \subseteq {"mjpeg", "yuyv"}
ASSUME SizeAssumption == /\ MAX_FRAME \in Nat \ {0}
                         /\ FRAME_POOL_SZ \in Nat \ {0}
                         /\ MaxSessions \in Nat
                         /\ MaxCalls \in Nat

Thread == {"ctl", "cap", "usb", "preview"}
CaptureThread == 1 .. MaxSessions

\* The local variables that hold a frame: <<thread, session, variable>>.
Copy         == <<"usb", 0, "copy">>
FrameMjpeg   == <<"preview", 0, "frame_mjpeg">>
FrameYuyv    == <<"preview", 0, "frame">>
Converted    == <<"preview", 0, "converted">>
CapFrame(i)  == <<"capture", i, "frame">>
CapConv(i)   == <<"capture", i, "converted">>
CapBack(i)   == <<"capture", i, "callback_frame">>

Slot == {Copy, FrameMjpeg, FrameYuyv, Converted}
          \cup {CapFrame(i) : i \in CaptureThread}
          \cup {CapConv(i) : i \in CaptureThread}
          \cup {CapBack(i) : i \in CaptureThread}

VARIABLES
    alive,              \* the object exists (~UVCPreview has not run)
    aborted,            \* pthread_join was given a dead thread and aborted
    mIsRunning, mIsCapturing,
    mPreviewWindow,     \* a preview window is set
    mCaptureWindow, liveWindows,      \* liveWindows: references not released
    mFrameCallbackObj, liveCallbacks, \* liveCallbacks: global references held
    mFrameCallbackFunc, \* the callback's pixel format needs a conversion
    frameFormatType,    \* "mjpeg" or "yuyv", negotiated by prepare_preview
    previewFrames, captureQueu, mFramePool,
    heap,               \* frames allocated and not yet freed
    held,               \* the frame each local variable owns
    streaming,          \* libuvc may call uvc_preview_frame_callback
    session,            \* number of preview threads created so far
    capture_thread,     \* the pthread_t field: 0 or a session's capture thread
    joined,             \* the capture threads already joined
    releasing,          \* stopPreview was called by UVCCamera::release
    capture_mutex,      \* "free", or "cap" between two steps of a section
    calls,              \* calls made by cap so far
    arg,                \* the argument of cap's call in progress
    surface,            \* each capture thread is in do_capture_surface
    copying,            \* the window each capture thread is writing into
    calling,            \* the object whose onFrame each capture thread is in
    pc,                 \* control state of ctl, cap, usb and preview
    cpc                 \* control state of each capture thread

frameVars  == <<previewFrames, captureQueu, mFramePool, heap, held>>
windowVars == <<mPreviewWindow, mCaptureWindow, liveWindows>>
callVars   == <<mFrameCallbackObj, liveCallbacks, mFrameCallbackFunc>>
flagVars   == <<mIsRunning, mIsCapturing>>
lifeVars   == <<alive, aborted, streaming, session, capture_thread, joined,
                releasing, frameFormatType>>
apiVars    == <<capture_mutex, calls, arg>>
useVars    == <<surface, copying, calling>>
others == <<windowVars, callVars, flagVars, lifeVars, apiVars, useVars>>
vars == <<frameVars, others, pc, cpc>>

----------------------------------------------------------------------------
(* Frames: the pool, and how frames enter and leave it. *)

\* get_frame: the pool's last frame, a new one, or NULL if the heap is full.
GetFrame(slot) ==
    /\ \/ \E f \in mFramePool : /\ mFramePool' = mFramePool \ {f}
                                /\ held' = [held EXCEPT ![slot] = f]
                                /\ UNCHANGED heap
       \/ /\ mFramePool = {}
          /\ \E f \in Frame \ heap : /\ heap' = heap \cup {f}
                                     /\ held' = [held EXCEPT ![slot] = f]
          /\ UNCHANGED mFramePool
       \/ /\ mFramePool = {}
          /\ heap = Frame
          /\ held' = [held EXCEPT ![slot] = NoFrame]
          /\ UNCHANGED <<mFramePool, heap>>
    /\ UNCHANGED <<previewFrames, captureQueu>>

\* Mutant: a frame the pool has no room for is not freed.
RecycleLeak(S) ==
    /\ \E T \in SUBSET S :
          /\ T = S \/ Cardinality(mFramePool \cup T) = FRAME_POOL_SZ
          /\ Cardinality(mFramePool \cup T) <= FRAME_POOL_SZ
          /\ mFramePool' = mFramePool \cup T
    /\ UNCHANGED heap

\* recycle_frame on every frame of S: into the pool while it has room, and
\* to the allocator when it is full.
Recycle(S) ==
    \E T \in SUBSET S :
        /\ T = S \/ Cardinality(mFramePool \cup T) = FRAME_POOL_SZ
        /\ Cardinality(mFramePool \cup T) <= FRAME_POOL_SZ
        /\ mFramePool' = mFramePool \cup T
        /\ heap' = heap \ (S \ T)

\* recycle_frame on the frame a local variable owns (NULL is never passed).
RecycleLocal(slot) ==
    /\ Recycle({held[slot]})
    /\ held' = [held EXCEPT ![slot] = NoFrame]
    /\ UNCHANGED <<previewFrames, captureQueu>>

Queued == {previewFrames[k] : k \in 1 .. Len(previewFrames)}

clearPreviewFrame ==
    /\ Recycle(Queued)
    /\ previewFrames' = << >>
    /\ UNCHANGED <<captureQueu, held>>

\* Mutant: the queue slot is recycled without the test for NULL.
clearCaptureFrameNull ==
    /\ capture_mutex = "free"
    /\ Recycle({captureQueu})
    /\ captureQueu' = NoFrame
    /\ UNCHANGED <<previewFrames, held>>

clearCaptureFrame ==
    /\ capture_mutex = "free"
    /\ Recycle({captureQueu} \ {NoFrame})
    /\ captureQueu' = NoFrame
    /\ UNCHANGED <<previewFrames, held>>

(* Condition variables. *)

\* Mutant: the signal is forgotten.
PcWithoutSignal(thread, to) == [pc EXCEPT ![thread] = to]

\* pthread_cond_signal(&preview_sync), combined with the thread's own move.
PcAfterPreviewSignal(thread, to) ==
    [pc EXCEPT ![thread] = to,
               !["preview"] = IF @ = "waiting" THEN "woken" ELSE @]

\* capture_sync is waited on by capture threads (in waitCaptureFrame) and by
\* cap (in the handshake).
CaptureWaiting(i) == cpc[i] = "waiting"

SignalCapture(thread, to) ==
    \/ /\ pc["cap"] # "handshake"
       /\ \A i \in CaptureThread : ~CaptureWaiting(i)
       /\ pc' = [pc EXCEPT ![thread] = to]
       /\ UNCHANGED cpc
    \/ \E i \in CaptureThread :
          /\ CaptureWaiting(i)
          /\ cpc' = [cpc EXCEPT ![i] = "woken"]
          /\ pc' = [pc EXCEPT ![thread] = to]
    \/ /\ pc["cap"] = "handshake"
       /\ pc' = [pc EXCEPT ![thread] = to, !["cap"] = "replace"]
       /\ UNCHANGED cpc

CapAfterBroadcast(state) == IF state = "handshake" THEN "replace" ELSE state

----------------------------------------------------------------------------
(* ctl: setPreviewDisplay, startPreview, stopPreview, ~UVCPreview. *)

setPreviewDisplay ==
    /\ pc["ctl"] = "idle"
    /\ \E b \in BOOLEAN : mPreviewWindow' = b
    /\ UNCHANGED <<frameVars, mCaptureWindow, liveWindows, callVars, flagVars,
                   lifeVars, apiVars, useVars, pc, cpc>>

startPreview ==
    /\ pc["ctl"] = "idle" /\ ~mIsRunning
    /\ session < MaxSessions
    /\ mIsRunning' = TRUE
    /\ pc' = [pc EXCEPT !["ctl"] = "start"]
    /\ UNCHANGED <<frameVars, windowVars, callVars, mIsCapturing, lifeVars,
                   apiVars, useVars, cpc>>

\* pthread_create under preview_mutex.
startCreate ==
    /\ pc["ctl"] = "start"
    /\ mPreviewWindow
    /\ session' = session + 1
    /\ pc' = [pc EXCEPT !["ctl"] = "idle", !["preview"] = "prepare"]
    /\ UNCHANGED <<frameVars, windowVars, callVars, flagVars, alive, aborted,
                   streaming, capture_thread, joined, releasing,
                   frameFormatType, apiVars, useVars, cpc>>

\* No window, or pthread_create failed.
startFail ==
    /\ pc["ctl"] = "start"
    /\ mIsRunning' = FALSE
    /\ pc' = PcAfterPreviewSignal("ctl", "idle")
    /\ UNCHANGED <<frameVars, windowVars, callVars, mIsCapturing, lifeVars,
                   apiVars, useVars, cpc>>


\* Mutant: the threads are joined whether or not the preview runs.
stopPreviewAlways ==
    /\ pc["ctl"] = "idle"
    /\ releasing' \in BOOLEAN
    /\ mIsRunning' = FALSE
    /\ pc' = [pc EXCEPT !["ctl"] = "stop_signal_preview"]
    /\ UNCHANGED <<frameVars, windowVars, callVars, mIsCapturing, alive,
                   aborted, streaming, session, capture_thread, joined,
                   frameFormatType, apiVars, useVars, cpc>>

\* stopPreview, on its own or as the first call of UVCCamera::release.
stopPreview ==
    /\ pc["ctl"] = "idle"
    /\ releasing' \in BOOLEAN
    /\ IF mIsRunning
       THEN /\ mIsRunning' = FALSE
            /\ pc' = [pc EXCEPT !["ctl"] = "stop_signal_preview"]
       ELSE /\ UNCHANGED mIsRunning
            /\ pc' = [pc EXCEPT !["ctl"] = "stop_clear_preview"]
    /\ UNCHANGED <<frameVars, windowVars, callVars, mIsCapturing, alive,
                   aborted, streaming, session, capture_thread, joined,
                   frameFormatType, apiVars, useVars, cpc>>

stopSignalPreview ==
    /\ pc["ctl"] = "stop_signal_preview"
    /\ pc' = PcAfterPreviewSignal("ctl", "stop_signal_capture")
    /\ UNCHANGED <<frameVars, others, cpc>>

stopSignalCapture ==
    /\ pc["ctl"] = "stop_signal_capture"
    /\ SignalCapture("ctl", "stop_join_capture")
    /\ UNCHANGED <<frameVars, others>>

\* The field is read without a lock while preview_thread may still set it.
\* Joining a thread a second time is undefined: pthread_join returns an error,
\* which is logged, or aborts the process.
stopJoinCapture ==
    /\ pc["ctl"] = "stop_join_capture"
    /\ IF capture_thread \in CaptureThread \ joined
       THEN /\ pc' = [pc EXCEPT !["ctl"] = "stop_joining_capture"]
            /\ joined' = joined \cup {capture_thread}
            /\ UNCHANGED aborted
       ELSE /\ pc' = [pc EXCEPT !["ctl"] = "stop_join_preview"]
            /\ UNCHANGED joined
            /\ aborted' \in (IF capture_thread = 0 THEN {aborted} ELSE BOOLEAN)
    /\ UNCHANGED <<frameVars, windowVars, callVars, flagVars, alive,
                   streaming, session, capture_thread, releasing,
                   frameFormatType, apiVars, useVars, cpc>>

stopCaptureJoined ==
    /\ pc["ctl"] = "stop_joining_capture"
    /\ \A i \in joined : cpc[i] = "done"
    /\ pc' = [pc EXCEPT !["ctl"] = "stop_join_preview"]
    /\ UNCHANGED <<frameVars, others, cpc>>

\* Mutant: the preview thread is not joined.
stopPreviewUnjoined ==
    /\ pc["ctl"] = "stop_join_preview"
    /\ pc' = [pc EXCEPT !["ctl"] = "stop_clear_preview"]
    /\ UNCHANGED <<frameVars, others, cpc>>

stopPreviewJoined ==
    /\ pc["ctl"] = "stop_join_preview"
    /\ pc["preview"] = "done"
    /\ pc' = [pc EXCEPT !["ctl"] = "stop_clear_preview"]
    /\ UNCHANGED <<frameVars, others, cpc>>

\* clearPreviewFrame, and the release of the preview window.
stopClearPreview ==
    /\ pc["ctl"] = "stop_clear_preview"
    /\ clearPreviewFrame
    /\ mPreviewWindow' = FALSE
    /\ pc' = [pc EXCEPT !["ctl"] = "stop_clear_capture"]
    /\ UNCHANGED <<mCaptureWindow, liveWindows, callVars, flagVars, lifeVars,
                   apiVars, useVars, cpc>>

stopClearCapture ==
    /\ pc["ctl"] = "stop_clear_capture"
    /\ clearCaptureFrame
    /\ pc' = [pc EXCEPT !["ctl"] = "stop_release_window"]
    /\ UNCHANGED <<others, cpc>>

\* The release of the capture window, then back to the caller: the Java code,
\* or UVCCamera::release, which deletes the object next.
stopReleaseWindow ==
    /\ pc["ctl"] = "stop_release_window"
    /\ capture_mutex = "free"
    /\ mCaptureWindow' = Null
    /\ liveWindows' = liveWindows \ {mCaptureWindow}
    /\ pc' = [pc EXCEPT !["ctl"] = IF releasing THEN "delete" ELSE "idle"]
    /\ UNCHANGED <<frameVars, mPreviewWindow, callVars, flagVars, lifeVars,
                   apiVars, useVars, cpc>>

\* ~UVCPreview: the frames of the queues and of the pool are freed (a window
\* set since is released).  The callback's global reference is not deleted.
destructor ==
    /\ pc["ctl"] = "delete"
    /\ alive' = FALSE
    /\ heap' = heap \ (Queued \cup {captureQueu} \cup mFramePool)
    /\ previewFrames' = << >>
    /\ captureQueu' = NoFrame
    /\ mFramePool' = {}
    /\ mPreviewWindow' = FALSE
    /\ mCaptureWindow' = Null
    /\ liveWindows' = liveWindows \ {mCaptureWindow}
    /\ mFrameCallbackObj' = Null
    /\ pc' = [pc EXCEPT !["ctl"] = "idle"]
    /\ UNCHANGED <<held, liveCallbacks, mFrameCallbackFunc, flagVars, aborted,
                   streaming, session, capture_thread, joined, releasing,
                   frameFormatType, apiVars, useVars, cpc>>

----------------------------------------------------------------------------
(* cap: setCaptureDisplay (startCapture, stopCapture) and setFrameCallback. *)

Handshake == mIsRunning /\ mIsCapturing

\* The assignment of the window under capture_mutex.
ReplaceWindow(w) ==
    /\ mCaptureWindow' = w
    /\ liveWindows' = (IF w = mCaptureWindow THEN liveWindows
                       ELSE liveWindows \ {mCaptureWindow}) \cup ({w} \ {Null})
    /\ UNCHANGED <<mPreviewWindow, callVars>>

\* The assignment of the callback under capture_mutex; a non-NULL one also
\* sets the pixel format (callbackPixelFormatChanged).  That the object lacks
\* onFrame is left out: it is an IFrameCallback.
ReplaceCallback(c) ==
    /\ mFrameCallbackObj' = c
    /\ liveCallbacks' = (IF c = mFrameCallbackObj THEN liveCallbacks
                         ELSE liveCallbacks \ {mFrameCallbackObj})
                        \cup ({c} \ {Null})
    /\ IF c = Null THEN UNCHANGED mFrameCallbackFunc
                   ELSE mFrameCallbackFunc' \in BOOLEAN
    /\ UNCHANGED windowVars

Replace(op, x) == IF op = "window" THEN ReplaceWindow(x) ELSE ReplaceCallback(x)
Current(op) == IF op = "window" THEN mCaptureWindow ELSE mFrameCallbackObj

\* The argument of a call: NULL or a reference nothing else owns.
Argument == ({"window"} \X ((Window \ liveWindows) \cup {Null}))
              \cup ({"callback"} \X ((Callback \ liveCallbacks) \cup {Null}))

\* No capture to wait for: the value is replaced at once.
setWithoutWait ==
    /\ pc["cap"] = "idle" /\ calls < MaxCalls
    /\ capture_mutex = "free"
    /\ \E a \in Argument :
          /\ ~(Handshake /\ Current(a[1]) # Null)
          /\ Replace(a[1], a[2])
    /\ mIsCapturing' = IF Handshake THEN FALSE ELSE mIsCapturing
    /\ calls' = calls + 1
    /\ UNCHANGED <<frameVars, mIsRunning, lifeVars, capture_mutex, arg,
                   useVars, pc, cpc>>

\* mIsCapturing = false; the mutex is kept until the wait.
setBeginWait ==
    /\ pc["cap"] = "idle" /\ calls < MaxCalls
    /\ capture_mutex = "free"
    /\ Handshake
    /\ \E a \in Argument : Current(a[1]) # Null /\ arg' = a
    /\ mIsCapturing' = FALSE
    /\ capture_mutex' = "cap"
    /\ calls' = calls + 1
    /\ pc' = [pc EXCEPT !["cap"] = "signal"]
    /\ UNCHANGED <<frameVars, windowVars, callVars, mIsRunning, lifeVars,
                   useVars, cpc>>

\* pthread_cond_signal, then pthread_cond_wait, "wait finishing capturing".
setSignalAndWait ==
    /\ pc["cap"] = "signal"
    /\ SignalCapture("cap", "handshake")
    /\ capture_mutex' = "free"
    /\ UNCHANGED <<frameVars, windowVars, callVars, flagVars, lifeVars, calls,
                   arg, useVars>>

\* Woken by whatever signal came first: the value is replaced.
setReplace ==
    /\ pc["cap"] = "replace"
    /\ capture_mutex = "free"
    /\ Replace(arg[1], arg[2])
    /\ pc' = [pc EXCEPT !["cap"] = "idle"]
    /\ UNCHANGED <<frameVars, flagVars, lifeVars, apiVars, useVars, cpc>>

----------------------------------------------------------------------------
(* usb: uvc_preview_frame_callback and addPreviewFrame. *)

\* The two tests of isRunning, get_frame and uvc_duplicate_frame.
frameCallback ==
    /\ pc["usb"] = "idle" /\ streaming /\ mIsRunning
    /\ GetFrame(Copy)
    /\ pc' = [pc EXCEPT !["usb"] = IF held'[Copy] = NoFrame THEN "idle"
                                                            ELSE "copied"]
    /\ UNCHANGED <<others, cpc>>

\* Mutant: one more frame is let in.
QueueNotOver == Len(previewFrames) <= MAX_FRAME
QueueHasRoom == Len(previewFrames) < MAX_FRAME

addPreviewFrame ==
    /\ pc["usb"] = "copied"
    /\ mIsRunning /\ QueueHasRoom
    /\ previewFrames' = Append(previewFrames, held[Copy])
    /\ held' = [held EXCEPT ![Copy] = NoFrame]
    /\ pc' = PcAfterPreviewSignal("usb", "idle")
    /\ UNCHANGED <<captureQueu, mFramePool, heap, others, cpc>>

\* The frame could not be duplicated, or addPreviewFrame did not take it.
callbackRecycle ==
    /\ pc["usb"] = "copied"
    /\ RecycleLocal(Copy)
    /\ pc' = [pc EXCEPT !["usb"] = "idle"]
    /\ UNCHANGED <<others, cpc>>

----------------------------------------------------------------------------
(* preview: preview_thread_func, prepare_preview and do_preview. *)

PreviewMove(from, to) == pc["preview"] = from
                         /\ pc' = [pc EXCEPT !["preview"] = to]

preparePreview ==
    /\ \/ PreviewMove("prepare", "start_streaming")
       \/ PreviewMove("prepare", "done")   \* could not negotiate
    /\ frameFormatType' \in Formats
    /\ UNCHANGED <<frameVars, windowVars, callVars, flagVars, alive, aborted,
                   streaming, session, capture_thread, joined, releasing,
                   apiVars, useVars, cpc>>

startStreaming ==
    /\ \/ PreviewMove("start_streaming", "clear") /\ streaming' = TRUE
       \/ PreviewMove("start_streaming", "done") /\ UNCHANGED streaming
    /\ UNCHANGED <<frameVars, windowVars, callVars, flagVars, alive, aborted,
                   session, capture_thread, joined, releasing,
                   frameFormatType, apiVars, useVars, cpc>>

previewClear ==
    /\ PreviewMove("clear", "create_capture")
    /\ clearPreviewFrame
    /\ UNCHANGED <<others, cpc>>

\* pthread_create is taken to succeed here: its result is not tested.
createCapture ==
    /\ PreviewMove("create_capture", "loop")
    /\ capture_thread' = session
    /\ cpc' = [cpc EXCEPT ![session] = "clear"]
    /\ UNCHANGED <<frameVars, windowVars, callVars, flagVars, alive, aborted,
                   streaming, session, joined, releasing, frameFormatType,
                   apiVars, useVars>>

previewLoop ==
    /\ IF mIsRunning THEN PreviewMove("loop", "wait_frame")
                     ELSE PreviewMove("loop", "signal_capture")
    /\ UNCHANGED <<frameVars, others, cpc>>

\* waitPreviewFrame finds the queue empty and waits: isRunning is not tested.
waitPreviewFrame ==
    /\ previewFrames = << >>
    /\ PreviewMove("wait_frame", "waiting")
    /\ UNCHANGED <<frameVars, others, cpc>>

\* Mutant: the newest frame is taken (ObjectArray::last for remove(0)).
RemoveLast(slot) ==
    /\ previewFrames' = SubSeq(previewFrames, 1, Len(previewFrames) - 1)
    /\ held' = [held EXCEPT ![slot] = previewFrames[Len(previewFrames)]]

\* previewFrames.remove(0)
RemoveFirst(slot) ==
    /\ previewFrames' = Tail(previewFrames)
    /\ held' = [held EXCEPT ![slot] = Head(previewFrames)]

\* waitPreviewFrame takes the head, at once or after its one wait.
takePreviewFrame ==
    /\ \/ pc["preview"] = "woken"
       \/ pc["preview"] = "wait_frame" /\ previewFrames # << >>
    /\ IF mIsRunning /\ previewFrames # << >>
       THEN /\ RemoveFirst(IF frameFormatType = "mjpeg" THEN FrameMjpeg
                                                        ELSE FrameYuyv)
            /\ pc' = [pc EXCEPT !["preview"] = IF frameFormatType = "mjpeg"
                                               THEN "get_yuyv" ELSE "draw"]
       ELSE /\ pc' = [pc EXCEPT !["preview"] = "loop"]
            /\ UNCHANGED <<previewFrames, held>>
    /\ UNCHANGED <<captureQueu, mFramePool, heap, others, cpc>>

\* The result of get_frame is not tested here: the model assumes a frame.
getYuyv ==
    /\ PreviewMove("get_yuyv", "mjpeg2yuyv")
    /\ GetFrame(FrameYuyv)
    /\ held'[FrameYuyv] # NoFrame
    /\ UNCHANGED <<others, cpc>>

\* uvc_mjpeg2yuyv and recycle_frame(frame_mjpeg); if the decoder failed, the
\* new frame is recycled too.
decodeMjpeg ==
    /\ PreviewMove("mjpeg2yuyv", "draw")
    /\ RecycleLocal(FrameMjpeg)
    /\ UNCHANGED <<others, cpc>>

decodeFails ==
    /\ PreviewMove("mjpeg2yuyv", "loop")
    /\ Recycle({held[FrameMjpeg], held[FrameYuyv]})
    /\ held' = [held EXCEPT ![FrameMjpeg] = NoFrame, ![FrameYuyv] = NoFrame]
    /\ UNCHANGED <<previewFrames, captureQueu, others, cpc>>

\* draw_preview_one: nothing without a window, or without a frame to convert.
drawPreview ==
    /\ pc["preview"] = "draw"
    /\ \/ /\ mPreviewWindow
          /\ GetFrame(Converted)
       \/ /\ ~mPreviewWindow
          /\ UNCHANGED frameVars
    /\ pc' = [pc EXCEPT !["preview"] = IF held'[Converted] = NoFrame
                                       THEN "add_capture" ELSE "convert"]
    /\ UNCHANGED <<others, cpc>>

\* Conversion and copyToSurface under preview_mutex, then recycle_frame.
copyToPreview ==
    /\ PreviewMove("convert", "add_capture")
    /\ RecycleLocal(Converted)
    /\ UNCHANGED <<others, cpc>>

\* addCaptureFrame keeps only the latest frame; when the preview has been
\* stopped the frame is neither queued nor recycled.
addCaptureFrame ==
    /\ pc["preview"] = "add_capture"
    /\ capture_mutex = "free"
    /\ held' = [held EXCEPT ![FrameYuyv] = NoFrame]
    /\ IF mIsRunning
       THEN /\ Recycle({captureQueu} \ {NoFrame})
            /\ captureQueu' = held[FrameYuyv]
            /\ pc' = [pc EXCEPT !["preview"] = "loop",
                                !["cap"] = CapAfterBroadcast(@)]
            /\ cpc' = [i \in CaptureThread |->
                        IF CaptureWaiting(i) THEN "woken" ELSE cpc[i]]
       ELSE /\ pc' = [pc EXCEPT !["preview"] = "loop"]
            /\ UNCHANGED <<captureQueu, mFramePool, heap, cpc>>
    /\ UNCHANGED <<previewFrames, others>>

previewSignalCapture ==
    /\ pc["preview"] = "signal_capture"
    /\ SignalCapture("preview", "stop_streaming")
    /\ UNCHANGED <<frameVars, others>>

\* uvc_stop_streaming returns once the libuvc thread has left the callback.
stopStreaming ==
    /\ PreviewMove("stop_streaming", "done")
    /\ pc["usb"] = "idle"
    /\ streaming' = FALSE
    /\ UNCHANGED <<frameVars, windowVars, callVars, flagVars, alive, aborted,
                   session, capture_thread, joined, releasing,
                   frameFormatType, apiVars, useVars, cpc>>

----------------------------------------------------------------------------
(* capture: do_capture, do_capture_surface, do_capture_idle_loop and         *)
(* do_capture_callback, for the capture thread of session i.                *)

CaptureMove(i, from, to) == cpc[i] = from
                            /\ cpc' = [cpc EXCEPT ![i] = to]

\* callbackPixelFormatChanged computes again what setFrameCallback has set.
captureClear(i) ==
    /\ CaptureMove(i, "clear", "loop")
    /\ clearCaptureFrame
    /\ UNCHANGED <<others, pc>>

\* Mutant: the loop also ends when capturing is switched off.
captureLoopOnce(i) ==
    /\ IF mIsRunning /\ mIsCapturing THEN CaptureMove(i, "loop", "begin")
                                     ELSE CaptureMove(i, "loop", "done")
    /\ UNCHANGED <<frameVars, others, pc>>

captureLoop(i) ==
    /\ IF mIsRunning THEN CaptureMove(i, "loop", "begin")
                     ELSE CaptureMove(i, "loop", "done")
    /\ UNCHANGED <<frameVars, others, pc>>

captureBegin(i) ==
    /\ CaptureMove(i, "begin", "choose")
    /\ mIsCapturing' = TRUE
    /\ UNCHANGED <<frameVars, windowVars, callVars, mIsRunning, lifeVars,
                   apiVars, useVars, pc>>

\* mCaptureWindow is read outside capture_mutex.
captureChoose(i) ==
    /\ CaptureMove(i, "choose", "inner")
    /\ surface' = [surface EXCEPT ![i] = mCaptureWindow # Null]
    /\ UNCHANGED <<frameVars, windowVars, callVars, flagVars, lifeVars,
                   apiVars, copying, calling, pc>>

captureInner(i) ==
    /\ IF mIsRunning /\ mIsCapturing
       THEN CaptureMove(i, "inner", "wait_frame")
       ELSE CaptureMove(i, "inner", IF surface[i] THEN "exit" ELSE "broadcast")
    /\ UNCHANGED <<frameVars, others, pc>>

\* waitCaptureFrame finds no frame and waits: isRunning is not tested.
waitCaptureFrame(i) ==
    /\ capture_mutex = "free"
    /\ captureQueu = NoFrame
    /\ CaptureMove(i, "wait_frame", "waiting")
    /\ UNCHANGED <<frameVars, others, pc>>

takeCaptureFrame(i) ==
    /\ capture_mutex = "free"
    /\ \/ cpc[i] = "woken"
       \/ cpc[i] = "wait_frame" /\ captureQueu # NoFrame
    /\ IF mIsRunning /\ captureQueu # NoFrame
       THEN /\ held' = [held EXCEPT ![CapFrame(i)] = captureQueu]
            /\ captureQueu' = NoFrame
            /\ cpc' = [cpc EXCEPT ![i] = IF surface[i] THEN "to_surface"
                                                       ELSE "callback"]
       ELSE /\ cpc' = [cpc EXCEPT ![i] = "inner"]
            /\ UNCHANGED <<held, captureQueu>>
    /\ UNCHANGED <<previewFrames, mFramePool, heap, others, pc>>

\* The frame for the conversion is taken once and kept until the loop ends.
surfaceGetFrame(i) ==
    /\ cpc[i] = "to_surface"
    /\ IF mIsCapturing /\ held[CapConv(i)] = NoFrame
       THEN GetFrame(CapConv(i))
       ELSE UNCHANGED frameVars
    /\ cpc' = [cpc EXCEPT ![i] =
                 IF mIsCapturing /\ held'[CapConv(i)] # NoFrame
                 THEN "copy" ELSE "callback"]
    /\ UNCHANGED <<others, pc>>

\* copyToSurface on the window read outside capture_mutex; not reached when
\* the conversion fails.
copyToSurface(i) ==
    /\ cpc[i] = "copy"
    /\ \/ /\ mCaptureWindow # Null
          /\ copying' = [copying EXCEPT ![i] = mCaptureWindow]
          /\ cpc' = [cpc EXCEPT ![i] = "copying"]
       \/ /\ cpc' = [cpc EXCEPT ![i] = "callback"]
          /\ UNCHANGED copying
    /\ UNCHANGED <<frameVars, windowVars, callVars, flagVars, lifeVars,
                   apiVars, surface, calling, pc>>

unlockAndPost(i) ==
    /\ CaptureMove(i, "copying", "callback")
    /\ copying' = [copying EXCEPT ![i] = Null]
    /\ UNCHANGED <<frameVars, windowVars, callVars, flagVars, lifeVars,
                   apiVars, surface, calling, pc>>

\* do_capture_callback tests the callback object outside capture_mutex.
captureCallback(i) ==
    /\ CaptureMove(i, "callback",
                   IF mFrameCallbackObj = Null THEN "recycle"
                   ELSE IF mFrameCallbackFunc THEN "convert" ELSE "call")
    /\ UNCHANGED <<frameVars, others, pc>>

\* get_frame for the converted frame; without one the frame is only recycled.
callbackGet(i) ==
    /\ cpc[i] = "convert"
    /\ GetFrame(CapBack(i))
    /\ cpc' = [cpc EXCEPT ![i] = IF held'[CapBack(i)] = NoFrame
                                 THEN "recycle" ELSE "converted"]
    /\ UNCHANGED <<others, pc>>

\* Mutant: the converted frame is recycled in place of the original.
callbackSwapped(i) ==
    /\ \/ CaptureMove(i, "converted", "call")
       \/ CaptureMove(i, "converted", "recycle")
    /\ Recycle({held[CapBack(i)]})
    /\ held' = [held EXCEPT ![CapFrame(i)] = held[CapBack(i)],
                            ![CapBack(i)] = NoFrame]
    /\ UNCHANGED <<previewFrames, captureQueu, others, pc>>

\* The frame is recycled and callback_frame takes its place, also when the
\* conversion fails and onFrame is skipped.
callbackConverted(i) ==
    /\ \/ CaptureMove(i, "converted", "call")
       \/ CaptureMove(i, "converted", "recycle")
    /\ Recycle({held[CapFrame(i)]})
    /\ held' = [held EXCEPT ![CapFrame(i)] = held[CapBack(i)],
                            ![CapBack(i)] = NoFrame]
    /\ UNCHANGED <<previewFrames, captureQueu, others, pc>>

\* CallVoidMethod on the object as it is read now.
callOnFrame(i) ==
    /\ CaptureMove(i, "call", "on_frame")
    /\ calling' = [calling EXCEPT ![i] = mFrameCallbackObj]
    /\ UNCHANGED <<frameVars, windowVars, callVars, flagVars, lifeVars,
                   apiVars, surface, copying, pc>>

onFrameReturns(i) ==
    /\ CaptureMove(i, "on_frame", "recycle")
    /\ calling' = [calling EXCEPT ![i] = Null]
    /\ UNCHANGED <<frameVars, windowVars, callVars, flagVars, lifeVars,
                   apiVars, surface, copying, pc>>

captureRecycle(i) ==
    /\ CaptureMove(i, "recycle", "inner")
    /\ RecycleLocal(CapFrame(i))
    /\ UNCHANGED <<others, pc>>

\* do_capture_surface ends: the converted frame is recycled, then the window
\* is released and forgotten, outside capture_mutex.
surfaceRecycle(i) ==
    /\ CaptureMove(i, "exit", "release_window")
    /\ IF held[CapConv(i)] # NoFrame
       THEN RecycleLocal(CapConv(i))
       ELSE UNCHANGED frameVars
    /\ UNCHANGED <<others, pc>>

surfaceRelease(i) ==
    /\ CaptureMove(i, "release_window",
                   IF mCaptureWindow # Null THEN "forget_window"
                                            ELSE "broadcast")
    /\ liveWindows' = liveWindows \ {mCaptureWindow}
    /\ UNCHANGED <<frameVars, mPreviewWindow, mCaptureWindow, callVars,
                   flagVars, lifeVars, apiVars, useVars, pc>>

surfaceForget(i) ==
    /\ CaptureMove(i, "forget_window", "broadcast")
    /\ mCaptureWindow' = Null
    /\ UNCHANGED <<frameVars, mPreviewWindow, liveWindows, callVars, flagVars,
                   lifeVars, apiVars, useVars, pc>>

captureBroadcast(i) ==
    /\ cpc[i] = "broadcast"
    /\ cpc' = [j \in CaptureThread |->
                 IF j = i THEN "loop"
                 ELSE IF CaptureWaiting(j) THEN "woken" ELSE cpc[j]]
    /\ pc' = [pc EXCEPT !["cap"] = CapAfterBroadcast(@)]
    /\ UNCHANGED <<frameVars, others>>

----------------------------------------------------------------------------
Init ==
    /\ alive = TRUE /\ aborted = FALSE
    /\ mIsRunning = FALSE /\ mIsCapturing = FALSE
    /\ mPreviewWindow = FALSE
    /\ mCaptureWindow = Null /\ liveWindows = {}
    /\ mFrameCallbackObj = Null /\ liveCallbacks = {}
    /\ mFrameCallbackFunc = FALSE
    /\ frameFormatType = "yuyv"
    /\ previewFrames = << >> /\ captureQueu = NoFrame
    /\ mFramePool = {} /\ heap = {}
    /\ held = [s \in Slot |-> NoFrame]
    /\ streaming = FALSE /\ session = 0
    /\ capture_thread = 0 /\ joined = {} /\ releasing = FALSE
    /\ capture_mutex = "free" /\ calls = 0 /\ arg = <<"window", Null>>
    /\ surface = [i \in CaptureThread |-> FALSE]
    /\ copying = [i \in CaptureThread |-> Null]
    /\ calling = [i \in CaptureThread |-> Null]
    /\ pc = [t \in Thread |-> IF t = "preview" THEN "done" ELSE "idle"]
    /\ cpc = [i \in CaptureThread |-> "none"]

\* The steps a thread takes on its own once an operation has begun.
CtlStep == \/ startCreate \/ startFail
           \/ stopSignalPreview \/ stopSignalCapture \/ stopJoinCapture
           \/ stopCaptureJoined \/ stopPreviewJoined
           \/ stopClearPreview \/ stopClearCapture \/ stopReleaseWindow
           \/ destructor
CapStep == setSignalAndWait \/ setReplace
UsbStep == addPreviewFrame \/ callbackRecycle
PreviewStep == \/ preparePreview \/ startStreaming \/ previewClear
               \/ createCapture \/ previewLoop \/ waitPreviewFrame
               \/ takePreviewFrame \/ getYuyv \/ decodeMjpeg \/ decodeFails
               \/ drawPreview \/ copyToPreview \/ addCaptureFrame
               \/ previewSignalCapture \/ stopStreaming
CaptureStep(i) == \/ captureClear(i) \/ captureLoop(i) \/ captureBegin(i)
                  \/ captureChoose(i) \/ captureInner(i)
                  \/ waitCaptureFrame(i) \/ takeCaptureFrame(i)
                  \/ surfaceGetFrame(i) \/ copyToSurface(i)
                  \/ unlockAndPost(i) \/ captureCallback(i) \/ callbackGet(i)
                  \/ callbackConverted(i) \/ callOnFrame(i)
                  \/ onFrameReturns(i) \/ captureRecycle(i)
                  \/ surfaceRecycle(i) \/ surfaceRelease(i)
                  \/ surfaceForget(i) \/ captureBroadcast(i)

\* Calls from Java and frames from libuvc, which need not come.
Environment == \/ setPreviewDisplay \/ startPreview \/ stopPreview
               \/ setWithoutWait \/ setBeginWait \/ frameCallback

\* Nothing is said of the object once it is deleted or the process aborted.
Next == /\ alive /\ ~aborted
        /\ \/ Environment \/ CtlStep \/ CapStep \/ UsbStep \/ PreviewStep
           \/ \E i \in CaptureThread : CaptureStep(i)

Fairness == /\ WF_vars(alive /\ ~aborted /\ CtlStep)
            /\ WF_vars(alive /\ ~aborted /\ CapStep)
            /\ WF_vars(alive /\ ~aborted /\ UsbStep)
            /\ WF_vars(alive /\ ~aborted /\ PreviewStep)
            /\ \A i \in CaptureThread :
                  WF_vars(alive /\ ~aborted /\ CaptureStep(i))

Spec == Init /\ [][Next]_vars
FairSpec == Spec /\ Fairness

----------------------------------------------------------------------------
(* Properties *)

FrameTypeOK ==
    /\ previewFrames \in Seq(Frame)
    /\ captureQueu \in Frame \cup {NoFrame}
    /\ mFramePool \subseteq Frame /\ heap \subseteq Frame
    /\ held \in [Slot -> Frame \cup {NoFrame}]

WindowTypeOK == /\ mPreviewWindow \in BOOLEAN
                /\ mCaptureWindow \in Window \cup {Null}
                /\ liveWindows \subseteq Window
CallTypeOK == /\ mFrameCallbackObj \in Callback \cup {Null}
              /\ liveCallbacks \subseteq Callback
              /\ mFrameCallbackFunc \in BOOLEAN
FlagTypeOK == mIsRunning \in BOOLEAN /\ mIsCapturing \in BOOLEAN
LifeTypeOK == /\ alive \in BOOLEAN /\ aborted \in BOOLEAN
              /\ streaming \in BOOLEAN /\ releasing \in BOOLEAN
              /\ session \in 0 .. MaxSessions
              /\ capture_thread \in 0 .. MaxSessions
              /\ joined \subseteq CaptureThread
              /\ frameFormatType \in {"mjpeg", "yuyv"}
ApiTypeOK == /\ capture_mutex \in {"free", "cap"} /\ calls \in 0 .. MaxCalls
             /\ arg \in ({"window"} \X (Window \cup {Null}))
                          \cup ({"callback"} \X (Callback \cup {Null}))
UseTypeOK == /\ surface \in [CaptureThread -> BOOLEAN]
             /\ copying \in [CaptureThread -> Window \cup {Null}]
             /\ calling \in [CaptureThread -> Callback \cup {Null}]
CtlState == {"idle", "start", "stop_signal_preview", "stop_signal_capture",
             "stop_join_capture", "stop_joining_capture", "stop_join_preview",
             "stop_clear_preview", "stop_clear_capture",
             "stop_release_window", "delete"}
CapState == {"idle", "signal", "handshake", "replace"}
UsbState == {"idle", "copied"}
PreviewState == {"prepare", "start_streaming", "clear", "create_capture",
                 "loop", "wait_frame", "waiting", "woken", "get_yuyv",
                 "mjpeg2yuyv", "draw", "convert", "add_capture",
                 "signal_capture", "stop_streaming", "done"}
CaptureUses == {"to_surface", "copy", "copying", "callback", "convert",
                "converted", "call", "on_frame", "recycle"}
CaptureState == {"none", "clear", "loop", "begin", "choose", "inner",
                 "wait_frame", "waiting", "woken", "exit", "release_window",
                 "forget_window", "broadcast", "done"} \cup CaptureUses
PcTypeOK == /\ pc \in [Thread -> CtlState \cup CapState \cup UsbState
                                          \cup PreviewState]
            /\ pc["ctl"] \in CtlState /\ pc["cap"] \in CapState
            /\ pc["usb"] \in UsbState /\ pc["preview"] \in PreviewState
            /\ cpc \in [CaptureThread -> CaptureState]

\* The variables have the types of their declarations.
TypeOK == /\ FrameTypeOK /\ WindowTypeOK /\ CallTypeOK /\ FlagTypeOK
          /\ LifeTypeOK /\ ApiTypeOK /\ UseTypeOK /\ PcTypeOK

Held == {held[s] : s \in Slot} \ {NoFrame}

\* recycle_frame and the queues hand each frame from one owner to the next:
\* no frame is in two places, and none is used or recycled once it is freed.
FrameOwnership ==
    /\ \A s, t \in Slot : s # t /\ held[s] # NoFrame => held[s] # held[t]
    /\ \A k, l \in 1 .. Len(previewFrames) :
          k # l => previewFrames[k] # previewFrames[l]
    /\ Held \cap (Queued \cup mFramePool \cup {captureQueu}) = {}
    /\ Queued \cap (mFramePool \cup {captureQueu}) = {}
    /\ captureQueu \notin mFramePool
    /\ Held \cup Queued \cup mFramePool \cup ({captureQueu} \ {NoFrame})
         \subseteq heap

\* What the ownership rests on: in the states in which a thread uses or passes
\* on a frame, its local variable does hold one (recycle_frame is never given
\* a NULL frame, nor the queues).
HoldersFull ==
    /\ pc["usb"] = "copied" => held[Copy] # NoFrame
    /\ pc["preview"] \in {"get_yuyv", "mjpeg2yuyv"} =>
          held[FrameMjpeg] # NoFrame
    /\ pc["preview"] \in {"mjpeg2yuyv", "draw", "convert", "add_capture"} =>
          held[FrameYuyv] # NoFrame
    /\ pc["preview"] = "convert" => held[Converted] # NoFrame
    /\ \A i \in CaptureThread :
          /\ cpc[i] \in CaptureUses => held[CapFrame(i)] # NoFrame
          /\ cpc[i] = "converted" => held[CapBack(i)] # NoFrame

\* A frame no queue, pool or thread owns any more: addCaptureFrame drops the
\* frame it is given once the preview is being stopped.
Lost == heap \ (Held \cup Queued \cup mFramePool \cup {captureQueu})

\* ... and that costs at most one frame for each started session.
LostBound == Cardinality(Lost) <= session

\* previewFrames and mFramePool never outgrow their capacity.
Capacity == /\ Len(previewFrames) <= MAX_FRAME
            /\ Cardinality(mFramePool) <= FRAME_POOL_SZ

\* When stopPreview has returned (or the preview never started) the preview
\* thread has ended, libuvc is not streaming and makes no callback, and no
\* frame is left in a queue.
StoppedIsQuiet ==
    ~mIsRunning /\ pc["ctl"] \in {"idle", "delete"} =>
        /\ pc["preview"] = "done" /\ pc["usb"] = "idle" /\ ~streaming
        /\ previewFrames = << >> /\ captureQueu = NoFrame

\* do_capture does not return while the preview runs ("never return until
\* finish previewing").
CaptureUntilStop ==
    \A i \in CaptureThread :
        i = session /\ cpc[i] = "done" => ~mIsRunning \/ pc["ctl"] = "start"

\* pthread_join is given a thread it has joined already only from the second
\* session on (capture_thread keeps its old value until do_preview sets it).
JoinOnceInFirstSession == aborted => session > 1

\* previewFrames is a queue: while the preview runs, frames leave from the
\* head, one at a time, and enter at the tail.
PreviewQueueStep ==
    mIsRunning /\ streaming /\ pc["preview"] # "clear" =>
        \/ previewFrames' = previewFrames
        \/ previewFrames # << >> /\ previewFrames' = Tail(previewFrames)
        \/ \E f \in Frame : previewFrames' = Append(previewFrames, f)
PreviewQueueFifo == [][PreviewQueueStep]_vars

\* A frame put into previewFrames leaves it again unless the preview is
\* stopped: addPreviewFrame's signal is never lost.
FrameTaken ==
    \A f \in Frame : f \in Queued ~> (f \notin Queued \/ ~mIsRunning)

\* The case in which stopPreview does return: both threads wait when it
\* signals, and nobody else can take the signal of the capture thread.
BothWaiting ==
    /\ pc["ctl"] = "stop_signal_preview" /\ pc["preview"] = "waiting"
    /\ capture_thread = session /\ pc["cap"] = "idle"
    /\ \A i \in CaptureThread :
          cpc[i] = (IF i = session THEN "waiting"
                    ELSE IF i \in joined THEN "done" ELSE "none")
StopReturnsIfBothWait == BothWaiting ~> pc["ctl"] = "idle"

\* stopPreview returns.  It does not always: both of its signals can come
\* between a thread's test of mIsRunning and its wait.
StopReturns == pc["ctl"] = "stop_signal_preview" ~> pc["ctl"] = "idle"

\* "wait finishing capturing" (UVCPreview.cpp:239, 698): while the preview runs
\* the callback object is not deleted while the capture thread calls it, nor the
\* window released while the thread copies into it.  It does not hold: any
\* broadcast ends the wait; no run checks it (README, section 6).
CapturingFinished ==
    \A i \in CaptureThread :
        mIsRunning => /\ cpc[i] = "on_frame" => calling[i] \in liveCallbacks
                      /\ cpc[i] = "copying" => copying[i] \in liveWindows

=============================================================================
