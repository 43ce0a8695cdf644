----------------------------- MODULE UvcStream -----------------------------
(***************************************************************************)
(* One video stream of jni/libuvc/src/stream.c: uvc_start_streaming,        *)
(* uvc_stop_streaming, the completion callback of its USB transfers and     *)
(* the thread that hands frames to the user.  Three threads:                *)
(*                                                                         *)
(*   ctl    the thread that starts and stops the stream (UVCPreview's       *)
(*          preview thread);                                               *)
(*   event  _uvc_handle_events, which runs _uvc_stream_callback for one     *)
(*          transfer at a time;                                            *)
(*   user   _uvc_user_caller, one per stream.                              *)
(*                                                                         *)
(* libusb is external: a submitted transfer completes at some time, also    *)
(* when the camera is silent (its timeout is five seconds), and the         *)
(* callback then owns it until it is resubmitted or freed.  The payloads    *)
(* of a transfer are abstracted to what they do to the working buffer:      *)
(* they write data of one frame, publish it or are ignored; UvcPayload      *)
(* models how that is decided.  A buffer holds the sequence number of the   *)
(* frame last written into it.                                             *)
(***************************************************************************)
EXTENDS Integers

CONSTANTS
    Transfer,       \* the LIBUVC_NUM_TRANSFER_BUFS entries of transfers
    NoTransfer,     \* no transfer's callback is running
    MaxFrames,      \* bound on the frames a stream publishes
    MaxStreams      \* bound on the streams opened

ASSUME TransferAssumption == NoTransfer \notin Transfer
ASSUME BoundAssumption == MaxFrames \in Nat /\ MaxStreams \in Nat

VARIABLES
    strmh,          \* the uvc_stream_handle_t exists
    running,        \* strmh->running
    transfers,      \* the entries of strmh->transfers that are not NULL
    allocated,      \* transfers allocated and not freed
    submitted,      \* transfers in flight at libusb
    cancelling,     \* those of them a cancellation was requested for
    current,        \* the transfer whose callback runs
    todo,           \* transfers the loop of ctl has still to visit
    buf,            \* contents of the two image buffers
    out,            \* which of them is outbuf; the other is holdbuf
    got,            \* got_bytes is not 0
    seq, hold_seq,  \* number of the frame being filled, and of that held
    last_seq,       \* the user thread's local variable
    frame,          \* strmh->frame: first and second half of the data
    mutex,          \* cb_mutex: its owner between two steps, or "free"
    streams,        \* number of streams opened so far
    cancelFailed,   \* the cancellation of a transfer in flight failed
    pc

usbVars    == <<transfers, allocated, submitted, cancelling, current, todo>>
bufferVars == <<buf, out, got, seq, hold_seq>>
userVars   == <<last_seq, frame>>
lifeVars   == <<strmh, running, streams, cancelFailed>>
vars == <<usbVars, bufferVars, userVars, lifeVars, mutex, pc>>

holdbuf == 3 - out

Move(t, from, to) == pc[t] = from /\ pc' = [pc EXCEPT ![t] = to]

\* pthread_cond_broadcast on cb_cond, by thread t, which goes on at state to.
Broadcast(t, to) ==
    pc' = [s \in DOMAIN pc |->
             IF s = t THEN to
             ELSE IF pc[s] = "cond_wait" THEN "lock" ELSE pc[s]]

----------------------------------------------------------------------------
(* ctl: uvc_start_streaming *)

\* uvc_stream_open_ctrl: the handle is zeroed (calloc).  The model ends with the
\* stream in which a cancellation failed.
openStream ==
    /\ Move("ctl", "idle", "start")
    /\ streams < MaxStreams /\ ~cancelFailed
    /\ strmh' = TRUE /\ streams' = streams + 1
    /\ buf' = [b \in 1 .. 2 |-> 0] /\ out' = 1 /\ got' = FALSE
    /\ seq' = 0 /\ hold_seq' = 0
    /\ last_seq' = 0 /\ frame' = <<0, 0>>
    /\ UNCHANGED <<usbVars, running, cancelFailed, mutex>>

\* uvc_stream_start up to the submissions: the transfers are allocated and the
\* user thread is created.
startStream ==
    /\ pc["ctl"] = "start"
    /\ running' = TRUE /\ seq' = 1
    /\ transfers' = Transfer /\ allocated' = Transfer /\ todo' = Transfer
    /\ pc' = [pc EXCEPT !["ctl"] = "submit", !["user"] = "lock"]
    /\ UNCHANGED <<submitted, cancelling, current, buf, out, got, hold_seq,
                   userVars, strmh, streams, cancelFailed, mutex>>

\* No usable descriptor or altsetting: uvc_start_streaming closes the handle.
startFails ==
    /\ Move("ctl", "start", "close")
    /\ UNCHANGED <<usbVars, bufferVars, userVars, lifeVars, mutex>>

submitTransfer ==
    /\ pc["ctl"] = "submit" /\ todo # {}
    /\ \E t \in todo : submitted' = submitted \cup {t} /\ todo' = todo \ {t}
    /\ UNCHANGED <<transfers, allocated, cancelling, current, bufferVars,
                   userVars, lifeVars, mutex, pc>>

\* A failed submission ends the loop, frees this transfer and the rest, and is
\* reported as success.
submitFails ==
    /\ todo # {}
    /\ Move("ctl", "submit", "streaming")
    /\ transfers' = transfers \ todo /\ allocated' = allocated \ todo
    /\ todo' = {}
    /\ UNCHANGED <<submitted, cancelling, current, bufferVars, userVars,
                   lifeVars, mutex>>

startReturns ==
    /\ todo = {}
    /\ Move("ctl", "submit", "streaming")
    /\ UNCHANGED <<usbVars, bufferVars, userVars, lifeVars, mutex>>

----------------------------------------------------------------------------
(* ctl: uvc_stop_streaming *)

stopStream ==
    /\ Move("ctl", "streaming", "stop_lock")
    /\ running' = FALSE
    /\ UNCHANGED <<usbVars, bufferVars, userVars, strmh, streams, cancelFailed,
                   mutex>>

stopLock ==
    /\ mutex = "free"
    /\ Move("ctl", "stop_lock", "cancel")
    /\ mutex' = "ctl" /\ todo' = transfers
    /\ UNCHANGED <<transfers, allocated, submitted, cancelling, current,
                   bufferVars, userVars, lifeVars>>

\* libusb_cancel_transfer finds the transfer in flight and not yet cancelled.
Cancellable(t) == t \in submitted \ cancelling

\* The transfer is asked to stop, and completes later.
cancelTransfer ==
    /\ pc["ctl"] = "cancel"
    /\ \E t \in todo : /\ Cancellable(t)
                       /\ cancelling' = cancelling \cup {t}
                       /\ todo' = todo \ {t}
    /\ UNCHANGED <<transfers, allocated, submitted, current, bufferVars,
                   userVars, lifeVars, mutex, pc>>

\* Mutant: LIBUSB_ERROR_NOT_FOUND is taken for a failure as well.
cancelFoundOnly ==
    /\ pc["ctl"] = "cancel"
    /\ \E t \in todo : /\ ~Cancellable(t)
                       /\ todo' = todo \ {t}
                       /\ transfers' = transfers \ {t}
                       /\ allocated' = allocated \ {t}
    /\ UNCHANGED <<submitted, cancelling, current, bufferVars, userVars,
                   lifeVars, mutex, pc>>

\* LIBUSB_ERROR_NOT_FOUND: its callback runs or is about to.
cancelNotFound ==
    /\ pc["ctl"] = "cancel"
    /\ \E t \in todo : ~Cancellable(t) /\ todo' = todo \ {t}
    /\ UNCHANGED <<transfers, allocated, submitted, cancelling, current,
                   bufferVars, userVars, lifeVars, mutex, pc>>

\* Any other error: the transfer is freed at once, in flight as it is.  The
\* model goes on as if the freed memory still served.
cancelError ==
    /\ pc["ctl"] = "cancel"
    /\ \E t \in todo : /\ Cancellable(t)
                       /\ cancelling' = cancelling \cup {t}
                       /\ todo' = todo \ {t}
                       /\ transfers' = transfers \ {t}
                       /\ allocated' = allocated \ {t}
    /\ cancelFailed' = TRUE
    /\ UNCHANGED <<submitted, current, bufferVars, userVars, strmh, running,
                   streams, mutex, pc>>

cancelled ==
    /\ todo = {}
    /\ Move("ctl", "cancel", "scan")
    /\ UNCHANGED <<usbVars, bufferVars, userVars, lifeVars, mutex>>

\* The loop's test under the mutex: wait while a transfer is left.
waitTransfers ==
    /\ transfers # {}
    /\ Move("ctl", "scan", "cond_wait")
    /\ mutex' = "free"
    /\ UNCHANGED <<usbVars, bufferVars, userVars, lifeVars>>

\* Mutant: the wait is not a loop.
relockOnce ==
    /\ pc["ctl"] = "lock" /\ mutex = "free"
    /\ Broadcast("ctl", "join")
    /\ UNCHANGED <<usbVars, bufferVars, userVars, lifeVars, mutex>>

relock ==
    /\ mutex = "free"
    /\ Move("ctl", "lock", "scan")
    /\ mutex' = "ctl"
    /\ UNCHANGED <<usbVars, bufferVars, userVars, lifeVars>>

\* Mutant: the user thread is not kicked awake.
transfersGoneQuietly ==
    /\ transfers = {}
    /\ Move("ctl", "scan", "join")
    /\ mutex' = "free"
    /\ UNCHANGED <<usbVars, bufferVars, userVars, lifeVars>>

transfersGone ==
    /\ pc["ctl"] = "scan" /\ transfers = {}
    /\ Broadcast("ctl", "join")
    /\ mutex' = "free"
    /\ UNCHANGED <<usbVars, bufferVars, userVars, lifeVars>>

joinUser ==
    /\ pc["user"] = "done"
    /\ Move("ctl", "join", "close")
    /\ UNCHANGED <<usbVars, bufferVars, userVars, lifeVars, mutex>>

\* uvc_stream_close frees the handle, its buffers and its mutex.
closeStream ==
    /\ Move("ctl", "close", "idle")
    /\ strmh' = FALSE
    /\ UNCHANGED <<usbVars, bufferVars, userVars, running, streams,
                   cancelFailed, mutex>>

----------------------------------------------------------------------------
(* event: _uvc_stream_callback *)

\* libusb gives a transfer back: completed, or timed out, stalled or overflowed
\* (resubmitted without a look at it), or cancelled, failed or disconnected.
transferCompletes ==
    /\ pc["event"] = "idle"
    /\ \E t \in submitted, to \in {"process", "resubmit", "release"} :
          /\ current' = t
          /\ submitted' = submitted \ {t}
          /\ cancelling' = cancelling \ {t}
          /\ pc' = [pc EXCEPT !["event"] = to]
    /\ UNCHANGED <<transfers, allocated, todo, bufferVars, userVars, lifeVars,
                   mutex>>

\* A payload's data is appended to outbuf, without the mutex.
payloadData ==
    /\ pc["event"] = "process" /\ seq <= MaxFrames
    /\ buf' = [buf EXCEPT ![out] = seq]
    /\ got' = TRUE
    /\ UNCHANGED <<usbVars, out, seq, hold_seq, userVars, lifeVars, mutex, pc>>

\* Mutant: the buffers are swapped without cb_mutex.
swapUnlocked ==
    /\ pc["event"] = "process" /\ got
    /\ out' = holdbuf /\ hold_seq' = seq
    /\ seq' = seq + 1 /\ got' = FALSE
    /\ Broadcast("event", "process")
    /\ UNCHANGED <<usbVars, buf, userVars, lifeVars, mutex>>

\* Mutant: the next sequence number is taken before the frame is published.
swapSeqFirst ==
    /\ pc["event"] = "process" /\ got /\ mutex = "free"
    /\ out' = holdbuf /\ hold_seq' = seq + 1
    /\ seq' = seq + 1 /\ got' = FALSE
    /\ Broadcast("event", "process")
    /\ UNCHANGED <<usbVars, buf, userVars, lifeVars, mutex>>

\* Mutant: nobody is told of the new frame.
swapQuietly ==
    /\ pc["event"] = "process" /\ got /\ mutex = "free"
    /\ out' = holdbuf /\ hold_seq' = seq
    /\ seq' = seq + 1 /\ got' = FALSE
    /\ UNCHANGED <<usbVars, buf, userVars, lifeVars, mutex, pc>>

\* _uvc_swap_buffers: the frame is published.
swapBuffers ==
    /\ pc["event"] = "process" /\ got /\ mutex = "free"
    /\ out' = holdbuf /\ hold_seq' = seq
    /\ seq' = seq + 1 /\ got' = FALSE
    /\ Broadcast("event", "process")
    /\ UNCHANGED <<usbVars, buf, userVars, lifeVars, mutex>>

payloadsDone ==
    /\ Move("event", "process", "resubmit")
    /\ UNCHANGED <<usbVars, bufferVars, userVars, lifeVars, mutex>>

\* running is read without the mutex.
testRunning ==
    /\ Move("event", "resubmit", IF running THEN "submit" ELSE "release")
    /\ UNCHANGED <<usbVars, bufferVars, userVars, lifeVars, mutex>>

resubmit ==
    /\ Move("event", "submit", "idle")
    /\ submitted' = submitted \cup {current} /\ current' = NoTransfer
    /\ UNCHANGED <<transfers, allocated, cancelling, todo, bufferVars, userVars,
                   lifeVars, mutex>>

resubmitFails ==
    /\ Move("event", "submit", "release")
    /\ UNCHANGED <<usbVars, bufferVars, userVars, lifeVars, mutex>>

\* The transfer is freed and its entry cleared, if it is still in the table.
release ==
    /\ pc["event"] = "release" /\ mutex = "free"
    /\ transfers' = transfers \ {current}
    /\ allocated' = allocated \ ({current} \cap transfers)
    /\ current' = NoTransfer
    /\ Broadcast("event", "idle")
    /\ UNCHANGED <<submitted, cancelling, todo, bufferVars, userVars, lifeVars,
                   mutex>>

----------------------------------------------------------------------------
(* user: _uvc_user_caller *)

userStops ==
    /\ ~running /\ mutex = "free"
    /\ Move("user", "lock", "done")
    /\ UNCHANGED <<usbVars, bufferVars, userVars, lifeVars, mutex>>

\* Mutant: the frame in holdbuf is not compared with the one delivered last.
userTakesAny ==
    /\ running /\ hold_seq # 0 /\ mutex = "free"
    /\ Move("user", "lock", "populate")
    /\ mutex' = "user" /\ last_seq' = hold_seq
    /\ frame' = [frame EXCEPT ![1] = buf[holdbuf]]
    /\ UNCHANGED <<usbVars, bufferVars, lifeVars>>

userWaits ==
    /\ running /\ last_seq = hold_seq /\ mutex = "free"
    /\ Move("user", "lock", "cond_wait")
    /\ UNCHANGED <<usbVars, bufferVars, userVars, lifeVars, mutex>>

\* _uvc_populate_frame copies holdbuf under the mutex: one half, ...
userTakes ==
    /\ running /\ last_seq # hold_seq /\ mutex = "free"
    /\ Move("user", "lock", "populate")
    /\ mutex' = "user" /\ last_seq' = hold_seq
    /\ frame' = [frame EXCEPT ![1] = buf[holdbuf]]
    /\ UNCHANGED <<usbVars, bufferVars, lifeVars>>

\* ... then the other; user_cb is called without the mutex.
userCalls ==
    /\ Move("user", "populate", "user_cb")
    /\ frame' = [frame EXCEPT ![2] = buf[holdbuf]]
    /\ mutex' = "free"
    /\ UNCHANGED <<usbVars, bufferVars, last_seq, lifeVars>>

userReturns ==
    /\ Move("user", "user_cb", "lock")
    /\ UNCHANGED <<usbVars, bufferVars, userVars, lifeVars, mutex>>

----------------------------------------------------------------------------
Init ==
    /\ strmh = FALSE /\ running = FALSE /\ streams = 0
    /\ cancelFailed = FALSE
    /\ transfers = {} /\ allocated = {} /\ submitted = {} /\ cancelling = {}
    /\ current = NoTransfer /\ todo = {}
    /\ buf = [b \in 1 .. 2 |-> 0] /\ out = 1 /\ got = FALSE
    /\ seq = 0 /\ hold_seq = 0 /\ last_seq = 0 /\ frame = <<0, 0>>
    /\ mutex = "free"
    /\ pc = [t \in {"ctl", "event", "user"} |->
               IF t = "user" THEN "done" ELSE "idle"]

StartStep == \/ startStream \/ startFails \/ submitTransfer \/ submitFails
             \/ startReturns
StopStep == \/ stopLock \/ cancelTransfer \/ cancelNotFound \/ cancelError
            \/ cancelled \/ waitTransfers \/ relock \/ transfersGone
            \/ joinUser \/ closeStream
EventStep == \/ transferCompletes \/ payloadData \/ swapBuffers \/ payloadsDone
             \/ testRunning \/ resubmit \/ resubmitFails \/ release
UserStep == userStops \/ userWaits \/ userTakes \/ userCalls \/ userReturns

\* The calls of the preview thread, which need not come.
Calls == openStream \/ stopStream

Next == Calls \/ StartStep \/ StopStep \/ EventStep \/ UserStep

\* Threads are scheduled, and libusb completes every transfer.  Data does not
\* have to come, but a callback processes a bounded number of payloads.
Fairness == /\ WF_vars(StartStep) /\ WF_vars(StopStep) /\ WF_vars(UserStep)
            /\ WF_vars(EventStep)

Spec == Init /\ [][Next]_vars
FairSpec == Spec /\ Fairness

----------------------------------------------------------------------------
(* Properties *)

CtlState == {"idle", "start", "submit", "streaming", "stop_lock", "cancel",
             "scan", "cond_wait", "lock", "join", "close"}
EventState == {"idle", "process", "resubmit", "submit", "release"}
UserState == {"lock", "cond_wait", "populate", "user_cb", "done"}

LifeTypeOK ==
    /\ strmh \in BOOLEAN /\ running \in BOOLEAN /\ streams \in 0 .. MaxStreams
    /\ cancelFailed \in BOOLEAN /\ mutex \in {"free", "ctl", "user"}
UsbTypeOK ==
    /\ transfers \subseteq Transfer /\ allocated \subseteq Transfer
    /\ submitted \subseteq Transfer /\ cancelling \subseteq submitted
    /\ todo \subseteq Transfer /\ current \in Transfer \cup {NoTransfer}
DataTypeOK ==
    /\ buf \in [1 .. 2 -> 0 .. MaxFrames] /\ out \in 1 .. 2 /\ got \in BOOLEAN
    /\ seq \in 0 .. MaxFrames + 1 /\ hold_seq \in 0 .. MaxFrames
    /\ last_seq \in 0 .. MaxFrames
    /\ frame \in (0 .. MaxFrames) \X (0 .. MaxFrames)
PcTypeOK ==
    /\ pc \in [{"ctl", "event", "user"} -> CtlState \cup EventState
                                                    \cup UserState]
    /\ pc["ctl"] \in CtlState /\ pc["event"] \in EventState
    /\ pc["user"] \in UserState

\* The variables have the types of their declarations; only transfers in flight
\* are being cancelled.
TypeOK == LifeTypeOK /\ UsbTypeOK /\ DataTypeOK /\ PcTypeOK

\* A transfer that is in flight or in its callback has not been freed by
\* libusb_free_transfer (uvc_stream_start, uvc_stream_stop and
\* _uvc_stream_callback).
TransfersAllocated ==
    /\ submitted \subseteq allocated
    /\ current # NoTransfer => current \in allocated

\* A transfer is freed only when libusb is done with it and its callback is
\* not using it, unless its cancellation failed in uvc_stream_stop.
FreedWhenDone == cancelFailed \/ TransfersAllocated

\* uvc_stream_close frees the handle only when no transfer is in flight or in
\* its callback, the user thread has ended and cb_mutex is not held; and none
\* of the transfers is leaked (unless a cancellation failed).
HandleOutlivesUse ==
    ~strmh /\ ~cancelFailed =>
        /\ submitted = {} /\ current = NoTransfer /\ allocated = {}
        /\ pc["user"] = "done" /\ mutex = "free"

\* _uvc_populate_frame: the frame given to user_cb is all of one frame, that of
\* the sequence number it carries, although the event thread keeps filling and
\* swapping buffers (unless a cancellation failed).
FrameWhole ==
    pc["user"] = "user_cb" /\ ~cancelFailed => frame = <<last_seq, last_seq>>

\* The promise to UVCPreview.
Source == INSTANCE FrameSource WITH
            open <- strmh,
            calling <- IF pc["user"] = "user_cb" THEN frame[1] ELSE 0,
            last <- frame[2]

\* uvc_start_streaming and uvc_stop_streaming implement FrameSource as long as
\* no cancellation fails.
ImplementsFrameSource ==
    /\ Source!SourceInit
    /\ [][cancelFailed' \/ Source!SourceNext]_(Source!sourceVars)

\* uvc_stop_streaming returns if no cancellation fails: every transfer is given
\* back, also one that was resubmitted while the others were being cancelled,
\* and the user thread ends.
StopReturns == pc["ctl"] = "stop_lock" ~> pc["ctl"] = "idle" \/ cancelFailed

\* A published frame, or a newer one, reaches user_cb unless the stream is
\* being stopped or a cancellation failed.
FrameDelivered ==
    \A n \in 1 .. MaxFrames :
        hold_seq = n /\ running ~> last_seq >= n \/ ~running \/ cancelFailed

=============================================================================
