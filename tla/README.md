# TLA+ models of the UVC camera library

This directory holds TLA+ modules about `src/libuvccamera`, the Android library
that shows, captures and records the video of USB (UVC) cameras: models of its
threads, locks, queues and call sequences, TLC configurations that check them
on small instances, and TLAPS proofs of what matters most.

Paths below are relative to `src/libuvccamera/src/main/`; `herohan/` and
`serenegiant/` stand for `java/com/herohan/uvcapp/` and `java/com/serenegiant/`.

1. [The system](#1-the-system)
2. [What is modelled](#2-what-is-modelled)
3. [The runs](#3-the-runs)
4. [Fairness](#4-fairness)
5. [What is proved](#5-what-is-proved)
6. [What the checks showed about the code](#6-what-the-checks-showed-about-the-code)
7. [Plan](#7-plan)
8. [Not modelled](#8-not-modelled)

## 1. The system

From the camera to the application:

    camera -- libusb -- libuvc stream -- UVCPreview ---- preview window
                        (event thread,   (preview and    capture window = a surface of
                         user thread)     capture         RendererHolder, from which
                                          threads)        VideoCapture and ImageCapture
                                                          take their pictures
                                                     `-- IFrameCallback
    application -- CameraHelper -- CameraConnectionService -- CameraInternal -- UVCCamera
                                        |
                                    USBMonitor (attach, permission, detach)

### UVCPreview (`jni/UVCCamera/UVCPreview.cpp`)

- *State*: `mIsRunning`, `mIsCapturing`; the queue `previewFrames` (at most
  `MAX_FRAME`), the slot `captureQueu`, the pool `mFramePool`; the two windows
  and the callback object; the handles of two threads.
- *Operations*: `setPreviewDisplay`, `startPreview`, `stopPreview`,
  `setCaptureDisplay`, `setFrameCallback`, the destructor; libuvc's
  `uvc_preview_frame_callback`; `preview_thread_func`, `capture_thread_func`.
- *Interactions*: Java threads call it (some calls synchronized in
  `UVCCamera.java`, some not); libuvc's user thread puts frames in; the preview
  thread starts and stops the stream, draws, and passes frames to the capture
  thread, which copies them to a window or calls Java.
- *Hard*: five kinds of threads, three mutexes, two condition variables, flags
  read outside the locks, signals without the lock held, a wait that is not in
  a loop, thread handles that are stale or not set yet.
- *Correct if*: each frame has one owner and is not used after it is freed;
  queues stay bounded and in order; stop leaves nothing running; stop returns; a
  callback object or window is not released while it is used.

### libuvc stream (`jni/libuvc/src/stream.c`)

- *State*: `running`, the transfers, two image buffers (`outbuf`, `holdbuf`) and
  the sequence numbers under `cb_mutex`, the assembly of the frame in progress.
- *Operations*: `uvc_start_streaming`, `uvc_stop_streaming`, the completion
  callback of a transfer, `_uvc_process_payload`, `_uvc_swap_buffers`,
  `_uvc_user_caller`.
- *Interactions*: libusb completes transfers on the context's event thread; the
  user thread calls `uvc_preview_frame_callback`.
- *Hard*: cancelling transfers whose callbacks run; freeing transfers and the
  handle at the right moment; one condition variable for two kinds of waiters;
  copies against swaps; lost payloads.
- *Correct if*: nothing is freed in use, nothing leaks, stop returns, a frame
  handed over is all of one frame, frames are never repeated or out of order,
  none comes after the stop.

### libuvc device and context (`device.c`, `init.c`), status and button callbacks

- *State*: the context's list of open devices, the event thread and
  `kill_handler_thread`, reference counts, the status transfer.
- *Operations*: `uvc_init2`, `uvc_wrap`, `uvc_close`, `uvc_exit`; the status
  callback; `setCallback` of the two callback objects.
- *Hard*: stopping the event thread, which may be blocked in libusb or inside a
  callback; closing devices while the list is walked; replacing a callback
  object while the event thread calls it.
- *Correct if*: the event thread runs exactly while a device is open, no callback
  runs on a closed device, every reference is given back.

### UVCCamera (`UVCCamera.cpp`, `serenegiant/usb/UVCCamera.java`)

- *State*: the descriptor, the device handle, the preview, control and callback
  objects; in Java the native pointer and the control block.
- *Operations*: `connect`, `release`, destructor; `open`, `close`,
  `startPreview`, `stopPreview`, `destroy` (synchronized), setters (not).
- *Hard*: calls that race with `close`; a second `connect`; the descriptor kept
  after `release`.
- *Correct if*: no call reaches a deleted object; descriptors are closed once.

### USBMonitor (`serenegiant/usb/USBMonitor.java`)

- *State*: attached devices and their keys, control blocks, the receiver,
  the polling task, whether a permission request is pending.
- *Operations*: `register`, `unregister`, `requestPermission`, the receiver, the
  device check, `processOpenDevice`, `destroy`; `UsbControlBlock.open/close`.
- *Hard*: broadcasts that are late, repeated or come after `unregister`; locks
  taken in two orders; collections changed while they are walked.
- *Correct if*: attach and detach are each reported once and in order; a control
  block is closed once; nothing runs after `destroy`.

### CameraConnectionService, CameraInternal, CameraHelper (`herohan/`)

- *State*: the cameras by device, whether each is open and previewing, the map
  of detached devices, the requested device.
- *Operations*: select, open, start and stop the preview, change size, close,
  release; attach, open, detach notifications.
- *Hard*: a wait for a connection that may not come; close and release against a
  detach; a failed open; the preview flag after a close.
- *Correct if*: after any sequence of calls and events the camera is open exactly
  when the state says so and every wait ends.

### VideoCapture (`herohan/VideoCapture.java`)

- *State*: three end-of-stream flags, `mIsRecording`, the muxer and its track
  indices, two codecs, the microphone, the recording's future.
- *Operations*: `startRecording`, `stopRecording`, `release`, `setConfig`,
  `setResolution`; `videoEncode` and `audioEncode` on a thread each; the setup of
  the encoders on an executor when a recording is over.
- *Hard*: four threads that share the fields; the stop travels through the audio
  thread; any of codec, muxer, microphone and file may fail half-way; a release
  during a recording; a start before the previous setup has ended.
- *Correct if*: every start is answered, every stopped recording ends, the
  verdict matches the file, the muxer gets the right tracks, and afterwards the
  next recording can start or everything is released.

### ImageCapture, RendererHolder, the encoder package

- `ImageCapture`, `ImageSaver`: one request at a time through an executor; each
  request must get exactly one callback.
- `RendererHolder`, `EGLTask`, `RenderHandler`: a render thread with a request
  queue; callers wait for its answers and must always get one.
- `serenegiant/encoder`: an older recorder used only by helpers of its own
  package: two encoders count their starts and stops at a shared
  `MediaMuxerWrapper`; each waits for the other's start.

## 2. What is modelled

| Module | Models | Abstracted |
|---|---|---|
| `UVCPreview` | the frame pipeline of `UVCPreview.cpp` and the stop by `UVCCamera::release` | pixels, window geometry, `setPreviewSize` |
| `FrameSource` | what `UVCPreview` relies on of libuvc (abstract) | |
| `UvcStream` | `uvc_start_streaming`, `uvc_stop_streaming`, transfer callback, user thread | payload contents, `uvc_stream_get_frame`, several streams of one device |
| `UvcPayload` | `_uvc_process_payload`, `_uvc_swap_buffers` | data counted in units |
| `UvcDevice` | `open`, `close`, `destroy`, `setStatusCallback` of `UVCCamera.java`; `connect`, `release`, destructor of `UVCCamera.cpp`; `uvc_wrap`, `uvc_close`, status transfer (`device.c`); event thread (`init.c`); `UVCStatusCallback` | descriptors' contents, the button callback (same code), controls |
| `UsbMonitor` | `USBMonitor.java`: register to destroy, receiver, device check, control blocks | filters, names and strings of devices |
| `CameraConnection` | one connection: `CameraHelper`, `CameraConnectionService`, opening and closing in `CameraInternal` | preview, configuration, `releaseAll` |
| `CameraPreview` | preview, size and pictures: `CameraInternal`, `RendererHolder`, `CameraRendererHolder`, `ImageCapture`, `ImageSaver` | drawing, slave surfaces, writing the file |
| `VideoCapture` | start, stop, release, encoding threads, setup | `setConfig`, `setResolution`, surface and renderer, audio samples |
| `Recorder` | what `VideoCapture` promises the caller of `startRecording` (abstract) | |

`MCUVCPreview` and `MCUvcStream` add the symmetry sets; the other modules are
given to TLC as they are. `UVCPreviewProofs`, `UvcStreamProofs`,
`UvcPayloadProofs`, `UvcDeviceProofs`, `UsbMonitorProofs`,
`CameraConnectionProofs`, `CameraPreviewProofs` and `VideoCaptureProofs` hold the
theorems.

### How the models fit together

    application   CameraConnection ---- CameraPreview ---- VideoCapture
                        |      \            |                 (its surface is
    Java          UsbMonitor    UvcDevice   |                  RendererHolder's;
                                    |       |                  ==> Recorder)
                                    |       |
    native                          |   UVCPreview
                                    |       |
    libuvc                      UvcDevice   FrameSource <== UvcStream -- UvcPayload

Modules meet at a promise, and each is checked against the promise rather than
multiplied with its neighbour:

- `UvcStream` implements `FrameSource` (checked and proved), and `UVCPreview` uses
  what `FrameSource` allows: calls one at a time, while `streaming`, none after
  the stop.
- `UvcStream` leaves open which payload writes, publishes or is dropped, and
  `UvcPayload` says it.
- `CameraConnection` takes of the monitor that a request is answered by an open,
  a cancel or an error as long as the monitor is registered: `RequestAnswered` of
  `UsbMonitor`.
- `CameraPreview` has one camera and its removal, once; the openings and removals
  of many, and the cases in which they overlap, are `CameraConnection`'s.
- `UvcDevice` leaves the preview that `release` stops first to `UVCPreview`, and
  the control block to `UsbMonitor`.

### How the models correspond to the code

Variables keep the source's names. A control state (`pc`, `cpc`) names the
place a thread has reached; a section under a mutex in which nothing blocks is
one action, and code outside a mutex is cut at every access to something another
thread writes. A thread in `pthread_cond_wait` (or `wait`, `await`) is in a
waiting control state; a signal picks one waiter, a broadcast wakes all, both are
lost when nobody waits. Spurious wakeups are left out. A handler or executor is a
thread with a queue of messages.

**`UVCPreview`.** `ctl` is the Java thread of the synchronized calls, `cap` that
of `setFrameCallback` and `setCaptureDisplay`, `usb` libuvc's user thread,
`preview` and `capture` the library's own. A session is one successful
`startPreview`; capture threads are indexed by session because one can outlive
its session: `stopPreview` reads `capture_thread` while the preview thread may
not have set it (`UVCPreview.cpp:394`). A frame is a model value; it is in the
pool, in a queue, in the capture slot, or in one of the local variables listed in
`Slot`. `heap` is the set of frames allocated and not freed. The callback object
and the windows are kept with the set of live references, so that a use after
the release can be seen. `aborted` is bionic's abort when `pthread_join` is given
a dead thread; the model says nothing of the process after that, nor of an
object after its deletion. In the MJPEG branch `get_frame` is taken to succeed.

**`UvcStream`.** `ctl`, `event` and `user` are the three threads. libusb is
external: a submitted transfer completes at some time, with any result, and
cancelling one makes it complete as cancelled, is refused because it is not in
flight (its callback runs), or fails. The last case (`cancelError`) is in the
model with its consequence: the code frees the transfer. What happens to memory
libusb still uses is outside any model, so the history variable `cancelFailed`
marks such a run, no further stream is opened in it, and the properties are
stated for runs without it. The two halves of `frame` make a copy two steps, so a
swap in the middle of a copy would show.

**`FrameSource`** is the promise between the two parts: one `start`, frames
delivered one at a time and ever newer, a stop that returns only when no callback
runs and after which none comes. Under the refinement mapping `open` is that the
handle exists, `last` the sequence number of the frame copied last, and `calling`
that number while the user thread is in the callback.

**`UvcDevice`.** `caller` is whoever is in `open`, `close` or `destroy` (they are
synchronized), `setter` a caller of `setStatusCallback` (it is not), `event` the
context's handler thread. Descriptors are numbers given out lowest first, with
their owner in `fds`: a descriptor closed too early is given to somebody else and
then closed, or read, by the wrong one, which `stolen` and `devFd` show. Freed
memory is a flag that turns FALSE. `raced` marks a use of the callback object
after its deletion or before it is set: what such an access does is outside the
model. `busy` marks an `open` of an open camera, which closes the descriptor in
use (section 6).

**`UsbMonitor`.** `app` is the thread of the requests, `async` that of
`mAsyncHandler`, on which the receiver's broadcasts and the device check run.
Android is external: it keeps the list of devices, asks the user, and sends a
detach after the list has changed; a broadcast reaches a receiver that is
registered at that time or nobody. Control blocks are numbered, so that a block
replaced in the table by another one of its device can be told from it.

**`CameraConnection`.** `helper` is `CameraHelper`'s handler, `listener` the
monitor's. `openCamera` is cut where the helper holds no lock: it looks up the
camera, resets it, connects, and gives notice; an open may fail, or succeed in the
native part and throw in the set-up that follows ("unready"); `removeCamera` keeps
`mConnectionSync` over two steps, as the code does. Cameras of a device are
numbered, since a removed one may still be in the helper's hand. `told` is what
the application heard last. `overlapped` remembers the devices that the helper was
opening while the listener registered a callback or removed the camera; two
findings of section 6 are what happens then.

**`CameraPreview`.** `classLock` is `CameraInternal.class`, held over
`startPreview`, and `mLock` the renderer's, with `awaiting` for its condition.
`queue` is the render thread's looper with every message in order, and `quit` that
it takes no more. Of the surface the camera draws on it only matters whether it
is the present one. `crossed` and `missed` mark the interleavings of section 6
under which the code does not keep `DisplayPresent`: they are set by the step that
enters such an interleaving, so that the property is about everything else.
`RequestsEnd` excepts neither of them but only the deadlock itself, a state
(`Entangled`). `setPreviewSize` takes no lock and may destroy the camera while the
render thread is in `startPreview`; the exception ends that call (`cameraGone`).
Every other exception of a handler or of the saver ends the process and is left out.

**`VideoCapture`.** `ui` is the caller (the handler thread of `CameraHelper`),
`video`, `audio` and `exec` the others. `rec` numbers the calls of
`startRecording`; the lambdas capture the recording they belong to, fields do
not, and the model keeps that difference: `mRecordingFuture` is read when the
video thread ends, not when it starts. Codec, muxer and microphone are external
with the states Android documents. `disturbed` records what went wrong ("mic",
"codec", "io", and "early" for a start that comes before the setup of the
recording before is over), so that each property can say under which trouble it
holds; `MaxDisturbed` bounds how many kinds occur in one run. `Documented`
would restrict callers to the documented protocol (start again only after
`onVideoSaved` or `onError`); the run does not.

**`Recorder`** is what the application sees of this: calls of `startRecording`,
those it stopped, and what its `OnVideoCaptureCallback` was told of each. A call
is answered by `onStart` or `onError` before the next one; a started recording
"continues until stopRecording() is called" (`VideoCapture.java:279`) and then ends
with `onVideoSaved` or `onError`, and nothing follows `onVideoSaved`. `onError` may
follow `onError`: a second `stopRecording` ends the encoder's input twice, which
throws, and that the file is too short is told after it. `KeepsPromise` maps `calls`
to `rec` and `told` to `outcome`. It is claimed of behaviours in which nothing but
a file failed (`Troubled`): a microphone or a codec that fails ends a recording
nobody stopped, and leaves a start unanswered (section 6).

## 3. The runs

| Run | Question | Bounds |
|---|---|---|
| `UVCPreview_frames` | `TypeOK`; `Capacity`: queues and pool never grow past their limits; `PreviewQueueFifo` | 5 frames, queue 2, pool 2, both formats, one session |
| `UVCPreview_capture` | with a window or a callback set, replaced and removed: `FrameOwnership` (no frame in two places or used after its release), `LostBound` (at most one frame lost for each session), `CaptureUntilStop` | 3 frames, queue 1, pool 1, 1 window, 1 callback, 2 calls |
| `UVCPreview_sessions` | `StoppedIsQuiet`; `JoinOnceInFirstSession`; `FrameTaken`; `StopReturnsIfBothWait` | 1 frame, 2 sessions |
| `UVCPreview_stop_hangs` | `StopReturns` is violated (section 6) | 1 frame, 1 session |
| `UvcStream` | `FreedWhenDone`, `HandleOutlivesUse`, `FrameWhole`, `ImplementsFrameSource`, `StopReturns`, `FrameDelivered` | 3 transfers, 3 frames, 2 streams |
| `UvcPayload` | `FramesApart`: no buffer published mixes two frames whose change of frame ID was seen; `FramePublishedWhole`; buffers stay in bounds (`TypeOK`) | 4 frames of 1, 3 and 4 units, payloads of 0 to 2, buffer of 3, metadata buffer of 1 |
| `UvcDevice` | `NothingFreedInUse`: what the event thread uses outlives its use; `DescriptorsHeld`: an open camera has its descriptor, no other's is closed, a destroyed one leaves none; `CloseEnds` | 2 callbacks, 3 descriptors, 3 opens, 2 descriptors of others |
| `UsbMonitor` | `TableLive`: the table holds open blocks, none of a detached device; `RequestAnswered`; `AttachTold` | 1 device, 2 blocks, 2 registrations |
| `CameraConnection` | `ToldTruth`: what the application heard last is so, also after an open that failed or threw half-way; `OrphansClosed`: a camera given up is closed; `SelectEnds` | 1 device, 2 opens, 2 events posted ahead of a request |
| `CameraConnection_helper_stuck` | `GetCameraEnds` is violated (section 6) | 1 device, 1 open |
| `CameraPreview` | `DisplayPresent`: a running preview draws on the present surface in the right size; `PictureOnce`: one answer for each picture; `RequestsEnd`: the helper's `startPreview` and every picture come to their end, but for the deadlock | 2 sizes, 1 picture, failed draws while at most 1 message waits |
| `VideoCapture` | `VerdictRight`, `MuxerComplete`, `NoCrash`, `ReadyWhenIdle`, `StartAnswered`, `KeepsPromise` (implements `Recorder`), `StopEnds`, `ReleaseCompletes` | 2 recordings, one kind of trouble |

Why the bounds are enough to be of interest.

- `UVCPreview`: five frames fill a queue of two and a pool of two with one left in
  a thread's hands, so that the full queue and the full pool happen; a second
  session is what stale handles need. `MAX_FRAME` and `FRAME_POOL_SZ` are larger
  in the code.
- `UvcStream`: three transfers let one be in its callback, one in flight and one
  freed; three frames let two be published while one is copied; the second stream
  shows that the first left nothing behind. `UvcPayload`: sizes below, at and above
  the buffer.
- `UvcDevice`: two opens meet the state the first left; a third meets what an
  open of an open camera left. Three descriptors let the camera's two and one of
  others be open, so that a number is given out again.
- `UsbMonitor`: two blocks of a device are what replacing one in the table needs,
  two registrations are what late broadcasts of the first need. A device attaches
  and detaches once; a device plugged in again has another name.
- `CameraConnection`: the second open meets the notices that the close of the
  first posted. One device is enough for that order; that another device's
  notices end a wait is not in the instance.
- `CameraPreview`: two sizes make a change; one request of a picture at a time is
  what the queue distinguishes.
- `VideoCapture`: the second recording is what a late setup of the first collides
  with.

The theorems of section 5 hold for every value of these constants.

Deadlock is not checked: a stopped preview, a closed stream and an idle recorder
may rest for ever, and the bounds on calls end every behaviour. What must not
stop is stated by the liveness properties. Symmetry is used only in runs without
liveness properties.

## 4. Fairness

- Weak fairness of each thread (`CtlStep`, `CapStep`, `UsbStep`, `PreviewStep`,
  `CaptureStep(i)`; `StartStep`, `StopStep`, `UserStep`; `UiStep`, `VideoStep`,
  `AudioStep`, `ExecStep`; `AppStep`, `AsyncStep`; `HelperStep`, `ListenerStep` of
  `CameraConnection`; `EventStep` of `UvcDevice`; `save(p)`): the operating
  system schedules a thread that can run. Calls of the application, frames of
  the camera and failures are in none of these formulas: they may never come.
- Strong fairness where a thread needs a lock that others take again and again:
  `HelperStep`, `ListenerStep` and `RenderStep` of `CameraPreview` (a lock that is
  free again and again is got at some time), `CallerStep` of `UvcDevice`
  (libusb's event lock and the mutex of the callback, which the event thread
  gives back between two callbacks).
- `SF_vars(receivePermission \/ receiveDetach)` and `SF_vars(deviceCheck)` of
  `UsbMonitor`: both run on one looper, which hands out messages in the order
  they are due, so that neither keeps the other waiting for ever.
- `WF_vars(EventStep)` of `UvcStream` contains libusb's completions: every
  transfer is submitted with a timeout of five seconds, so it completes also
  when the camera is silent.
- `WF_vars(answer(d))` of `UsbMonitor`: the user answers the dialog, or Android
  takes it away. `WF_vars(onReceive(m))`: Android delivers a broadcast. The same
  name in `CameraConnection` is what `RequestAnswered` gives.
- `SF_vars(videoEos)` of `VideoCapture`: an encoder whose input was ended puts
  out its last buffer. Strong, because the thread polls: between two polls the
  step is not enabled.
- `StopReturnsIfBothWait` needs no more than weak fairness because nothing else
  can take the signals in the states it speaks of.

## 5. What is proved

All theorems are about `Spec`, without fairness, and hold for every value of the
constants that satisfies the `ASSUME`s: any set of frames, transfers, sizes or
pictures, finite or not, any capacity and any bound. (The devices of
`CameraConnection` are finitely many, as Android's list of them is: `release`
posts one notice for each.) So where a bound keeps the state space of a run
small, as the single device of `CameraConnection` does, the theorem has no such
bound. Every invariant and every action property that a run checks is proved.

An invariant of a run is seldom inductive. Each proof module has a named
invariant `IInv` (`Valid` in `UvcStreamProofs`; `VideoCaptureProofs` has a chain of
them, see below), a conjunction of named parts
that was itself checked with TLC before it was proved; one lemma for the initial
state, one for each part and step, with one proof step for each action that can
disturb the part; and the theorems, which follow from `Init => IInv`,
`IInv /\ [Next]_vars => IInv'` and `IInv => Inv`.

**`UVCPreviewProofs`.** All the safety properties of the three runs: `TypeCorrect`
(`TypeOK`), `FramesOwnedOnce` (`FrameOwnership`), `StoppedThreadsAreQuiet`
(`StoppedIsQuiet`), `CaptureRunsUntilStop` (`CaptureUntilStop`),
`FirstJoinIsTheOnly` (`JoinOnceInFirstSession`), `FewFramesLost` (`LostBound`),
`LimitsRespected` (`Capacity`) and `FramesInOrder` (`PreviewQueueFifo`). The
invariant has four layers.

- *Ownership.* It is not inductive alone: a thread passes on the frame in its
  local variable, and a step would be allowed to pass on the NULL frame, or to
  overwrite a variable that still holds one. `HoldersFull` says in which control
  states each variable holds a frame. The lemmas at the start state what the
  code's helpers do to ownership (`GetFrameKeeps`, `RecycleLocalKeeps`,
  `ClearPreviewKeeps`, `AddPreviewKeeps`, `RemoveFirstKeeps`, `AddCaptureKeeps`,
  `TakeCaptureKeeps`).
- *Stopping* (`StopInv`). `RunningInv` ties `mIsRunning` to the place of
  `stopPreview`; `QuietInv` says what is over from which place on: the preview
  thread once it is joined, the callback of libuvc once it stopped streaming,
  each queue once it was cleared, which no one fills again before the next start.
  `CaptureInv` keeps the capture threads of sessions to come unborn, `JoinInv` the
  handles joined so far apart from the one to be joined.
- *Loss* (`HoldersEmpty`, `LossInv`). A frame gets lost in two ways: a variable
  is overwritten, or `addCaptureFrame` drops its argument. `HoldersEmpty`, the
  converse of `HoldersFull`, excludes the first. The second needs `mIsRunning`
  to be false and is the last thing the preview thread does in its loop, so that
  `LossInv` counts the frames lost plus one for a thread that `MayLose` another.
- *Limits* (`LimitInv`): the pool is finite and within its limit, the queue too;
  `clearPreviewFrame`, which recycles the whole queue at once, is the hard step.

**`UvcStreamProofs`.** `Valid` is `cancelFailed` or the conjunction of `TypeOK`,
`UsbInv` (which transfers are where while which loop runs), `LifeInv` (what each
thread's place says of the handle and of `running`) and `DataInv` (what the
buffers hold against the sequence numbers, and who may write `frame`).
`FailureStays` discharges the runs with a failed cancellation. From `Valid` follow
`TransfersFreedWhenDone`, `HandleFreedLast`, `FramesWhole`, and
`StreamImplementsSource`: initial states map to initial states of `FrameSource`,
every step to a step of it or a stutter.

**`UvcPayloadProofs`.** `BuffersNotOverrun` (the bounds in `TypeOK`) for any sizes
of buffer, frames and payloads; `FramesKeptApart` (`FramesApart`): data of two
frames is published as one only when every header that tells them apart was
lost; and `UndamagedFramesPublished` (`FramePublishedWhole`). For the second the
invariant says that the buffers hold data only of frames whose header was
processed (`Known`), that the driver's frame ID is that of the last of them
(`Parity`), and that a header heard after data in the buffer would have emptied
it (`Separate`). The third follows a frame that nothing happened to from the
camera to the buffers (`WholeInv`): nothing of a frame has left the camera before
its first header is heard or lost (`Fresh`); of the frame being sent, what was
taken is what the camera has sent, in `outbuf` and alone, or was published with
its last payload (`Present`); a frame sent before is published whole, or stays in
`outbuf` until the next frame is heard of (`Past`). A header that is heard with the
other frame ID publishes it (`HeaderFirst`, `FlipIsSeen`), which is where the two
neighbours have to be heard of.

**`UvcDeviceProofs`.** `EventThreadUsesNothingFreed` (`NothingFreedInUse`) and
`DescriptorsAreTheCameras` (`DescriptorsHeld`). `DeviceInv` ties the places of
caller and event thread to handle, context and transfer: the device is freed only
after the join. `CallbackInv` says who holds the callback's mutex and that the
object is there until `raced`. `FdInv` says which descriptor each place of
`connect` and `release` owns.

**`UsbMonitorProofs`.** `TableHoldsOpenBlocks` (`TableLive`), and `TypeCorrect`
(`TypeOK`). The first needs `DetachIsLast`: a detach is on its way only for a device
that has left Android's list, and a block is opened only for a device in the list,
so that no block is put in the table after the detach has taken the last one out.

**`CameraConnectionProofs`.** `CamerasGivenUpAreClosed` (`OrphansClosed`),
`ToldIsTrue` (`ToldTruth`) and `TypeCorrect` (`TypeOK`). For the first,
`OpeningInv`: what the helper is opening is the camera in the table; `RemovingInv`:
what the listener takes out was closed; `SyncInv`: nobody else changes the table
meanwhile. Both are said of the devices outside `overlapped`, and `OverlapInv`
shows that the history variable misses no overlap.

`ToldTruth` speaks of rest only, so its invariant has to say what is true on the
way there. `ToldInv`: what was told last is so, except that the helper may be
about to tell of an opening, and the listener about to remove the camera that it
told closed. `CallbackInv`: each camera in the table has a callback or is about to
get one, and one that counts the camera as opened does so rightly; otherwise an
opening or a close would go untold. `NoticeInv`: an opening that is about to be
told has a callback that did not hear of it yet. `ErrorInv`: of a camera that
failed, or was opened by a call that then threw, an error was told or is about to
be. `ClosedYetInv`: `openCamera` never
connects a camera twice. The rest shows that a fresh camera is fresh: cameras
are numbered by creation (`NumberInv`), and `CountInv` counts along the way of an
answer "open" (in the monitor, posted, in the listener's hand) that no more are
created than were opened. It is what makes `created[d] + 1` a camera of the model
and gives the bounds in `TypeOK`; it needs lemmas on the number of answers in a
sequence that is appended to and consumed (`OpensPosted`, `NoOpensPosted`,
`OpensHandled`).

**`CameraPreviewProofs`.** `PictureAnsweredOnce` (`PictureOnce`) and
`PreviewOnPresentSurface` (`DisplayPresent`). The first is about the queue: a
picture's message is in it once, and goes from it to the saver or its answer.
The second needs to know what is still in the queue: while the display is not the
present surface a message, or a thread in the middle of `startPreview`, is there
to repair it (`QueueInv`, `UpdateInv`, `DisplayInv`), `StartInv` says which
thread may be where in it, `SizeInv` that camera and renderer agree on the size
from there on, and `LockInv` who holds the class lock. The queue lemmas
at the start (`Has`, `Once`, `Followed`, `Moved`) state what appending, taking the
first and removing messages do to such a promise.

**`VideoCaptureProofs`.** All six safety properties of the run, for any number of
recordings and any kinds of trouble: `VerdictsRight` (`VerdictRight`),
`StartsAnswered` (`StartAnswered`), `MuxerGetsItsTracks` (`MuxerComplete`),
`NoThreadCrashes` (`NoCrash`), `ReadyAfterwards` (`ReadyWhenIdle`) and `PromiseKept`
(`KeepsPromise`), after `TypeCorrect` (`TypeOK`). The invariants build on each
other. `FutureInv` and `OrderInv`: recordings are encoded in the order of their
starts, and each start hands out its own future. On these rest `PendingInv` (a
recording that waits was told of nothing but its start), `KeyInv` (the flag of the
first key frame is that of the recording that goes on) and `VerdictInv`. `Phases`:
unless `startRecording` came too early, preparing, encoding and setting up exclude
each other, which no lock enforces. `Muxing`, `TracksInv`: an open muxer belongs to
the recording that goes on, and no track of the one before is known to it. `Calm`:
the codecs run while a recording is taken, and the audio thread, by which the stop
travels, is through before the video thread drops what it uses. `Ready`: the
executor restores codecs, microphone and signals. `PromiseInv` carries the
refinement, as long as nothing but a file fails: only the last call is worked on and
all before it are over (`LastOnly`), the last is over unless it goes on or waits for
its answer (`LastOver`), and every trace of a stop on its way through the threads,
from `stopRecording` over the signals and the audio thread to the end of the
encoder's input, belongs to a recording that was stopped (`StopMeant`). Then every
step is one of `Recorder` or leaves it alone (`Promised`).

*Only model-checked*: the liveness properties (`FrameTaken`,
`StopReturnsIfBothWait`, `StopReturns`, `FrameDelivered`, `CloseEnds`,
`RequestAnswered`, `AttachTold`, `SelectEnds`, `RequestsEnd`, `StopEnds`,
`ReleaseCompletes`): liveness under fairness and `ENABLED` are not within reach of
the prover.

## 6. What the checks showed about the code

Two disagreements with what the code says of itself have a run that must find
them violated, and two more a definition that TLC finds violated in the model.

1. **`stopPreview` may never return** (`UVCPreview_stop_hangs`). It clears
   `mIsRunning` and signals without the mutexes; the threads wait without testing
   the flag under them. A signal between a thread's last test and its wait is
   lost, and the join waits for ever. `StopReturnsIfBothWait` is what does hold.
2. **The helper thread can be lost** (`CameraConnection_helper_stuck`). `getCamera`
   waits for a notification when the device has no camera, with one exception "to
   fix async thread deadlock bug" (`CameraConnectionService.java:135`): the device
   removed last. After a request that was denied there is no camera, no request
   and no notification to come, and every later request, `release` included,
   queues behind the wait.
3. **Capturing is not finished when the wait for it ends**
   (`CapturingFinished` of `UVCPreview`, under the constants of
   `UVCPreview_capture`). `setFrameCallback` and `setCaptureDisplay`
   wait once to "wait finishing capturing" (`UVCPreview.cpp:239`, 698) before they
   delete the callback object or release the window. Any frame's broadcast ends that
   wait, a caller that finds `mIsCapturing` already cleared does not wait at all, and
   the capture thread tests (876) and uses (893) the object without the mutex. With
   no further frame the wait does not end either.
4. **The restart of the preview can deadlock** (`RestartEnds` of `CameraPreview`,
   under the constants of its run). "After
   primary surface has been created during previewing, invoking startPreview method
   again" (`CameraInternal.java:64`): the render thread does so with the renderer's
   lock held and wants the class lock, while the helper's `startPreview`, after a
   change of size, holds the class lock and wants the renderer's, or waits for a
   surface that only the render thread can make. In the same place the render
   thread may wait for itself. `RequestsEnd` shows that nothing else keeps a start
   or a picture from its end.

The following were met while modelling. They are in the models as behaviours;
the properties of the runs except them by name, as said with each.

*UVCPreview and the stream.*
- A stop between the creation of the two threads leaves the capture thread
  unjoined, so that it may outlive the object (394); in a later session such a
  stop joins a thread already joined, which `JoinOnceInFirstSession` excludes for
  the first.
- A failed cancellation frees a transfer in flight (`stream.c:1674`), for example
  after an unplug: `cancelFailed`.

*UvcDevice.*
- A second `open` without a `close` answers `UVC_ERROR_BUSY`, but has closed the
  descriptor that the open device uses (`UVCCamera.cpp:92`), which `uvc_wrap`
  says "must remain open until uvc_close() is called" (`device.c:274`), and leaves
  the first open's control block open: `busy`.
- `kill_handler_thread` is never reset (`init.c:89`): the event thread of a camera
  that is opened again ends at once, and no transfer is handled.
- `release` deletes the status callback object (`UVCCamera.cpp:135`) before
  `uvc_close` stops the thread that may be in it; `uvc_set_status_callback` stores
  the function before its argument; `setStatusCallback` is not synchronized with
  `close` and `destroy`: `raced`. The last callback's global reference is kept.
- `close` waits for the event thread with the Java monitor held: a callback that
  calls a synchronized method of the camera would wait for ever. The callbacks of
  `UvcDevice` call none.

*UsbMonitor.*
- `onDetach` is documented as "called when device detach(after onDeviceClose)"
  (`USBMonitor.java:119`), but an open that is under way when the detach is
  handled is told after it.
- The close of a clone takes its device's block out of the table (1163) without
  closing it; nothing else will.
- `destroy` removes from the map it iterates over (189), which with two blocks or
  more throws, and closes only the first.
- An answer of the user that arrives between `unregister` and the next `register`
  is lost: `RequestAnswered` is for the time the monitor stays registered.

*CameraConnection.*
- A notice of `onDeviceClose` posted by one session closes the camera of the next
  when that is opened before it is handled.
- A camera opened while the listener removes it belongs to nobody and stays open
  (`CameraInternal.java:220`); one opened between `addCamera` and the registration
  of its callback is never told (`CameraConnectionService.java:517`). Both are
  `overlapped`.
- When the native open succeeds and the set-up after it throws
  (`CameraInternal.java:236`-239, for example because an encoder cannot be created),
  the application hears only `onError`, but the camera stays open and connected:
  `isCameraOpened` says TRUE, and a further `openCamera` does not try again until a
  close. `ToldTruth` says so.
- An `onDeviceOpen` handled after `release` makes a camera nobody releases;
  `setStateCallback(null)` takes the monitor away without destroying it, and a
  `selectDevice` that waits then waits for ever.

*CameraPreview.*
- `closeCamera` does not reset `mIsPreviewing`: the render thread may start the
  preview of the next session by itself, and its first `startPreview` may already
  meet the deadlock above. A change of size under way while the render thread may
  call `startPreview` is `crossed`.
- The surface may be replaced between `getPrimarySurface` and `mIsPreviewing =
  true`: the camera draws on the stale one and nothing starts it again; and a wait
  for a surface is ended by one made for another request
  (`RendererHolder.java:152`): `missed`.
- A picture posted to a renderer that has quit gets no answer. `ImageSaver` catches
  only `IOException` (87); another exception ends the process.

*Outside the instances.* `checkSurface` removes by indices that shift as it removes
(`RendererHolder.java:603`-620); `setPreviewSize` without a camera throws from its
own handler.

*VideoCapture.*
- The caller who waits for `onVideoSaved` as documented can start before
  `setupEncoder` of the last recording clears `mIsRecording` (581); that recording
  cannot be stopped: "early".
- Without a microphone there is no recording and no answer: the path meant to go
  on without audio (355) dereferences the recorder it has released: "mic".
- `startRecording` catches `IOException` alone around `initMediaMuxer` (413): its
  `IllegalArgumentException`s (1089, 1129), a `ParcelFileDescriptor` that is null
  (1121) or the `NullPointerException` of 410 leave the call unanswered and the
  encoders started. Not in the model.
- A rejected start resets the key frame flag of the running recording (294), whose
  file may then be deleted as one without (`KeyFrameKept` does not hold): "early".
- `release` after the last recording has ended waits for a future that has already
  run (472): encoders and threads stay. `ReleaseCompletes` is for a release before
  that.

## 7. Plan

Written, in this order: `UVCPreview`; `FrameSource`, `UvcStream`, `UvcPayload`;
`VideoCapture`, `Recorder`; `CameraConnection`; `UsbMonitor`; `UvcDevice` (which has
taken in the descriptors of `UVCCamera`); `CameraPreview` (which has taken in
`RendererHolder` and `ImageCapture`); and the proofs of section 5.

Left, in order of importance.

1. Two devices in `CameraConnection`: the notices of one end the waits for the
   other. The instance exceeds what can be enumerated; it needs an abstraction of
   the second device to its notices. (The theorems hold for any number of devices;
   what is missing is `SelectEnds` for two.)
2. `setConfig` and `setResolution` of `VideoCapture`, which release the encoders
   from the caller's thread.
3. `MediaMuxerWrapper` of the older recorder: two encoders that count their starts
   and stops.

## 8. Not modelled

`PROJECT.json` lists every part with its status. Left out:

- Pixel and format conversion (`frame.c`, `frame-mjpeg.c`), the parsing of
  descriptors, stream negotiation, the generated control getters and setters,
  diagnostics, JNI glue, drawing, widgets and file names: they keep no state or
  are pure input and output.
- `Watchdog` is used by nothing; the `encoder` package by nothing outside itself.
- `src/app` is a set of demonstration activities that call the library.
- libusb, libjpeg-turbo and rapidjson are third-party copies and make up most of
  the lines of the repository. What the library relies on of libusb is external in
  `UvcStream` and `UvcDevice`. This is why the lines the models map are a small
  share of all lines, although they are the greater part of the library's own
  concurrent code.
- Failures of the platform that the code does not look at: `pthread_create` of the
  capture thread (`UVCPreview.cpp:563`), a callback class without `onFrame` (259),
  `get_frame` out of memory (574); and input outside its contract: UVC headers of
  less than two bytes (`stream.c:894`), a control block with descriptor 0
  (`UVCCamera.cpp:95`).
- Of `VideoCapture`, the start that is refused because the renderer is gone
  (299-304) and the failing close of the file descriptor (836-844).
- Spurious wakeups, the content of memory after a use that is marked as a fault
  (`raced`, `cancelFailed`, `aborted`), and memory order between plain fields:
  accesses are taken one after the other.
