-------------------------- MODULE UvcStreamProofs --------------------------
(***************************************************************************)
(* Proofs about UvcStream, for any number of transfers and streams: the     *)
(* types, that nothing is freed while it is in use, that frames are handed  *)
(* over whole, and that the stream implements FrameSource, all as long as   *)
(* no cancellation of a transfer in flight fails.                          *)
(***************************************************************************)
EXTENDS UvcStream, TLAPS

\* Which transfers exist while ctl is where: every transfer that libusb or a
\* callback has is in the table, and none is left once ctl stops waiting.
UsbInv ==
    /\ allocated = transfers /\ submitted \subseteq transfers
    /\ current # NoTransfer <=> pc["event"] # "idle"
    /\ current # NoTransfer => current \in transfers /\ current \notin submitted
    /\ pc["ctl"] = "submit" =>
          /\ todo \subseteq transfers /\ todo \cap submitted = {}
          /\ current \notin todo
    /\ pc["ctl"] \in {"idle", "start", "join", "close"} => transfers = {}

\* Which threads run and who holds cb_mutex while ctl is where.
LifeInv ==
    /\ strmh <=> pc["ctl"] # "idle"
    /\ running <=> pc["ctl"] \in {"submit", "streaming"}
    /\ pc["ctl"] \in {"idle", "start", "close"} => pc["user"] = "done"
    /\ mutex = "user" <=> pc["user"] = "populate"
    /\ mutex = "ctl" <=> pc["ctl"] \in {"cancel", "scan"}

\* What the buffers hold, and what the user thread has copied of them.
DataInv ==
    /\ transfers # {} => seq >= 1
    /\ pc["ctl"] = "start" => hold_seq = 0 /\ ~got
    /\ hold_seq < seq \/ (hold_seq = 0 /\ seq = 0)
    /\ last_seq <= hold_seq
    /\ got => seq >= 1 /\ seq <= MaxFrames /\ buf[out] = seq
    /\ hold_seq # 0 => buf[holdbuf] = hold_seq
    /\ pc["user"] = "populate" =>
          /\ last_seq = hold_seq /\ last_seq >= 1
          /\ frame[1] = last_seq /\ frame[2] < last_seq
    /\ pc["user"] # "populate" => frame[2] = last_seq
    /\ pc["user"] = "user_cb" => frame[1] = last_seq /\ last_seq >= 1

IInv == TypeOK /\ UsbInv /\ LifeInv /\ DataInv

\* A failed cancellation leaves an entry of the table empty whose transfer is
\* in flight, and nothing is promised from there on.
Valid == cancelFailed \/ IInv

LEMMA FailureStays ==
    ASSUME [Next]_vars, cancelFailed
    PROVE  cancelFailed'
  <1> USE DEF lifeVars
  <1>1. CASE Calls
    BY <1>1 DEF Calls, openStream, stopStream
  <1>2. CASE StartStep
    BY <1>2 DEF StartStep, startStream, startFails, submitTransfer, submitFails,
                startReturns
  <1>3. CASE StopStep
    BY <1>3 DEF StopStep, stopLock, cancelTransfer, cancelNotFound, cancelError,
                cancelled, waitTransfers, relock, transfersGone, joinUser,
                closeStream
  <1>4. CASE EventStep
    BY <1>4 DEF EventStep, transferCompletes, payloadData, swapBuffers,
                payloadsDone, testRunning, resubmit, resubmitFails, release
  <1>5. CASE UserStep
    BY <1>5 DEF UserStep, userStops, userWaits, userTakes, userCalls,
                userReturns
  <1>6. CASE UNCHANGED vars
    BY <1>6 DEF vars
  <1> QED BY <1>1, <1>2, <1>3, <1>4, <1>5, <1>6 DEF Next

\* uvc_start_streaming keeps the invariant.
LEMMA StartKeeps ==
    ASSUME IInv, ~cancelFailed', openStream \/ StartStep
    PROVE  IInv'
  <1> USE TransferAssumption, BoundAssumption
        DEF IInv, TypeOK, LifeTypeOK, UsbTypeOK, DataTypeOK, PcTypeOK, UsbInv,
            LifeInv, DataInv, CtlState, EventState, UserState, Move, Broadcast,
            holdbuf, usbVars, bufferVars, userVars, lifeVars
  <1>1. CASE openStream
    <2>1. TypeOK'
      <3>1. LifeTypeOK' /\ UsbTypeOK'
        BY <1>1 DEF openStream
      <3>2. DataTypeOK'
        <4>1. 0 \in 0 .. MaxFrames /\ 0 \in 0 .. MaxFrames + 1 OBVIOUS
        <4>2. buf' \in [1 .. 2 -> 0 .. MaxFrames]
          BY <1>1, <4>1 DEF openStream
        <4>3. frame' \in (0 .. MaxFrames) \X (0 .. MaxFrames)
          BY <1>1, <4>1 DEF openStream
        <4>4. /\ out' \in 1 .. 2
              /\ got' \in BOOLEAN
          <5>1. 1 \in 1 .. 2 OBVIOUS
          <5> QED BY <1>1, <5>1, Zenon DEF openStream
        <4>5. seq' \in 0 .. MaxFrames + 1 /\ hold_seq' \in 0 .. MaxFrames
              /\ last_seq' \in 0 .. MaxFrames
          BY <1>1, <4>1 DEF openStream
        <4> QED BY <4>2, <4>3, <4>4, <4>5
      <3>3. PcTypeOK'
        BY <1>1 DEF openStream
      <3> QED BY <3>1, <3>2, <3>3
    <2>2. UsbInv'
      BY <1>1 DEF openStream
    <2>3. LifeInv'
      BY <1>1 DEF openStream
    <2>4. DataInv'
      BY <1>1 DEF openStream
    <2> QED BY <2>1, <2>2, <2>3, <2>4
  <1>2. CASE startStream
    <2>1. TypeOK'
      <3>1. LifeTypeOK' /\ UsbTypeOK'
        BY <1>2 DEF startStream
      <3>2. DataTypeOK'
        BY <1>2 DEF startStream
      <3>3. PcTypeOK'
        BY <1>2 DEF startStream
      <3> QED BY <3>1, <3>2, <3>3
    <2>2. UsbInv'
      BY <1>2 DEF startStream
    <2>3. LifeInv'
      BY <1>2 DEF startStream
    <2>4. DataInv'
      BY <1>2 DEF startStream
    <2> QED BY <2>1, <2>2, <2>3, <2>4
  <1>3. CASE startFails
    BY <1>3 DEF startFails
  <1>4. CASE submitTransfer
    BY <1>4 DEF submitTransfer
  <1>5. CASE submitFails
    BY <1>5 DEF submitFails
  <1>6. CASE startReturns
    BY <1>6 DEF startReturns
  <1> QED BY <1>1, <1>2, <1>3, <1>4, <1>5, <1>6 DEF StartStep

\* uvc_stop_streaming keeps the invariant.
LEMMA StopKeeps ==
    ASSUME IInv, ~cancelFailed', stopStream \/ StopStep
    PROVE  IInv'
  <1> USE TransferAssumption, BoundAssumption
        DEF IInv, TypeOK, LifeTypeOK, UsbTypeOK, DataTypeOK, PcTypeOK, UsbInv,
            LifeInv, DataInv, CtlState, EventState, UserState, Move, Broadcast,
            holdbuf, usbVars, bufferVars, userVars, lifeVars
  <1>1. CASE stopStream
    BY <1>1 DEF stopStream
  <1>2. CASE stopLock
    BY <1>2 DEF stopLock
  <1>3. CASE cancelTransfer
    BY <1>3 DEF cancelTransfer, Cancellable
  <1>4. CASE cancelNotFound
    BY <1>4 DEF cancelNotFound, Cancellable
  <1>5. CASE cancelError
    BY <1>5 DEF cancelError, Cancellable
  <1>6. CASE cancelled
    BY <1>6 DEF cancelled, Cancellable
  <1>7. CASE waitTransfers
    BY <1>7 DEF waitTransfers
  <1>8. CASE relock
    BY <1>8 DEF relock
  <1>9. CASE transfersGone
    BY <1>9 DEF transfersGone
  <1>10. CASE joinUser
    BY <1>10 DEF joinUser
  <1>11. CASE closeStream
    BY <1>11 DEF closeStream
  <1> QED BY <1>1, <1>2, <1>3, <1>4, <1>5, <1>6, <1>7, <1>8, <1>9, <1>10, <1>11
          DEF StopStep

\* The transfer callback keeps the invariant.
LEMMA EventKeeps ==
    ASSUME IInv, ~cancelFailed', EventStep
    PROVE  IInv'
  <1> USE TransferAssumption, BoundAssumption
        DEF IInv, TypeOK, LifeTypeOK, UsbTypeOK, DataTypeOK, PcTypeOK, UsbInv,
            LifeInv, DataInv, CtlState, EventState, UserState, Move, Broadcast,
            holdbuf, usbVars, bufferVars, userVars, lifeVars
  <1>1. CASE transferCompletes
    <2>1. TypeOK'
      BY <1>1 DEF transferCompletes
    <2>2. UsbInv'
      BY <1>1 DEF transferCompletes
    <2>3. LifeInv'
      BY <1>1 DEF transferCompletes
    <2>4. DataInv'
      BY <1>1 DEF transferCompletes
    <2> QED BY <2>1, <2>2, <2>3, <2>4
  <1>2. CASE payloadData
    BY <1>2 DEF payloadData
  <1>3. CASE swapBuffers
    <2>1. TypeOK'
      <3>1. LifeTypeOK' /\ UsbTypeOK'
        BY <1>3 DEF swapBuffers
      <3>2. DataTypeOK'
        <4>1. out' \in 1 .. 2 /\ seq' \in 0 .. MaxFrames + 1
              /\ hold_seq' \in 0 .. MaxFrames
          BY <1>3 DEF swapBuffers
        <4>2. got' \in BOOLEAN /\ UNCHANGED <<buf, frame, last_seq>>
          BY <1>3 DEF swapBuffers
        <4> QED BY <4>1, <4>2
      <3>3. PcTypeOK'
        BY <1>3 DEF swapBuffers
      <3> QED BY <3>1, <3>2, <3>3
    <2>2. UsbInv'
      BY <1>3 DEF swapBuffers
    <2>3. LifeInv'
      BY <1>3 DEF swapBuffers
    <2>4. DataInv'
      BY <1>3 DEF swapBuffers
    <2> QED BY <2>1, <2>2, <2>3, <2>4
  <1>4. CASE payloadsDone
    BY <1>4 DEF payloadsDone
  <1>5. CASE testRunning
    BY <1>5 DEF testRunning
  <1>6. CASE resubmit
    BY <1>6 DEF resubmit
  <1>7. CASE resubmitFails
    BY <1>7 DEF resubmitFails
  <1>8. CASE release
    BY <1>8 DEF release
  <1> QED BY <1>1, <1>2, <1>3, <1>4, <1>5, <1>6, <1>7, <1>8 DEF EventStep

\* The user thread keeps the invariant.
LEMMA UserKeeps ==
    ASSUME IInv, ~cancelFailed', UserStep
    PROVE  IInv'
  <1> USE TransferAssumption, BoundAssumption
        DEF IInv, TypeOK, LifeTypeOK, UsbTypeOK, DataTypeOK, PcTypeOK, UsbInv,
            LifeInv, DataInv, CtlState, EventState, UserState, Move, Broadcast,
            holdbuf, usbVars, bufferVars, userVars, lifeVars
  <1>1. CASE userStops
    BY <1>1 DEF userStops
  <1>2. CASE userWaits
    BY <1>2 DEF userWaits
  <1>3. CASE userTakes
    BY <1>3 DEF userTakes
  <1>4. CASE userCalls
    BY <1>4 DEF userCalls
  <1>5. CASE userReturns
    BY <1>5 DEF userReturns
  <1> QED BY <1>1, <1>2, <1>3, <1>4, <1>5 DEF UserStep

----------------------------------------------------------------------------
LEMMA InitIInv == Init => Valid
  <1> SUFFICES ASSUME Init PROVE IInv BY DEF Valid
  <1> USE BoundAssumption
      DEF Init, IInv, TypeOK, LifeTypeOK, UsbTypeOK, DataTypeOK, PcTypeOK,
          UsbInv,
          LifeInv, DataInv, CtlState, EventState, UserState, holdbuf
  <1>1. TypeOK
    <2>1. LifeTypeOK
      <3>1. streams \in 0 .. MaxStreams OBVIOUS
      <3>2. strmh \in BOOLEAN /\ running \in BOOLEAN
            /\ mutex \in {"free", "ctl", "user"}
        OBVIOUS
      <3> QED BY <3>1, <3>2
    <2>2. UsbTypeOK OBVIOUS
    <2>3. DataTypeOK
      <3>1. 0 \in 0 .. MaxFrames /\ 0 \in 0 .. MaxFrames + 1 OBVIOUS
      <3>2. buf \in [1 .. 2 -> 0 .. MaxFrames] BY <3>1
      <3>3. frame \in (0 .. MaxFrames) \X (0 .. MaxFrames) BY <3>1
      <3>4. /\ out \in 1 .. 2
            /\ got \in BOOLEAN
        <4>1. 1 \in 1 .. 2 OBVIOUS
        <4> QED BY <4>1, Zenon
      <3>5. seq \in 0 .. MaxFrames + 1 /\ hold_seq \in 0 .. MaxFrames
            /\ last_seq \in 0 .. MaxFrames
        BY <3>1
      <3> HIDE DEF Init
      <3> QED BY <3>2, <3>3, <3>4, <3>5
    <2>4. PcTypeOK OBVIOUS
    <2> QED BY <2>1, <2>2, <2>3, <2>4
  <1>2. UsbInv OBVIOUS
  <1>3. LifeInv OBVIOUS
  <1>4. DataInv OBVIOUS
  <1> QED BY <1>1, <1>2, <1>3, <1>4

LEMMA NextIInv == Valid /\ [Next]_vars => Valid'
  <1> SUFFICES ASSUME Valid, [Next]_vars, ~cancelFailed' PROVE IInv'
    BY DEF Valid
  <1>1. ~cancelFailed
    BY FailureStays
  <1>2. IInv
    BY <1>1 DEF Valid
  <1>3. CASE UNCHANGED vars
    BY <1>2, <1>3
       DEF vars, usbVars, bufferVars, userVars, lifeVars, IInv, TypeOK,
           LifeTypeOK, UsbTypeOK, DataTypeOK, PcTypeOK, UsbInv, LifeInv,
           DataInv, holdbuf
  <1> QED BY <1>2, <1>3, StartKeeps, StopKeeps, EventKeeps, UserKeeps
          DEF Next, Calls

\* Every variable keeps its type.
THEOREM TypeCorrect == Spec => [](cancelFailed \/ TypeOK)
  <1>1. Valid => cancelFailed \/ TypeOK BY DEF Valid, IInv
  <1> QED BY <1>1, InitIInv, NextIInv, PTL DEF Spec

\* No transfer is freed while libusb or its callback has it.
THEOREM TransfersFreedWhenDone == Spec => []FreedWhenDone
  <1>1. Valid => FreedWhenDone
    BY DEF Valid, IInv, UsbInv, FreedWhenDone, TransfersAllocated
  <1> QED BY <1>1, InitIInv, NextIInv, PTL DEF Spec

\* The stream handle is freed when no transfer and no thread is left to use it.
THEOREM HandleFreedLast == Spec => []HandleOutlivesUse
  <1>1. Valid => HandleOutlivesUse
    BY DEF Valid, IInv, TypeOK, LifeTypeOK, UsbTypeOK, PcTypeOK, UsbInv,
           LifeInv, UserState, HandleOutlivesUse
  <1> QED BY <1>1, InitIInv, NextIInv, PTL DEF Spec

\* The user is given whole frames under their own sequence numbers.
THEOREM FramesWhole == Spec => []FrameWhole
  <1>1. Valid => FrameWhole
    BY DEF Valid, IInv, TypeOK, DataTypeOK, PcTypeOK, DataInv, FrameWhole
  <1> QED BY <1>1, InitIInv, NextIInv, PTL DEF Spec

----------------------------------------------------------------------------
(* The stream implements FrameSource. *)

LEMMA InitSource == Init => Source!SourceInit
  BY DEF Init, Source!SourceInit

\* openStream, userCalls, userReturns and closeStream are the steps of the
\* promise; every other step leaves it as it is.
LEMMA NextSource ==
    ASSUME IInv, [Next]_vars, ~cancelFailed'
    PROVE  [Source!SourceNext]_(Source!sourceVars)
  <1> USE DEF IInv, TypeOK, LifeTypeOK, DataTypeOK, PcTypeOK, LifeInv, DataInv,
              Move, Source!sourceVars,
              Source!SourceNext
  <1>1. CASE openStream
    BY <1>1 DEF openStream, Source!Open
  <1>2. CASE userCalls
    BY <1>2 DEF userCalls, Source!Call, bufferVars, lifeVars
  <1>3. CASE userReturns
    BY <1>3 DEF userReturns, Source!Return, userVars, lifeVars
  <1>4. CASE closeStream
    BY <1>4 DEF closeStream, Source!Close, userVars
  <1>5. CASE StartStep \/ stopStream
    BY <1>5 DEF StartStep, startStream, startFails, submitTransfer, submitFails,
                startReturns, stopStream, userVars, lifeVars
  <1>6. CASE StopStep /\ ~closeStream
    BY <1>6 DEF StopStep, stopLock, cancelTransfer, cancelNotFound, cancelError,
                cancelled, waitTransfers, relock, transfersGone, joinUser,
                userVars, lifeVars, Broadcast
  <1>7. CASE EventStep
    BY <1>7 DEF EventStep, transferCompletes, payloadData, swapBuffers,
                payloadsDone, testRunning, resubmit, resubmitFails, release,
                userVars, lifeVars, Broadcast
  <1>8. CASE userStops \/ userWaits \/ userTakes
    BY <1>8 DEF userStops, userWaits, userTakes, userVars, lifeVars
  <1>9. CASE UNCHANGED vars
    BY <1>9 DEF vars, userVars, lifeVars
  <1> QED BY <1>1, <1>2, <1>3, <1>4, <1>5, <1>6, <1>7, <1>8, <1>9
          DEF Next, Calls, UserStep

\* uvc_start_streaming and uvc_stop_streaming keep their promise to UVCPreview:
\* calls one at a time, with ever newer frames, and none once they return.
THEOREM StreamImplementsSource == Spec => ImplementsFrameSource
  <1>1. Valid /\ [Next]_vars
          => [cancelFailed' \/ Source!SourceNext]_(Source!sourceVars)
    <2> SUFFICES ASSUME Valid, [Next]_vars, ~cancelFailed'
                 PROVE  [Source!SourceNext]_(Source!sourceVars)
      OBVIOUS
    <2>1. IInv
      BY FailureStays DEF Valid
    <2> QED BY <2>1, NextSource
  <1> QED BY <1>1, InitIInv, NextIInv, InitSource, PTL
          DEF Spec, ImplementsFrameSource
=============================================================================
