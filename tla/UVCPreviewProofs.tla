-------------------------- MODULE UVCPreviewProofs --------------------------
(* Theorems about UVCPreview: type correctness, the ownership and loss of      *)
(* frames, the limits of queue and pool, and what a stop leaves behind.       *)
EXTENDS UVCPreview, FiniteSetTheorems, TLAPS

----------------------------------------------------------------------------
\* The local variables that hold frames are distinct slots.
LEMMA SlotFacts ==
    /\ Copy \in Slot /\ FrameMjpeg \in Slot /\ FrameYuyv \in Slot
    /\ Converted \in Slot
    /\ \A i \in CaptureThread : /\ CapFrame(i) \in Slot /\ CapConv(i) \in Slot
                                /\ CapBack(i) \in Slot
    /\ Copy # FrameMjpeg /\ Copy # FrameYuyv /\ Copy # Converted
    /\ FrameMjpeg # FrameYuyv /\ FrameMjpeg # Converted
    /\ FrameYuyv # Converted
    /\ \A i \in CaptureThread : \A s \in {Copy, FrameMjpeg, FrameYuyv, Converted} :
          CapFrame(i) # s /\ CapConv(i) # s /\ CapBack(i) # s
    /\ \A i, j \in CaptureThread : /\ CapFrame(i) # CapConv(j)
                                   /\ CapFrame(i) # CapBack(j)
                                   /\ CapConv(i) # CapBack(j)
                                   /\ CapFrame(i) = CapFrame(j) => i = j
                                   /\ CapConv(i) = CapConv(j) => i = j
                                   /\ CapBack(i) = CapBack(j) => i = j
  BY DEF Slot, Copy, FrameMjpeg, FrameYuyv, Converted, CapFrame, CapConv,
         CapBack

FrameInv == FrameTypeOK /\ FrameOwnership

\* get_frame gives a local variable a frame that nothing else owns.
LEMMA GetFrameKeeps ==
    ASSUME FrameInv, NEW slot \in Slot, GetFrame(slot)
    PROVE  /\ FrameInv'
           /\ \A s \in Slot \ {slot} : held'[s] = held[s]
  BY FrameAssumption, SMTT(30)
     DEF FrameInv, FrameTypeOK, FrameOwnership, GetFrame, Held, Queued

\* recycle_frame takes frames from their owner and gives them to the pool.
LEMMA RecycleLocalKeeps ==
    ASSUME FrameInv, NEW slot \in Slot, held[slot] # NoFrame,
           RecycleLocal(slot)
    PROVE  /\ FrameInv'
           /\ \A s \in Slot \ {slot} : held'[s] = held[s]
  BY FrameAssumption, SMTT(30)
     DEF FrameInv, FrameTypeOK, FrameOwnership, RecycleLocal, Recycle, Held,
         Queued

\* The queues are emptied into the pool.
LEMMA ClearPreviewKeeps ==
    ASSUME FrameInv, clearPreviewFrame
    PROVE  FrameInv' /\ held' = held
  BY FrameAssumption, SMTT(30)
     DEF FrameInv, FrameTypeOK, FrameOwnership, clearPreviewFrame, Recycle,
         Held, Queued

LEMMA ClearCaptureKeeps ==
    ASSUME FrameInv, clearCaptureFrame
    PROVE  FrameInv' /\ held' = held
  BY FrameAssumption, SMTT(30)
     DEF FrameInv, FrameTypeOK, FrameOwnership, clearCaptureFrame, Recycle,
         Held, Queued

\* An action that leaves the frames alone keeps the frame invariant.
LEMMA FramesUntouched ==
    ASSUME FrameInv, UNCHANGED frameVars
    PROVE  FrameInv' /\ held' = held
  BY DEF FrameInv, FrameTypeOK, FrameOwnership, frameVars, Held, Queued

\* A local variable gives its frame away.
LEMMA HeldWithout ==
    ASSUME FrameInv, NEW slot \in Slot, held[slot] # NoFrame,
           held' = [held EXCEPT ![slot] = NoFrame]
    PROVE  /\ held' \in [Slot -> Frame \cup {NoFrame}]
           /\ Held' = Held \ {held[slot]}
           /\ \A s, t \in Slot : s # t /\ held'[s] # NoFrame
                                   => held'[s] # held'[t]
           /\ held[slot] \in Held \cap Frame
           /\ \A s \in Slot \ {slot} : held'[s] = held[s]
  BY DEF FrameInv, FrameTypeOK, FrameOwnership, Held

\* addPreviewFrame moves the frame from the local variable into the queue.
LEMMA AddPreviewKeeps ==
    ASSUME FrameInv, held[Copy] # NoFrame, addPreviewFrame
    PROVE  FrameInv' /\ \A s \in Slot \ {Copy} : held'[s] = held[s]
  <1>1. /\ held' \in [Slot -> Frame \cup {NoFrame}]
        /\ Held' = Held \ {held[Copy]}
        /\ \A s, t \in Slot : s # t /\ held'[s] # NoFrame
                                => held'[s] # held'[t]
        /\ held[Copy] \in Held \cap Frame
        /\ \A s \in Slot \ {Copy} : held'[s] = held[s]
    BY HeldWithout, SlotFacts DEF addPreviewFrame
  <1>2. /\ previewFrames \in Seq(Frame)
        /\ previewFrames' = Append(previewFrames, held[Copy])
    BY DEF FrameInv, FrameTypeOK, addPreviewFrame
  <1>3. /\ previewFrames' \in Seq(Frame)
        /\ Len(previewFrames') = Len(previewFrames) + 1
        /\ \A k \in 1 .. Len(previewFrames) :
              previewFrames'[k] = previewFrames[k]
        /\ previewFrames'[Len(previewFrames) + 1] = held[Copy]
        /\ Len(previewFrames) \in Nat
    BY <1>1, <1>2
  <1>4. Queued' = Queued \cup {held[Copy]}
    BY <1>3 DEF Queued
  <1>5. \A k, l \in 1 .. Len(previewFrames') :
           k # l => previewFrames'[k] # previewFrames'[l]
    BY <1>1, <1>3 DEF FrameInv, FrameOwnership, Queued
  <1>6. UNCHANGED <<captureQueu, mFramePool, heap>>
    BY DEF addPreviewFrame
  <1>7. FrameTypeOK'
    BY <1>1, <1>3, <1>6 DEF FrameInv, FrameTypeOK
  <1>8. FrameOwnership'
    BY <1>1, <1>4, <1>5, <1>6 DEF FrameInv, FrameOwnership
  <1> QED BY <1>1, <1>7, <1>8 DEF FrameInv

\* waitPreviewFrame moves the head of the queue into a local variable.
LEMMA RemoveFirstKeeps ==
    ASSUME FrameInv, NEW slot \in Slot, previewFrames # << >>,
           RemoveFirst(slot), UNCHANGED <<captureQueu, mFramePool, heap>>
    PROVE  /\ FrameInv' /\ held'[slot] # NoFrame
           /\ \A s \in Slot \ {slot} : held'[s] = held[s]
  <1>1. /\ previewFrames \in Seq(Frame) /\ Len(previewFrames) \in Nat \ {0}
        /\ previewFrames' = Tail(previewFrames)
        /\ Head(previewFrames) = previewFrames[1]
    BY DEF FrameInv, FrameTypeOK, RemoveFirst
  <1>2. /\ previewFrames' \in Seq(Frame)
        /\ Len(previewFrames') = Len(previewFrames) - 1
        /\ \A k \in 1 .. Len(previewFrames') :
              previewFrames'[k] = previewFrames[k + 1]
    BY <1>1
  <1>3. \A k, l \in 1 .. Len(previewFrames') :
           k # l => previewFrames'[k] # previewFrames'[l]
    BY <1>1, <1>2 DEF FrameInv, FrameOwnership
  <1>4. /\ Queued' = Queued \ {previewFrames[1]}
        /\ previewFrames[1] \in Queued \cap Frame
    <2>1. \A k \in 2 .. Len(previewFrames) : previewFrames[k] # previewFrames[1]
      BY <1>1 DEF FrameInv, FrameOwnership
    <2>2. \A k \in 2 .. Len(previewFrames) :
             previewFrames[k] = previewFrames'[k - 1]
      BY <1>1, <1>2
    <2>3. previewFrames[1] \in Queued /\ previewFrames[1] \in Frame
      BY <1>1 DEF Queued
    <2>4. ASSUME NEW f \in Queued' PROVE f \in Queued \ {previewFrames[1]}
      <3>1. PICK k \in 1 .. Len(previewFrames') : f = previewFrames'[k]
        BY DEF Queued
      <3> QED BY <3>1, <1>1, <1>2, <2>1 DEF Queued
    <2>5. ASSUME NEW f \in Queued \ {previewFrames[1]} PROVE f \in Queued'
      <3>1. PICK k \in 1 .. Len(previewFrames) : f = previewFrames[k]
        BY DEF Queued
      <3> QED BY <3>1, <1>1, <1>2, <2>2 DEF Queued
    <2> QED BY <2>3, <2>4, <2>5
  <1>5. held' = [held EXCEPT ![slot] = previewFrames[1]]
    BY <1>1 DEF RemoveFirst
  <1>6. /\ held' \in [Slot -> Frame \cup {NoFrame}]
        /\ held'[slot] = previewFrames[1]
        /\ \A s \in Slot \ {slot} : held'[s] = held[s]
    BY <1>4, <1>5 DEF FrameInv, FrameTypeOK
  <1>7. previewFrames[1] # NoFrame /\ previewFrames[1] \notin Held
    BY <1>4, FrameAssumption DEF FrameInv, FrameOwnership
  <1>8. /\ Held' \subseteq Held \cup {previewFrames[1]}
        /\ \A s, t \in Slot : s # t /\ held'[s] # NoFrame
                                => held'[s] # held'[t]
    BY <1>6, <1>7 DEF FrameInv, FrameOwnership, Held
  <1>9. FrameTypeOK'
    BY <1>2, <1>6 DEF FrameInv, FrameTypeOK
  <1>10. FrameOwnership'
    BY <1>3, <1>4, <1>7, <1>8 DEF FrameInv, FrameOwnership
  <1> QED BY <1>6, <1>7, <1>9, <1>10 DEF FrameInv

\* decodeFails recycles two frames at once.
LEMMA DecodeFailsKeeps ==
    ASSUME FrameInv, held[FrameMjpeg] # NoFrame, held[FrameYuyv] # NoFrame,
           decodeFails
    PROVE  /\ FrameInv'
           /\ \A s \in Slot \ {FrameMjpeg, FrameYuyv} : held'[s] = held[s]
  <1> DEFINE S == {held[FrameMjpeg], held[FrameYuyv]}
  <1>1. /\ held' \in [Slot -> Frame \cup {NoFrame}]
        /\ held'[FrameMjpeg] = NoFrame /\ held'[FrameYuyv] = NoFrame
        /\ \A s \in Slot \ {FrameMjpeg, FrameYuyv} : held'[s] = held[s]
        /\ UNCHANGED <<previewFrames, captureQueu>>
    BY SlotFacts DEF FrameInv, FrameTypeOK, decodeFails
  <1>2. /\ Held' = Held \ S /\ S \subseteq Held
        /\ \A s, t \in Slot : s # t /\ held'[s] # NoFrame
                                => held'[s] # held'[t]
    BY <1>1, SlotFacts DEF FrameInv, FrameTypeOK, FrameOwnership, Held
  <1>3. PICK T \in SUBSET S : /\ mFramePool' = mFramePool \cup T
                              /\ heap' = heap \ (S \ T)
    BY DEF decodeFails, Recycle
  <1>4. S \subseteq Frame
    BY SlotFacts DEF FrameInv, FrameTypeOK
  <1>5. FrameTypeOK'
    BY <1>1, <1>3, <1>4 DEF FrameInv, FrameTypeOK
  <1>6. Queued' = Queued
    BY <1>1 DEF Queued
  <1>7. FrameOwnership'
    BY <1>1, <1>2, <1>3, <1>6 DEF FrameInv, FrameOwnership
  <1> QED BY <1>1, <1>5, <1>7 DEF FrameInv

\* addCaptureFrame moves the frame into captureQueu, or loses it.
LEMMA AddCaptureKeeps ==
    ASSUME FrameInv, held[FrameYuyv] # NoFrame, addCaptureFrame
    PROVE  FrameInv' /\ \A s \in Slot \ {FrameYuyv} : held'[s] = held[s]
  <1>1. /\ held' \in [Slot -> Frame \cup {NoFrame}]
        /\ Held' = Held \ {held[FrameYuyv]}
        /\ \A s, t \in Slot : s # t /\ held'[s] # NoFrame
                                => held'[s] # held'[t]
        /\ held[FrameYuyv] \in Held \cap Frame
        /\ \A s \in Slot \ {FrameYuyv} : held'[s] = held[s]
    BY HeldWithout, SlotFacts DEF addCaptureFrame
  <1>2. Queued' = Queued /\ UNCHANGED previewFrames
    BY DEF addCaptureFrame, Queued
  <1>3. CASE mIsRunning
    <2>1. PICK T \in SUBSET ({captureQueu} \ {NoFrame}) :
             /\ mFramePool' = mFramePool \cup T
             /\ heap' = heap \ (({captureQueu} \ {NoFrame}) \ T)
      BY <1>3 DEF addCaptureFrame, Recycle
    <2>2. captureQueu' = held[FrameYuyv]
      BY <1>3 DEF addCaptureFrame
    <2>3. FrameTypeOK'
      BY <1>1, <1>2, <2>1, <2>2 DEF FrameInv, FrameTypeOK
    <2>4. FrameOwnership'
      BY <1>1, <1>2, <2>1, <2>2, FrameAssumption
         DEF FrameInv, FrameTypeOK, FrameOwnership
    <2> QED BY <1>1, <2>3, <2>4 DEF FrameInv
  <1>4. CASE ~mIsRunning
    <2>1. UNCHANGED <<captureQueu, mFramePool, heap>>
      BY <1>4 DEF addCaptureFrame
    <2> QED BY <1>1, <1>2, <2>1 DEF FrameInv, FrameTypeOK, FrameOwnership
  <1> QED BY <1>3, <1>4

\* waitCaptureFrame moves the frame of captureQueu into a local variable.
LEMMA TakeCaptureKeeps ==
    ASSUME FrameInv, NEW i \in CaptureThread, takeCaptureFrame(i)
    PROVE  FrameInv' /\ \A s \in Slot \ {CapFrame(i)} : held'[s] = held[s]
  BY FrameAssumption, SlotFacts, SMTT(30)
     DEF FrameInv, FrameTypeOK, FrameOwnership, takeCaptureFrame, Held, Queued

\* The converted frame takes the place of the one that is recycled.
LEMMA ConvertedKeeps ==
    ASSUME FrameInv, NEW i \in CaptureThread, held[CapFrame(i)] # NoFrame,
           callbackConverted(i)
    PROVE  /\ FrameInv' /\ held'[CapFrame(i)] = held[CapBack(i)]
           /\ \A s \in Slot \ {CapFrame(i), CapBack(i)} : held'[s] = held[s]
  <1> DEFINE S == {held[CapFrame(i)]}
  <1>1. /\ held' \in [Slot -> Frame \cup {NoFrame}]
        /\ held'[CapFrame(i)] = held[CapBack(i)]
        /\ held'[CapBack(i)] = NoFrame
        /\ \A s \in Slot \ {CapFrame(i), CapBack(i)} : held'[s] = held[s]
        /\ UNCHANGED <<previewFrames, captureQueu>>
    BY SlotFacts DEF FrameInv, FrameTypeOK, callbackConverted
  <1>2. /\ Held' = Held \ S /\ S \subseteq Held
        /\ \A s, t \in Slot : s # t /\ held'[s] # NoFrame
                                => held'[s] # held'[t]
    BY <1>1, SlotFacts DEF FrameInv, FrameTypeOK, FrameOwnership, Held
  <1>3. PICK T \in SUBSET S : /\ mFramePool' = mFramePool \cup T
                              /\ heap' = heap \ (S \ T)
    BY DEF callbackConverted, Recycle
  <1>4. S \subseteq Frame
    BY SlotFacts DEF FrameInv, FrameTypeOK
  <1>5. FrameTypeOK'
    BY <1>1, <1>3, <1>4 DEF FrameInv, FrameTypeOK
  <1>6. Queued' = Queued
    BY <1>1 DEF Queued
  <1>7. FrameOwnership'
    BY <1>1, <1>2, <1>3, <1>6 DEF FrameInv, FrameOwnership
  <1> QED BY <1>1, <1>5, <1>7 DEF FrameInv

----------------------------------------------------------------------------
\* A group of variables that a step leaves alone keeps its types.
LEMMA TypesUntouched ==
    /\ WindowTypeOK /\ UNCHANGED windowVars => WindowTypeOK'
    /\ CallTypeOK /\ UNCHANGED callVars => CallTypeOK'
    /\ FlagTypeOK /\ UNCHANGED flagVars => FlagTypeOK'
    /\ LifeTypeOK /\ UNCHANGED lifeVars => LifeTypeOK'
    /\ ApiTypeOK /\ UNCHANGED apiVars => ApiTypeOK'
    /\ UseTypeOK /\ UNCHANGED useVars => UseTypeOK'
  <1>1. WindowTypeOK /\ UNCHANGED windowVars => WindowTypeOK'
    BY DEF WindowTypeOK, windowVars
  <1>2. CallTypeOK /\ UNCHANGED callVars => CallTypeOK'
    BY DEF CallTypeOK, callVars
  <1>3. FlagTypeOK /\ UNCHANGED flagVars => FlagTypeOK'
    BY DEF FlagTypeOK, flagVars
  <1>4. LifeTypeOK /\ UNCHANGED lifeVars => LifeTypeOK'
    BY DEF LifeTypeOK, lifeVars
  <1>5. ApiTypeOK /\ UNCHANGED apiVars => ApiTypeOK'
    BY DEF ApiTypeOK, apiVars
  <1>6. UseTypeOK /\ UNCHANGED useVars => UseTypeOK'
    BY DEF UseTypeOK, useVars
  <1> QED BY <1>1, <1>2, <1>3, <1>4, <1>5, <1>6

ControlTypeOK == /\ WindowTypeOK /\ CallTypeOK /\ FlagTypeOK /\ LifeTypeOK
                 /\ ApiTypeOK /\ UseTypeOK

LEMMA OthersUntouched ==
    ASSUME ControlTypeOK, UNCHANGED others
    PROVE  ControlTypeOK'
  <1>1. /\ UNCHANGED windowVars /\ UNCHANGED callVars /\ UNCHANGED flagVars
        /\ UNCHANGED lifeVars /\ UNCHANGED apiVars /\ UNCHANGED useVars
    BY DEF others
  <1> QED BY <1>1, TypesUntouched DEF ControlTypeOK

\* startPreview has tested the bound on the sessions when startCreate runs.
StartBound == pc["ctl"] = "start" => session < MaxSessions

LEMMA CtlTypes ==
    ASSUME ControlTypeOK, StartBound, CtlStep
    PROVE  ControlTypeOK'
  <1> USE TypesUntouched, OthersUntouched DEF ControlTypeOK
  <1>1. CASE startCreate
    <2>1. LifeTypeOK'
      BY <1>1, SizeAssumption DEF startCreate, LifeTypeOK, StartBound
    <2> QED BY <1>1, <2>1 DEF startCreate
  <1>2. CASE startFail
    <2>1. FlagTypeOK' BY <1>2 DEF startFail, FlagTypeOK
    <2> QED BY <1>2, <2>1 DEF startFail
  <1>3. CASE stopSignalPreview \/ stopSignalCapture \/ stopCaptureJoined
               \/ stopPreviewJoined \/ stopClearCapture
    BY <1>3 DEF stopSignalPreview, stopSignalCapture, stopCaptureJoined,
                stopPreviewJoined, stopClearCapture
  <1>4. CASE stopJoinCapture
    <2>1. LifeTypeOK'
      BY <1>4 DEF stopJoinCapture, LifeTypeOK
    <2> QED BY <1>4, <2>1 DEF stopJoinCapture
  <1>5. CASE stopClearPreview
    <2>1. WindowTypeOK' BY <1>5 DEF stopClearPreview, WindowTypeOK
    <2> QED BY <1>5, <2>1 DEF stopClearPreview
  <1>6. CASE stopReleaseWindow
    <2>1. WindowTypeOK' BY <1>6 DEF stopReleaseWindow, WindowTypeOK
    <2> QED BY <1>6, <2>1 DEF stopReleaseWindow
  <1>7. CASE destructor
    <2>1. WindowTypeOK' BY <1>7 DEF destructor, WindowTypeOK
    <2>2. CallTypeOK' BY <1>7 DEF destructor, CallTypeOK
    <2>3. LifeTypeOK' BY <1>7 DEF destructor, LifeTypeOK
    <2> QED BY <1>7, <2>1, <2>2, <2>3 DEF destructor
  <1> QED BY <1>1, <1>2, <1>3, <1>4, <1>5, <1>6, <1>7 DEF CtlStep

LEMMA ReplaceTypes ==
    ASSUME ControlTypeOK, NEW op, NEW x, Replace(op, x),
           <<op, x>> \in ({"window"} \X (Window \cup {Null}))
                           \cup ({"callback"} \X (Callback \cup {Null}))
    PROVE  WindowTypeOK' /\ CallTypeOK'
  <1>1. CASE op = "window"
    <2>1. x \in Window \cup {Null} BY <1>1
    <2>2. WindowTypeOK'
      BY <1>1, <2>1 DEF Replace, ReplaceWindow, WindowTypeOK, ControlTypeOK
    <2> QED BY <1>1, <2>2, TypesUntouched
            DEF Replace, ReplaceWindow, ControlTypeOK
  <1>2. CASE op # "window"
    <2>1. x \in Callback \cup {Null} BY <1>2
    <2>2. CallTypeOK'
      BY <1>2, <2>1 DEF Replace, ReplaceCallback, CallTypeOK, ControlTypeOK
    <2> QED BY <1>2, <2>2, TypesUntouched
            DEF Replace, ReplaceCallback, ControlTypeOK
  <1> QED BY <1>1, <1>2

LEMMA EnvironmentTypes ==
    ASSUME ControlTypeOK, Environment \/ CapStep \/ UsbStep
    PROVE  ControlTypeOK'
  <1> USE TypesUntouched, OthersUntouched DEF ControlTypeOK
  <1>1. CASE setPreviewDisplay
    <2>1. WindowTypeOK' BY <1>1 DEF setPreviewDisplay, WindowTypeOK
    <2> QED BY <1>1, <2>1 DEF setPreviewDisplay
  <1>2. CASE startPreview
    <2>1. FlagTypeOK' BY <1>2 DEF startPreview, FlagTypeOK
    <2> QED BY <1>2, <2>1 DEF startPreview
  <1>3. CASE stopPreview
    <2>1. FlagTypeOK' /\ LifeTypeOK'
      BY <1>3 DEF stopPreview, FlagTypeOK, LifeTypeOK
    <2> QED BY <1>3, <2>1 DEF stopPreview
  <1>4. CASE setWithoutWait
    <2>1. PICK a \in Argument : Replace(a[1], a[2])
      BY <1>4 DEF setWithoutWait
    <2>2. <<a[1], a[2]>> \in ({"window"} \X (Window \cup {Null}))
                           \cup ({"callback"} \X (Callback \cup {Null}))
      BY DEF Argument
    <2>3. WindowTypeOK' /\ CallTypeOK'
      BY <2>1, <2>2, ReplaceTypes
    <2>4. FlagTypeOK'
      BY <1>4, Zenon DEF setWithoutWait, FlagTypeOK
    <2>5. ApiTypeOK'
      BY <1>4, SizeAssumption DEF setWithoutWait, ApiTypeOK
    <2> QED BY <1>4, <2>3, <2>4, <2>5 DEF setWithoutWait
  <1>5. CASE setBeginWait
    <2>1. FlagTypeOK'
      BY <1>5 DEF setBeginWait, FlagTypeOK
    <2>2. arg' \in ({"window"} \X (Window \cup {Null}))
                     \cup ({"callback"} \X (Callback \cup {Null}))
      BY <1>5 DEF setBeginWait, Argument
    <2>3. ApiTypeOK'
      BY <1>5, <2>2, SizeAssumption DEF setBeginWait, ApiTypeOK
    <2> QED BY <1>5, <2>1, <2>3 DEF setBeginWait
  <1>6. CASE frameCallback \/ UsbStep
    BY <1>6 DEF frameCallback, UsbStep, addPreviewFrame, callbackRecycle
  <1>7. CASE setSignalAndWait
    <2>1. ApiTypeOK' BY <1>7 DEF setSignalAndWait, ApiTypeOK
    <2> QED BY <1>7, <2>1 DEF setSignalAndWait
  <1>8. CASE setReplace
    <2>1. <<arg[1], arg[2]>> \in ({"window"} \X (Window \cup {Null}))
                           \cup ({"callback"} \X (Callback \cup {Null}))
      BY DEF ApiTypeOK
    <2>2. WindowTypeOK' /\ CallTypeOK'
      BY <1>8, <2>1, ReplaceTypes DEF setReplace
    <2> QED BY <1>8, <2>2 DEF setReplace
  <1> QED BY <1>1, <1>2, <1>3, <1>4, <1>5, <1>6, <1>7, <1>8
          DEF Environment, CapStep

LEMMA PreviewTypes ==
    ASSUME ControlTypeOK, PreviewStep
    PROVE  ControlTypeOK'
  <1> USE TypesUntouched, OthersUntouched DEF ControlTypeOK
  <1>1. CASE preparePreview
    <2>1. LifeTypeOK'
      BY <1>1, FormatAssumption DEF preparePreview, LifeTypeOK
    <2> QED BY <1>1, <2>1 DEF preparePreview
  <1>2. CASE startStreaming \/ createCapture \/ stopStreaming
    <2>1. LifeTypeOK'
      BY <1>2 DEF startStreaming, createCapture, stopStreaming, LifeTypeOK
    <2> QED BY <1>2, <2>1 DEF startStreaming, createCapture, stopStreaming
  <1>3. CASE \/ previewClear \/ previewLoop \/ waitPreviewFrame
             \/ takePreviewFrame \/ getYuyv \/ decodeMjpeg \/ decodeFails
             \/ drawPreview \/ copyToPreview \/ addCaptureFrame
             \/ previewSignalCapture
    BY <1>3 DEF previewClear, previewLoop, waitPreviewFrame,
                takePreviewFrame, getYuyv, decodeMjpeg, decodeFails,
                drawPreview, copyToPreview, addCaptureFrame,
                previewSignalCapture
  <1> QED BY <1>1, <1>2, <1>3 DEF PreviewStep

LEMMA CaptureTypes ==
    ASSUME ControlTypeOK, NEW i \in CaptureThread, CaptureStep(i)
    PROVE  ControlTypeOK'
  <1> USE TypesUntouched, OthersUntouched DEF ControlTypeOK
  <1>1. CASE captureBegin(i)
    <2>1. FlagTypeOK' BY <1>1 DEF captureBegin, FlagTypeOK
    <2> QED BY <1>1, <2>1 DEF captureBegin
  <1>2. CASE captureChoose(i)
    <2>1. UseTypeOK' BY <1>2 DEF captureChoose, UseTypeOK
    <2> QED BY <1>2, <2>1 DEF captureChoose
  <1>3. CASE copyToSurface(i)
    <2>1. UseTypeOK' BY <1>3 DEF copyToSurface, UseTypeOK, WindowTypeOK
    <2> QED BY <1>3, <2>1 DEF copyToSurface
  <1>4. CASE unlockAndPost(i)
    <2>1. UseTypeOK' BY <1>4 DEF unlockAndPost, UseTypeOK
    <2> QED BY <1>4, <2>1 DEF unlockAndPost
  <1>5. CASE callOnFrame(i)
    <2>1. UseTypeOK' BY <1>5 DEF callOnFrame, UseTypeOK, CallTypeOK
    <2> QED BY <1>5, <2>1 DEF callOnFrame
  <1>6. CASE onFrameReturns(i)
    <2>1. UseTypeOK' BY <1>6 DEF onFrameReturns, UseTypeOK
    <2> QED BY <1>6, <2>1 DEF onFrameReturns
  <1>7. CASE surfaceRelease(i)
    <2>1. WindowTypeOK' BY <1>7 DEF surfaceRelease, WindowTypeOK
    <2> QED BY <1>7, <2>1 DEF surfaceRelease
  <1>8. CASE surfaceForget(i)
    <2>1. WindowTypeOK' BY <1>8 DEF surfaceForget, WindowTypeOK
    <2> QED BY <1>8, <2>1 DEF surfaceForget
  <1>9. CASE \/ captureClear(i) \/ captureLoop(i) \/ captureInner(i)
             \/ waitCaptureFrame(i) \/ takeCaptureFrame(i)
             \/ surfaceGetFrame(i) \/ captureCallback(i) \/ callbackGet(i)
             \/ callbackConverted(i) \/ captureRecycle(i)
             \/ surfaceRecycle(i) \/ captureBroadcast(i)
    BY <1>9 DEF captureClear, captureLoop, captureInner, waitCaptureFrame,
                takeCaptureFrame, surfaceGetFrame, captureCallback,
                callbackGet, callbackConverted, captureRecycle,
                surfaceRecycle, captureBroadcast
  <1> QED BY <1>1, <1>2, <1>3, <1>4, <1>5, <1>6, <1>7, <1>8, <1>9
          DEF CaptureStep

----------------------------------------------------------------------------
\* Control states: their type, and StartBound.
PcInv == PcTypeOK /\ StartBound

LEMMA CtlPc ==
    ASSUME PcInv, LifeTypeOK, CtlStep
    PROVE  PcInv'
  <1> USE DEF PcInv, PcTypeOK, StartBound, Thread, CtlState, CapState,
             UsbState, PreviewState, CaptureState, CaptureUses
  <1>1. CASE startCreate \/ startFail
    BY <1>1 DEF startCreate, startFail, PcAfterPreviewSignal, lifeVars
  <1>2. CASE stopSignalPreview
    BY <1>2 DEF stopSignalPreview, PcAfterPreviewSignal, others, lifeVars
  <1>3. CASE stopSignalCapture
    BY <1>3 DEF stopSignalCapture, SignalCapture, others, lifeVars
  <1>4. CASE stopJoinCapture \/ stopCaptureJoined \/ stopPreviewJoined
    BY <1>4 DEF stopJoinCapture, stopCaptureJoined, stopPreviewJoined
  <1>5. CASE stopClearPreview \/ stopClearCapture
    BY <1>5 DEF stopClearPreview, stopClearCapture
  <1>6. CASE stopReleaseWindow \/ destructor
    BY <1>6 DEF stopReleaseWindow, destructor
  <1> QED BY <1>1, <1>2, <1>3, <1>4, <1>5, <1>6 DEF CtlStep

LEMMA EnvironmentPc ==
    ASSUME PcInv, Environment \/ CapStep \/ UsbStep
    PROVE  PcInv'
  <1> USE DEF PcInv, PcTypeOK, StartBound, Thread, CtlState, CapState,
             UsbState, PreviewState, CaptureState, CaptureUses
  <1>1. CASE setPreviewDisplay \/ startPreview \/ stopPreview
    BY <1>1 DEF setPreviewDisplay, startPreview, stopPreview, lifeVars
  <1>2. CASE setWithoutWait \/ setBeginWait
    BY <1>2 DEF setWithoutWait, setBeginWait, lifeVars
  <1>3. CASE frameCallback
    BY <1>3 DEF frameCallback, others, lifeVars
  <1>4. CASE addPreviewFrame \/ callbackRecycle
    BY <1>4 DEF addPreviewFrame, callbackRecycle, PcAfterPreviewSignal,
                others, lifeVars
  <1>5. CASE setSignalAndWait
    BY <1>5 DEF setSignalAndWait, SignalCapture, lifeVars
  <1>6. CASE setReplace
    BY <1>6 DEF setReplace, lifeVars
  <1> QED BY <1>1, <1>2, <1>3, <1>4, <1>5, <1>6
          DEF Environment, CapStep, UsbStep

LEMMA PreviewPc ==
    ASSUME PcInv, PreviewStep
    PROVE  PcInv'
  <1> USE DEF PcInv, PcTypeOK, StartBound, Thread, CtlState, CapState,
             UsbState, PreviewState, CaptureState, CaptureUses, PreviewMove
  <1>1. CASE preparePreview \/ startStreaming \/ createCapture
               \/ stopStreaming
    BY <1>1 DEF preparePreview, startStreaming, createCapture, stopStreaming
  <1>2. CASE previewClear \/ previewLoop \/ waitPreviewFrame
               \/ takePreviewFrame
    BY <1>2 DEF previewClear, previewLoop, waitPreviewFrame, takePreviewFrame,
                others, lifeVars
  <1>3. CASE getYuyv \/ decodeMjpeg \/ decodeFails \/ drawPreview
               \/ copyToPreview
    BY <1>3 DEF getYuyv, decodeMjpeg, decodeFails, drawPreview, copyToPreview,
                others, lifeVars
  <1>4. CASE addCaptureFrame
    BY <1>4 DEF addCaptureFrame, CapAfterBroadcast, others, lifeVars
  <1>5. CASE previewSignalCapture
    BY <1>5 DEF previewSignalCapture, SignalCapture, others, lifeVars
  <1> QED BY <1>1, <1>2, <1>3, <1>4, <1>5 DEF PreviewStep

LEMMA CapturePc ==
    ASSUME PcInv, NEW i \in CaptureThread, CaptureStep(i)
    PROVE  PcInv'
  <1> USE DEF PcInv, PcTypeOK, StartBound, Thread, CtlState, CapState,
             UsbState, PreviewState, CaptureState, CaptureUses, CaptureMove
  <1>1. CASE captureClear(i) \/ captureLoop(i) \/ captureBegin(i)
               \/ captureChoose(i) \/ captureInner(i)
    BY <1>1 DEF captureClear, captureLoop, captureBegin, captureChoose,
                captureInner, others, lifeVars
  <1>2. CASE waitCaptureFrame(i) \/ takeCaptureFrame(i)
               \/ surfaceGetFrame(i) \/ copyToSurface(i) \/ unlockAndPost(i)
    BY <1>2 DEF waitCaptureFrame, takeCaptureFrame, surfaceGetFrame,
                copyToSurface, unlockAndPost, others, lifeVars
  <1>3. CASE captureCallback(i) \/ callbackGet(i) \/ callbackConverted(i)
               \/ callOnFrame(i) \/ onFrameReturns(i) \/ captureRecycle(i)
    BY <1>3 DEF captureCallback, callbackGet, callbackConverted, callOnFrame,
                onFrameReturns, captureRecycle, others, lifeVars
  <1>4. CASE surfaceRecycle(i) \/ surfaceRelease(i) \/ surfaceForget(i)
    BY <1>4 DEF surfaceRecycle, surfaceRelease, surfaceForget, others,
                lifeVars
  <1>5. CASE captureBroadcast(i)
    BY <1>5 DEF captureBroadcast, CapAfterBroadcast, others, lifeVars
  <1> QED BY <1>1, <1>2, <1>3, <1>4, <1>5 DEF CaptureStep

----------------------------------------------------------------------------
\* The frames: FrameInv and HoldersFull are kept by the steps of each thread.
Frames == FrameInv /\ HoldersFull

LEMMA CtlFrames ==
    ASSUME PcInv, Frames, CtlStep
    PROVE  Frames'
  <1> USE FramesUntouched
          DEF Frames, HoldersFull, PcInv, PcTypeOK, Thread, CaptureUses
  <1>1. CASE startCreate
    BY <1>1 DEF startCreate
  <1>2. CASE startFail
    BY <1>2 DEF startFail, PcAfterPreviewSignal
  <1>3. CASE stopSignalPreview
    BY <1>3 DEF stopSignalPreview, PcAfterPreviewSignal
  <1>4. CASE stopSignalCapture
    BY <1>4 DEF stopSignalCapture, SignalCapture
  <1>5. CASE stopJoinCapture \/ stopCaptureJoined \/ stopPreviewJoined
    BY <1>5 DEF stopJoinCapture, stopCaptureJoined, stopPreviewJoined
  <1>6. CASE stopClearPreview
    BY <1>6, ClearPreviewKeeps DEF stopClearPreview
  <1>7. CASE stopClearCapture
    BY <1>7, ClearCaptureKeeps DEF stopClearCapture
  <1>8. CASE stopReleaseWindow
    BY <1>8 DEF stopReleaseWindow
  <1>9. CASE destructor
    <2>1. FrameInv'
      <3>1. /\ previewFrames' = << >> /\ captureQueu' = NoFrame
            /\ mFramePool' = {} /\ UNCHANGED held
            /\ heap' = heap \ (Queued \cup {captureQueu} \cup mFramePool)
        BY <1>9 DEF destructor
      <3>2. Held' = Held /\ Queued' = {} /\ NoFrame \notin Held
        BY <3>1 DEF Held, Queued
      <3>3. FrameTypeOK'
        BY <3>1 DEF FrameInv, FrameTypeOK
      <3>4. Held' \subseteq heap'
        BY <3>1, <3>2 DEF FrameInv, FrameOwnership
      <3>5. FrameOwnership'
        BY <3>1, <3>2, <3>4 DEF FrameInv, FrameOwnership
      <3> QED BY <3>3, <3>5 DEF FrameInv
    <2> QED BY <1>9, <2>1 DEF destructor
  <1> QED BY <1>1, <1>2, <1>3, <1>4, <1>5, <1>6, <1>7, <1>8, <1>9 DEF CtlStep

LEMMA EnvironmentFrames ==
    ASSUME PcInv, Frames, Environment \/ CapStep \/ UsbStep
    PROVE  Frames'
  <1> USE FramesUntouched
          DEF Frames, HoldersFull, PcInv, PcTypeOK, Thread, CaptureUses
  <1>1. CASE setPreviewDisplay \/ startPreview \/ stopPreview
    BY <1>1 DEF setPreviewDisplay, startPreview, stopPreview
  <1>2. CASE setWithoutWait \/ setBeginWait \/ setReplace
    BY <1>2 DEF setWithoutWait, setBeginWait, setReplace
  <1>3. CASE setSignalAndWait
    BY <1>3 DEF setSignalAndWait, SignalCapture
  <1>4. CASE frameCallback
    <2>1. FrameInv' /\ \A s \in Slot \ {Copy} : held'[s] = held[s]
      BY <1>4, GetFrameKeeps, SlotFacts DEF frameCallback
    <2> QED BY <1>4, <2>1, SlotFacts DEF frameCallback
  <1>5. CASE addPreviewFrame
    <2>1. FrameInv' /\ \A s \in Slot \ {Copy} : held'[s] = held[s]
      BY <1>5, AddPreviewKeeps DEF addPreviewFrame
    <2> QED BY <1>5, <2>1, SlotFacts DEF addPreviewFrame, PcAfterPreviewSignal
  <1>6. CASE callbackRecycle
    <2>1. FrameInv' /\ \A s \in Slot \ {Copy} : held'[s] = held[s]
      BY <1>6, RecycleLocalKeeps, SlotFacts DEF callbackRecycle
    <2> QED BY <1>6, <2>1, SlotFacts DEF callbackRecycle
  <1> QED BY <1>1, <1>2, <1>3, <1>4, <1>5, <1>6
          DEF Environment, CapStep, UsbStep

LEMMA PreviewFrames ==
    ASSUME PcInv, Frames, PreviewStep
    PROVE  Frames'
  <1> USE FramesUntouched, SlotFacts
          DEF Frames, HoldersFull, PcInv, PcTypeOK, Thread, CaptureUses,
              PreviewMove
  <1>1. CASE preparePreview \/ startStreaming \/ stopStreaming
    BY <1>1 DEF preparePreview, startStreaming, stopStreaming
  <1>2. CASE createCapture
    BY <1>2 DEF createCapture
  <1>3. CASE previewClear
    BY <1>3, ClearPreviewKeeps DEF previewClear
  <1>4. CASE previewLoop \/ waitPreviewFrame
    BY <1>4 DEF previewLoop, waitPreviewFrame
  <1>5. CASE takePreviewFrame
    <2>1. CASE mIsRunning /\ previewFrames # << >>
      <3> DEFINE slot == IF frameFormatType = "mjpeg" THEN FrameMjpeg
                                                      ELSE FrameYuyv
      <3>1. slot \in Slot /\ RemoveFirst(slot)
        BY <1>5, <2>1 DEF takePreviewFrame
      <3>2. /\ FrameInv' /\ held'[slot] # NoFrame
            /\ \A s \in Slot \ {slot} : held'[s] = held[s]
        BY <1>5, <2>1, <3>1, RemoveFirstKeeps DEF takePreviewFrame
      <3> QED BY <1>5, <2>1, <3>2 DEF takePreviewFrame
    <2>2. CASE ~(mIsRunning /\ previewFrames # << >>)
      BY <1>5, <2>2 DEF takePreviewFrame, frameVars
    <2> QED BY <2>1, <2>2
  <1>6. CASE getYuyv
    <2>1. FrameInv' /\ \A s \in Slot \ {FrameYuyv} : held'[s] = held[s]
      BY <1>6, GetFrameKeeps DEF getYuyv
    <2> QED BY <1>6, <2>1 DEF getYuyv
  <1>7. CASE decodeMjpeg
    <2>1. FrameInv' /\ \A s \in Slot \ {FrameMjpeg} : held'[s] = held[s]
      BY <1>7, RecycleLocalKeeps DEF decodeMjpeg
    <2> QED BY <1>7, <2>1 DEF decodeMjpeg
  <1>8. CASE decodeFails
    <2>1. /\ FrameInv'
          /\ \A s \in Slot \ {FrameMjpeg, FrameYuyv} : held'[s] = held[s]
      BY <1>8, DecodeFailsKeeps DEF decodeFails
    <2> QED BY <1>8, <2>1 DEF decodeFails
  <1>9. CASE drawPreview
    <2>1. FrameInv' /\ \A s \in Slot \ {Converted} : held'[s] = held[s]
      BY <1>9, GetFrameKeeps DEF drawPreview
    <2> QED BY <1>9, <2>1 DEF drawPreview
  <1>10. CASE copyToPreview
    <2>1. FrameInv' /\ \A s \in Slot \ {Converted} : held'[s] = held[s]
      BY <1>10, RecycleLocalKeeps DEF copyToPreview
    <2> QED BY <1>10, <2>1 DEF copyToPreview
  <1>11. CASE addCaptureFrame
    <2>1. FrameInv' /\ \A s \in Slot \ {FrameYuyv} : held'[s] = held[s]
      BY <1>11, AddCaptureKeeps DEF addCaptureFrame
    <2> QED BY <1>11, <2>1 DEF addCaptureFrame, CapAfterBroadcast, CaptureWaiting
  <1>12. CASE previewSignalCapture
    BY <1>12 DEF previewSignalCapture, SignalCapture
  <1> QED BY <1>1, <1>2, <1>3, <1>4, <1>5, <1>6, <1>7, <1>8, <1>9, <1>10,
             <1>11, <1>12 DEF PreviewStep

LEMMA CaptureFrames ==
    ASSUME PcInv, Frames, NEW i \in CaptureThread, CaptureStep(i)
    PROVE  Frames'
  <1> USE FramesUntouched, SlotFacts
          DEF Frames, HoldersFull, PcInv, PcTypeOK, Thread, CaptureUses,
              CaptureMove
  <1>1. CASE captureClear(i)
    BY <1>1, ClearCaptureKeeps DEF captureClear
  <1>2. CASE captureLoop(i) \/ captureBegin(i) \/ captureChoose(i)
               \/ captureInner(i) \/ waitCaptureFrame(i)
    BY <1>2 DEF captureLoop, captureBegin, captureChoose, captureInner,
                waitCaptureFrame
  <1>3. CASE takeCaptureFrame(i)
    <2>1. FrameInv' /\ \A s \in Slot \ {CapFrame(i)} : held'[s] = held[s]
      BY <1>3, TakeCaptureKeeps
    <2>2. CASE mIsRunning /\ captureQueu # NoFrame
      <3>1. held'[CapFrame(i)] # NoFrame
        BY <1>3, <2>2 DEF takeCaptureFrame, FrameInv, FrameTypeOK
      <3> QED BY <1>3, <2>1, <2>2, <3>1 DEF takeCaptureFrame
    <2>3. CASE ~(mIsRunning /\ captureQueu # NoFrame)
      BY <1>3, <2>1, <2>3 DEF takeCaptureFrame
    <2> QED BY <2>2, <2>3
  <1>4. CASE surfaceGetFrame(i)
    <2>1. FrameInv' /\ \A s \in Slot \ {CapConv(i)} : held'[s] = held[s]
      BY <1>4, GetFrameKeeps DEF surfaceGetFrame
    <2> QED BY <1>4, <2>1 DEF surfaceGetFrame
  <1>5. CASE copyToSurface(i) \/ unlockAndPost(i) \/ captureCallback(i)
               \/ callOnFrame(i) \/ onFrameReturns(i)
    BY <1>5 DEF copyToSurface, unlockAndPost, captureCallback, callOnFrame,
                onFrameReturns
  <1>6. CASE callbackGet(i)
    <2>1. FrameInv' /\ \A s \in Slot \ {CapBack(i)} : held'[s] = held[s]
      BY <1>6, GetFrameKeeps DEF callbackGet
    <2> QED BY <1>6, <2>1 DEF callbackGet
  <1>7. CASE callbackConverted(i)
    <2>1. /\ FrameInv' /\ held'[CapFrame(i)] = held[CapBack(i)]
          /\ \A s \in Slot \ {CapFrame(i), CapBack(i)} : held'[s] = held[s]
      BY <1>7, ConvertedKeeps DEF callbackConverted
    <2> QED BY <1>7, <2>1 DEF callbackConverted
  <1>8. CASE captureRecycle(i)
    <2>1. FrameInv' /\ \A s \in Slot \ {CapFrame(i)} : held'[s] = held[s]
      BY <1>8, RecycleLocalKeeps DEF captureRecycle
    <2> QED BY <1>8, <2>1 DEF captureRecycle
  <1>9. CASE surfaceRecycle(i)
    <2>1. FrameInv' /\ \A s \in Slot \ {CapConv(i)} : held'[s] = held[s]
      BY <1>9, RecycleLocalKeeps DEF surfaceRecycle
    <2> QED BY <1>9, <2>1 DEF surfaceRecycle
  <1>10. CASE surfaceRelease(i) \/ surfaceForget(i)
    BY <1>10 DEF surfaceRelease, surfaceForget
  <1>11. CASE captureBroadcast(i)
    BY <1>11 DEF captureBroadcast, CapAfterBroadcast, CaptureWaiting
  <1> QED BY <1>1, <1>2, <1>3, <1>4, <1>5, <1>6, <1>7, <1>8, <1>9, <1>10,
             <1>11 DEF CaptureStep

----------------------------------------------------------------------------
(* What a stop leaves behind, and how often threads are joined. *)

\* mIsRunning is set by startPreview and cleared before anything is stopped.
Stopping == {"stop_signal_preview", "stop_signal_capture",
             "stop_join_capture", "stop_joining_capture",
             "stop_join_preview", "stop_clear_preview",
             "stop_clear_capture", "stop_release_window", "delete"}
RunningInv == /\ pc["ctl"] \in Stopping => ~mIsRunning
              /\ pc["ctl"] = "start" => mIsRunning

\* The preview thread of the last session has been joined, or none was made.
PreviewJoined ==
    \/ pc["ctl"] \in {"start", "stop_clear_preview", "stop_clear_capture",
                      "stop_release_window", "delete"}
    \/ pc["ctl"] = "idle" /\ ~mIsRunning

\* What stopPreview has cleared stays clear until the next session.
QuietInv ==
    /\ PreviewJoined => pc["preview"] = "done"
    /\ pc["preview"] \in {"prepare", "start_streaming", "done"} => ~streaming
    /\ ~streaming => pc["usb"] = "idle"
    /\ PreviewJoined /\ pc["ctl"] # "stop_clear_preview" =>
          previewFrames = << >>
    /\ PreviewJoined
         /\ pc["ctl"] \notin {"stop_clear_preview", "stop_clear_capture"} =>
          captureQueu = NoFrame

\* The threads of sessions to come have not begun, nor has that of the
\* session that goes on before its preview thread creates it; and it has not
\* ended while the session goes on.
Ahead(i) == \/ i > session
            \/ i = session /\ pc["preview"] \in {"prepare", "start_streaming",
                                                "clear", "create_capture"}
CaptureInv ==
    /\ \A i \in CaptureThread : Ahead(i) => cpc[i] = "none"
    /\ CaptureUntilStop

\* In the first session the stop that joins the capture thread is the last.
JoinInv ==
    /\ (\A j \in joined : j <= session) /\ capture_thread <= session
    /\ session <= 1 /\ joined # {} =>
          /\ mIsRunning => pc["ctl"] = "start"
          /\ pc["ctl"] \notin {"stop_signal_preview", "stop_signal_capture",
                               "stop_join_capture"}
    /\ aborted => session > 1


StopInv == RunningInv /\ QuietInv /\ CaptureInv /\ JoinInv

LEMMA CtlStops ==
    ASSUME PcInv, LifeTypeOK, FlagTypeOK, StopInv, CtlStep
    PROVE  StopInv'
  <1> USE DEF PcInv, PcTypeOK, Thread, CtlState, UsbState, PreviewState,
             StopInv, RunningInv, QuietInv, CaptureInv, CaptureUntilStop,
             JoinInv, Stopping, PreviewJoined, Ahead, CaptureWaiting
  <1>1. CASE startCreate
    <2>1. /\ session \in Nat /\ session' = session + 1
          /\ capture_thread \in Nat /\ joined \subseteq CaptureThread
          /\ UNCHANGED <<mIsRunning, streaming, previewFrames, captureQueu,
                         joined, capture_thread, aborted, cpc>>
          /\ pc["ctl"] = "start"
          /\ pc' = [pc EXCEPT !["ctl"] = "idle", !["preview"] = "prepare"]
      BY <1>1, SizeAssumption DEF startCreate, LifeTypeOK, frameVars, flagVars
    <2>2. RunningInv' /\ QuietInv'
      BY <2>1
    <2>3. \A i \in CaptureThread : /\ i \in Nat
                                   /\ i > session' => i > session
                                   /\ i = session' => i > session
      BY <2>1 DEF CaptureThread
    <2>4. CaptureInv'
      BY <2>1, <2>3 DEF CaptureThread
    <2>5. JoinInv'
      <3>1. session = 0 => joined = {}
        BY <2>1 DEF CaptureThread
      <3>2. \A j \in joined : j \in Nat
        BY <2>1 DEF CaptureThread
      <3>3. session' <= 1 => session = 0
        BY <2>1
      <3> QED BY <2>1, <3>1, <3>2, <3>3
    <2> QED BY <2>2, <2>4, <2>5
  <1>2. CASE startFail
    BY <1>2 DEF startFail, PcAfterPreviewSignal, frameVars, lifeVars
  <1>3. CASE stopSignalPreview
    BY <1>3 DEF stopSignalPreview, PcAfterPreviewSignal, frameVars, others,
                flagVars, lifeVars
  <1>4. CASE stopSignalCapture
    BY <1>4 DEF stopSignalCapture, SignalCapture, frameVars, others,
                flagVars, lifeVars
  <1>5. CASE stopJoinCapture
    <2>1. UNCHANGED <<mIsRunning, streaming, previewFrames, captureQueu,
                      session, capture_thread, cpc>>
      BY <1>5 DEF stopJoinCapture, frameVars, flagVars
    <2>2. RunningInv' /\ QuietInv' /\ CaptureInv'
      BY <1>5, <2>1 DEF stopJoinCapture
    <2>3. /\ session \in Nat /\ capture_thread \in Nat
          /\ joined \subseteq CaptureThread
      BY SizeAssumption DEF LifeTypeOK
    <2>4. CASE capture_thread \in CaptureThread \ joined
      <3>1. /\ joined' = joined \cup {capture_thread} /\ UNCHANGED aborted
            /\ pc["ctl"] = "stop_join_capture"
            /\ pc' = [pc EXCEPT !["ctl"] = "stop_joining_capture"]
        BY <1>5, <2>4 DEF stopJoinCapture
      <3> QED BY <2>1, <2>3, <3>1
    <2>5. CASE capture_thread \notin CaptureThread \ joined
      <3>1. /\ capture_thread = 0 => UNCHANGED aborted
            /\ capture_thread # 0 => session > 1
        BY <1>5, <2>3, <2>5 DEF stopJoinCapture, LifeTypeOK, CaptureThread
      <3> QED BY <1>5, <2>1, <2>3, <2>5, <3>1 DEF stopJoinCapture
    <2> QED BY <2>2, <2>4, <2>5
  <1>6. CASE stopCaptureJoined \/ stopPreviewJoined
    BY <1>6 DEF stopCaptureJoined, stopPreviewJoined, frameVars, others,
                flagVars, lifeVars
  <1>7. CASE stopClearPreview
    BY <1>7 DEF stopClearPreview, clearPreviewFrame, flagVars, lifeVars
  <1>8. CASE stopClearCapture
    BY <1>8 DEF stopClearCapture, clearCaptureFrame, others, flagVars,
                lifeVars
  <1>9. CASE stopReleaseWindow
    BY <1>9 DEF stopReleaseWindow, frameVars, flagVars, lifeVars
  <1>10. CASE destructor
    BY <1>10 DEF destructor, flagVars
  <1> QED BY <1>1, <1>2, <1>3, <1>4, <1>5, <1>6, <1>7, <1>8, <1>9, <1>10
          DEF CtlStep

LEMMA EnvironmentStops ==
    ASSUME PcInv, LifeTypeOK, FlagTypeOK, StopInv,
           Environment \/ CapStep \/ UsbStep
    PROVE  StopInv'
  <1> USE DEF PcInv, PcTypeOK, Thread, CtlState, UsbState, PreviewState,
             StopInv, RunningInv, QuietInv, CaptureInv, CaptureUntilStop,
             JoinInv, Stopping, PreviewJoined, Ahead, CaptureWaiting
  <1>1. CASE setPreviewDisplay
    BY <1>1 DEF setPreviewDisplay, frameVars, flagVars, lifeVars
  <1>2. CASE startPreview
    BY <1>2 DEF startPreview, frameVars, lifeVars
  <1>3. CASE stopPreview
    BY <1>3 DEF stopPreview, frameVars
  <1>4. CASE setWithoutWait
    <2>1. UNCHANGED <<mIsRunning, frameVars, lifeVars, pc, cpc>>
      BY <1>4 DEF setWithoutWait
    <2> QED BY <2>1 DEF frameVars, lifeVars
  <1>4a. CASE setBeginWait
    <2>1. /\ UNCHANGED <<mIsRunning, frameVars, lifeVars, cpc>>
          /\ pc' = [pc EXCEPT !["cap"] = "signal"]
      BY <1>4a DEF setBeginWait
    <2> QED BY <2>1 DEF frameVars, lifeVars
  <1>5. CASE setSignalAndWait
    BY <1>5 DEF setSignalAndWait, SignalCapture, frameVars, flagVars,
                lifeVars
  <1>6. CASE setReplace
    BY <1>6 DEF setReplace, frameVars, flagVars, lifeVars
  <1>7. CASE frameCallback
    BY <1>7 DEF frameCallback, GetFrame, others, flagVars, lifeVars
  <1>8. CASE addPreviewFrame
    BY <1>8 DEF addPreviewFrame, PcAfterPreviewSignal, others, flagVars,
                lifeVars
  <1>9. CASE callbackRecycle
    BY <1>9 DEF callbackRecycle, RecycleLocal, others, flagVars, lifeVars
  <1> QED BY <1>1, <1>2, <1>3, <1>4, <1>4a, <1>5, <1>6, <1>7, <1>8, <1>9
          DEF Environment, CapStep, UsbStep

LEMMA PreviewStops ==
    ASSUME PcInv, LifeTypeOK, FlagTypeOK, StopInv, PreviewStep
    PROVE  StopInv'
  <1> USE DEF PcInv, PcTypeOK, Thread, CtlState, UsbState, PreviewState,
             StopInv, RunningInv, QuietInv, CaptureInv, CaptureUntilStop,
             JoinInv, Stopping, PreviewJoined, Ahead, CaptureWaiting,
             PreviewMove
  <1>1. CASE preparePreview
    BY <1>1 DEF preparePreview, frameVars, flagVars
  <1>2. CASE startStreaming
    BY <1>2 DEF startStreaming, frameVars, flagVars
  <1>3. CASE previewClear
    BY <1>3 DEF previewClear, clearPreviewFrame, others, flagVars, lifeVars
  <1>4. CASE createCapture
    BY <1>4 DEF createCapture, frameVars, flagVars, LifeTypeOK, CaptureThread
  <1>5. CASE previewLoop \/ waitPreviewFrame
    BY <1>5 DEF previewLoop, waitPreviewFrame, frameVars, others, flagVars,
                lifeVars
  <1>6. CASE takePreviewFrame
    BY <1>6 DEF takePreviewFrame, RemoveFirst, others, flagVars, lifeVars
  <1>7. CASE getYuyv
    BY <1>7 DEF getYuyv, GetFrame, others, flagVars, lifeVars
  <1>8. CASE decodeMjpeg
    BY <1>8 DEF decodeMjpeg, RecycleLocal, others, flagVars, lifeVars
  <1>9. CASE decodeFails
    BY <1>9 DEF decodeFails, others, flagVars, lifeVars
  <1>10. CASE drawPreview
    BY <1>10 DEF drawPreview, GetFrame, frameVars, others, flagVars, lifeVars
  <1>11. CASE copyToPreview
    BY <1>11 DEF copyToPreview, RecycleLocal, others, flagVars, lifeVars
  <1>12. CASE addCaptureFrame
    BY <1>12 DEF addCaptureFrame, CapAfterBroadcast, others, flagVars,
                 lifeVars
  <1>13. CASE previewSignalCapture
    BY <1>13 DEF previewSignalCapture, SignalCapture, frameVars, others,
                 flagVars, lifeVars
  <1>14. CASE stopStreaming
    BY <1>14 DEF stopStreaming, frameVars, flagVars
  <1> QED BY <1>1, <1>2, <1>3, <1>4, <1>5, <1>6, <1>7, <1>8, <1>9, <1>10,
             <1>11, <1>12, <1>13, <1>14 DEF PreviewStep

\* Only a thread that has begun takes a step, and a thread that has been
\* created belongs to a session.
LEMMA CaptureStops ==
    ASSUME PcInv, LifeTypeOK, FlagTypeOK, StopInv,
           NEW i \in CaptureThread, CaptureStep(i)
    PROVE  StopInv'
  <1> USE DEF PcInv, PcTypeOK, Thread, CtlState, UsbState, PreviewState,
             StopInv, RunningInv, QuietInv, CaptureInv, CaptureUntilStop,
             JoinInv, Stopping, PreviewJoined, Ahead, CaptureWaiting,
             CaptureMove
  <1>1. CASE captureClear(i)
    BY <1>1 DEF captureClear, clearCaptureFrame, others, flagVars, lifeVars
  <1>2. CASE captureLoop(i) \/ captureBegin(i) \/ captureChoose(i)
               \/ captureInner(i) \/ waitCaptureFrame(i)
    BY <1>2 DEF captureLoop, captureBegin, captureChoose, captureInner,
                waitCaptureFrame, frameVars, others, flagVars, lifeVars
  <1>3. CASE takeCaptureFrame(i)
    BY <1>3 DEF takeCaptureFrame, others, flagVars, lifeVars
  <1>4. CASE surfaceGetFrame(i)
    BY <1>4 DEF surfaceGetFrame, GetFrame, frameVars, others, flagVars,
                lifeVars
  <1>5. CASE copyToSurface(i) \/ unlockAndPost(i) \/ captureCallback(i)
               \/ callOnFrame(i) \/ onFrameReturns(i)
    BY <1>5 DEF copyToSurface, unlockAndPost, captureCallback, callOnFrame,
                onFrameReturns, frameVars, others, flagVars, lifeVars
  <1>6. CASE callbackGet(i)
    BY <1>6 DEF callbackGet, GetFrame, others, flagVars, lifeVars
  <1>7. CASE callbackConverted(i)
    BY <1>7 DEF callbackConverted, others, flagVars, lifeVars
  <1>8. CASE captureRecycle(i)
    BY <1>8 DEF captureRecycle, RecycleLocal, others, flagVars, lifeVars
  <1>9. CASE surfaceRecycle(i)
    BY <1>9 DEF surfaceRecycle, RecycleLocal, frameVars, others, flagVars,
                lifeVars
  <1>10. CASE surfaceRelease(i) \/ surfaceForget(i)
    BY <1>10 DEF surfaceRelease, surfaceForget, frameVars, flagVars, lifeVars
  <1>11. CASE captureBroadcast(i)
    BY <1>11 DEF captureBroadcast, CapAfterBroadcast, frameVars, others,
                 flagVars, lifeVars
  <1> QED BY <1>1, <1>2, <1>3, <1>4, <1>5, <1>6, <1>7, <1>8, <1>9, <1>10,
             <1>11 DEF CaptureStep

LEMMA StopsUntouched == StopInv /\ UNCHANGED vars => StopInv'
  BY DEF vars, others, frameVars, flagVars, lifeVars, StopInv, RunningInv,
         QuietInv, CaptureInv, CaptureUntilStop, JoinInv, PreviewJoined,
         Stopping, Ahead

LEMMA InitStops == Init => StopInv
  BY SizeAssumption
     DEF Init, StopInv, RunningInv, QuietInv, CaptureInv, CaptureUntilStop,
         JoinInv, PreviewJoined, Stopping, Thread, Ahead

----------------------------------------------------------------------------
(* The frames that are lost. *)

\* A local variable that is about to take a frame holds none.
HoldersEmpty ==
    /\ pc["usb"] = "idle" => held[Copy] = NoFrame
    /\ pc["preview"] \notin {"get_yuyv", "mjpeg2yuyv"} =>
          held[FrameMjpeg] = NoFrame
    /\ pc["preview"] \notin {"mjpeg2yuyv", "draw", "convert", "add_capture"} =>
          held[FrameYuyv] = NoFrame
    /\ pc["preview"] # "convert" => held[Converted] = NoFrame
    /\ \A i \in CaptureThread :
          /\ cpc[i] \notin CaptureUses => held[CapFrame(i)] = NoFrame
          /\ cpc[i] # "converted" => held[CapBack(i)] = NoFrame

\* The preview thread of the session may still drop a frame: it has not left
\* its loop, and not dropped one already.
MayLose == /\ pc["preview"] \notin {"signal_capture", "stop_streaming", "done"}
           /\ mIsRunning \/ pc["preview"] # "loop"
LossInv == /\ IsFiniteSet(Lost)
           /\ Cardinality(Lost) + (IF MayLose THEN 1 ELSE 0) <= session


\* get_frame loses nothing when the variable it fills was empty.
LEMMA GetFrameLosesNone ==
    ASSUME FrameInv, NEW slot \in Slot, held[slot] = NoFrame, GetFrame(slot)
    PROVE  Lost' \subseteq Lost
  <1>1. /\ UNCHANGED <<previewFrames, captureQueu>>
        /\ \A s \in Slot \ {slot} : held'[s] = held[s]
        /\ held'[slot] = NoFrame => UNCHANGED <<mFramePool, heap>>
        /\ mFramePool \subseteq mFramePool' \cup {held'[slot]}
        /\ heap' \subseteq heap \cup {held'[slot]}
    BY FrameAssumption, SMTT(30) DEF GetFrame, FrameInv, FrameTypeOK
  <1>2. Held \subseteq Held' /\ (held'[slot] # NoFrame => held'[slot] \in Held')
    BY <1>1 DEF Held
  <1>3. Queued' = Queued
    BY <1>1 DEF Queued
  <1> QED BY <1>1, <1>2, <1>3 DEF Lost

\* What recycle_frame does not keep in the pool it frees.
LEMMA RecycleLosesNone ==
    ASSUME NEW S, Recycle(S), Held \subseteq Held' \cup S,
           Queued \subseteq Queued' \cup S,
           captureQueu \in {captureQueu', NoFrame} \cup S,
           NoFrame \notin heap
    PROVE  Lost' \subseteq Lost
  BY DEF Recycle, Lost

LEMMA RecycleLocalLosesNone ==
    ASSUME FrameInv, NEW slot \in Slot, RecycleLocal(slot)
    PROVE  Lost' \subseteq Lost
  <1>1. Held \subseteq Held' \cup {held[slot]}
    BY DEF RecycleLocal, FrameInv, FrameTypeOK, Held
  <1>2. Queued' = Queued /\ captureQueu' = captureQueu
    BY DEF RecycleLocal, Queued
  <1>3. NoFrame \notin heap
    BY FrameAssumption DEF FrameInv, FrameTypeOK
  <1> QED BY <1>1, <1>2, <1>3, RecycleLosesNone DEF RecycleLocal

LEMMA ClearPreviewLosesNone ==
    ASSUME FrameInv, clearPreviewFrame
    PROVE  Lost' \subseteq Lost
  <1>1. Held' = Held /\ captureQueu' = captureQueu
    BY DEF clearPreviewFrame, Held
  <1>2. NoFrame \notin heap
    BY FrameAssumption DEF FrameInv, FrameTypeOK
  <1> QED BY <1>1, <1>2, RecycleLosesNone DEF clearPreviewFrame

LEMMA ClearCaptureLosesNone ==
    ASSUME FrameInv, clearCaptureFrame
    PROVE  Lost' \subseteq Lost
  <1>1. Held' = Held /\ Queued' = Queued
    BY DEF clearCaptureFrame, Held, Queued
  <1>2. NoFrame \notin heap
    BY FrameAssumption DEF FrameInv, FrameTypeOK
  <1>3. captureQueu \in {captureQueu', NoFrame} \cup ({captureQueu} \ {NoFrame})
    OBVIOUS
  <1> QED BY <1>1, <1>2, <1>3, RecycleLosesNone DEF clearCaptureFrame

LEMMA UntouchedLosesNone == UNCHANGED frameVars => Lost' = Lost
  BY DEF frameVars, Lost, Held, Queued

\* A frame that a variable gives away is in that variable until then.
LEMMA HeldExceptOne ==
    ASSUME FrameInv, NEW slot \in Slot,
           \A s \in Slot \ {slot} : held'[s] = held[s]
    PROVE  Held \subseteq Held' \cup {held[slot]}
  BY DEF Held

LEMMA AddPreviewLosesNone ==
    ASSUME FrameInv, held[Copy] # NoFrame, addPreviewFrame
    PROVE  Lost' \subseteq Lost
  <1>1. /\ previewFrames \in Seq(Frame) /\ held[Copy] \in Frame
        /\ previewFrames' = Append(previewFrames, held[Copy])
        /\ UNCHANGED <<captureQueu, mFramePool, heap>>
    BY SlotFacts DEF FrameInv, FrameTypeOK, addPreviewFrame
  <1>2. /\ Len(previewFrames') = Len(previewFrames) + 1
        /\ Len(previewFrames) \in Nat
        /\ \A k \in 1 .. Len(previewFrames) :
              previewFrames'[k] = previewFrames[k]
        /\ previewFrames'[Len(previewFrames) + 1] = held[Copy]
    BY <1>1
  <1>3. Queued \cup {held[Copy]} \subseteq Queued'
    BY <1>2 DEF Queued
  <1>4. Held \subseteq Held' \cup {held[Copy]}
    BY AddPreviewKeeps, HeldExceptOne, SlotFacts
  <1> QED BY <1>1, <1>3, <1>4 DEF Lost

LEMMA RemoveFirstLosesNone ==
    ASSUME FrameInv, NEW slot \in Slot, held[slot] = NoFrame,
           previewFrames # << >>, RemoveFirst(slot),
           UNCHANGED <<captureQueu, mFramePool, heap>>
    PROVE  Lost' \subseteq Lost
  <1>1. /\ previewFrames \in Seq(Frame) /\ Len(previewFrames) \in Nat \ {0}
        /\ previewFrames' = Tail(previewFrames)
        /\ Head(previewFrames) = previewFrames[1]
        /\ previewFrames[1] \in Frame
    BY DEF FrameInv, FrameTypeOK, RemoveFirst
  <1>2. /\ Len(previewFrames') = Len(previewFrames) - 1
        /\ \A k \in 2 .. Len(previewFrames) :
              k - 1 \in 1 .. Len(previewFrames')
                /\ previewFrames[k] = previewFrames'[k - 1]
    BY <1>1
  <1>3. held'[slot] = previewFrames[1]
    BY <1>1 DEF RemoveFirst, FrameInv, FrameTypeOK
  <1>4. previewFrames[1] \in Held'
    BY <1>1, <1>3, FrameAssumption DEF Held
  <1>5. Held \subseteq Held'
    <2>1. Held \subseteq Held' \cup {held[slot]}
      BY RemoveFirstKeeps, HeldExceptOne
    <2> QED BY <2>1 DEF Held
  <1>6. Queued \subseteq Queued' \cup {previewFrames[1]}
    <2> SUFFICES ASSUME NEW f \in Queued, f # previewFrames[1]
                 PROVE  f \in Queued'
      OBVIOUS
    <2>1. PICK k \in 1 .. Len(previewFrames) : f = previewFrames[k]
      BY DEF Queued
    <2>2. k \in 2 .. Len(previewFrames)
      BY <1>1, <2>1
    <2> QED BY <1>2, <2>1, <2>2 DEF Queued
  <1> QED BY <1>4, <1>5, <1>6 DEF Lost

LEMMA DecodeFailsLosesNone ==
    ASSUME FrameInv, held[FrameMjpeg] # NoFrame, held[FrameYuyv] # NoFrame,
           decodeFails
    PROVE  Lost' \subseteq Lost
  <1>1. Held \subseteq Held' \cup {held[FrameMjpeg], held[FrameYuyv]}
    BY DecodeFailsKeeps DEF Held
  <1>2. Queued' = Queued /\ captureQueu' = captureQueu
    BY DEF decodeFails, Queued
  <1>3. NoFrame \notin heap
    BY FrameAssumption DEF FrameInv, FrameTypeOK
  <1> QED BY <1>1, <1>2, <1>3, RecycleLosesNone DEF decodeFails

\* addCaptureFrame loses its frame when the preview was stopped meanwhile.
LEMMA AddCaptureLosesOne ==
    ASSUME FrameInv, held[FrameYuyv] # NoFrame, addCaptureFrame
    PROVE  /\ Lost' \subseteq Lost \cup {held[FrameYuyv]}
           /\ mIsRunning => Lost' \subseteq Lost
  <1>1. Held \subseteq Held' \cup {held[FrameYuyv]}
    BY AddCaptureKeeps, HeldExceptOne, SlotFacts
  <1>2. Queued' = Queued
    BY DEF addCaptureFrame, Queued
  <1>3. CASE mIsRunning
    <2>1. /\ Recycle({captureQueu} \ {NoFrame})
          /\ captureQueu' = held[FrameYuyv]
      BY <1>3 DEF addCaptureFrame
    <2>2. NoFrame \notin heap
      BY FrameAssumption DEF FrameInv, FrameTypeOK
    <2> QED BY <1>1, <1>2, <2>1, <2>2 DEF Recycle, Lost
  <1>4. CASE ~mIsRunning
    <2>1. UNCHANGED <<captureQueu, mFramePool, heap>>
      BY <1>4 DEF addCaptureFrame
    <2> QED BY <1>1, <1>2, <1>4, <2>1 DEF Lost
  <1> QED BY <1>3, <1>4

LEMMA TakeCaptureLosesNone ==
    ASSUME FrameInv, NEW i \in CaptureThread, held[CapFrame(i)] = NoFrame,
           takeCaptureFrame(i)
    PROVE  Lost' \subseteq Lost
  <1>1. Held \subseteq Held'
    <2>1. Held \subseteq Held' \cup {held[CapFrame(i)]}
      BY TakeCaptureKeeps, HeldExceptOne, SlotFacts
    <2> QED BY <2>1 DEF Held
  <1>2. UNCHANGED <<previewFrames, mFramePool, heap>>
    BY DEF takeCaptureFrame
  <1>3. captureQueu \in {captureQueu', NoFrame} \cup Held'
    BY SlotFacts DEF takeCaptureFrame, FrameInv, FrameTypeOK, Held
  <1>4. NoFrame \notin heap
    BY FrameAssumption DEF FrameInv, FrameTypeOK
  <1> QED BY <1>1, <1>2, <1>3, <1>4 DEF Lost, Queued

LEMMA ConvertedLosesNone ==
    ASSUME FrameInv, NEW i \in CaptureThread, held[CapFrame(i)] # NoFrame,
           callbackConverted(i)
    PROVE  Lost' \subseteq Lost
  <1>1. Held \subseteq Held' \cup {held[CapFrame(i)]}
    BY ConvertedKeeps, SlotFacts DEF Held
  <1>2. Queued' = Queued /\ captureQueu' = captureQueu
    BY DEF callbackConverted, Queued
  <1>3. NoFrame \notin heap
    BY FrameAssumption DEF FrameInv, FrameTypeOK
  <1> QED BY <1>1, <1>2, <1>3, RecycleLosesNone DEF callbackConverted

\* A signal wakes at most one waiter.
LEMMA SignalWakes ==
    ASSUME PcTypeOK, NEW thread \in Thread, NEW to, SignalCapture(thread, to)
    PROVE  /\ \A t \in Thread \ {thread, "cap"} : pc'[t] = pc[t]
           /\ thread # "cap" => pc'[thread] = to
           /\ \A i \in CaptureThread :
                 \/ cpc'[i] = cpc[i]
                 \/ cpc[i] = "waiting" /\ cpc'[i] = "woken"
  BY DEF SignalCapture, CaptureWaiting, PcTypeOK, Thread

\* Each thread finds the variables it fills empty, and only the preview
\* thread loses frames.
LEMMA CtlLoss ==
    ASSUME PcInv, Frames, StopInv, HoldersEmpty, CtlStep
    PROVE  HoldersEmpty' /\ Lost' \subseteq Lost
  <1> USE UntouchedLosesNone, FramesUntouched
          DEF Frames, HoldersEmpty, PcInv, PcTypeOK, Thread, CaptureUses
  <1>1. CASE startCreate
    <2>1. pc["preview"] = "done"
      BY <1>1 DEF startCreate, StopInv, QuietInv, PreviewJoined
    <2> QED BY <1>1, <2>1 DEF startCreate
  <1>2. CASE startFail
    BY <1>2 DEF startFail, PcAfterPreviewSignal
  <1>3. CASE stopSignalPreview
    BY <1>3 DEF stopSignalPreview, PcAfterPreviewSignal
  <1>4. CASE stopSignalCapture
    BY <1>4, SignalWakes DEF stopSignalCapture
  <1>5. CASE stopJoinCapture \/ stopCaptureJoined \/ stopPreviewJoined
    BY <1>5 DEF stopJoinCapture, stopCaptureJoined, stopPreviewJoined
  <1>6. CASE stopClearPreview
    BY <1>6, ClearPreviewKeeps, ClearPreviewLosesNone DEF stopClearPreview
  <1>7. CASE stopClearCapture
    BY <1>7, ClearCaptureKeeps, ClearCaptureLosesNone DEF stopClearCapture
  <1>8. CASE stopReleaseWindow
    BY <1>8 DEF stopReleaseWindow
  <1>9. CASE destructor
    <2>1. /\ captureQueu' = NoFrame /\ mFramePool' = {} /\ UNCHANGED held
          /\ heap' = heap \ (Queued \cup {captureQueu} \cup mFramePool)
      BY <1>9 DEF destructor
    <2>2. Held' = Held /\ NoFrame \notin heap
      BY <2>1, FrameAssumption DEF Held, FrameInv, FrameTypeOK
    <2>3. Lost' \subseteq Lost
      BY <2>1, <2>2 DEF Lost
    <2> QED BY <1>9, <2>1, <2>3 DEF destructor
  <1> QED BY <1>1, <1>2, <1>3, <1>4, <1>5, <1>6, <1>7, <1>8, <1>9 DEF CtlStep

LEMMA EnvironmentLoss ==
    ASSUME PcInv, Frames, HoldersEmpty, Environment \/ CapStep \/ UsbStep
    PROVE  HoldersEmpty' /\ Lost' \subseteq Lost
  <1> USE UntouchedLosesNone, FramesUntouched
          DEF Frames, HoldersEmpty, HoldersFull, PcInv, PcTypeOK, Thread,
              UsbState, CaptureUses
  <1>1. CASE setPreviewDisplay \/ startPreview \/ stopPreview
    BY <1>1 DEF setPreviewDisplay, startPreview, stopPreview
  <1>2. CASE setWithoutWait \/ setBeginWait \/ setReplace
    BY <1>2 DEF setWithoutWait, setBeginWait, setReplace
  <1>3. CASE setSignalAndWait
    BY <1>3, SignalWakes DEF setSignalAndWait
  <1>4. CASE frameCallback
    <2>1. \A s \in Slot \ {Copy} : held'[s] = held[s]
      BY <1>4, GetFrameKeeps, SlotFacts DEF frameCallback
    <2>2. Lost' \subseteq Lost
      BY <1>4, GetFrameLosesNone, SlotFacts DEF frameCallback
    <2> QED BY <1>4, <2>1, <2>2, SlotFacts DEF frameCallback
  <1>5. CASE addPreviewFrame
    <2>1. \A s \in Slot \ {Copy} : held'[s] = held[s]
      BY <1>5, AddPreviewKeeps DEF addPreviewFrame
    <2>2. Lost' \subseteq Lost
      BY <1>5, AddPreviewLosesNone DEF addPreviewFrame
    <2>3. held'[Copy] = NoFrame
      BY <1>5, SlotFacts DEF addPreviewFrame, FrameInv, FrameTypeOK
    <2> QED BY <1>5, <2>1, <2>2, <2>3, SlotFacts
            DEF addPreviewFrame, PcAfterPreviewSignal
  <1>6. CASE callbackRecycle
    <2>1. \A s \in Slot \ {Copy} : held'[s] = held[s]
      BY <1>6, RecycleLocalKeeps, SlotFacts DEF callbackRecycle
    <2>2. Lost' \subseteq Lost
      BY <1>6, RecycleLocalLosesNone, SlotFacts DEF callbackRecycle
    <2>3. held'[Copy] = NoFrame
      BY <1>6, SlotFacts
         DEF callbackRecycle, RecycleLocal, FrameInv, FrameTypeOK
    <2> QED BY <1>6, <2>1, <2>2, <2>3, SlotFacts DEF callbackRecycle
  <1> QED BY <1>1, <1>2, <1>3, <1>4, <1>5, <1>6
          DEF Environment, CapStep, UsbStep

LEMMA PreviewLoss ==
    ASSUME PcInv, LifeTypeOK, Frames, StopInv, HoldersEmpty, PreviewStep
    PROVE  /\ HoldersEmpty'
           /\ \/ Lost' \subseteq Lost
              \/ addCaptureFrame /\ ~mIsRunning
  <1> USE UntouchedLosesNone, FramesUntouched, SlotFacts
          DEF Frames, HoldersEmpty, HoldersFull, PcInv, PcTypeOK, Thread,
              PreviewState, CaptureUses, PreviewMove
  <1>1. CASE preparePreview \/ startStreaming \/ stopStreaming
    BY <1>1 DEF preparePreview, startStreaming, stopStreaming
  <1>2. CASE createCapture
    <2>1. \A i \in CaptureThread : i = session => cpc[i] = "none"
      BY <1>2 DEF createCapture, StopInv, CaptureInv, Ahead
    <2> QED BY <1>2, <2>1 DEF createCapture
  <1>3. CASE previewClear
    BY <1>3, ClearPreviewKeeps, ClearPreviewLosesNone DEF previewClear
  <1>4. CASE previewLoop \/ waitPreviewFrame
    BY <1>4 DEF previewLoop, waitPreviewFrame
  <1>5. CASE takePreviewFrame
    <2>1. CASE mIsRunning /\ previewFrames # << >>
      <3> DEFINE slot == IF frameFormatType = "mjpeg" THEN FrameMjpeg
                                                      ELSE FrameYuyv
      <3>1. slot \in Slot /\ RemoveFirst(slot) /\ held[slot] = NoFrame
        BY <1>5, <2>1 DEF takePreviewFrame
      <3>2. UNCHANGED <<captureQueu, mFramePool, heap>>
        BY <1>5 DEF takePreviewFrame
      <3>3. \A s \in Slot \ {slot} : held'[s] = held[s]
        BY <2>1, <3>1, <3>2, RemoveFirstKeeps
      <3>4. Lost' \subseteq Lost
        BY <2>1, <3>1, <3>2, RemoveFirstLosesNone
      <3> QED BY <1>5, <2>1, <3>3, <3>4 DEF takePreviewFrame
    <2>2. CASE ~(mIsRunning /\ previewFrames # << >>)
      BY <1>5, <2>2 DEF takePreviewFrame, frameVars
    <2> QED BY <2>1, <2>2
  <1>6. CASE getYuyv
    <2>1. \A s \in Slot \ {FrameYuyv} : held'[s] = held[s]
      BY <1>6, GetFrameKeeps DEF getYuyv
    <2>2. Lost' \subseteq Lost
      BY <1>6, GetFrameLosesNone DEF getYuyv
    <2> QED BY <1>6, <2>1, <2>2 DEF getYuyv
  <1>7. CASE decodeMjpeg
    <2>1. \A s \in Slot \ {FrameMjpeg} : held'[s] = held[s]
      BY <1>7, RecycleLocalKeeps DEF decodeMjpeg
    <2>2. Lost' \subseteq Lost /\ held'[FrameMjpeg] = NoFrame
      BY <1>7, RecycleLocalLosesNone
         DEF decodeMjpeg, RecycleLocal, FrameInv, FrameTypeOK
    <2> QED BY <1>7, <2>1, <2>2 DEF decodeMjpeg
  <1>8. CASE decodeFails
    <2>1. \A s \in Slot \ {FrameMjpeg, FrameYuyv} : held'[s] = held[s]
      BY <1>8, DecodeFailsKeeps DEF decodeFails
    <2>2. held'[FrameMjpeg] = NoFrame /\ held'[FrameYuyv] = NoFrame
      BY <1>8 DEF decodeFails, FrameInv, FrameTypeOK
    <2>3. Lost' \subseteq Lost
      BY <1>8, DecodeFailsLosesNone DEF decodeFails
    <2> QED BY <1>8, <2>1, <2>2, <2>3 DEF decodeFails
  <1>9. CASE drawPreview
    <2>1. \A s \in Slot \ {Converted} : held'[s] = held[s]
      BY <1>9, GetFrameKeeps DEF drawPreview
    <2>2. Lost' \subseteq Lost
      BY <1>9, GetFrameLosesNone DEF drawPreview
    <2> QED BY <1>9, <2>1, <2>2 DEF drawPreview
  <1>10. CASE copyToPreview
    <2>1. \A s \in Slot \ {Converted} : held'[s] = held[s]
      BY <1>10, RecycleLocalKeeps DEF copyToPreview
    <2>2. Lost' \subseteq Lost /\ held'[Converted] = NoFrame
      BY <1>10, RecycleLocalLosesNone
         DEF copyToPreview, RecycleLocal, FrameInv, FrameTypeOK
    <2> QED BY <1>10, <2>1, <2>2 DEF copyToPreview
  <1>11. CASE addCaptureFrame
    <2>1. \A s \in Slot \ {FrameYuyv} : held'[s] = held[s]
      BY <1>11, AddCaptureKeeps DEF addCaptureFrame
    <2>2. held'[FrameYuyv] = NoFrame
      BY <1>11 DEF addCaptureFrame, FrameInv, FrameTypeOK
    <2>3. mIsRunning => Lost' \subseteq Lost
      BY <1>11, AddCaptureLosesOne DEF addCaptureFrame
    <2>4. HoldersEmpty'
      BY <1>11, <2>1, <2>2
         DEF addCaptureFrame, CapAfterBroadcast, CaptureWaiting
    <2> QED BY <1>11, <2>3, <2>4
  <1>12. CASE previewSignalCapture
    BY <1>12, SignalWakes DEF previewSignalCapture
  <1> QED BY <1>1, <1>2, <1>3, <1>4, <1>5, <1>6, <1>7, <1>8, <1>9, <1>10,
             <1>11, <1>12 DEF PreviewStep

LEMMA CaptureLoss ==
    ASSUME PcInv, Frames, HoldersEmpty, NEW i \in CaptureThread,
           CaptureStep(i)
    PROVE  HoldersEmpty' /\ Lost' \subseteq Lost
  <1> USE UntouchedLosesNone, FramesUntouched, SlotFacts
          DEF Frames, HoldersEmpty, HoldersFull, PcInv, PcTypeOK, Thread,
              CaptureUses, CaptureMove
  <1>1. CASE captureClear(i)
    BY <1>1, ClearCaptureKeeps, ClearCaptureLosesNone DEF captureClear
  <1>2. CASE captureLoop(i) \/ captureBegin(i) \/ captureChoose(i)
               \/ captureInner(i) \/ waitCaptureFrame(i)
    BY <1>2 DEF captureLoop, captureBegin, captureChoose, captureInner,
                waitCaptureFrame
  <1>3. CASE takeCaptureFrame(i)
    <2>1. \A s \in Slot \ {CapFrame(i)} : held'[s] = held[s]
      BY <1>3, TakeCaptureKeeps
    <2>2. Lost' \subseteq Lost
      BY <1>3, TakeCaptureLosesNone DEF takeCaptureFrame
    <2> QED BY <1>3, <2>1, <2>2 DEF takeCaptureFrame
  <1>4. CASE surfaceGetFrame(i)
    <2>1. \A s \in Slot \ {CapConv(i)} : held'[s] = held[s]
      BY <1>4, GetFrameKeeps DEF surfaceGetFrame
    <2>2. Lost' \subseteq Lost
      BY <1>4, GetFrameLosesNone DEF surfaceGetFrame
    <2> QED BY <1>4, <2>1, <2>2 DEF surfaceGetFrame
  <1>5. CASE copyToSurface(i) \/ unlockAndPost(i) \/ captureCallback(i)
               \/ callOnFrame(i) \/ onFrameReturns(i)
    BY <1>5 DEF copyToSurface, unlockAndPost, captureCallback, callOnFrame,
                onFrameReturns
  <1>6. CASE callbackGet(i)
    <2>1. \A s \in Slot \ {CapBack(i)} : held'[s] = held[s]
      BY <1>6, GetFrameKeeps DEF callbackGet
    <2>2. Lost' \subseteq Lost
      BY <1>6, GetFrameLosesNone DEF callbackGet
    <2> QED BY <1>6, <2>1, <2>2 DEF callbackGet
  <1>7. CASE callbackConverted(i)
    <2>1. \A s \in Slot \ {CapFrame(i), CapBack(i)} : held'[s] = held[s]
      BY <1>7, ConvertedKeeps DEF callbackConverted
    <2>2. Lost' \subseteq Lost
      BY <1>7, ConvertedLosesNone DEF callbackConverted
    <2>3. held'[CapBack(i)] = NoFrame
      BY <1>7 DEF callbackConverted, FrameInv, FrameTypeOK
    <2> QED BY <1>7, <2>1, <2>2, <2>3 DEF callbackConverted
  <1>8. CASE captureRecycle(i)
    <2>1. \A s \in Slot \ {CapFrame(i)} : held'[s] = held[s]
      BY <1>8, RecycleLocalKeeps DEF captureRecycle
    <2>2. Lost' \subseteq Lost /\ held'[CapFrame(i)] = NoFrame
      BY <1>8, RecycleLocalLosesNone
         DEF captureRecycle, RecycleLocal, FrameInv, FrameTypeOK
    <2> QED BY <1>8, <2>1, <2>2 DEF captureRecycle
  <1>9. CASE surfaceRecycle(i)
    <2>1. \A s \in Slot \ {CapConv(i)} : held'[s] = held[s]
      BY <1>9, RecycleLocalKeeps DEF surfaceRecycle
    <2>2. Lost' \subseteq Lost
      BY <1>9, RecycleLocalLosesNone DEF surfaceRecycle
    <2> QED BY <1>9, <2>1, <2>2 DEF surfaceRecycle
  <1>10. CASE surfaceRelease(i) \/ surfaceForget(i)
    BY <1>10 DEF surfaceRelease, surfaceForget
  <1>11. CASE captureBroadcast(i)
    BY <1>11 DEF captureBroadcast, CapAfterBroadcast, CaptureWaiting
  <1> QED BY <1>1, <1>2, <1>3, <1>4, <1>5, <1>6, <1>7, <1>8, <1>9, <1>10,
             <1>11 DEF CaptureStep

\* A thread that has lost a frame, or left its loop, loses no more.
LEMMA NoNewLoss ==
    ASSUME PcInv, FlagTypeOK, StopInv, Next, ~startCreate
    PROVE  MayLose' => MayLose
  <1> USE DEF MayLose, PcInv, PcTypeOK, Thread, StopInv, RunningInv, QuietInv,
             PreviewJoined, PreviewState
  <1>1. CASE CtlStep
    BY <1>1 DEF CtlStep, startFail, stopSignalPreview, stopSignalCapture,
                stopJoinCapture, stopCaptureJoined, stopPreviewJoined,
                stopClearPreview, stopClearCapture, stopReleaseWindow,
                destructor, PcAfterPreviewSignal, SignalCapture, others,
                flagVars
  <1>2. CASE Environment \/ CapStep \/ UsbStep
    <2>1. CASE startPreview
      BY <2>1 DEF startPreview
    <2>2. CASE stopPreview
      BY <2>2 DEF stopPreview
    <2>3. CASE setWithoutWait
      BY <2>3 DEF setWithoutWait
    <2>4. CASE setBeginWait \/ setPreviewDisplay \/ frameCallback
      BY <2>4 DEF setBeginWait, setPreviewDisplay, frameCallback, others,
                  flagVars
    <2>5. CASE CapStep
      BY <2>5 DEF CapStep, setSignalAndWait, setReplace, SignalCapture,
                  flagVars
    <2>6. CASE UsbStep
      BY <2>6 DEF UsbStep, addPreviewFrame, callbackRecycle,
                  PcAfterPreviewSignal, others, flagVars
    <2> QED BY <1>2, <2>1, <2>2, <2>3, <2>4, <2>5, <2>6 DEF Environment
  <1>3. CASE PreviewStep
    <2>1. UNCHANGED mIsRunning
      BY <1>3 DEF PreviewStep, preparePreview, startStreaming, previewClear,
                  createCapture, previewLoop, waitPreviewFrame,
                  takePreviewFrame, getYuyv, decodeMjpeg, decodeFails,
                  drawPreview, copyToPreview, addCaptureFrame,
                  previewSignalCapture, stopStreaming, others, flagVars
    <2>2. CASE previewLoop
      BY <2>1, <2>2 DEF previewLoop, PreviewMove
    <2>3. CASE addCaptureFrame
      BY <2>1, <2>3 DEF addCaptureFrame
    <2>4. CASE previewSignalCapture \/ stopStreaming
      BY <2>1, <2>4 DEF previewSignalCapture, SignalCapture, stopStreaming,
                        PreviewMove
    <2>5. CASE \/ preparePreview \/ startStreaming \/ previewClear
               \/ createCapture \/ waitPreviewFrame \/ takePreviewFrame
               \/ getYuyv \/ decodeMjpeg \/ decodeFails \/ drawPreview
               \/ copyToPreview
      <3>1. pc["preview"] \notin {"loop", "signal_capture", "stop_streaming",
                                  "done"}
        BY <2>5 DEF preparePreview, startStreaming, previewClear,
                    createCapture, waitPreviewFrame, takePreviewFrame,
                    getYuyv, decodeMjpeg, decodeFails, drawPreview,
                    copyToPreview, PreviewMove
      <3> QED BY <3>1
    <2> QED BY <1>3, <2>2, <2>3, <2>4, <2>5 DEF PreviewStep
  <1>4. ASSUME NEW i \in CaptureThread, CaptureStep(i)
        PROVE  MayLose' => MayLose
    <2>1. UNCHANGED mIsRunning
      BY <1>4 DEF CaptureStep, captureClear, captureLoop, captureBegin,
                  captureChoose, captureInner, waitCaptureFrame,
                  takeCaptureFrame, surfaceGetFrame, copyToSurface,
                  unlockAndPost, captureCallback, callbackGet,
                  callbackConverted, callOnFrame, onFrameReturns,
                  captureRecycle, surfaceRecycle, surfaceRelease,
                  surfaceForget, captureBroadcast, others, flagVars
    <2>2. pc'["preview"] = pc["preview"]
      BY <1>4 DEF CaptureStep, captureClear, captureLoop, captureBegin,
                  captureChoose, captureInner, waitCaptureFrame,
                  takeCaptureFrame, surfaceGetFrame, copyToSurface,
                  unlockAndPost, captureCallback, callbackGet,
                  callbackConverted, callOnFrame, onFrameReturns,
                  captureRecycle, surfaceRecycle, surfaceRelease,
                  surfaceForget, captureBroadcast, others, flagVars
    <2> QED BY <2>1, <2>2
  <1> QED BY <1>1, <1>2, <1>3, <1>4 DEF Next

\* Only startCreate begins a session.
LEMMA SessionKept == Next /\ ~startCreate => UNCHANGED session
  <1> SUFFICES ASSUME Next, ~startCreate PROVE UNCHANGED session
    OBVIOUS
  <1>1. CASE CtlStep
    BY <1>1 DEF CtlStep, startFail, stopSignalPreview, stopSignalCapture,
                stopJoinCapture, stopCaptureJoined, stopPreviewJoined,
                stopClearPreview, stopClearCapture, stopReleaseWindow,
                destructor, others, lifeVars
  <1>2. CASE Environment \/ CapStep \/ UsbStep
    BY <1>2 DEF Environment, CapStep, UsbStep, setPreviewDisplay,
                startPreview, stopPreview, setWithoutWait, setBeginWait,
                frameCallback, setSignalAndWait, setReplace, addPreviewFrame,
                callbackRecycle, others, lifeVars
  <1>3. CASE PreviewStep
    BY <1>3 DEF PreviewStep, preparePreview, startStreaming, previewClear,
                createCapture, previewLoop, waitPreviewFrame,
                takePreviewFrame, getYuyv, decodeMjpeg, decodeFails,
                drawPreview, copyToPreview, addCaptureFrame,
                previewSignalCapture, stopStreaming, others, lifeVars
  <1>4. ASSUME NEW i \in CaptureThread, CaptureStep(i)
        PROVE  UNCHANGED session
    BY <1>4 DEF CaptureStep, captureClear, captureLoop, captureBegin,
                captureChoose, captureInner, waitCaptureFrame,
                takeCaptureFrame, surfaceGetFrame, copyToSurface,
                unlockAndPost, captureCallback, callbackGet,
                callbackConverted, callOnFrame, onFrameReturns,
                captureRecycle, surfaceRecycle, surfaceRelease,
                surfaceForget, captureBroadcast, others, lifeVars
  <1> QED BY <1>1, <1>2, <1>3, <1>4 DEF Next

\* The actions that change previewFrames.
LEMMA QueueActions ==
    ASSUME [Next]_vars, ~UNCHANGED previewFrames
    PROVE  \/ addPreviewFrame \/ takePreviewFrame
           \/ stopClearPreview \/ destructor \/ previewClear
  <1>1. Next
    BY DEF vars, frameVars
  <1>2. CASE CtlStep
    BY <1>2 DEF CtlStep, startCreate, startFail, stopSignalPreview,
                stopSignalCapture, stopJoinCapture, stopCaptureJoined,
                stopPreviewJoined, stopClearCapture, clearCaptureFrame,
                stopReleaseWindow, frameVars
  <1>3. CASE Environment \/ CapStep \/ UsbStep
    BY <1>3 DEF Environment, CapStep, UsbStep, setPreviewDisplay,
                startPreview, stopPreview, setWithoutWait, setBeginWait,
                frameCallback, GetFrame, setSignalAndWait, setReplace,
                callbackRecycle, RecycleLocal, frameVars
  <1>4. CASE PreviewStep
    BY <1>4 DEF PreviewStep, preparePreview, startStreaming, createCapture,
                previewLoop, waitPreviewFrame, getYuyv, decodeMjpeg,
                decodeFails, drawPreview, copyToPreview, addCaptureFrame,
                previewSignalCapture, stopStreaming, GetFrame, RecycleLocal,
                frameVars
  <1>5. ASSUME NEW i \in CaptureThread, CaptureStep(i)
        PROVE  FALSE
    BY <1>5 DEF CaptureStep, captureClear, clearCaptureFrame, captureLoop,
                captureBegin, captureChoose, captureInner, waitCaptureFrame,
                takeCaptureFrame, surfaceGetFrame, copyToSurface,
                unlockAndPost, captureCallback, callbackGet,
                callbackConverted, callOnFrame, onFrameReturns,
                captureRecycle, surfaceRecycle, surfaceRelease,
                surfaceForget, captureBroadcast, GetFrame, RecycleLocal,
                frameVars
  <1> QED BY <1>1, <1>2, <1>3, <1>4, <1>5 DEF Next

\* One frame at most is lost by a step, and then the preview thread is in the
\* loop it leaves next.
LEMMA LossBounded ==
    ASSUME PcInv, LifeTypeOK, FlagTypeOK, Frames, StopInv, HoldersEmpty,
           LossInv, Next
    PROVE  LossInv'
  <1>1. session \in Nat /\ Cardinality(Lost) \in Nat /\ MayLose \in BOOLEAN
    BY FS_CardinalityType, SizeAssumption DEF LifeTypeOK, LossInv, MayLose
  <1>2. CASE Lost' \subseteq Lost
    <2>1. IsFiniteSet(Lost') /\ Cardinality(Lost') <= Cardinality(Lost)
      BY <1>2, FS_Subset DEF LossInv
    <2>2. Cardinality(Lost') \in Nat
      BY <2>1, FS_CardinalityType
    <2>3. CASE startCreate
      <3>1. session' = session + 1 /\ pc["preview"] = "done"
        BY <2>3 DEF startCreate, StopInv, QuietInv, PreviewJoined
      <3>2. Cardinality(Lost) <= session
        BY <3>1, <1>1 DEF LossInv, MayLose
      <3> QED BY <1>1, <2>1, <2>2, <3>1, <3>2 DEF LossInv
    <2>4. CASE ~startCreate
      <3>1. session' = session
        BY <2>4, SessionKept
      <3>2. MayLose' => MayLose
        BY <2>4, NoNewLoss
      <3> QED BY <1>1, <2>1, <2>2, <3>1, <3>2 DEF LossInv
    <2> QED BY <2>3, <2>4
  <1>3. CASE addCaptureFrame /\ ~mIsRunning
    <2>1. Lost' \subseteq Lost \cup {held[FrameYuyv]}
      BY <1>3, AddCaptureLosesOne DEF Frames, HoldersFull, addCaptureFrame
    <2>2. /\ IsFiniteSet(Lost \cup {held[FrameYuyv]})
          /\ Cardinality(Lost \cup {held[FrameYuyv]}) <= Cardinality(Lost) + 1
      BY <1>1, FS_AddElement DEF LossInv
    <2>3. /\ IsFiniteSet(Lost')
          /\ Cardinality(Lost')
               <= Cardinality(Lost \cup {held[FrameYuyv]})
      BY <2>1, <2>2, FS_Subset
    <2>4. Cardinality(Lost') \in Nat
          /\ Cardinality(Lost \cup {held[FrameYuyv]}) \in Nat
      BY <2>2, <2>3, FS_CardinalityType
    <2>5. MayLose /\ ~MayLose' /\ session' = session
      BY <1>3 DEF addCaptureFrame, MayLose, others, flagVars, lifeVars,
                  PcInv, PcTypeOK, Thread
    <2> QED BY <1>1, <2>2, <2>3, <2>4, <2>5 DEF LossInv
  <1>4. Lost' \subseteq Lost \/ (addCaptureFrame /\ ~mIsRunning)
    BY CtlLoss, EnvironmentLoss, PreviewLoss, CaptureLoss DEF Next
  <1> QED BY <1>2, <1>3, <1>4

----------------------------------------------------------------------------
\* The pool is finite and neither it nor the queue is above its limit.
LimitInv == IsFiniteSet(mFramePool) /\ Capacity

LEMMA QueuedFinite == FrameTypeOK => IsFiniteSet(Queued)
  <1> SUFFICES ASSUME FrameTypeOK PROVE IsFiniteSet(Queued)
    OBVIOUS
  <1> DEFINE n == Len(previewFrames)
             f == [k \in 1 .. n |-> previewFrames[k]]
  <1>1. n \in Nat
    BY DEF FrameTypeOK
  <1>2. f \in Surjection(1 .. n, Queued)
    BY DEF Surjection, Queued
  <1>3. IsFiniteSet(1 .. n)
    BY <1>1, FS_Interval
  <1> QED BY <1>2, <1>3, FS_Surjection

LEMMA RecycleLimited ==
    ASSUME LimitInv, NEW S, IsFiniteSet(S), Recycle(S)
    PROVE  IsFiniteSet(mFramePool') /\ Cardinality(mFramePool') <= FRAME_POOL_SZ
  <1>1. PICK T \in SUBSET S : /\ Cardinality(mFramePool \cup T) <= FRAME_POOL_SZ
                              /\ mFramePool' = mFramePool \cup T
    BY DEF Recycle
  <1>2. IsFiniteSet(T)
    BY FS_Subset
  <1>3. IsFiniteSet(mFramePool \cup T)
    BY <1>2, FS_Union DEF LimitInv
  <1> QED BY <1>1, <1>3

LEMMA GetFrameLimited ==
    ASSUME LimitInv, NEW slot, GetFrame(slot)
    PROVE  LimitInv'
  <1>1. mFramePool' \subseteq mFramePool /\ UNCHANGED previewFrames
    BY DEF GetFrame
  <1>2. /\ IsFiniteSet(mFramePool')
        /\ Cardinality(mFramePool') <= Cardinality(mFramePool)
        /\ Cardinality(mFramePool) \in Nat /\ Cardinality(mFramePool') \in Nat
    BY <1>1, FS_Subset, FS_CardinalityType DEF LimitInv
  <1> QED BY <1>1, <1>2, SizeAssumption DEF LimitInv, Capacity

LEMMA RecycleLocalLimited ==
    ASSUME LimitInv, NEW slot, RecycleLocal(slot)
    PROVE  LimitInv'
  BY RecycleLimited, FS_Singleton DEF RecycleLocal, LimitInv, Capacity

LEMMA ClearsLimited ==
    ASSUME LimitInv, FrameTypeOK, clearPreviewFrame \/ clearCaptureFrame
    PROVE  LimitInv'
  <1>1. CASE clearPreviewFrame
    <2>1. Len(previewFrames') = 0
      BY <1>1 DEF clearPreviewFrame
    <2> QED BY <1>1, <2>1, QueuedFinite, RecycleLimited, SizeAssumption
            DEF clearPreviewFrame, LimitInv, Capacity
  <1>2. CASE clearCaptureFrame
    <2>1. IsFiniteSet({captureQueu} \ {NoFrame})
      BY FS_Singleton, FS_Subset
    <2> QED BY <1>2, <2>1, RecycleLimited
            DEF clearCaptureFrame, LimitInv, Capacity
  <1> QED BY <1>1, <1>2

LEMMA LimitsUntouched == LimitInv /\ UNCHANGED frameVars => LimitInv'
  BY DEF LimitInv, Capacity, frameVars

LEMMA LimitsKept ==
    ASSUME FrameTypeOK, LimitInv, Next
    PROVE  LimitInv'
  <1> USE LimitsUntouched
  <1>1. CASE CtlStep
    <2>1. CASE stopClearPreview \/ stopClearCapture
      BY <2>1, ClearsLimited DEF stopClearPreview, stopClearCapture
    <2>2. CASE destructor
      <3>1. Cardinality(mFramePool') = 0 /\ IsFiniteSet(mFramePool')
            /\ Len(previewFrames') = 0
        BY <2>2, FS_EmptySet DEF destructor
      <3> QED BY <3>1, SizeAssumption DEF LimitInv, Capacity
    <2>3. CASE \/ startCreate \/ startFail \/ stopSignalPreview
               \/ stopSignalCapture \/ stopJoinCapture \/ stopCaptureJoined
               \/ stopPreviewJoined \/ stopReleaseWindow
      BY <2>3 DEF startCreate, startFail, stopSignalPreview,
                  stopSignalCapture, stopJoinCapture, stopCaptureJoined,
                  stopPreviewJoined, stopReleaseWindow
    <2> QED BY <1>1, <2>1, <2>2, <2>3 DEF CtlStep
  <1>2. CASE Environment \/ CapStep \/ UsbStep
    <2>1. CASE frameCallback
      BY <2>1, GetFrameLimited DEF frameCallback
    <2>2. CASE addPreviewFrame
      <3>1. /\ previewFrames \in Seq(Frame)
            /\ previewFrames' = Append(previewFrames, held[Copy])
            /\ Len(previewFrames) < MAX_FRAME /\ UNCHANGED mFramePool
        BY <2>2 DEF addPreviewFrame, QueueHasRoom, FrameTypeOK
      <3>2. Len(previewFrames') = Len(previewFrames) + 1
            /\ Len(previewFrames) \in Nat
        BY <3>1
      <3> QED BY <3>1, <3>2, SizeAssumption DEF LimitInv, Capacity
    <2>3. CASE callbackRecycle
      BY <2>3, RecycleLocalLimited DEF callbackRecycle
    <2>4. CASE \/ setPreviewDisplay \/ startPreview \/ stopPreview
               \/ setWithoutWait \/ setBeginWait \/ CapStep
      BY <2>4 DEF setPreviewDisplay, startPreview, stopPreview,
                  setWithoutWait, setBeginWait, CapStep, setSignalAndWait,
                  setReplace
    <2> QED BY <1>2, <2>1, <2>2, <2>3, <2>4 DEF Environment, UsbStep
  <1>3. CASE PreviewStep
    <2>1. CASE previewClear
      BY <2>1, ClearsLimited DEF previewClear
    <2>2. CASE takePreviewFrame
      <3>1. UNCHANGED mFramePool
        BY <2>2 DEF takePreviewFrame
      <3>2. CASE UNCHANGED previewFrames
        BY <3>1, <3>2 DEF LimitInv, Capacity
      <3>3. CASE previewFrames # << >> /\ previewFrames' = Tail(previewFrames)
        <4>1. Len(previewFrames) \in Nat
              /\ Len(previewFrames') = Len(previewFrames) - 1
          BY <3>3 DEF FrameTypeOK
        <4> QED BY <3>1, <4>1, SizeAssumption DEF LimitInv, Capacity
      <3> QED BY <2>2, <3>2, <3>3 DEF takePreviewFrame, RemoveFirst
    <2>3. CASE getYuyv \/ drawPreview
      BY <2>3, GetFrameLimited DEF getYuyv, drawPreview
    <2>4. CASE decodeMjpeg \/ copyToPreview
      BY <2>4, RecycleLocalLimited DEF decodeMjpeg, copyToPreview
    <2>5. CASE decodeFails
      <3>1. IsFiniteSet({held[FrameMjpeg], held[FrameYuyv]})
        <4>1. IsFiniteSet({held[FrameMjpeg]} \cup {held[FrameYuyv]})
          BY FS_Singleton, FS_AddElement
        <4>2. {held[FrameMjpeg], held[FrameYuyv]}
                = {held[FrameMjpeg]} \cup {held[FrameYuyv]}
          OBVIOUS
        <4> QED BY <4>1, <4>2
      <3> QED BY <2>5, <3>1, RecycleLimited
              DEF decodeFails, LimitInv, Capacity
    <2>6. CASE addCaptureFrame
      <3>1. IsFiniteSet({captureQueu} \ {NoFrame})
        BY FS_Singleton, FS_Subset
      <3>2. UNCHANGED previewFrames
        BY <2>6 DEF addCaptureFrame
      <3>3. CASE mIsRunning
        <4>1. Recycle({captureQueu} \ {NoFrame})
          BY <2>6, <3>3 DEF addCaptureFrame
        <4> QED BY <3>1, <3>2, <4>1, RecycleLimited DEF LimitInv, Capacity
      <3>4. CASE ~mIsRunning
        BY <2>6, <3>2, <3>4 DEF addCaptureFrame, LimitInv, Capacity
      <3> QED BY <3>3, <3>4
    <2>7. CASE \/ preparePreview \/ startStreaming \/ createCapture
               \/ previewLoop \/ waitPreviewFrame \/ previewSignalCapture
               \/ stopStreaming
      BY <2>7 DEF preparePreview, startStreaming, createCapture, previewLoop,
                  waitPreviewFrame, previewSignalCapture, stopStreaming
    <2> QED BY <1>3, <2>1, <2>2, <2>3, <2>4, <2>5, <2>6, <2>7
            DEF PreviewStep
  <1>4. ASSUME NEW i \in CaptureThread, CaptureStep(i)
        PROVE  LimitInv'
    <2>1. CASE captureClear(i)
      BY <2>1, ClearsLimited DEF captureClear
    <2>2. CASE takeCaptureFrame(i)
      BY <2>2 DEF takeCaptureFrame, LimitInv, Capacity
    <2>3. CASE surfaceGetFrame(i) \/ callbackGet(i)
      BY <2>3, GetFrameLimited DEF surfaceGetFrame, callbackGet
    <2>4. CASE callbackConverted(i)
      <3>1. /\ Recycle({held[CapFrame(i)]}) /\ UNCHANGED previewFrames
        BY <2>4 DEF callbackConverted
      <3> QED BY <3>1, FS_Singleton, RecycleLimited DEF LimitInv, Capacity
    <2>5. CASE captureRecycle(i) \/ surfaceRecycle(i)
      BY <2>5, RecycleLocalLimited DEF captureRecycle, surfaceRecycle
    <2>6. CASE \/ captureLoop(i) \/ captureBegin(i) \/ captureChoose(i)
               \/ captureInner(i) \/ waitCaptureFrame(i) \/ copyToSurface(i)
               \/ unlockAndPost(i) \/ captureCallback(i) \/ callOnFrame(i)
               \/ onFrameReturns(i) \/ surfaceRelease(i) \/ surfaceForget(i)
               \/ captureBroadcast(i)
      BY <2>6 DEF captureLoop, captureBegin, captureChoose, captureInner,
                  waitCaptureFrame, copyToSurface, unlockAndPost,
                  captureCallback, callOnFrame, onFrameReturns,
                  surfaceRelease, surfaceForget, captureBroadcast
    <2> QED BY <1>4, <2>1, <2>2, <2>3, <2>4, <2>5, <2>6 DEF CaptureStep
  <1> QED BY <1>1, <1>2, <1>3, <1>4 DEF Next

----------------------------------------------------------------------------
\* How previewFrames changes while the preview runs.
LEMMA QueueStep ==
    ASSUME FrameTypeOK, HoldersFull, RunningInv, [Next]_vars
    PROVE  PreviewQueueStep
  <1> SUFFICES ASSUME mIsRunning, pc["preview"] # "clear",
                      ~UNCHANGED previewFrames
               PROVE  \/ /\ previewFrames # << >>
                         /\ previewFrames' = Tail(previewFrames)
                      \/ \E f \in Frame :
                            previewFrames' = Append(previewFrames, f)
    BY DEF PreviewQueueStep
  <1>1. pc["ctl"] \notin Stopping
    BY DEF RunningInv
  <1>2. \/ addPreviewFrame \/ takePreviewFrame
        \/ stopClearPreview \/ destructor \/ previewClear
    BY QueueActions
  <1>3. CASE addPreviewFrame
    <2>1. held[Copy] \in Frame
      BY <1>3, SlotFacts DEF addPreviewFrame, HoldersFull, FrameTypeOK
    <2> QED BY <1>3, <2>1 DEF addPreviewFrame
  <1>4. CASE takePreviewFrame
    BY <1>4 DEF takePreviewFrame, RemoveFirst
  <1>5. CASE stopClearPreview \/ destructor
    BY <1>1, <1>5 DEF stopClearPreview, destructor, Stopping
  <1>6. CASE previewClear
    BY <1>6 DEF previewClear, PreviewMove
  <1> QED BY <1>2, <1>3, <1>4, <1>5, <1>6

----------------------------------------------------------------------------
ThreadInv == ControlTypeOK /\ PcInv /\ Frames /\ StopInv /\ HoldersEmpty
IInv == ThreadInv /\ LossInv /\ LimitInv

LEMMA InitIInv == Init => IInv
  <1> SUFFICES ASSUME Init PROVE IInv OBVIOUS
  <1>1. ControlTypeOK
    <2>1. WindowTypeOK /\ CallTypeOK /\ FlagTypeOK
      BY DEF Init, WindowTypeOK, CallTypeOK, FlagTypeOK
    <2>2. LifeTypeOK
      <3>1. session \in 0 .. MaxSessions /\ capture_thread \in 0 .. MaxSessions
        <4>1. 0 \in 0 .. MaxSessions BY SizeAssumption
        <4> QED BY <4>1 DEF Init
      <3>2. alive \in BOOLEAN /\ aborted \in BOOLEAN /\ streaming \in BOOLEAN
            /\ releasing \in BOOLEAN /\ joined \subseteq CaptureThread
            /\ frameFormatType \in {"mjpeg", "yuyv"}
        BY DEF Init
      <3> QED BY <3>1, <3>2 DEF LifeTypeOK
    <2>3. ApiTypeOK
      BY SizeAssumption DEF Init, ApiTypeOK
    <2>4. UseTypeOK
      BY DEF Init, UseTypeOK
    <2> QED BY <2>1, <2>2, <2>3, <2>4 DEF ControlTypeOK
  <1>2. PcInv
    BY DEF Init, PcInv, PcTypeOK, StartBound, Thread, CtlState, CapState,
           UsbState, PreviewState, CaptureState
  <1>3. FrameInv
    BY DEF Init, FrameInv, FrameTypeOK, FrameOwnership, Held, Queued
  <1>4. HoldersFull
    BY DEF Init, HoldersFull, Thread, CaptureUses
  <1>5. HoldersEmpty
    BY DEF Init, HoldersEmpty, Thread, Slot, Copy, FrameMjpeg, FrameYuyv,
           Converted, CapFrame, CapConv, CapBack
  <1>6. LossInv
    <2>1. Lost = {} /\ ~MayLose /\ session = 0
      BY DEF Init, Lost, MayLose, Thread
    <2> QED BY <2>1, FS_EmptySet DEF LossInv
  <1>7. LimitInv
    <2>1. mFramePool = {} /\ Len(previewFrames) = 0
      BY DEF Init
    <2> QED BY <2>1, FS_EmptySet, SizeAssumption DEF LimitInv, Capacity
  <1> QED BY <1>1, <1>2, <1>3, <1>4, <1>5, <1>6, <1>7, InitStops
          DEF IInv, ThreadInv, Frames

LEMMA NextIInv == IInv /\ [Next]_vars => IInv'
  <1> SUFFICES ASSUME IInv, [Next]_vars PROVE IInv' OBVIOUS
  <1> USE DEF IInv, ThreadInv
  <1>1. ASSUME Next PROVE LossInv' /\ LimitInv'
    BY <1>1, LossBounded, LimitsKept DEF ControlTypeOK, Frames, FrameInv
  <1>2. ASSUME CtlStep PROVE ThreadInv'
    BY <1>2, CtlTypes, CtlPc, CtlFrames, CtlStops, CtlLoss
       DEF PcInv, ControlTypeOK
  <1>3. ASSUME Environment \/ CapStep \/ UsbStep PROVE ThreadInv'
    BY <1>3, EnvironmentTypes, EnvironmentPc, EnvironmentFrames,
       EnvironmentStops, EnvironmentLoss DEF ControlTypeOK
  <1>4. ASSUME PreviewStep PROVE ThreadInv'
    BY <1>4, PreviewTypes, PreviewPc, PreviewFrames, PreviewStops,
       PreviewLoss DEF ControlTypeOK
  <1>5. ASSUME NEW i \in CaptureThread, CaptureStep(i)
        PROVE  ThreadInv'
    BY <1>5, CaptureTypes, CapturePc, CaptureFrames, CaptureStops,
       CaptureLoss DEF ControlTypeOK
  <1>6. CASE UNCHANGED vars
    <2>1. /\ UNCHANGED frameVars /\ UNCHANGED others
          /\ UNCHANGED pc /\ UNCHANGED cpc /\ UNCHANGED <<session, mIsRunning>>
      BY <1>6 DEF vars, others, lifeVars, flagVars
    <2>2. ControlTypeOK' BY <2>1, OthersUntouched
    <2>3. PcInv' BY <2>1 DEF PcInv, PcTypeOK, StartBound
    <2>4. Frames' BY <2>1, FramesUntouched DEF Frames, HoldersFull
    <2>5. StopInv' BY <1>6, StopsUntouched
    <2>6. HoldersEmpty'
      BY <2>1, FramesUntouched DEF HoldersEmpty, Frames
    <2>7. LossInv'
      BY <2>1, UntouchedLosesNone DEF LossInv, MayLose
    <2>8. LimitInv' BY <2>1, LimitsUntouched
    <2> QED BY <2>2, <2>3, <2>4, <2>5, <2>6, <2>7, <2>8
  <1> QED BY <1>1, <1>2, <1>3, <1>4, <1>5, <1>6 DEF Next

\* Every variable keeps its type, whatever the calls, frames and schedules.
THEOREM TypeCorrect == Spec => []TypeOK
  <1>1. IInv => TypeOK
    BY DEF IInv, ThreadInv, Frames, FrameInv, PcInv, ControlTypeOK, TypeOK
  <1> QED BY <1>1, InitIInv, NextIInv, PTL DEF Spec

\* No frame is ever in two places, and no freed frame is used or recycled, for
\* any number of frames, sessions and capture threads and any queue sizes.
THEOREM FramesOwnedOnce == Spec => []FrameOwnership
  <1>1. IInv => FrameOwnership
    BY DEF IInv, ThreadInv, Frames, FrameInv
  <1> QED BY <1>1, InitIInv, NextIInv, PTL DEF Spec

\* When stopPreview has returned nothing of the session is left: the preview
\* thread is joined, libuvc makes no callback, the queues are empty.
THEOREM StoppedThreadsAreQuiet == Spec => []StoppedIsQuiet
  <1>1. IInv => StoppedIsQuiet
    BY DEF IInv, ThreadInv, StopInv, QuietInv, PreviewJoined, StoppedIsQuiet
  <1> QED BY <1>1, InitIInv, NextIInv, PTL DEF Spec

\* do_capture goes on as long as its preview does, however often the callback
\* and the window are replaced.
THEOREM CaptureRunsUntilStop == Spec => []CaptureUntilStop
  <1>1. IInv => CaptureUntilStop
    BY DEF IInv, ThreadInv, StopInv, CaptureInv
  <1> QED BY <1>1, InitIInv, NextIInv, PTL DEF Spec

\* pthread_join gets a thread joined before in no first session.
THEOREM FirstJoinIsTheOnly == Spec => []JoinOnceInFirstSession
  <1>1. IInv => JoinOnceInFirstSession
    BY DEF IInv, ThreadInv, StopInv, JoinInv, JoinOnceInFirstSession
  <1> QED BY <1>1, InitIInv, NextIInv, PTL DEF Spec

\* addCaptureFrame's drop after a stop costs at most one frame per session,
\* and it is the only place where a frame is lost.
THEOREM FewFramesLost == Spec => []LostBound
  <1>1. IInv => LostBound
    <2> SUFFICES ASSUME IInv PROVE LostBound
      OBVIOUS
    <2>1. session \in Nat /\ Cardinality(Lost) \in Nat
      BY FS_CardinalityType, SizeAssumption
         DEF IInv, ThreadInv, LossInv, ControlTypeOK, LifeTypeOK
    <2> QED BY <2>1 DEF IInv, ThreadInv, LossInv, LostBound
  <1> QED BY <1>1, InitIInv, NextIInv, PTL DEF Spec

\* Queue and pool stay within their limits, for limits of any size.
THEOREM LimitsRespected == Spec => []Capacity
  <1>1. IInv => Capacity
    BY DEF IInv, ThreadInv, LimitInv
  <1> QED BY <1>1, InitIInv, NextIInv, PTL DEF Spec

\* While the preview runs previewFrames is a queue: one frame at a time, in at
\* the tail and out at the head.
THEOREM FramesInOrder == Spec => PreviewQueueFifo
  <1>1. IInv /\ [Next]_vars => PreviewQueueStep
    BY QueueStep DEF IInv, ThreadInv, Frames, FrameInv, StopInv
  <1>2. IInv /\ [Next]_vars => [PreviewQueueStep]_vars
    BY <1>1
  <1> QED BY <1>2, InitIInv, NextIInv, PTL DEF Spec, PreviewQueueFifo

=============================================================================
