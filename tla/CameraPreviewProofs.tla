------------------------- MODULE CameraPreviewProofs -------------------------
(***************************************************************************)
(* For any sizes and pictures: the types of CameraPreview; that each        *)
(* picture is in one place or was answered once; and that a running preview *)
(* draws on the present surface in the size it sends.                      *)
(*                                                                         *)
(* Both need what is on its way in the queue of the render thread: Has and  *)
(* Once for the pictures, and for the surfaces that an update of the size   *)
(* is followed by the message that makes the surface (Followed), and comes  *)
(* from the helper alone, which is waiting for it (UpdateInv).             *)
(***************************************************************************)
EXTENDS CameraPreview, SequenceTheorems, TLAPS

Starter == {"helper", "render"}
AwaitPlaces == {"sizeAwait", "checkAwait"}
AskPlaces == {"sizeLock", "checkLock"} \cup AwaitPlaces
LockedPlaces == StartPlaces \ {"start"}

----------------------------------------------------------------------------
(* Queues. *)

Has(q, m) == \E i \in 1 .. Len(q) : q[i] = m

\* No picture is asked for twice.
Once(q) ==
    \A p \in Pictures, i, j \in 1 .. Len(q) :
        q[i] = <<"capture", p>> /\ q[j] = <<"capture", p>> => i = j

\* The surface is made anew after each update of its size.
Followed(q) ==
    \A s \in Sizes, i \in 1 .. Len(q) :
        q[i] = <<"update", s>> => \E j \in 1 .. Len(q) : i < j /\ q[j] = recreate

LEMMA TailIs ==
    ASSUME NEW q \in Seq(Messages), q # <<>>
    PROVE  /\ Tail(q) \in Seq(Messages)
           /\ Head(q) \in Messages
           /\ Has(q, Head(q))
           /\ \A m : Has(Tail(q), m) => Has(q, m)
           /\ \A m : Has(q, m) /\ m # Head(q) => Has(Tail(q), m)
           /\ Once(q) => Once(Tail(q))
           /\ Followed(q) => Followed(Tail(q))
  <1>1. /\ Head(q) \in Messages /\ Tail(q) \in Seq(Messages)
        /\ Len(Tail(q)) = Len(q) - 1 /\ Len(q) \in Nat \ {0} /\ Head(q) = q[1]
        /\ \A i \in 1 .. Len(Tail(q)) : Tail(q)[i] = q[i + 1]
    BY HeadTailProperties, EmptySeq
  <1>2. \A i \in 1 .. Len(q) : i # 1 => i - 1 \in 1 .. Len(Tail(q)) /\ Tail(q)[i - 1] = q[i]
    BY <1>1
  <1>3. \A i \in 1 .. Len(Tail(q)) : i + 1 \in 1 .. Len(q)
    BY <1>1
  <1>4. Has(q, Head(q))
    BY <1>1 DEF Has
  <1>5. ASSUME NEW m, Has(Tail(q), m) PROVE Has(q, m)
    BY <1>1, <1>3, <1>5 DEF Has
  <1>6. ASSUME NEW m, Has(q, m), m # Head(q) PROVE Has(Tail(q), m)
    BY <1>1, <1>2, <1>6 DEF Has
  <1>7. ASSUME Once(q) PROVE Once(Tail(q))
    BY <1>1, <1>3, <1>7 DEF Once
  <1>8. ASSUME Followed(q) PROVE Followed(Tail(q))
    <2> SUFFICES ASSUME NEW s \in Sizes, NEW i \in 1 .. Len(Tail(q)),
                        Tail(q)[i] = <<"update", s>>
                 PROVE  \E j \in 1 .. Len(Tail(q)) :
                           i < j /\ Tail(q)[j] = recreate
      BY DEF Followed
    <2>1. PICK j \in 1 .. Len(q) : i + 1 < j /\ q[j] = recreate
      BY <1>1, <1>3, <1>8 DEF Followed
    <2>2. j - 1 \in 1 .. Len(Tail(q)) /\ i < j - 1 /\ Tail(q)[j - 1] = recreate
      BY <1>1, <1>2, <2>1
    <2> QED BY <2>2
  <1> QED BY <1>1, <1>4, <1>5, <1>6, <1>7, <1>8

\* A picture at the head is nowhere else.
LEMMA HeadOnce ==
    ASSUME NEW q \in Seq(Messages), q # <<>>, Once(q), NEW p \in Pictures,
           Head(q) = <<"capture", p>>
    PROVE  ~Has(Tail(q), <<"capture", p>>)
  <1>1. /\ Len(Tail(q)) = Len(q) - 1 /\ Len(q) \in Nat \ {0} /\ Head(q) = q[1]
        /\ \A i \in 1 .. Len(Tail(q)) : Tail(q)[i] = q[i + 1]
    BY HeadTailProperties, EmptySeq
  <1>2. SUFFICES ASSUME NEW i \in 1 .. Len(Tail(q)), Tail(q)[i] = <<"capture", p>>
                 PROVE  FALSE
    BY DEF Has
  <1>3. q[i + 1] = <<"capture", p>> /\ i + 1 \in 1 .. Len(q) /\ 1 \in 1 .. Len(q)
    BY <1>1, <1>2
  <1>4. i + 1 = 1
    BY <1>1, <1>3 DEF Once
  <1> QED BY <1>4

LEMMA ConcatIs ==
    ASSUME NEW q \in Seq(Messages), NEW r \in Seq(Messages)
    PROVE  /\ q \o r \in Seq(Messages)
           /\ \A m : Has(q \o r, m) <=> Has(q, m) \/ Has(r, m)
           /\ Once(q) /\ Once(r)
              /\ (\A p \in Pictures :
                     ~(Has(q, <<"capture", p>>) /\ Has(r, <<"capture", p>>)))
              => Once(q \o r)
           /\ Followed(q) /\ Followed(r) => Followed(q \o r)
  <1> DEFINE t == q \o r
  <1>1. /\ t \in Seq(Messages) /\ Len(t) = Len(q) + Len(r)
        /\ \A i \in 1 .. Len(q) + Len(r) :
              t[i] = IF i <= Len(q) THEN q[i] ELSE r[i - Len(q)]
    BY ConcatProperties
  <1>2. Len(q) \in Nat /\ Len(r) \in Nat
    BY LenProperties
  <1> HIDE DEF t
  <1>3. \A i \in 1 .. Len(q) : i \in 1 .. Len(t) /\ t[i] = q[i]
    BY <1>1, <1>2
  <1>4. \A i \in 1 .. Len(r) : i + Len(q) \in 1 .. Len(t) /\ t[i + Len(q)] = r[i]
    <2> SUFFICES ASSUME NEW i \in 1 .. Len(r), NEW k, k = i + Len(q)
                 PROVE  k \in 1 .. Len(t) /\ t[k] = r[i]
      OBVIOUS
    <2>1. /\ k \in 1 .. Len(q) + Len(r) /\ ~(k <= Len(q)) /\ k - Len(q) = i
      BY <1>2
    <2>2. t[k] = r[k - Len(q)]
      BY <1>1, <2>1
    <2> QED BY <1>1, <2>1, <2>2
  <1>5. \A i \in 1 .. Len(t) :
           \/ i \in 1 .. Len(q)
           \/ \E k \in 1 .. Len(r) : i = k + Len(q) /\ t[i] = r[k]
    <2> SUFFICES ASSUME NEW i \in 1 .. Len(t), i \notin 1 .. Len(q)
                 PROVE  \E k \in 1 .. Len(r) : i = k + Len(q) /\ t[i] = r[k]
      OBVIOUS
    <2>1. i - Len(q) \in 1 .. Len(r) /\ i = (i - Len(q)) + Len(q)
      BY <1>1, <1>2
    <2> QED BY <2>1, <1>4
  <1>6. ASSUME NEW m PROVE Has(t, m) <=> Has(q, m) \/ Has(r, m)
    <2>1. ASSUME Has(q, m) PROVE Has(t, m)
      BY <2>1, <1>3 DEF Has
    <2>2. ASSUME Has(r, m) PROVE Has(t, m)
      BY <2>2, <1>4 DEF Has
    <2>3. ASSUME Has(t, m) PROVE Has(q, m) \/ Has(r, m)
      BY <2>3, <1>3, <1>4, <1>5 DEF Has
    <2> QED BY <2>1, <2>2, <2>3
  <1>7. ASSUME Once(q), Once(r),
               \A p \in Pictures :
                  ~(Has(q, <<"capture", p>>) /\ Has(r, <<"capture", p>>))
        PROVE  Once(t)
    <2> SUFFICES ASSUME NEW p \in Pictures, NEW i \in 1 .. Len(t),
                        NEW j \in 1 .. Len(t), t[i] = <<"capture", p>>,
                        t[j] = <<"capture", p>>
                 PROVE  i = j
      BY DEF Once
    <2>1. CASE i \in 1 .. Len(q) /\ j \in 1 .. Len(q)
      BY <2>1, <1>3, <1>7 DEF Once
    <2>2. CASE i \notin 1 .. Len(q) /\ j \notin 1 .. Len(q)
      <3>1. PICK k \in 1 .. Len(r) : i = k + Len(q) /\ t[i] = r[k]
        BY <2>2, <1>5
      <3>2. PICK l \in 1 .. Len(r) : j = l + Len(q) /\ t[j] = r[l]
        BY <2>2, <1>5
      <3>3. k = l
        BY <3>1, <3>2, <1>7 DEF Once
      <3> QED BY <3>1, <3>2, <3>3
    <2>3. CASE i \in 1 .. Len(q) /\ j \notin 1 .. Len(q)
      <3>1. Has(q, <<"capture", p>>)
        BY <2>3, <1>3 DEF Has
      <3>2. Has(r, <<"capture", p>>)
        BY <2>3, <1>5 DEF Has
      <3> QED BY <3>1, <3>2, <1>7
    <2>4. CASE i \notin 1 .. Len(q) /\ j \in 1 .. Len(q)
      <3>1. Has(q, <<"capture", p>>)
        BY <2>4, <1>3 DEF Has
      <3>2. Has(r, <<"capture", p>>)
        BY <2>4, <1>5 DEF Has
      <3> QED BY <3>1, <3>2, <1>7
    <2> QED BY <2>1, <2>2, <2>3, <2>4
  <1>8. ASSUME Followed(q), Followed(r) PROVE Followed(t)
    <2> SUFFICES ASSUME NEW s \in Sizes, NEW i \in 1 .. Len(t),
                        t[i] = <<"update", s>>
                 PROVE  \E j \in 1 .. Len(t) : i < j /\ t[j] = recreate
      BY DEF Followed
    <2>1. CASE i \in 1 .. Len(q)
      <3>1. PICK j \in 1 .. Len(q) : i < j /\ q[j] = recreate
        BY <2>1, <1>3, <1>8 DEF Followed
      <3> QED BY <3>1, <1>3
    <2>2. CASE i \notin 1 .. Len(q)
      <3>1. PICK k \in 1 .. Len(r) : i = k + Len(q) /\ r[k] = <<"update", s>>
        BY <2>2, <1>5
      <3>2. PICK j \in 1 .. Len(r) : k < j /\ r[j] = recreate
        BY <3>1, <1>8 DEF Followed
      <3>3. j + Len(q) \in 1 .. Len(t) /\ t[j + Len(q)] = recreate
        BY <3>2, <1>4
      <3>4. i < j + Len(q)
        BY <3>1, <3>2, <1>2
      <3> QED BY <3>3, <3>4
    <2> QED BY <2>1, <2>2
  <1> QED BY <1>1, <1>6, <1>7, <1>8 DEF t

LEMMA OneIs ==
    ASSUME NEW m \in Messages
    PROVE  /\ <<m>> \in Seq(Messages)
           /\ \A k : Has(<<m>>, k) <=> k = m
           /\ Once(<<m>>)
           /\ (\A s \in Sizes : m # <<"update", s>>) => Followed(<<m>>)
  BY DEF Has, Once, Followed

LEMMA UpdateIs ==
    ASSUME NEW s \in Sizes
    PROVE  LET r == <<<<"update", s>>, recreate>>
           IN  /\ r \in Seq(Messages) /\ Once(r) /\ Followed(r)
               /\ \A k : Has(r, k) <=> k = <<"update", s>> \/ k = recreate
  <1> DEFINE r == <<<<"update", s>>, recreate>>
  <1>1. r \in Seq(Messages) /\ Len(r) = 2 /\ r[1] = <<"update", s>> /\ r[2] = recreate
    BY DEF Messages, recreate
  <1>2. r[1] # r[2] /\ \A p : r[1] # <<"capture", p>> /\ r[2] # <<"capture", p>>
    BY <1>1 DEF recreate
  <1>3. \A z \in Sizes : r[2] # <<"update", z>>
    BY <1>1 DEF recreate
  <1>4. 1 .. 2 = {1, 2}
    OBVIOUS
  <1> HIDE DEF r
  <1>5. Once(r)
    BY <1>1, <1>2, <1>4 DEF Once
  <1>6. Followed(r)
    BY <1>1, <1>3, <1>4 DEF Followed
  <1>7. \A k : Has(r, k) <=> k = <<"update", s>> \/ k = recreate
    BY <1>1, <1>4 DEF Has
  <1> QED BY <1>1, <1>5, <1>6, <1>7 DEF r

----------------------------------------------------------------------------
(* The queue after a step of the render thread, or after a message. *)

noHolder == <<"noHolder", NoArg>>

LEMMA ReceiveIs ==
    ASSUME queue \in Seq(Messages), NEW kind, NEW arg, receive(kind, arg),
           NEW q, q = Tail(queue) \/ q = Append(Tail(queue), noHolder)
    PROVE  /\ q \in Seq(Messages)
           /\ Has(queue, <<kind, arg>>) /\ <<kind, arg>> \in Messages
           /\ \A m : Has(q, m) => Has(queue, m) \/ m = noHolder
           /\ \A m : Has(queue, m) /\ m # <<kind, arg>> => Has(q, m)
           /\ Once(queue) => Once(q)
           /\ Followed(queue) => Followed(q)
  <1>1. queue # <<>> /\ Head(queue) = <<kind, arg>>
    BY DEF receive
  <1>2. CASE q = Tail(queue)
    BY <1>1, <1>2, TailIs
  <1>3. CASE q = Append(Tail(queue), noHolder)
    <2>1. noHolder \in Messages /\ (\A s : noHolder # <<"update", s>>)
          /\ \A p : noHolder # <<"capture", p>>
      BY DEF noHolder, Messages
    <2>2. Tail(queue) \in Seq(Messages)
      BY <1>1, TailIs
    <2>3. q = Tail(queue) \o <<noHolder>>
      BY <1>3, <2>1, <2>2, AppendIsConcat
    <2>4. /\ <<noHolder>> \in Seq(Messages)
          /\ \A k : Has(<<noHolder>>, k) <=> k = noHolder
          /\ Once(<<noHolder>>) /\ Followed(<<noHolder>>)
      BY <2>1, OneIs
    <2>5. /\ q \in Seq(Messages)
          /\ \A m : Has(q, m) <=> Has(Tail(queue), m) \/ m = noHolder
          /\ Once(Tail(queue)) => Once(q)
          /\ Followed(Tail(queue)) => Followed(q)
      BY <2>1, <2>2, <2>3, <2>4, ConcatIs
    <2> QED BY <1>1, <2>5, TailIs
  <1> QED BY <1>2, <1>3

\* A message that asks for no picture and updates no size.
LEMMA SentIs ==
    ASSUME queue \in Seq(Messages), NEW r \in Seq(Messages), Once(r),
           Followed(r),
           \A p \in Pictures : ~(Has(queue, <<"capture", p>>) /\ Has(r, <<"capture", p>>))
    PROVE  /\ sent(r) \in Seq(Messages)
           /\ \A m : Has(sent(r), m) => Has(queue, m) \/ Has(r, m)
           /\ \A m : Has(queue, m) => Has(sent(r), m)
           /\ ~quit => \A m : Has(r, m) => Has(sent(r), m)
           /\ Once(queue) => Once(sent(r))
           /\ Followed(queue) => Followed(sent(r))
  <1>1. CASE quit
    BY <1>1 DEF sent
  <1>2. CASE ~quit
    BY <1>2, ConcatIs DEF sent
  <1> QED BY <1>1, <1>2

\* The messages that are sent singly.
LEMMA SingleIs ==
    ASSUME queue \in Seq(Messages),
           NEW m \in {"recreate", "release", "newHolder"} \X {NoArg}
    PROVE  /\ sent(<<m>>) \in Seq(Messages)
           /\ \A k : Has(sent(<<m>>), k) => Has(queue, k) \/ k = m
           /\ \A k : Has(queue, k) => Has(sent(<<m>>), k)
           /\ Once(queue) => Once(sent(<<m>>))
           /\ Followed(queue) => Followed(sent(<<m>>))
  <1>1. m \in Messages /\ (\A s : m # <<"update", s>>) /\ \A p : m # <<"capture", p>>
    BY DEF Messages
  <1>2. /\ <<m>> \in Seq(Messages) /\ Once(<<m>>) /\ Followed(<<m>>)
        /\ \A k : Has(<<m>>, k) <=> k = m
    BY <1>1, OneIs
  <1> QED BY <1>1, <1>2, SentIs

----------------------------------------------------------------------------
(* The invariant. *)

FlagTypes ==
    /\ opened \in BOOLEAN /\ streaming \in BOOLEAN /\ mIsPreviewing \in BOOLEAN
    /\ mRendererHolder \in BOOLEAN /\ mPrimarySurface \in BOOLEAN
    /\ mCaptureHolder \in BOOLEAN /\ quit \in BOOLEAN /\ mImageCapture \in BOOLEAN
    /\ crossed \in BOOLEAN /\ missed \in BOOLEAN

DataTypes ==
    /\ cameraSize \in Sizes /\ mVideoSize \in Sizes
    /\ display \in {"none", "present", "stale"}
    /\ classLock \in {"free", "helper", "render"}
    /\ mLock \in {"free", "helper", "render"}
    /\ awaiting \subseteq Starter /\ shutdown \subseteq Pictures
    /\ read \in [Starter -> {"none", "present", "stale"}]

PcTypes ==
    /\ pc \in [{"helper", "render", "listener"} -> Places]
    /\ pc["helper"] \in StartPlaces \cup {"idle", "take", "close"}
    /\ pc["render"] \in StartPlaces \cup {"idle", "create", "created"}
    /\ pc["listener"] \in {"idle", "close", "resource", "done"}

\* The class lock is held over startPreview; who awaits is in an await.
LockInv ==
    \A t \in Starter :
        /\ pc[t] \in LockedPlaces <=> classLock = t
        /\ t \in awaiting => pc[t] \in AwaitPlaces

\* As long as nothing crossed: a thread in startPreview has an open camera, and
\* only the helper asks for a surface, while nothing starts the preview.
StartInv ==
    /\ streaming => mIsPreviewing
    /\ ~crossed =>
          /\ streaming => opened
          /\ \A t \in Starter : pc[t] \in LockedPlaces => opened
          /\ pc["render"] \notin AskPlaces
          /\ pc["helper"] \in AskPlaces
             => ~mIsPreviewing /\ pc["render"] \notin StartPlaces

QueueInv ==
    /\ queue \in Seq(Messages)
    /\ Once(queue) /\ Followed(queue)
    /\ quit \/ Has(queue, <<"release", NoArg>>) => ~mRendererHolder

Good == mRendererHolder /\ ~crossed /\ ~missed

\* An update on its way is the helper's, who waits for it; one that has arrived
\* has made the sizes equal.
UpdateInv ==
    Good =>
        /\ \A s \in Sizes : Has(queue, <<"update", s>>)
              => pc["helper"] = "sizeAwait" /\ "helper" \in awaiting /\ s = cameraSize
        /\ pc["helper"] = "sizeAwait"
              => mVideoSize = cameraSize
                 \/ \E s \in Sizes : Has(queue, <<"update", s>>)

SizedPlaces == {"check", "checkLock", "checkAwait", "display"}

SizeInv ==
    Good =>
        /\ streaming => mVideoSize = cameraSize
        /\ \A t \in Starter : pc[t] \in SizedPlaces => mVideoSize = cameraSize

\* A surface in hand is the present one, and a camera left on a stale one will
\* be given another by the render thread.
DisplayInv ==
    Good =>
        /\ \A t \in Starter :
              /\ pc[t] = "display" => read[t] = "present"
              /\ pc[t] = "checkAwait" /\ t \notin awaiting => mPrimarySurface
        /\ streaming =>
              \/ display = "present"
              \/ display = "stale" /\ pc["render"] \in StartPlaces \cup {"create"}

PictureInv ==
    /\ picture \in [Pictures -> {"none", "taking", "queue", "saver", "over"}]
    /\ calls \in [Pictures -> {0, 1}]
    /\ \A p \in Pictures :
          /\ picture[p] # "over" => calls[p] = 0
          /\ picture[p] = "over" => calls[p] = 1 \/ ~mRendererHolder
          /\ picture[p] = "queue" <=> Has(queue, <<"capture", p>>)

Types == FlagTypes /\ DataTypes /\ PcTypes

IInv == /\ Types /\ LockInv /\ StartInv /\ QueueInv /\ UpdateInv /\ SizeInv
        /\ DisplayInv /\ PictureInv

----------------------------------------------------------------------------
(* The steps, one by one. *)

LEMMA NextIs ==
    ASSUME Next
    PROVE  \/ requestStart
           \/ stopPreview
           \/ closeCamera
           \/ \E s \in Sizes : setPreviewSize(s)
           \/ \E s \in Sizes : openCamera(s)
           \/ \E p \in Pictures : takePicture(p)
           \/ \E p \in Pictures : save(p)
           \/ \E t \in Starter : startPreview(t)
           \/ \E t \in Starter : updatePrimarySize(t)
           \/ \E t \in Starter : awaitSize(t)
           \/ \E t \in Starter : awaited(t)
           \/ \E t \in Starter : checkPrimarySurface(t)
           \/ \E t \in Starter : awaitSurface(t)
           \/ \E t \in Starter : displaySurface(t)
           \/ \E t \in Starter : cameraGone(t)
           \/ releaseCapture
           \/ \E p \in Pictures : captureImage(p)
           \/ release
           \/ releaseListenerCapture
           \/ releaseResource
           \/ onPrimarySurfaceCreate
           \/ surfaceCreated
           \/ \E kind \in {"init", "recreate"} : handleReCreatePrimarySurface(kind)
           \/ \E s \in Sizes : handleUpdateSize(s)
           \/ \E kind \in {"newHolder", "noHolder"} : handleHolder(kind)
           \/ handleRelease
           \/ \E p \in Pictures : handleCapture(p)
           \/ drawFails
  BY DEF Next, HelperStep, ListenerStep, RenderStep, StartStep, Starter

LEMMA StepFlags ==
    ASSUME Types, Next
    PROVE  FlagTypes'
  <1> USE DEF Types, FlagTypes, goto, camera, surface, looper, locks, capture,
     history
  <1>1. ASSUME stopPreview PROVE FlagTypes'
    BY <1>1 DEF stopPreview
  <1>2. ASSUME closeCamera PROVE FlagTypes'
    BY <1>2 DEF closeCamera, CloseCamera
  <1>3. ASSUME NEW s \in Sizes, setPreviewSize(s) PROVE FlagTypes'
    BY <1>3 DEF setPreviewSize, RenderMayStart
  <1>4. ASSUME NEW s \in Sizes, openCamera(s) PROVE FlagTypes'
    BY <1>4 DEF openCamera
  <1>5. ASSUME NEW t \in Starter, updatePrimarySize(t) PROVE FlagTypes'
    BY <1>5 DEF updatePrimarySize, RenderMayStart
  <1>6. ASSUME NEW t \in Starter, checkPrimarySurface(t) PROVE FlagTypes'
    BY <1>6 DEF checkPrimarySurface, RenderMayStart
  <1>7. ASSUME NEW t \in Starter, displaySurface(t) PROVE FlagTypes'
    BY <1>7 DEF displaySurface, returned
  <1>8. ASSUME releaseCapture PROVE FlagTypes'
    BY <1>8 DEF releaseCapture, ReleaseCapture
  <1>9. ASSUME NEW p \in Pictures, captureImage(p) PROVE FlagTypes'
    <2>1. /\ UNCHANGED <<opened, streaming, mIsPreviewing, mRendererHolder>>
          /\ UNCHANGED <<mPrimarySurface, mCaptureHolder, quit, mImageCapture>>
          /\ UNCHANGED <<crossed, missed>>
      BY <1>9 DEF captureImage
    <2> QED BY <2>1
  <1>10. ASSUME release PROVE FlagTypes'
    BY <1>10 DEF release, CloseCamera
  <1>11. ASSUME releaseListenerCapture PROVE FlagTypes'
    BY <1>11 DEF releaseListenerCapture, ReleaseCapture
  <1>12. ASSUME releaseResource PROVE FlagTypes'
    BY <1>12 DEF releaseResource
  <1>13. ASSUME NEW kind \in {"init", "recreate"}, handleReCreatePrimarySurface(kind)
         PROVE FlagTypes'
    BY <1>13 DEF handleReCreatePrimarySurface, receive, dropSurface, stale
  <1>14. ASSUME NEW kind \in {"newHolder", "noHolder"}, handleHolder(kind)
         PROVE FlagTypes'
    BY <1>14 DEF handleHolder, handle, receive
  <1>15. ASSUME handleRelease PROVE FlagTypes'
    BY <1>15 DEF handleRelease, receive, dropSurface, stale
  <1>16. CASE \/ requestStart
              \/ \E p \in Pictures : takePicture(p)
              \/ \E p \in Pictures : save(p)
              \/ \E t \in Starter : startPreview(t)
              \/ \E t \in Starter : awaitSize(t)
              \/ \E t \in Starter : awaited(t)
              \/ \E t \in Starter : awaitSurface(t)
    BY <1>16 DEF requestStart, takePicture, answer, save, startPreview,
       returned, awaitSize, AwaitSurface, awaited, awaitSurface
  <1>17. CASE \/ onPrimarySurfaceCreate
              \/ surfaceCreated
              \/ \E s \in Sizes : handleUpdateSize(s)
              \/ \E p \in Pictures : handleCapture(p)
              \/ drawFails
    BY <1>17 DEF onPrimarySurfaceCreate, surfaceCreated, handleUpdateSize,
       handle, receive, handleCapture, answer, drawFails
  <1>18. ASSUME NEW t \in Starter, cameraGone(t) PROVE FlagTypes'
    BY <1>18 DEF cameraGone, returned
  <1> QED BY <1>1, <1>2, <1>3, <1>4, <1>5, <1>6, <1>7, <1>8, <1>9, <1>10,
       <1>11, <1>12, <1>13, <1>14, <1>15, <1>16, <1>17, <1>18, NextIs

LEMMA StepData ==
    ASSUME Types, Next
    PROVE  DataTypes'
  <1> USE DEF Types, DataTypes, Starter, goto, camera, surface, looper, locks,
     capture, history
  <1>1. ASSUME NEW s \in Sizes, setPreviewSize(s) PROVE DataTypes'
    BY <1>1 DEF setPreviewSize, RenderMayStart
  <1>2. ASSUME NEW s \in Sizes, openCamera(s) PROVE DataTypes'
    BY <1>2 DEF openCamera
  <1>3. ASSUME NEW t \in Starter, startPreview(t) PROVE DataTypes'
    BY <1>3 DEF startPreview, returned
  <1>4. ASSUME NEW t \in Starter, awaitSize(t) PROVE DataTypes'
    BY <1>4 DEF awaitSize, AwaitSurface
  <1>5. ASSUME NEW t \in Starter, awaited(t) PROVE DataTypes'
    BY <1>5 DEF awaited
  <1>6. ASSUME NEW t \in Starter, checkPrimarySurface(t) PROVE DataTypes'
    BY <1>6 DEF checkPrimarySurface, RenderMayStart
  <1>7. ASSUME NEW t \in Starter, awaitSurface(t) PROVE DataTypes'
    BY <1>7 DEF awaitSurface, AwaitSurface
  <1>8. ASSUME NEW t \in Starter, displaySurface(t) PROVE DataTypes'
    BY <1>8 DEF displaySurface, returned
  <1>9. ASSUME releaseCapture PROVE DataTypes'
    BY <1>9 DEF releaseCapture, ReleaseCapture
  <1>10. ASSUME releaseListenerCapture PROVE DataTypes'
    BY <1>10 DEF releaseListenerCapture, ReleaseCapture
  <1>11. ASSUME surfaceCreated PROVE DataTypes'
    BY <1>11 DEF surfaceCreated
  <1>12. ASSUME NEW kind \in {"init", "recreate"}, handleReCreatePrimarySurface(kind)
         PROVE DataTypes'
    BY <1>12 DEF handleReCreatePrimarySurface, receive, dropSurface, stale
  <1>13. ASSUME NEW s \in Sizes, handleUpdateSize(s) PROVE DataTypes'
    BY <1>13 DEF handleUpdateSize, handle, receive
  <1>14. ASSUME handleRelease PROVE DataTypes'
    BY <1>14 DEF handleRelease, receive, dropSurface, stale
  <1>15. CASE \/ requestStart
              \/ stopPreview
              \/ closeCamera
              \/ \E p \in Pictures : takePicture(p)
              \/ \E p \in Pictures : save(p)
              \/ \E t \in Starter : updatePrimarySize(t)
              \/ \E p \in Pictures : captureImage(p)
    BY <1>15 DEF requestStart, stopPreview, closeCamera, CloseCamera,
       takePicture, answer, save, updatePrimarySize, RenderMayStart,
       captureImage
  <1>16. CASE \/ release
              \/ releaseResource
              \/ onPrimarySurfaceCreate
              \/ \E kind \in {"newHolder", "noHolder"} : handleHolder(kind)
              \/ \E p \in Pictures : handleCapture(p)
              \/ drawFails
    BY <1>16 DEF release, CloseCamera, releaseResource,
       onPrimarySurfaceCreate, handleHolder, handle, receive, handleCapture,
       answer, drawFails
  <1>17. ASSUME NEW t \in Starter, cameraGone(t) PROVE DataTypes'
    BY <1>17 DEF cameraGone, returned
  <1> QED BY <1>1, <1>2, <1>3, <1>4, <1>5, <1>6, <1>7, <1>8, <1>9, <1>10,
       <1>11, <1>12, <1>13, <1>14, <1>15, <1>16, <1>17, NextIs

LEMMA StepPc ==
    ASSUME Types, Next
    PROVE  PcTypes'
  <1> USE DEF Types, PcTypes, Starter, Places, StartPlaces, goto, camera,
     surface, looper, locks, capture, history
  <1>1. ASSUME requestStart PROVE PcTypes'
    BY <1>1 DEF requestStart
  <1>2. ASSUME closeCamera PROVE PcTypes'
    BY <1>2 DEF closeCamera, CloseCamera
  <1>3. ASSUME NEW p \in Pictures, takePicture(p) PROVE PcTypes'
    BY <1>3 DEF takePicture, answer
  <1>4. ASSUME NEW t \in Starter, startPreview(t) PROVE PcTypes'
    BY <1>4 DEF startPreview, returned
  <1>5. ASSUME NEW t \in Starter, updatePrimarySize(t) PROVE PcTypes'
    BY <1>5 DEF updatePrimarySize, RenderMayStart
  <1>6. ASSUME NEW t \in Starter, awaitSize(t) PROVE PcTypes'
    BY <1>6 DEF awaitSize, AwaitSurface
  <1>7. ASSUME NEW t \in Starter, awaited(t) PROVE PcTypes'
    BY <1>7 DEF awaited
  <1>8. ASSUME NEW t \in Starter, checkPrimarySurface(t) PROVE PcTypes'
    BY <1>8 DEF checkPrimarySurface, RenderMayStart
  <1>9. ASSUME NEW t \in Starter, awaitSurface(t) PROVE PcTypes'
    BY <1>9 DEF awaitSurface, AwaitSurface
  <1>10. ASSUME NEW t \in Starter, displaySurface(t) PROVE PcTypes'
    BY <1>10 DEF displaySurface, returned
  <1>11. ASSUME releaseCapture PROVE PcTypes'
    BY <1>11 DEF releaseCapture, ReleaseCapture
  <1>12. ASSUME NEW p \in Pictures, captureImage(p) PROVE PcTypes'
    BY <1>12 DEF captureImage, answer
  <1>13. ASSUME release PROVE PcTypes'
    BY <1>13 DEF release, CloseCamera
  <1>14. ASSUME releaseListenerCapture PROVE PcTypes'
    BY <1>14 DEF releaseListenerCapture, ReleaseCapture
  <1>15. ASSUME releaseResource PROVE PcTypes'
    BY <1>15 DEF releaseResource
  <1>16. ASSUME onPrimarySurfaceCreate PROVE PcTypes'
    BY <1>16 DEF onPrimarySurfaceCreate
  <1>17. ASSUME surfaceCreated PROVE PcTypes'
    BY <1>17 DEF surfaceCreated
  <1>18. ASSUME NEW kind \in {"init", "recreate"}, handleReCreatePrimarySurface(kind)
         PROVE PcTypes'
    BY <1>18 DEF handleReCreatePrimarySurface, receive, dropSurface, stale
  <1>19. CASE \/ stopPreview
              \/ \E s \in Sizes : setPreviewSize(s)
              \/ \E s \in Sizes : openCamera(s)
              \/ \E p \in Pictures : save(p)
              \/ \E s \in Sizes : handleUpdateSize(s)
              \/ \E kind \in {"newHolder", "noHolder"} : handleHolder(kind)
              \/ handleRelease
    BY <1>19 DEF stopPreview, setPreviewSize, RenderMayStart, openCamera,
       save, answer, handleUpdateSize, handle, receive, handleHolder,
       handleRelease, dropSurface, stale
  <1>20. CASE \/ \E p \in Pictures : handleCapture(p)
              \/ drawFails
    BY <1>20 DEF handleCapture, handle, receive, answer, drawFails
  <1>21. ASSUME NEW t \in Starter, cameraGone(t) PROVE PcTypes'
    BY <1>21 DEF cameraGone, returned
  <1> QED BY <1>1, <1>2, <1>3, <1>4, <1>5, <1>6, <1>7, <1>8, <1>9, <1>10,
       <1>11, <1>12, <1>13, <1>14, <1>15, <1>16, <1>17, <1>18, <1>19, <1>20, <1>21, NextIs

LEMMA StepLock ==
    ASSUME Types, LockInv, Next
    PROVE  LockInv'
  <1> USE DEF Types, DataTypes, PcTypes, LockInv, Starter, StartPlaces,
     LockedPlaces, AwaitPlaces, goto, camera, surface, looper, locks, capture,
     history
  <1>1. ASSUME requestStart PROVE LockInv'
    BY <1>1 DEF requestStart
  <1>2. ASSUME closeCamera PROVE LockInv'
    BY <1>2 DEF closeCamera, CloseCamera
  <1>3. ASSUME NEW p \in Pictures, takePicture(p) PROVE LockInv'
    BY <1>3 DEF takePicture, answer
  <1>4. ASSUME NEW t \in Starter, startPreview(t) PROVE LockInv'
    BY <1>4 DEF startPreview, returned
  <1>5. ASSUME NEW t \in Starter, updatePrimarySize(t) PROVE LockInv'
    BY <1>5 DEF updatePrimarySize, RenderMayStart
  <1>6. ASSUME NEW t \in Starter, awaitSize(t) PROVE LockInv'
    BY <1>6 DEF awaitSize, AwaitSurface
  <1>7. ASSUME NEW t \in Starter, awaited(t) PROVE LockInv'
    BY <1>7 DEF awaited
  <1>8. ASSUME NEW t \in Starter, checkPrimarySurface(t) PROVE LockInv'
    BY <1>8 DEF checkPrimarySurface, RenderMayStart
  <1>9. ASSUME NEW t \in Starter, awaitSurface(t) PROVE LockInv'
    BY <1>9 DEF awaitSurface, AwaitSurface
  <1>10. ASSUME NEW t \in Starter, displaySurface(t) PROVE LockInv'
    BY <1>10 DEF displaySurface, returned
  <1>11. ASSUME releaseCapture PROVE LockInv'
    BY <1>11 DEF releaseCapture, ReleaseCapture
  <1>12. ASSUME NEW p \in Pictures, captureImage(p) PROVE LockInv'
    BY <1>12 DEF captureImage, answer
  <1>13. ASSUME release PROVE LockInv'
    BY <1>13 DEF release, CloseCamera
  <1>14. ASSUME releaseListenerCapture PROVE LockInv'
    BY <1>14 DEF releaseListenerCapture, ReleaseCapture
  <1>15. ASSUME releaseResource PROVE LockInv'
    BY <1>15 DEF releaseResource
  <1>16. ASSUME onPrimarySurfaceCreate PROVE LockInv'
    BY <1>16 DEF onPrimarySurfaceCreate
  <1>17. ASSUME surfaceCreated PROVE LockInv'
    BY <1>17 DEF surfaceCreated
  <1>18. ASSUME NEW kind \in {"init", "recreate"}, handleReCreatePrimarySurface(kind)
         PROVE LockInv'
    BY <1>18 DEF handleReCreatePrimarySurface, receive, dropSurface, stale
  <1>19. CASE \/ stopPreview
              \/ \E s \in Sizes : setPreviewSize(s)
              \/ \E s \in Sizes : openCamera(s)
              \/ \E p \in Pictures : save(p)
              \/ \E s \in Sizes : handleUpdateSize(s)
              \/ \E kind \in {"newHolder", "noHolder"} : handleHolder(kind)
              \/ handleRelease
    BY <1>19 DEF stopPreview, setPreviewSize, RenderMayStart, openCamera,
       save, answer, handleUpdateSize, handle, receive, handleHolder,
       handleRelease, dropSurface, stale
  <1>20. CASE \/ \E p \in Pictures : handleCapture(p)
              \/ drawFails
    BY <1>20 DEF handleCapture, handle, receive, answer, drawFails
  <1>21. ASSUME NEW t \in Starter, cameraGone(t) PROVE LockInv'
    BY <1>21 DEF cameraGone, returned
  <1> QED BY <1>1, <1>2, <1>3, <1>4, <1>5, <1>6, <1>7, <1>8, <1>9, <1>10,
       <1>11, <1>12, <1>13, <1>14, <1>15, <1>16, <1>17, <1>18, <1>19, <1>20, <1>21, NextIs

LEMMA StepStart ==
    ASSUME Types, LockInv, StartInv, Next
    PROVE  StartInv'
  <1> USE DEF Types, PcTypes, LockInv, StartInv, Starter, StartPlaces,
     LockedPlaces, AskPlaces, AwaitPlaces, goto, camera, surface, looper,
     locks, capture, history
  <1>1. ASSUME requestStart PROVE StartInv'
    BY <1>1 DEF requestStart
  <1>2. ASSUME stopPreview PROVE StartInv'
    BY <1>2 DEF stopPreview
  <1>3. ASSUME closeCamera PROVE StartInv'
    BY <1>3 DEF closeCamera, CloseCamera
  <1>4. ASSUME NEW s \in Sizes, setPreviewSize(s) PROVE StartInv'
    <2>1. /\ pc' = pc /\ mIsPreviewing' = mIsPreviewing /\ pc["helper"] = "idle"
          /\ \/ UNCHANGED <<opened, streaming>>
             \/ opened' = FALSE /\ streaming' = FALSE
      BY <1>4 DEF setPreviewSize
    <2>2. crossed' = (crossed \/ RenderMayStart)
      BY <1>4 DEF setPreviewSize
    <2>3. ~crossed' => ~crossed /\ ~mIsPreviewing /\ pc["render"] \notin StartPlaces
      BY <2>2, Zenon DEF RenderMayStart
    <2> HIDE DEF StartPlaces
    <2>4. pc["helper"] \notin LockedPlaces \cup AskPlaces
      BY <2>1 DEF StartPlaces
    <2>5. ~crossed' => pc["render"] \notin LockedPlaces
      BY <2>3
    <2> QED BY <2>1, <2>3, <2>4, <2>5
  <1>5. ASSUME NEW s \in Sizes, openCamera(s) PROVE StartInv'
    BY <1>5 DEF openCamera
  <1>6. ASSUME NEW p \in Pictures, takePicture(p) PROVE StartInv'
    BY <1>6 DEF takePicture, answer
  <1>7. ASSUME NEW t \in Starter, startPreview(t) PROVE StartInv'
    BY <1>7 DEF startPreview, returned
  <1>8. ASSUME NEW t \in Starter, updatePrimarySize(t) PROVE StartInv'
    BY <1>8 DEF updatePrimarySize, RenderMayStart
  <1>9. ASSUME NEW t \in Starter, awaitSize(t) PROVE StartInv'
    BY <1>9 DEF awaitSize, AwaitSurface
  <1>10. ASSUME NEW t \in Starter, awaited(t) PROVE StartInv'
    BY <1>10 DEF awaited
  <1>11. ASSUME NEW t \in Starter, checkPrimarySurface(t) PROVE StartInv'
    BY <1>11 DEF checkPrimarySurface, RenderMayStart
  <1>12. ASSUME NEW t \in Starter, awaitSurface(t) PROVE StartInv'
    BY <1>12 DEF awaitSurface, AwaitSurface
  <1>13. ASSUME NEW t \in Starter, displaySurface(t) PROVE StartInv'
    BY <1>13 DEF displaySurface, returned
  <1>14. ASSUME releaseCapture PROVE StartInv'
    BY <1>14 DEF releaseCapture, ReleaseCapture
  <1>15. ASSUME NEW p \in Pictures, captureImage(p) PROVE StartInv'
    BY <1>15 DEF captureImage, answer
  <1>16. ASSUME release PROVE StartInv'
    BY <1>16 DEF release, CloseCamera
  <1>17. ASSUME releaseListenerCapture PROVE StartInv'
    BY <1>17 DEF releaseListenerCapture, ReleaseCapture
  <1>18. ASSUME releaseResource PROVE StartInv'
    BY <1>18 DEF releaseResource
  <1>19. ASSUME onPrimarySurfaceCreate PROVE StartInv'
    BY <1>19 DEF onPrimarySurfaceCreate
  <1>20. ASSUME surfaceCreated PROVE StartInv'
    BY <1>20 DEF surfaceCreated
  <1>21. ASSUME NEW kind \in {"init", "recreate"}, handleReCreatePrimarySurface(kind)
         PROVE StartInv'
    BY <1>21 DEF handleReCreatePrimarySurface, receive, dropSurface, stale
  <1>22. CASE \/ \E p \in Pictures : save(p)
              \/ \E s \in Sizes : handleUpdateSize(s)
              \/ \E kind \in {"newHolder", "noHolder"} : handleHolder(kind)
              \/ handleRelease
              \/ \E p \in Pictures : handleCapture(p)
              \/ drawFails
    BY <1>22 DEF save, answer, handleUpdateSize, handle, receive,
       handleHolder, handleRelease, dropSurface, stale, handleCapture,
       drawFails
  <1>23. ASSUME NEW t \in Starter, cameraGone(t) PROVE StartInv'
    BY <1>23 DEF cameraGone, returned
  <1> QED BY <1>1, <1>2, <1>3, <1>4, <1>5, <1>6, <1>7, <1>8, <1>9, <1>10,
       <1>11, <1>12, <1>13, <1>14, <1>15, <1>16, <1>17, <1>18, <1>19, <1>20,
       <1>21, <1>22, <1>23, NextIs


----------------------------------------------------------------------------
(* The queue over a step: what is sent, and what is taken from it. *)

Moved(new, old) ==
    /\ queue' \in Seq(Messages)
    /\ Once(queue) => Once(queue')
    /\ Followed(queue) => Followed(queue')
    /\ \A m : Has(queue', m) => Has(queue, m) \/ m \in new
    /\ \A m : Has(queue, m) /\ m \notin old => Has(queue', m)

capturing(p) == <<"capture", p>>
Sent == {"recreate", "release", "newHolder"} \X {NoArg}

LEMMA SendMoves ==
    ASSUME queue \in Seq(Messages), NEW m \in Sent, queue' = sent(<<m>>)
    PROVE  Moved({m}, {})
  BY SingleIs DEF Moved, Sent

LEMMA ReceiveMoves ==
    ASSUME queue \in Seq(Messages), NEW kind, NEW arg, receive(kind, arg),
           queue' = Tail(queue) \/ queue' = Append(Tail(queue), noHolder)
    PROVE  Moved({noHolder}, {<<kind, arg>>}) /\ Has(queue, <<kind, arg>>)
  BY ReceiveIs DEF Moved

LEMMA UpdateMoves ==
    ASSUME queue \in Seq(Messages), cameraSize \in Sizes,
           queue' = sent(<<<<"update", cameraSize>>, recreate>>)
    PROVE  /\ Moved({<<"update", cameraSize>>, recreate}, {})
           /\ ~quit => Has(queue', <<"update", cameraSize>>)
  <1> DEFINE r == <<<<"update", cameraSize>>, recreate>>
  <1>1. /\ r \in Seq(Messages) /\ Once(r) /\ Followed(r)
        /\ \A k : Has(r, k) <=> k = <<"update", cameraSize>> \/ k = recreate
    BY UpdateIs
  <1>2. queue' = sent(r)
    OBVIOUS
  <1> HIDE DEF r
  <1>3. \A p \in Pictures : ~Has(r, <<"capture", p>>)
    BY <1>1 DEF recreate
  <1>4. /\ sent(r) \in Seq(Messages)
        /\ \A m : Has(sent(r), m) => Has(queue, m) \/ Has(r, m)
        /\ \A m : Has(queue, m) => Has(sent(r), m)
        /\ ~quit => \A m : Has(r, m) => Has(sent(r), m)
        /\ Once(queue) => Once(sent(r))
        /\ Followed(queue) => Followed(sent(r))
    BY <1>1, <1>3, SentIs
  <1> QED BY <1>1, <1>2, <1>4 DEF Moved

LEMMA CaptureMoves ==
    ASSUME queue \in Seq(Messages), NEW p \in Pictures,
           ~Has(queue, capturing(p)), queue' = sent(<<capturing(p)>>)
    PROVE  /\ Moved({capturing(p)}, {})
           /\ ~quit => Has(queue', capturing(p))
           /\ quit => queue' = queue
  <1> DEFINE m == capturing(p)
  <1>1. m \in Messages /\ \A s : m # <<"update", s>>
    BY DEF capturing, Messages
  <1>2. /\ <<m>> \in Seq(Messages) /\ Once(<<m>>) /\ Followed(<<m>>)
        /\ \A k : Has(<<m>>, k) <=> k = m
    BY <1>1, OneIs
  <1>3. \A z \in Pictures : ~(Has(queue, <<"capture", z>>) /\ Has(<<m>>, <<"capture", z>>))
    BY <1>2 DEF capturing
  <1> DEFINE r == <<m>>
  <1>4. r \in Seq(Messages) /\ Once(r) /\ Followed(r) /\ queue' = sent(r)
        /\ (\A k : Has(r, k) <=> k = m)
    BY <1>2
  <1>5. \A z \in Pictures : ~(Has(queue, <<"capture", z>>) /\ Has(r, <<"capture", z>>))
    BY <1>3
  <1> HIDE DEF r
  <1>6. /\ sent(r) \in Seq(Messages)
        /\ \A k : Has(sent(r), k) => Has(queue, k) \/ Has(r, k)
        /\ \A k : Has(queue, k) => Has(sent(r), k)
        /\ ~quit => \A k : Has(r, k) => Has(sent(r), k)
        /\ Once(queue) => Once(sent(r))
        /\ Followed(queue) => Followed(sent(r))
    BY <1>4, <1>5, SentIs
  <1>7. quit => queue' = queue
    BY <1>4 DEF sent
  <1> QED BY <1>4, <1>6, <1>7 DEF Moved

LEMMA DrawMoves ==
    ASSUME queue \in Seq(Messages), queue' = Append(queue, recreate)
    PROVE  Moved({recreate}, {})
  <1>1. recreate \in Messages /\ (\A s : recreate # <<"update", s>>)
        /\ \A p : recreate # <<"capture", p>>
    BY DEF recreate, Messages
  <1>2. queue' = queue \o <<recreate>>
    BY <1>1, AppendIsConcat
  <1>3. /\ <<recreate>> \in Seq(Messages) /\ Once(<<recreate>>) /\ Followed(<<recreate>>)
        /\ \A k : Has(<<recreate>>, k) <=> k = recreate
    BY <1>1, OneIs
  <1> QED BY <1>1, <1>2, <1>3, ConcatIs DEF Moved


LEMMA SendSteps ==
    ASSUME queue \in Seq(Messages)
    PROVE  /\ \A t \in Starter : awaitSurface(t) => Moved({recreate}, {})
           /\ surfaceCreated => Moved({<<"newHolder", NoArg>>}, {})
           /\ releaseResource => Moved({<<"release", NoArg>>}, {})
           /\ drawFails => Moved({recreate}, {})
  <1>1. ASSUME NEW t \in Starter, awaitSurface(t) PROVE Moved({recreate}, {})
    <2>1. queue' = sent(<<recreate>>)
      BY <1>1 DEF awaitSurface, AwaitSurface
    <2> QED BY <2>1, SendMoves DEF Sent, recreate
  <1>2. ASSUME surfaceCreated PROVE Moved({<<"newHolder", NoArg>>}, {})
    <2>1. queue' = sent(<<<<"newHolder", NoArg>>>>)
      BY <1>2 DEF surfaceCreated
    <2> QED BY <2>1, SendMoves DEF Sent
  <1>3. ASSUME releaseResource PROVE Moved({<<"release", NoArg>>}, {})
    <2>1. queue' = sent(<<<<"release", NoArg>>>>)
      BY <1>3 DEF releaseResource
    <2> QED BY <2>1, SendMoves DEF Sent
  <1>4. ASSUME drawFails PROVE Moved({recreate}, {})
    BY <1>4, DrawMoves DEF drawFails
  <1> QED BY <1>1, <1>2, <1>3, <1>4

LEMMA ReceiveSteps ==
    ASSUME queue \in Seq(Messages), Once(queue)
    PROVE  /\ \A kind \in {"init", "recreate"} : handleReCreatePrimarySurface(kind)
                 => Moved({noHolder}, {<<kind, NoArg>>})
           /\ \A kind \in {"newHolder", "noHolder"} : handleHolder(kind)
                 => Moved({noHolder}, {<<kind, NoArg>>})
           /\ \A s \in Sizes : handleUpdateSize(s)
                 => /\ Moved({noHolder}, {<<"update", s>>})
                    /\ Has(queue, <<"update", s>>)
           /\ \A p \in Pictures : handleCapture(p)
                 => /\ Moved({noHolder}, {capturing(p)})
                    /\ Has(queue, capturing(p)) /\ ~Has(queue', capturing(p))
           /\ handleRelease => /\ Moved({noHolder}, {<<"release", NoArg>>})
                               /\ Has(queue, <<"release", NoArg>>)
  <1>1. ASSUME NEW kind \in {"init", "recreate"}, handleReCreatePrimarySurface(kind)
        PROVE  Moved({noHolder}, {<<kind, NoArg>>})
    BY <1>1, ReceiveMoves DEF handleReCreatePrimarySurface, noHolder
  <1>2. ASSUME NEW kind \in {"newHolder", "noHolder"}, handleHolder(kind)
        PROVE  Moved({noHolder}, {<<kind, NoArg>>})
    BY <1>2, ReceiveMoves DEF handleHolder, handle
  <1>3. ASSUME NEW s \in Sizes, handleUpdateSize(s)
        PROVE  Moved({noHolder}, {<<"update", s>>}) /\ Has(queue, <<"update", s>>)
    BY <1>3, ReceiveMoves DEF handleUpdateSize, handle
  <1>4. ASSUME NEW p \in Pictures, handleCapture(p)
        PROVE  /\ Moved({noHolder}, {capturing(p)})
               /\ Has(queue, capturing(p)) /\ ~Has(queue', capturing(p))
    <2>1. receive("capture", p) /\ queue' = Tail(queue)
      BY <1>4 DEF handleCapture, handle
    <2>2. queue # <<>> /\ Head(queue) = <<"capture", p>>
      BY <2>1 DEF receive
    <2>3. ~Has(queue', <<"capture", p>>)
      BY <2>1, <2>2, HeadOnce
    <2> QED BY <2>1, <2>3, ReceiveMoves DEF capturing
  <1>5. ASSUME handleRelease
        PROVE  /\ Moved({noHolder}, {<<"release", NoArg>>})
               /\ Has(queue, <<"release", NoArg>>)
    BY <1>5, ReceiveMoves DEF handleRelease, noHolder
  <1> QED BY <1>1, <1>2, <1>3, <1>4, <1>5

LEMMA CaptureStep ==
    ASSUME queue \in Seq(Messages), PictureInv, NEW p \in Pictures,
           captureImage(p)
    PROVE  /\ Moved({capturing(p)}, {})
           /\ \/ /\ queue' = queue /\ picture' = [picture EXCEPT ![p] = "over"]
                 /\ \/ calls' = [calls EXCEPT ![p] = @ + 1]
                    \/ quit /\ calls' = calls
              \/ /\ Has(queue', capturing(p)) /\ calls' = calls
                 /\ picture' = [picture EXCEPT ![p] = "queue"]
  <1>1. ~Has(queue, capturing(p))
    BY DEF captureImage, PictureInv, capturing
  <1>2. CASE /\ queue' = queue /\ picture' = [picture EXCEPT ![p] = "over"]
             /\ calls' = [calls EXCEPT ![p] = @ + 1]
    BY <1>2 DEF Moved
  <1>3. CASE queue' = sent(<<capturing(p)>>) /\ quit /\ calls' = calls
             /\ picture' = [picture EXCEPT ![p] = "over"]
    BY <1>1, <1>3, CaptureMoves
  <1>4. CASE queue' = sent(<<capturing(p)>>) /\ ~quit /\ calls' = calls
             /\ picture' = [picture EXCEPT ![p] = "queue"]
    BY <1>1, <1>4, CaptureMoves
  <1> QED BY <1>2, <1>3, <1>4 DEF captureImage, answer, capturing

LEMMA SizeStep ==
    ASSUME queue \in Seq(Messages), cameraSize \in Sizes, NEW t \in Starter,
           awaitSize(t)
    PROVE  /\ Moved({<<"update", cameraSize>>, recreate}, {})
           /\ ~quit => Has(queue', <<"update", cameraSize>>)
  BY UpdateMoves DEF awaitSize, AwaitSurface

LEMMA QueueKept ==
    ASSUME QueueInv, UNCHANGED <<quit, mRendererHolder>>, NEW new, NEW old,
           Moved(new, old), <<"release", NoArg>> \notin new
    PROVE  QueueInv'
  BY DEF QueueInv, Moved

LEMMA StepQueue ==
    ASSUME Types, QueueInv, PictureInv, Next
    PROVE  QueueInv'
  <1>1. ASSUME NEW t \in Starter, awaitSize(t) PROVE QueueInv'
    <2>1. Moved({<<"update", cameraSize>>, recreate}, {})
      BY <1>1, SizeStep DEF QueueInv, Types, DataTypes
    <2>2. UNCHANGED <<quit, mRendererHolder>>
      BY <1>1 DEF camera, looper, surface, awaitSize, AwaitSurface
    <2> QED BY <2>1, <2>2, QueueKept DEF recreate, noHolder, capturing
  <1>2. ASSUME NEW t \in Starter, awaitSurface(t) PROVE QueueInv'
    <2>1. Moved({recreate}, {})
      BY <1>2, SendSteps DEF QueueInv
    <2>2. UNCHANGED <<quit, mRendererHolder>>
      BY <1>2 DEF camera, looper, surface, awaitSurface, AwaitSurface
    <2> QED BY <2>1, <2>2, QueueKept DEF recreate, noHolder, capturing
  <1>3. ASSUME NEW p \in Pictures, captureImage(p) PROVE QueueInv'
    <2>1. Moved({capturing(p)}, {})
      BY <1>3, CaptureStep DEF QueueInv
    <2>2. UNCHANGED <<quit, mRendererHolder>>
      BY <1>3 DEF camera, looper, surface, captureImage, answer
    <2> QED BY <2>1, <2>2, QueueKept DEF recreate, noHolder, capturing
  <1>4. ASSUME releaseResource PROVE QueueInv'
    <2>1. Moved({<<"release", NoArg>>}, {})
      BY <1>4, SendSteps DEF QueueInv
    <2>2. mRendererHolder' = FALSE
      BY <1>4 DEF releaseResource
    <2> QED BY <2>1, <2>2 DEF QueueInv, Moved
  <1>5. ASSUME surfaceCreated PROVE QueueInv'
    <2>1. Moved({<<"newHolder", NoArg>>}, {})
      BY <1>5, SendSteps DEF QueueInv
    <2>2. UNCHANGED <<quit, mRendererHolder>>
      BY <1>5 DEF camera, looper, surface, surfaceCreated
    <2> QED BY <2>1, <2>2, QueueKept DEF recreate, noHolder, capturing
  <1>6. ASSUME NEW kind \in {"init", "recreate"}, handleReCreatePrimarySurface(kind)
        PROVE QueueInv'
    <2>1. Moved({noHolder}, {<<kind, NoArg>>})
      BY <1>6, ReceiveSteps DEF QueueInv
    <2>2. UNCHANGED <<quit, mRendererHolder>>
      BY <1>6 DEF camera, looper, surface, handleReCreatePrimarySurface,
         receive, dropSurface, stale
    <2> QED BY <2>1, <2>2, QueueKept DEF recreate, noHolder, capturing
  <1>7. ASSUME NEW s \in Sizes, handleUpdateSize(s) PROVE QueueInv'
    <2>1. Moved({noHolder}, {<<"update", s>>})
      BY <1>7, ReceiveSteps DEF QueueInv
    <2>2. UNCHANGED <<quit, mRendererHolder>>
      BY <1>7 DEF camera, looper, surface, handleUpdateSize, handle, receive
    <2> QED BY <2>1, <2>2, QueueKept DEF recreate, noHolder, capturing
  <1>8. ASSUME NEW kind \in {"newHolder", "noHolder"}, handleHolder(kind)
        PROVE QueueInv'
    <2>1. Moved({noHolder}, {<<kind, NoArg>>})
      BY <1>8, ReceiveSteps DEF QueueInv
    <2>2. UNCHANGED <<quit, mRendererHolder>>
      BY <1>8 DEF camera, looper, surface, handleHolder, handle, receive
    <2> QED BY <2>1, <2>2, QueueKept DEF recreate, noHolder, capturing
  <1>9. ASSUME handleRelease PROVE QueueInv'
    <2>1. Moved({noHolder}, {<<"release", NoArg>>}) /\ ~mRendererHolder
      BY <1>9, ReceiveSteps DEF QueueInv
    <2>2. UNCHANGED mRendererHolder
      BY <1>9 DEF handleRelease, receive, dropSurface, stale
    <2> QED BY <2>1, <2>2 DEF QueueInv, Moved
  <1>10. ASSUME NEW p \in Pictures, handleCapture(p) PROVE QueueInv'
    <2>1. Moved({noHolder}, {capturing(p)})
      BY <1>10, ReceiveSteps DEF QueueInv
    <2>2. UNCHANGED <<quit, mRendererHolder>>
      BY <1>10 DEF camera, looper, surface, handleCapture, handle, receive,
         answer
    <2> QED BY <2>1, <2>2, QueueKept DEF recreate, noHolder, capturing
  <1>11. ASSUME drawFails PROVE QueueInv'
    <2>1. Moved({recreate}, {})
      BY <1>11, SendSteps DEF QueueInv
    <2>2. UNCHANGED <<quit, mRendererHolder>>
      BY <1>11 DEF camera, looper, surface, drawFails
    <2> QED BY <2>1, <2>2, QueueKept DEF recreate, noHolder, capturing
  <1>12. CASE \/ requestStart
              \/ stopPreview
              \/ closeCamera
              \/ \E s \in Sizes : setPreviewSize(s)
              \/ \E s \in Sizes : openCamera(s)
              \/ \E p \in Pictures : takePicture(p)
              \/ \E p \in Pictures : save(p)
    BY <1>12 DEF QueueInv, goto, goto, camera, surface, looper, locks,
       capture, history, requestStart, stopPreview, closeCamera, CloseCamera,
       setPreviewSize, RenderMayStart, openCamera, takePicture, answer, save
  <1>13. CASE \/ \E t \in Starter : startPreview(t)
              \/ \E t \in Starter : updatePrimarySize(t)
              \/ \E t \in Starter : awaited(t)
              \/ \E t \in Starter : checkPrimarySurface(t)
              \/ \E t \in Starter : displaySurface(t)
              \/ releaseCapture
              \/ release
    BY <1>13 DEF QueueInv, goto, goto, camera, surface, looper, locks,
       capture, history, startPreview, returned, updatePrimarySize,
       RenderMayStart, awaited, checkPrimarySurface, displaySurface,
       releaseCapture, ReleaseCapture, release, CloseCamera
  <1>14. CASE \/ releaseListenerCapture
              \/ onPrimarySurfaceCreate
    BY <1>14 DEF QueueInv, goto, goto, camera, surface, looper, locks,
       capture, history, releaseListenerCapture, ReleaseCapture,
       onPrimarySurfaceCreate
  <1>15. ASSUME NEW t \in Starter, cameraGone(t) PROVE QueueInv'
    BY <1>15 DEF QueueInv, camera, surface, looper, locks, capture,
       history, goto, cameraGone, returned
  <1> QED BY <1>1, <1>2, <1>3, <1>4, <1>5, <1>6, <1>7, <1>8, <1>9, <1>10,
       <1>11, <1>12, <1>13, <1>14, <1>15, NextIs


----------------------------------------------------------------------------
(* The pictures. *)

LEMMA PictureKept ==
    ASSUME PictureInv, UNCHANGED <<picture, calls, mRendererHolder>>,
           NEW new, NEW old, Moved(new, old),
           \A p \in Pictures : <<"capture", p>> \notin new \cup old
    PROVE  PictureInv'
  BY DEF PictureInv, Moved

\* A picture that is over is answered at last, and not twice.
LEMMA Answered ==
    ASSUME PictureInv, NEW p \in Pictures, answer(p), picture[p] # "over",
           UNCHANGED mRendererHolder, NEW new, NEW old, Moved(new, old),
           ~Has(queue', <<"capture", p>>),
           \A z \in Pictures : z # p => <<"capture", z>> \notin new \cup old
    PROVE  PictureInv'
  <1>0. calls[p] = 0 /\ 0 + 1 = 1
    BY DEF PictureInv
  <1>1. picture' = [picture EXCEPT ![p] = "over"] /\ calls' = [calls EXCEPT ![p] = 1]
    BY <1>0 DEF answer
  <1>2. /\ picture' \in [Pictures -> {"none", "taking", "queue", "saver", "over"}]
        /\ calls' \in [Pictures -> {0, 1}]
    BY <1>1 DEF PictureInv
  <1>3. \A z \in Pictures : z # p => /\ picture'[z] = picture[z] /\ calls'[z] = calls[z]
                                     /\ Has(queue', <<"capture", z>>)
                                        <=> Has(queue, <<"capture", z>>)
    BY <1>1 DEF PictureInv, Moved
  <1>4. picture'[p] = "over" /\ calls'[p] = 1
    BY <1>1 DEF PictureInv
  <1> QED BY <1>2, <1>3, <1>4 DEF PictureInv

LEMMA StepPicture ==
    ASSUME Types, QueueInv, PictureInv, Next
    PROVE  PictureInv'
  <1>1. ASSUME NEW p \in Pictures, takePicture(p) PROVE PictureInv'
    <2>1. UNCHANGED <<queue, mRendererHolder>> /\ picture[p] = "none"
      BY <1>1 DEF looper, takePicture
    <2>2. Moved({}, {}) /\ ~Has(queue', <<"capture", p>>)
      BY <2>1 DEF Moved, QueueInv, PictureInv
    <2>3. CASE answer(p)
      BY <2>1, <2>2, <2>3, Answered
    <2>4. CASE picture' = [picture EXCEPT ![p] = "taking"] /\ calls' = calls
      BY <2>1, <2>4 DEF PictureInv
    <2> QED BY <1>1, <2>3, <2>4 DEF takePicture
  <1>2. ASSUME NEW p \in Pictures, save(p) PROVE PictureInv'
    <2>1. UNCHANGED <<queue, mRendererHolder>> /\ picture[p] = "saver" /\ answer(p)
      BY <1>2 DEF looper, save
    <2>2. Moved({}, {}) /\ ~Has(queue', <<"capture", p>>)
      BY <2>1 DEF Moved, QueueInv, PictureInv
    <2> QED BY <2>1, <2>2, Answered
  <1>3. ASSUME NEW t \in Starter, awaitSize(t) PROVE PictureInv'
    <2>1. Moved({<<"update", cameraSize>>, recreate}, {})
      BY <1>3, SizeStep DEF QueueInv, Types, DataTypes
    <2>2. UNCHANGED <<picture, calls, mRendererHolder>>
      BY <1>3 DEF camera, looper, surface, capture, awaitSize, AwaitSurface
    <2> QED BY <2>1, <2>2, PictureKept DEF recreate, noHolder
  <1>4. ASSUME NEW t \in Starter, awaitSurface(t) PROVE PictureInv'
    <2>1. Moved({recreate}, {})
      BY <1>4, SendSteps DEF QueueInv
    <2>2. UNCHANGED <<picture, calls, mRendererHolder>>
      BY <1>4 DEF camera, looper, surface, capture, awaitSurface, AwaitSurface
    <2> QED BY <2>1, <2>2, PictureKept DEF recreate, noHolder
  <1>5. ASSUME NEW p \in Pictures, captureImage(p) PROVE PictureInv'
    <2>1. /\ UNCHANGED mRendererHolder /\ picture[p] = "taking"
          /\ \/ ~mRendererHolder /\ answer(p) /\ UNCHANGED queue
             \/ /\ queue' = sent(<<capturing(p)>>) /\ calls' = calls
                /\ picture' = [picture EXCEPT ![p] = IF quit THEN "over" ELSE "queue"]
      BY <1>5 DEF captureImage, capturing
    <2>2. ~Has(queue, <<"capture", p>>)
      BY <2>1 DEF PictureInv
    <2>3. CASE answer(p) /\ UNCHANGED queue
      <3>1. Moved({}, {}) /\ ~Has(queue', <<"capture", p>>)
        BY <2>2, <2>3 DEF Moved, QueueInv
      <3> QED BY <3>1, <2>1, <2>3, Answered
    <2>4. CASE /\ queue' = sent(<<capturing(p)>>) /\ calls' = calls
               /\ picture' = [picture EXCEPT ![p] = IF quit THEN "over" ELSE "queue"]
      <3>1. /\ Moved({capturing(p)}, {})
            /\ ~quit => Has(queue', capturing(p))
            /\ quit => queue' = queue
        BY <2>2, <2>4, CaptureMoves DEF QueueInv, capturing
      <3>2. CASE quit
        <4>1. ~mRendererHolder /\ picture' = [picture EXCEPT ![p] = "over"]
          BY <2>4, <3>2 DEF QueueInv
        <4> QED BY <2>1, <2>2, <2>4, <3>1, <3>2, <4>1 DEF PictureInv
      <3>3. CASE ~quit
        <4>1. picture' = [picture EXCEPT ![p] = "queue"]
          BY <2>4, <3>3
        <4>2. \A z \in Pictures : z # p => Has(queue', <<"capture", z>>)
                                           <=> Has(queue, <<"capture", z>>)
          BY <3>1 DEF Moved, capturing
        <4>3. Has(queue', <<"capture", p>>)
          BY <3>1, <3>3 DEF capturing
        <4> QED BY <2>1, <2>4, <4>1, <4>2, <4>3 DEF PictureInv
      <3> QED BY <3>2, <3>3
    <2> QED BY <2>1, <2>3, <2>4
  <1>6. ASSUME releaseResource PROVE PictureInv'
    <2>1. Moved({<<"release", NoArg>>}, {})
      BY <1>6, SendSteps DEF QueueInv
    <2>2. UNCHANGED <<picture, calls>> /\ mRendererHolder' = FALSE
      BY <1>6 DEF capture, releaseResource
    <2> QED BY <2>1, <2>2 DEF PictureInv, Moved
  <1>7. ASSUME surfaceCreated PROVE PictureInv'
    <2>1. Moved({<<"newHolder", NoArg>>}, {})
      BY <1>7, SendSteps DEF QueueInv
    <2>2. UNCHANGED <<picture, calls, mRendererHolder>>
      BY <1>7 DEF camera, looper, surface, capture, surfaceCreated
    <2> QED BY <2>1, <2>2, PictureKept DEF recreate, noHolder
  <1>8. ASSUME NEW kind \in {"init", "recreate"}, handleReCreatePrimarySurface(kind)
        PROVE PictureInv'
    <2>1. Moved({noHolder}, {<<kind, NoArg>>})
      BY <1>8, ReceiveSteps DEF QueueInv
    <2>2. UNCHANGED <<picture, calls, mRendererHolder>>
      BY <1>8 DEF camera, looper, surface, capture,
         handleReCreatePrimarySurface, receive, dropSurface, stale
    <2> QED BY <2>1, <2>2, PictureKept DEF recreate, noHolder
  <1>9. ASSUME NEW s \in Sizes, handleUpdateSize(s) PROVE PictureInv'
    <2>1. Moved({noHolder}, {<<"update", s>>})
      BY <1>9, ReceiveSteps DEF QueueInv
    <2>2. UNCHANGED <<picture, calls, mRendererHolder>>
      BY <1>9 DEF camera, looper, surface, capture, handleUpdateSize, handle,
         receive
    <2> QED BY <2>1, <2>2, PictureKept DEF recreate, noHolder
  <1>10. ASSUME NEW kind \in {"newHolder", "noHolder"}, handleHolder(kind)
         PROVE PictureInv'
    <2>1. Moved({noHolder}, {<<kind, NoArg>>})
      BY <1>10, ReceiveSteps DEF QueueInv
    <2>2. UNCHANGED <<picture, calls, mRendererHolder>>
      BY <1>10 DEF camera, looper, surface, capture, handleHolder, handle,
         receive
    <2> QED BY <2>1, <2>2, PictureKept DEF recreate, noHolder
  <1>11. ASSUME handleRelease PROVE PictureInv'
    <2>1. Moved({noHolder}, {<<"release", NoArg>>})
      BY <1>11, ReceiveSteps DEF QueueInv
    <2>2. UNCHANGED <<picture, calls, mRendererHolder>>
      BY <1>11 DEF camera, looper, surface, capture, handleRelease, receive,
         dropSurface, stale
    <2> QED BY <2>1, <2>2, PictureKept DEF recreate, noHolder
  <1>12. ASSUME NEW p \in Pictures, handleCapture(p) PROVE PictureInv'
    <2>1. /\ Moved({noHolder}, {capturing(p)})
          /\ Has(queue, capturing(p)) /\ ~Has(queue', capturing(p))
      BY <1>12, ReceiveSteps DEF QueueInv
    <2>2. /\ UNCHANGED mRendererHolder
          /\ \/ picture' = [picture EXCEPT ![p] = "saver"] /\ calls' = calls
             \/ answer(p)
      BY <1>12 DEF handleCapture, handle
    <2>3. /\ picture[p] = "queue" /\ ~Has(queue', <<"capture", p>>)
          /\ \A z \in Pictures : <<"capture", z>> \notin {noHolder}
          /\ \A z \in Pictures : z # p => <<"capture", z>> \notin {capturing(p)}
      BY <2>1 DEF PictureInv, capturing, noHolder
    <2>4. CASE answer(p)
      BY <2>1, <2>2, <2>3, <2>4, Answered
    <2>5. CASE picture' = [picture EXCEPT ![p] = "saver"] /\ calls' = calls
      <3>1. \A z \in Pictures : z # p => Has(queue', <<"capture", z>>)
                                         <=> Has(queue, <<"capture", z>>)
        BY <2>1, <2>3 DEF Moved
      <3> QED BY <2>2, <2>3, <2>5, <3>1 DEF PictureInv
    <2> QED BY <2>2, <2>4, <2>5
  <1>13. ASSUME drawFails PROVE PictureInv'
    <2>1. Moved({recreate}, {})
      BY <1>13, SendSteps DEF QueueInv
    <2>2. UNCHANGED <<picture, calls, mRendererHolder>>
      BY <1>13 DEF camera, looper, surface, capture, drawFails
    <2> QED BY <2>1, <2>2, PictureKept DEF recreate, noHolder
  <1>14. CASE \/ requestStart
              \/ stopPreview
              \/ closeCamera
              \/ \E s \in Sizes : setPreviewSize(s)
              \/ \E s \in Sizes : openCamera(s)
              \/ \E t \in Starter : startPreview(t)
              \/ \E t \in Starter : updatePrimarySize(t)
    BY <1>14 DEF PictureInv, QueueInv, goto, goto, camera, surface, looper,
       locks, capture, history, requestStart, stopPreview, closeCamera,
       CloseCamera, setPreviewSize, RenderMayStart, openCamera, startPreview,
       returned, updatePrimarySize
  <1>15. CASE \/ \E t \in Starter : awaited(t)
              \/ \E t \in Starter : checkPrimarySurface(t)
              \/ \E t \in Starter : displaySurface(t)
              \/ releaseCapture
              \/ release
              \/ releaseListenerCapture
              \/ onPrimarySurfaceCreate
    BY <1>15 DEF PictureInv, QueueInv, goto, goto, camera, surface, looper,
       locks, capture, history, awaited, checkPrimarySurface, RenderMayStart,
       displaySurface, returned, releaseCapture, ReleaseCapture, release,
       CloseCamera, releaseListenerCapture, onPrimarySurfaceCreate
  <1>16. ASSUME NEW t \in Starter, cameraGone(t) PROVE PictureInv'
    BY <1>16 DEF PictureInv, QueueInv, camera, surface, looper, locks, capture,
       history, goto, cameraGone, returned
  <1> QED BY <1>1, <1>2, <1>3, <1>4, <1>5, <1>6, <1>7, <1>8, <1>9, <1>10,
       <1>11, <1>12, <1>13, <1>14, <1>15, <1>16, NextIs


----------------------------------------------------------------------------
(* The surfaces. *)

LEMMA GoodKept ==
    ASSUME Types, Next, Good'
    PROVE  Good
  <1> USE DEF Good, Types, FlagTypes, goto, camera, surface, looper, locks,
     capture, history
  <1>1. ASSUME NEW s \in Sizes, setPreviewSize(s) PROVE Good' => Good
    BY <1>1 DEF setPreviewSize, RenderMayStart
  <1>2. ASSUME NEW t \in Starter, updatePrimarySize(t) PROVE Good' => Good
    BY <1>2 DEF updatePrimarySize, RenderMayStart
  <1>3. ASSUME NEW t \in Starter, checkPrimarySurface(t) PROVE Good' => Good
    BY <1>3 DEF checkPrimarySurface, RenderMayStart
  <1>4. ASSUME releaseResource PROVE Good' => Good
    BY <1>4 DEF releaseResource
  <1>5. ASSUME NEW kind \in {"init", "recreate"}, handleReCreatePrimarySurface(kind)
        PROVE Good' => Good
    BY <1>5 DEF handleReCreatePrimarySurface, receive, dropSurface, stale
  <1>6. ASSUME NEW p \in Pictures, handleCapture(p) PROVE Good' => Good
    <2>1. UNCHANGED <<mRendererHolder, crossed, missed>>
      BY <1>6 DEF handleCapture, handle
    <2> QED BY <2>1
  <1>7. CASE \/ requestStart
             \/ stopPreview
             \/ closeCamera
             \/ \E s \in Sizes : openCamera(s)
             \/ \E p \in Pictures : takePicture(p)
             \/ \E p \in Pictures : save(p)
             \/ \E t \in Starter : startPreview(t)
    BY <1>7 DEF requestStart, stopPreview, closeCamera, CloseCamera,
       openCamera, takePicture, answer, save, startPreview, returned
  <1>8. CASE \/ \E t \in Starter : awaitSize(t)
             \/ \E t \in Starter : awaited(t)
             \/ \E t \in Starter : awaitSurface(t)
             \/ \E t \in Starter : displaySurface(t)
             \/ releaseCapture
             \/ \E p \in Pictures : captureImage(p)
             \/ release
    BY <1>8 DEF awaitSize, AwaitSurface, awaited, awaitSurface,
       displaySurface, returned, releaseCapture, ReleaseCapture,
       captureImage, answer, release, CloseCamera
  <1>9. CASE \/ releaseListenerCapture
             \/ onPrimarySurfaceCreate
             \/ surfaceCreated
             \/ \E s \in Sizes : handleUpdateSize(s)
             \/ \E kind \in {"newHolder", "noHolder"} : handleHolder(kind)
             \/ handleRelease
             \/ drawFails
    BY <1>9 DEF releaseListenerCapture, ReleaseCapture,
       onPrimarySurfaceCreate, surfaceCreated, handleUpdateSize, handle,
       receive, handleHolder, handleRelease, dropSurface, stale, drawFails
  <1>10. ASSUME NEW t \in Starter, cameraGone(t) PROVE Good' => Good
    BY <1>10 DEF cameraGone, returned
  <1> QED BY <1>1, <1>2, <1>3, <1>4, <1>5, <1>6, <1>7, <1>8, <1>9, <1>10, NextIs


LEMMA FollowedAsked ==
    ASSUME NEW q \in Seq(Messages), Followed(q), NEW s \in Sizes,
           Has(q, <<"update", s>>)
    PROVE  recreate \in asked(q)
  <1>1. DOMAIN q = 1 .. Len(q)
    BY LenProperties
  <1>2. PICK i \in 1 .. Len(q) : q[i] = <<"update", s>>
    BY DEF Has
  <1>3. PICK j \in 1 .. Len(q) : q[j] = recreate
    BY <1>2 DEF Followed
  <1> QED BY <1>1, <1>3 DEF asked

\* Steps that neither send nor take an update, nor move the helper.
LEMMA UpdateKept ==
    ASSUME UpdateInv, Good' => Good, NEW new, NEW old, Moved(new, old),
           UNCHANGED <<mVideoSize, cameraSize>>, pc'["helper"] = pc["helper"],
           "helper" \in awaiting => "helper" \in awaiting',
           \A s \in Sizes : <<"update", s>> \notin new \cup old
    PROVE  UpdateInv'
  BY DEF UpdateInv, Moved

LEMMA StepUpdate ==
    ASSUME Types, LockInv, StartInv, QueueInv, PictureInv, UpdateInv, Next
    PROVE  UpdateInv'
  <1>1. ASSUME requestStart PROVE UpdateInv'
    <2>1. UNCHANGED queue /\ pc["helper"] # "sizeAwait" /\ pc'["helper"] # "sizeAwait"
      BY <1>1 DEF camera, looper, surface, locks, goto, Types, PcTypes,
         requestStart
    <2> QED BY <2>1, GoodKept DEF UpdateInv
  <1>2. ASSUME closeCamera PROVE UpdateInv'
    <2>1. UNCHANGED queue /\ pc["helper"] # "sizeAwait" /\ pc'["helper"] # "sizeAwait"
      BY <1>2 DEF camera, looper, surface, locks, goto, Types, PcTypes,
         closeCamera, CloseCamera
    <2> QED BY <2>1, GoodKept DEF UpdateInv
  <1>3. ASSUME NEW s \in Sizes, setPreviewSize(s) PROVE UpdateInv'
    <2>1. UNCHANGED queue /\ pc["helper"] # "sizeAwait" /\ pc'["helper"] # "sizeAwait"
      BY <1>3 DEF camera, looper, surface, locks, goto, Types, PcTypes,
         setPreviewSize, RenderMayStart
    <2> QED BY <2>1, GoodKept DEF UpdateInv
  <1>4. ASSUME NEW s \in Sizes, openCamera(s) PROVE UpdateInv'
    <2>1. UNCHANGED queue /\ pc["helper"] # "sizeAwait" /\ pc'["helper"] # "sizeAwait"
      BY <1>4 DEF camera, looper, surface, locks, goto, Types, PcTypes,
         openCamera
    <2> QED BY <2>1, GoodKept DEF UpdateInv
  <1>5. ASSUME NEW p \in Pictures, takePicture(p) PROVE UpdateInv'
    <2>1. UNCHANGED queue /\ pc["helper"] # "sizeAwait" /\ pc'["helper"] # "sizeAwait"
      BY <1>5 DEF camera, looper, surface, locks, goto, Types, PcTypes,
         takePicture, answer
    <2> QED BY <2>1, GoodKept DEF UpdateInv
  <1>6. ASSUME NEW t \in Starter, startPreview(t) PROVE UpdateInv'
    <2>1. CASE t = "helper"
      <3>1. UNCHANGED queue /\ pc["helper"] # "sizeAwait" /\ pc'["helper"] # "sizeAwait"
        BY <1>6, <2>1 DEF camera, looper, surface, locks, goto, Types, PcTypes,
           startPreview, returned
      <3> QED BY <3>1, GoodKept DEF UpdateInv
    <2>2. CASE t = "render"
      <3>1. /\ UNCHANGED <<queue, mVideoSize, cameraSize, awaiting>>
            /\ pc'["helper"] = pc["helper"]
        BY <1>6, <2>2 DEF camera, looper, surface, locks, goto, Types, PcTypes,
           startPreview, returned
      <3> QED BY <3>1, GoodKept DEF UpdateInv
    <2> QED BY <2>1, <2>2 DEF Starter
  <1>7. ASSUME NEW t \in Starter, updatePrimarySize(t) PROVE UpdateInv'
    <2>1. CASE t = "helper"
      <3>1. UNCHANGED queue /\ pc["helper"] # "sizeAwait" /\ pc'["helper"] # "sizeAwait"
        BY <1>7, <2>1 DEF camera, looper, surface, locks, goto, Types, PcTypes,
           updatePrimarySize, RenderMayStart
      <3> QED BY <3>1, GoodKept DEF UpdateInv
    <2>2. CASE t = "render"
      <3>1. /\ UNCHANGED <<queue, mVideoSize, cameraSize, awaiting>>
            /\ pc'["helper"] = pc["helper"]
        BY <1>7, <2>2 DEF camera, looper, surface, locks, goto, Types, PcTypes,
           updatePrimarySize, RenderMayStart
      <3> QED BY <3>1, GoodKept DEF UpdateInv
    <2> QED BY <2>1, <2>2 DEF Starter
  <1>8. ASSUME NEW t \in Starter, awaitSize(t) PROVE UpdateInv'
    <2> SUFFICES ASSUME Good' PROVE UpdateInv'
      BY DEF UpdateInv
    <2>1. Good /\ t = "helper" /\ pc["helper"] = "sizeLock" /\ ~quit
      BY <1>8, GoodKept DEF Good, StartInv, AskPlaces, Starter, awaitSize,
         QueueInv
    <2>2. /\ Moved({<<"update", cameraSize>>, recreate}, {})
          /\ Has(queue', <<"update", cameraSize>>)
      BY <1>8, <2>1, SizeStep DEF Types, DataTypes, QueueInv
    <2>3. /\ pc'["helper"] = "sizeAwait" /\ "helper" \in awaiting'
          /\ UNCHANGED cameraSize
      BY <1>8, <2>1 DEF awaitSize, AwaitSurface, goto, camera, Types, PcTypes
    <2>4. \A s \in Sizes : ~Has(queue, <<"update", s>>)
      BY <2>1 DEF UpdateInv
    <2>5. \A s \in Sizes : Has(queue', <<"update", s>>) => s = cameraSize
      BY <2>2, <2>4 DEF Moved, recreate
    <2>6. cameraSize \in Sizes
      BY DEF Types, DataTypes
    <2> QED BY <2>2, <2>3, <2>5, <2>6 DEF UpdateInv
  <1>9. ASSUME NEW t \in Starter, awaited(t) PROVE UpdateInv'
    <2> SUFFICES ASSUME Good' PROVE UpdateInv'
      BY DEF UpdateInv
    <2>1. Good /\ t = "helper" /\ "helper" \notin awaiting
      BY <1>9, GoodKept DEF Good, StartInv, AskPlaces, AwaitPlaces, Starter,
         awaited
    <2>2. pc'["helper"] # "sizeAwait" /\ UNCHANGED queue
      BY <1>9, <2>1 DEF awaited, goto, looper, Types, PcTypes
    <2> QED BY <2>1, <2>2 DEF UpdateInv
  <1>10. ASSUME NEW t \in Starter, checkPrimarySurface(t) PROVE UpdateInv'
    <2>1. CASE t = "helper"
      <3>1. UNCHANGED queue /\ pc["helper"] # "sizeAwait" /\ pc'["helper"] # "sizeAwait"
        BY <1>10, <2>1 DEF camera, looper, surface, locks, goto, Types,
           PcTypes, checkPrimarySurface, RenderMayStart
      <3> QED BY <3>1, GoodKept DEF UpdateInv
    <2>2. CASE t = "render"
      <3>1. /\ UNCHANGED <<queue, mVideoSize, cameraSize, awaiting>>
            /\ pc'["helper"] = pc["helper"]
        BY <1>10, <2>2 DEF camera, looper, surface, locks, goto, Types,
           PcTypes, checkPrimarySurface, RenderMayStart
      <3> QED BY <3>1, GoodKept DEF UpdateInv
    <2> QED BY <2>1, <2>2 DEF Starter
  <1>11. ASSUME NEW t \in Starter, awaitSurface(t) PROVE UpdateInv'
    <2>1. Moved({recreate}, {})
      BY <1>11, SendSteps DEF QueueInv
    <2>2. CASE t = "helper"
      <3>1. pc["helper"] # "sizeAwait" /\ pc'["helper"] # "sizeAwait"
        BY <1>11, <2>2 DEF awaitSurface, AwaitSurface, goto, Types, PcTypes
      <3> QED BY <2>1, <3>1, GoodKept DEF UpdateInv, Moved, recreate
    <2>3. CASE t = "render"
      <3>1. /\ UNCHANGED <<mVideoSize, cameraSize>> /\ pc'["helper"] = pc["helper"]
            /\ "helper" \in awaiting => "helper" \in awaiting'
        BY <1>11, <2>3 DEF awaitSurface, AwaitSurface, goto, Types, PcTypes,
           camera, surface
      <3> QED BY <2>1, <3>1, GoodKept, UpdateKept DEF recreate
    <2> QED BY <2>2, <2>3 DEF Starter
  <1>12. ASSUME NEW t \in Starter, displaySurface(t) PROVE UpdateInv'
    <2>1. CASE t = "helper"
      <3>1. UNCHANGED queue /\ pc["helper"] # "sizeAwait" /\ pc'["helper"] # "sizeAwait"
        BY <1>12, <2>1 DEF camera, looper, surface, locks, goto, Types,
           PcTypes, displaySurface, returned
      <3> QED BY <3>1, GoodKept DEF UpdateInv
    <2>2. CASE t = "render"
      <3>1. /\ UNCHANGED <<queue, mVideoSize, cameraSize, awaiting>>
            /\ pc'["helper"] = pc["helper"]
        BY <1>12, <2>2 DEF camera, looper, surface, locks, goto, Types,
           PcTypes, displaySurface, returned
      <3> QED BY <3>1, GoodKept DEF UpdateInv
    <2> QED BY <2>1, <2>2 DEF Starter
  <1>13. ASSUME releaseCapture PROVE UpdateInv'
    <2>1. UNCHANGED queue /\ pc["helper"] # "sizeAwait" /\ pc'["helper"] # "sizeAwait"
      BY <1>13 DEF camera, looper, surface, locks, goto, Types, PcTypes,
         releaseCapture, ReleaseCapture
    <2> QED BY <2>1, GoodKept DEF UpdateInv
  <1>14. ASSUME NEW p \in Pictures, captureImage(p) PROVE UpdateInv'
    <2>1. Moved({capturing(p)}, {})
      BY <1>14, CaptureStep DEF QueueInv
    <2>2. pc["helper"] # "sizeAwait" /\ pc'["helper"] # "sizeAwait"
      BY <1>14 DEF captureImage, goto, Types, PcTypes
    <2> QED BY <2>1, <2>2, GoodKept DEF UpdateInv, Moved, capturing
  <1>15. ASSUME release PROVE UpdateInv'
    <2>1. /\ UNCHANGED <<queue, mVideoSize, cameraSize, awaiting>>
          /\ pc'["helper"] = pc["helper"]
      BY <1>15 DEF camera, looper, surface, locks, goto, Types, PcTypes,
         release, CloseCamera
    <2> QED BY <2>1, GoodKept DEF UpdateInv
  <1>16. ASSUME releaseListenerCapture PROVE UpdateInv'
    <2>1. /\ UNCHANGED <<queue, mVideoSize, cameraSize, awaiting>>
          /\ pc'["helper"] = pc["helper"]
      BY <1>16 DEF camera, looper, surface, locks, goto, Types, PcTypes,
         releaseListenerCapture, ReleaseCapture
    <2> QED BY <2>1, GoodKept DEF UpdateInv
  <1>17. ASSUME releaseResource PROVE UpdateInv'
    <2>1. Moved({<<"release", NoArg>>}, {})
      BY <1>17, SendSteps DEF QueueInv
    <2>2. /\ UNCHANGED <<mVideoSize, cameraSize>> /\ pc'["helper"] = pc["helper"]
          /\ "helper" \in awaiting => "helper" \in awaiting'
      BY <1>17 DEF camera, looper, surface, locks, goto, Types, DataTypes,
         PcTypes, releaseResource
    <2> QED BY <2>1, <2>2, GoodKept, UpdateKept DEF recreate, noHolder
  <1>18. ASSUME onPrimarySurfaceCreate PROVE UpdateInv'
    <2>1. /\ UNCHANGED <<queue, mVideoSize, cameraSize, awaiting>>
          /\ pc'["helper"] = pc["helper"]
      BY <1>18 DEF camera, looper, surface, locks, goto, Types, PcTypes,
         onPrimarySurfaceCreate
    <2> QED BY <2>1, GoodKept DEF UpdateInv
  <1>19. ASSUME surfaceCreated PROVE UpdateInv'
    <2>1. Moved({<<"newHolder", NoArg>>}, {})
      BY <1>19, SendSteps DEF QueueInv
    <2>2. /\ UNCHANGED <<mVideoSize, cameraSize>> /\ pc'["helper"] = pc["helper"]
          /\ "helper" \in awaiting => "helper" \in awaiting'
      BY <1>19 DEF camera, looper, surface, locks, goto, Types, DataTypes,
         PcTypes, surfaceCreated
    <2> QED BY <2>1, <2>2, GoodKept, UpdateKept DEF recreate, noHolder
  <1>20. ASSUME NEW kind \in {"init", "recreate"}, handleReCreatePrimarySurface(kind)
         PROVE UpdateInv'
    <2> SUFFICES ASSUME Good' PROVE UpdateInv'
      BY DEF UpdateInv
    <2>1. Good /\ ~TakenEarly
      <3>1. missed' = (missed \/ TakenEarly)
        BY <1>20 DEF handleReCreatePrimarySurface
      <3> QED BY <3>1, GoodKept, Zenon DEF Good
    <2>2. Moved({noHolder}, {<<kind, NoArg>>}) /\ queue # <<>>
          /\ Head(queue) = <<kind, NoArg>>
      BY <1>20, ReceiveSteps DEF QueueInv, handleReCreatePrimarySurface, receive
    <2>3. \A s \in Sizes : Has(queue, <<"update", s>>) => Has(Tail(queue), <<"update", s>>)
      BY <2>2, TailIs DEF QueueInv
    <2>4. Tail(queue) \in Seq(Messages) /\ Followed(Tail(queue))
      BY <2>2, TailIs DEF QueueInv
    <2>5. \A s \in Sizes : Has(Tail(queue), <<"update", s>>) => recreate \in asked(Tail(queue))
      BY <2>4, FollowedAsked
    <2>6. \A s \in Sizes : ~Has(queue, <<"update", s>>)
      BY <2>1, <2>3, <2>5 DEF UpdateInv, TakenEarly
    <2>7. \A s \in Sizes : ~Has(queue', <<"update", s>>)
      <3>1. \A s : <<"update", s>> # noHolder
        BY DEF noHolder
      <3>2. ASSUME NEW s \in Sizes, Has(queue', <<"update", s>>) PROVE FALSE
        <4>1. Has(queue, <<"update", s>>) \/ <<"update", s>> \in {noHolder}
          BY <2>2, <3>2 DEF Moved
        <4> QED BY <4>1, <2>6, <3>1
      <3> QED BY <3>2
    <2>8. UNCHANGED <<mVideoSize, cameraSize>> /\ pc'["helper"] = pc["helper"]
      BY <1>20 DEF handleReCreatePrimarySurface, goto, Types, PcTypes
    <2> QED BY <2>1, <2>6, <2>7, <2>8 DEF UpdateInv
  <1>21. ASSUME NEW s \in Sizes, handleUpdateSize(s) PROVE UpdateInv'
    <2> SUFFICES ASSUME Good' PROVE UpdateInv'
      BY DEF UpdateInv
    <2>1. Good /\ Moved({noHolder}, {<<"update", s>>}) /\ Has(queue, <<"update", s>>)
      BY <1>21, GoodKept, ReceiveSteps DEF QueueInv
    <2>2. mVideoSize' = s /\ UNCHANGED <<cameraSize, pc, awaiting>>
      BY <1>21 DEF handleUpdateSize, handle, locks
    <2>3. s = cameraSize
      BY <2>1 DEF UpdateInv
    <2>4. \A z \in Sizes : Has(queue', <<"update", z>>) => Has(queue, <<"update", z>>)
      BY <2>1 DEF Moved, noHolder
    <2> QED BY <2>1, <2>2, <2>3, <2>4 DEF UpdateInv
  <1>22. ASSUME NEW kind \in {"newHolder", "noHolder"}, handleHolder(kind)
         PROVE UpdateInv'
    <2>1. Moved({noHolder}, {<<kind, NoArg>>})
      BY <1>22, ReceiveSteps DEF QueueInv
    <2>2. /\ UNCHANGED <<mVideoSize, cameraSize>> /\ pc'["helper"] = pc["helper"]
          /\ "helper" \in awaiting => "helper" \in awaiting'
      BY <1>22 DEF camera, looper, surface, locks, goto, Types, DataTypes,
         PcTypes, handleHolder, handle, receive
    <2> QED BY <2>1, <2>2, GoodKept, UpdateKept DEF recreate, noHolder
  <1>23. ASSUME handleRelease PROVE UpdateInv'
    <2>1. Moved({noHolder}, {<<"release", NoArg>>})
      BY <1>23, ReceiveSteps DEF QueueInv
    <2>2. /\ UNCHANGED <<mVideoSize, cameraSize>> /\ pc'["helper"] = pc["helper"]
          /\ "helper" \in awaiting => "helper" \in awaiting'
      BY <1>23 DEF camera, looper, surface, locks, goto, Types, DataTypes,
         PcTypes, handleRelease, receive, dropSurface, stale
    <2> QED BY <2>1, <2>2, GoodKept, UpdateKept DEF recreate, noHolder
  <1>24. ASSUME NEW p \in Pictures, handleCapture(p) PROVE UpdateInv'
    <2>1. Moved({noHolder}, {capturing(p)})
      BY <1>24, ReceiveSteps DEF QueueInv
    <2>2. /\ UNCHANGED <<mVideoSize, cameraSize>> /\ pc'["helper"] = pc["helper"]
          /\ "helper" \in awaiting => "helper" \in awaiting'
      BY <1>24 DEF camera, looper, surface, locks, goto, Types, DataTypes,
         PcTypes, handleCapture, handle, receive, answer
    <2> QED BY <2>1, <2>2, GoodKept, UpdateKept DEF capturing, noHolder
  <1>25. ASSUME drawFails PROVE UpdateInv'
    <2>1. Moved({recreate}, {})
      BY <1>25, SendSteps DEF QueueInv
    <2>2. /\ UNCHANGED <<mVideoSize, cameraSize>> /\ pc'["helper"] = pc["helper"]
          /\ "helper" \in awaiting => "helper" \in awaiting'
      BY <1>25 DEF camera, looper, surface, locks, goto, Types, DataTypes,
         PcTypes, drawFails
    <2> QED BY <2>1, <2>2, GoodKept, UpdateKept DEF recreate, noHolder
  <1>26. CASE \/ stopPreview
              \/ \E p \in Pictures : save(p)
    BY <1>26, GoodKept DEF UpdateInv, goto, Types, PcTypes, goto, camera,
       surface, looper, locks, capture, history, stopPreview, save, answer
  <1>27. ASSUME NEW t \in Starter, cameraGone(t) PROVE UpdateInv'
    BY <1>27, GoodKept
       DEF UpdateInv, Good, StartInv, LockedPlaces, StartPlaces, cameraGone
  <1> QED BY <1>1, <1>2, <1>3, <1>4, <1>5, <1>6, <1>7, <1>8, <1>9, <1>10,
       <1>11, <1>12, <1>13, <1>14, <1>15, <1>16, <1>17, <1>18, <1>19, <1>20,
       <1>21, <1>22, <1>23, <1>24, <1>25, <1>26, <1>27, NextIs

LEMMA StepSize ==
    ASSUME Types, LockInv, StartInv, QueueInv, UpdateInv, SizeInv, Next
    PROVE  SizeInv'
  <1> USE DEF Types, DataTypes, PcTypes, SizeInv, Starter, SizedPlaces, goto,
     camera, surface, looper, locks, capture, history
  <1>1. ASSUME requestStart PROVE SizeInv'
    BY <1>1, GoodKept DEF requestStart
  <1>2. ASSUME stopPreview PROVE SizeInv'
    BY <1>2, GoodKept DEF stopPreview
  <1>3. ASSUME closeCamera PROVE SizeInv'
    BY <1>3, GoodKept DEF closeCamera, CloseCamera
  <1>4. ASSUME NEW s \in Sizes, setPreviewSize(s) PROVE SizeInv'
    <2> SUFFICES ASSUME Good' PROVE SizeInv'
      OBVIOUS
    <2>1. Good /\ ~mIsPreviewing /\ pc["render"] \notin StartPlaces
      <3>1. crossed' = (crossed \/ RenderMayStart)
        BY <1>4 DEF setPreviewSize
      <3> QED BY <3>1, GoodKept, Zenon DEF Good, RenderMayStart
    <2>2. /\ pc' = pc /\ pc["helper"] = "idle"
          /\ (UNCHANGED <<opened, streaming>> \/ streaming' = FALSE)
      BY <1>4 DEF setPreviewSize
    <2>3. ~streaming'
      BY <2>1, <2>2 DEF StartInv
    <2> QED BY <2>1, <2>2, <2>3 DEF StartPlaces
  <1>5. ASSUME NEW s \in Sizes, openCamera(s) PROVE SizeInv'
    <2> SUFFICES ASSUME Good' PROVE SizeInv'
      OBVIOUS
    <2>1. Good /\ pc' = pc /\ UNCHANGED streaming /\ pc["helper"] = "idle" /\ ~opened
      BY <1>5, GoodKept DEF openCamera
    <2>2. ~streaming /\ pc["render"] \notin LockedPlaces
      BY <2>1 DEF StartInv, Good
    <2> QED BY <2>1, <2>2 DEF StartPlaces, LockedPlaces
  <1>6. ASSUME NEW p \in Pictures, takePicture(p) PROVE SizeInv'
    BY <1>6, GoodKept DEF takePicture, answer
  <1>7. ASSUME NEW t \in Starter, startPreview(t) PROVE SizeInv'
    BY <1>7, GoodKept DEF startPreview, returned
  <1>8. ASSUME NEW t \in Starter, updatePrimarySize(t) PROVE SizeInv'
    <2> SUFFICES ASSUME Good' PROVE SizeInv'
      OBVIOUS
    <2>1. Good
      BY GoodKept
    <2> QED BY <1>8, <2>1 DEF updatePrimarySize
  <1>9. ASSUME NEW t \in Starter, awaitSize(t) PROVE SizeInv'
    BY <1>9, GoodKept DEF awaitSize, AwaitSurface
  <1>10. ASSUME NEW t \in Starter, awaited(t) PROVE SizeInv'
    <2> SUFFICES ASSUME Good' PROVE SizeInv'
      OBVIOUS
    <2>1. Good
      BY GoodKept
    <2>2. t = "helper" /\ "helper" \notin awaiting
      BY <1>10, <2>1 DEF Good, StartInv, AskPlaces, AwaitPlaces, awaited
    <2>3. CASE pc["helper"] = "sizeAwait"
      <3>1. mVideoSize = cameraSize
        BY <2>1, <2>2, <2>3 DEF UpdateInv
      <3> QED BY <1>10, <2>1, <2>2, <3>1 DEF awaited
    <2>4. CASE pc["helper"] = "checkAwait"
      BY <1>10, <2>1, <2>2, <2>4 DEF awaited
    <2> QED BY <1>10, <2>2, <2>3, <2>4 DEF awaited
  <1>11. ASSUME NEW t \in Starter, checkPrimarySurface(t) PROVE SizeInv'
    BY <1>11, GoodKept DEF checkPrimarySurface, RenderMayStart
  <1>12. ASSUME NEW t \in Starter, awaitSurface(t) PROVE SizeInv'
    BY <1>12, GoodKept DEF awaitSurface, AwaitSurface
  <1>13. ASSUME NEW t \in Starter, displaySurface(t) PROVE SizeInv'
    BY <1>13, GoodKept DEF displaySurface, returned
  <1>14. ASSUME releaseCapture PROVE SizeInv'
    BY <1>14, GoodKept DEF releaseCapture, ReleaseCapture
  <1>15. ASSUME NEW p \in Pictures, captureImage(p) PROVE SizeInv'
    BY <1>15, GoodKept DEF captureImage, answer
  <1>16. ASSUME release PROVE SizeInv'
    BY <1>16, GoodKept DEF release, CloseCamera
  <1>17. ASSUME releaseListenerCapture PROVE SizeInv'
    BY <1>17, GoodKept DEF releaseListenerCapture, ReleaseCapture
  <1>18. ASSUME releaseResource PROVE SizeInv'
    BY <1>18, GoodKept DEF releaseResource
  <1>19. ASSUME onPrimarySurfaceCreate PROVE SizeInv'
    BY <1>19, GoodKept DEF onPrimarySurfaceCreate
  <1>20. ASSUME surfaceCreated PROVE SizeInv'
    BY <1>20, GoodKept DEF surfaceCreated
  <1>21. ASSUME NEW kind \in {"init", "recreate"}, handleReCreatePrimarySurface(kind)
         PROVE SizeInv'
    BY <1>21, GoodKept DEF handleReCreatePrimarySurface, receive, dropSurface,
       stale
  <1>22. ASSUME NEW s \in Sizes, handleUpdateSize(s) PROVE SizeInv'
    <2> SUFFICES ASSUME Good' PROVE SizeInv'
      OBVIOUS
    <2>1. Good /\ Has(queue, <<"update", s>>)
      BY <1>22, GoodKept, ReceiveSteps DEF QueueInv
    <2>2. s = cameraSize
      BY <2>1 DEF UpdateInv
    <2>3. mVideoSize' = s /\ UNCHANGED <<cameraSize, streaming, pc>>
      BY <1>22 DEF handleUpdateSize, handle
    <2> QED BY <2>2, <2>3
  <1>23. CASE \/ \E p \in Pictures : save(p)
              \/ \E kind \in {"newHolder", "noHolder"} : handleHolder(kind)
              \/ handleRelease
              \/ \E p \in Pictures : handleCapture(p)
              \/ drawFails
    BY <1>23, GoodKept DEF save, answer, handleHolder, handle, receive,
       handleRelease, dropSurface, stale, handleCapture, drawFails
  <1>24. ASSUME NEW t \in Starter, cameraGone(t) PROVE SizeInv'
    BY <1>24, GoodKept DEF SizeInv, Good, StartInv, LockedPlaces, cameraGone
  <1> QED BY <1>1, <1>2, <1>3, <1>4, <1>5, <1>6, <1>7, <1>8, <1>9, <1>10,
       <1>11, <1>12, <1>13, <1>14, <1>15, <1>16, <1>17, <1>18, <1>19, <1>20,
       <1>21, <1>22, <1>23, <1>24, NextIs

LEMMA StepDisplay ==
    ASSUME Types, LockInv, StartInv, QueueInv, DisplayInv, Next
    PROVE  DisplayInv'
  <1> USE DEF Types, DataTypes, PcTypes, DisplayInv, Starter, goto, camera,
     surface, looper, locks, capture, history
  <1>1. ASSUME requestStart PROVE DisplayInv'
    BY <1>1, GoodKept DEF requestStart
  <1>2. ASSUME stopPreview PROVE DisplayInv'
    BY <1>2, GoodKept DEF stopPreview
  <1>3. ASSUME closeCamera PROVE DisplayInv'
    BY <1>3, GoodKept DEF closeCamera, CloseCamera
  <1>4. ASSUME NEW s \in Sizes, setPreviewSize(s) PROVE DisplayInv'
    <2> SUFFICES ASSUME Good' PROVE DisplayInv'
      OBVIOUS
    <2>1. Good
      BY GoodKept
    <2>2. pc' = pc /\ read' = read /\ UNCHANGED <<awaiting, mPrimarySurface, display>>
          /\ (UNCHANGED <<opened, streaming>> \/ streaming' = FALSE)
      BY <1>4 DEF setPreviewSize
    <2> QED BY <2>1, <2>2
  <1>5. ASSUME NEW s \in Sizes, openCamera(s) PROVE DisplayInv'
    <2> SUFFICES ASSUME Good' PROVE DisplayInv'
      OBVIOUS
    <2>1. Good
      BY GoodKept
    <2>2. pc' = pc /\ read' = read /\ UNCHANGED <<streaming, awaiting, mPrimarySurface>>
          /\ ~opened
      BY <1>5 DEF openCamera
    <2>3. ~streaming
      BY <2>1, <2>2 DEF StartInv, Good
    <2> QED BY <2>1, <2>2, <2>3
  <1>6. ASSUME NEW p \in Pictures, takePicture(p) PROVE DisplayInv'
    BY <1>6, GoodKept DEF takePicture, answer
  <1>7. ASSUME NEW t \in Starter, startPreview(t) PROVE DisplayInv'
    <2> SUFFICES ASSUME Good' PROVE DisplayInv'
      OBVIOUS
    <2>1. Good
      BY GoodKept
    <2>2. UNCHANGED <<read, awaiting, mPrimarySurface, display, streaming>>
          /\ pc[t] = "start"
      BY <1>7 DEF startPreview
    <2>3. CASE pc' = [pc EXCEPT ![t] = "size"]
      BY <2>1, <2>2, <2>3 DEF StartPlaces
    <2>4. CASE ~opened
      <3>1. ~streaming
        BY <2>1, <2>4 DEF StartInv, Good
      <3>2. pc' = [pc EXCEPT ![t] = IF t = "render" THEN "created" ELSE "idle"]
        BY <1>7, <2>4 DEF startPreview, returned
      <3> QED BY <2>1, <2>2, <3>1, <3>2
    <2> QED BY <1>7, <2>1, <2>3, <2>4 DEF startPreview, Good
  <1>8. ASSUME NEW t \in Starter, updatePrimarySize(t) PROVE DisplayInv'
    <2> SUFFICES ASSUME Good' PROVE DisplayInv'
      OBVIOUS
    <2>1. Good
      BY GoodKept
    <2> QED BY <1>8, <2>1 DEF updatePrimarySize, RenderMayStart, StartPlaces
  <1>9. ASSUME NEW t \in Starter, awaitSize(t) PROVE DisplayInv'
    <2> SUFFICES ASSUME Good' PROVE DisplayInv'
      OBVIOUS
    <2>1. Good
      BY GoodKept
    <2> QED BY <1>9, <2>1 DEF awaitSize, AwaitSurface, StartPlaces
  <1>10. ASSUME NEW t \in Starter, awaited(t) PROVE DisplayInv'
    <2> SUFFICES ASSUME Good' PROVE DisplayInv'
      OBVIOUS
    <2>1. Good
      BY GoodKept
    <2> QED BY <1>10, <2>1 DEF awaited, StartPlaces
  <1>11. ASSUME NEW t \in Starter, checkPrimarySurface(t) PROVE DisplayInv'
    <2> SUFFICES ASSUME Good' PROVE DisplayInv'
      OBVIOUS
    <2>1. Good
      BY GoodKept
    <2> QED BY <1>11, <2>1 DEF checkPrimarySurface, RenderMayStart, StartPlaces
  <1>12. ASSUME NEW t \in Starter, awaitSurface(t) PROVE DisplayInv'
    <2> SUFFICES ASSUME Good' PROVE DisplayInv'
      OBVIOUS
    <2>1. Good
      BY GoodKept
    <2> QED BY <1>12, <2>1 DEF awaitSurface, AwaitSurface, StartPlaces
  <1>13. ASSUME NEW t \in Starter, displaySurface(t) PROVE DisplayInv'
    <2> SUFFICES ASSUME Good' PROVE DisplayInv'
      OBVIOUS
    <2>1. Good
      BY GoodKept
    <2>2. /\ pc[t] = "display" /\ display' = read[t] /\ streaming' = TRUE
          /\ read' = [read EXCEPT ![t] = "none"]
          /\ pc' = [pc EXCEPT ![t] = IF t = "render" THEN "created" ELSE "idle"]
          /\ UNCHANGED <<awaiting, mPrimarySurface>>
      BY <1>13 DEF displaySurface, returned
    <2>3. \A u \in Starter : u # t => pc[u] # "display"
      BY <2>2 DEF LockInv, LockedPlaces, StartPlaces
    <2> QED BY <2>1, <2>2, <2>3
  <1>14. ASSUME releaseCapture PROVE DisplayInv'
    BY <1>14, GoodKept DEF releaseCapture, ReleaseCapture
  <1>15. ASSUME NEW p \in Pictures, captureImage(p) PROVE DisplayInv'
    BY <1>15, GoodKept DEF captureImage, answer
  <1>16. ASSUME release PROVE DisplayInv'
    BY <1>16, GoodKept DEF release, CloseCamera
  <1>17. ASSUME releaseListenerCapture PROVE DisplayInv'
    BY <1>17, GoodKept DEF releaseListenerCapture, ReleaseCapture
  <1>18. ASSUME releaseResource PROVE DisplayInv'
    BY <1>18, GoodKept DEF releaseResource
  <1>19. ASSUME onPrimarySurfaceCreate PROVE DisplayInv'
    <2> SUFFICES ASSUME Good' PROVE DisplayInv'
      OBVIOUS
    <2>1. Good
      BY GoodKept
    <2>2. streaming => mIsPreviewing
      BY DEF StartInv
    <2> QED BY <1>19, <2>1, <2>2 DEF onPrimarySurfaceCreate, StartPlaces
  <1>20. ASSUME surfaceCreated PROVE DisplayInv'
    <2> SUFFICES ASSUME Good' PROVE DisplayInv'
      OBVIOUS
    <2>1. Good
      BY GoodKept
    <2> QED BY <1>20, <2>1 DEF surfaceCreated, StartPlaces
  <1>21. ASSUME NEW kind \in {"init", "recreate"}, handleReCreatePrimarySurface(kind)
         PROVE DisplayInv'
    <2> SUFFICES ASSUME Good' PROVE DisplayInv'
      OBVIOUS
    <2>1. Good
      BY GoodKept
    <2>2. ~TakenEarly
      <3>1. missed' = (missed \/ TakenEarly)
        BY <1>21 DEF handleReCreatePrimarySurface
      <3> QED BY <3>1, Zenon DEF Good
    <2>3. \A t \in Starter : pc[t] # "display"
      BY <2>1, <2>2 DEF TakenEarly
    <2>4. /\ mPrimarySurface' = TRUE /\ pc' = [pc EXCEPT !["render"] = "create"]
          /\ UNCHANGED streaming /\ pc["render"] = "idle"
          /\ display' \in {display, stale(display)}
      BY <1>21 DEF handleReCreatePrimarySurface, receive, dropSurface
    <2>5. streaming => display = "present"
      BY <2>1, <2>4 DEF StartPlaces
    <2> QED BY <2>1, <2>3, <2>4, <2>5 DEF stale
  <1>22. ASSUME handleRelease PROVE DisplayInv'
    <2> SUFFICES ASSUME Good' PROVE DisplayInv'
      OBVIOUS
    <2>1. Good
      BY GoodKept
    <2>2. ~mRendererHolder
      BY <1>22, ReceiveSteps DEF QueueInv
    <2> QED BY <2>1, <2>2 DEF Good
  <1>23. CASE \/ \E p \in Pictures : save(p)
              \/ \E s \in Sizes : handleUpdateSize(s)
              \/ \E kind \in {"newHolder", "noHolder"} : handleHolder(kind)
              \/ \E p \in Pictures : handleCapture(p)
              \/ drawFails
    BY <1>23, GoodKept DEF StartPlaces, save, answer, handleUpdateSize,
       handle, receive, handleHolder, handleCapture, drawFails
  <1>24. ASSUME NEW t \in Starter, cameraGone(t) PROVE DisplayInv'
    BY <1>24, GoodKept DEF DisplayInv, Good, StartInv, LockedPlaces, cameraGone
  <1> QED BY <1>1, <1>2, <1>3, <1>4, <1>5, <1>6, <1>7, <1>8, <1>9, <1>10,
       <1>11, <1>12, <1>13, <1>14, <1>15, <1>16, <1>17, <1>18, <1>19, <1>20,
       <1>21, <1>22, <1>23, <1>24, NextIs

----------------------------------------------------------------------------
(* The theorems. *)

LEMMA InitIInv == Init => IInv
  <1> SUFFICES ASSUME Init PROVE IInv
    OBVIOUS
  <1> DEFINE m == <<"init", NoArg>>
  <1>1. m \in Messages /\ (\A s : m # <<"update", s>>)
        /\ (\A p : m # <<"capture", p>>) /\ m # <<"release", NoArg>>
    BY DEF Messages
  <1>2. /\ <<m>> \in Seq(Messages) /\ Once(<<m>>) /\ Followed(<<m>>)
        /\ \A k : Has(<<m>>, k) <=> k = m
    BY <1>1, OneIs
  <1>3. queue = <<m>>
    BY DEF Init
  <1> HIDE DEF m
  <1>4. /\ queue \in Seq(Messages) /\ Once(queue) /\ Followed(queue)
        /\ \A s : ~Has(queue, <<"update", s>>)
        /\ \A p : ~Has(queue, <<"capture", p>>)
        /\ ~Has(queue, <<"release", NoArg>>)
    BY <1>1, <1>2, <1>3
  <1>5. FlagTypes
    BY DEF Init, FlagTypes
  <1>6. DataTypes
    BY DEF Init, DataTypes, Starter
  <1>7. PcTypes
    BY DEF Init, PcTypes, Places
  <1>8. LockInv /\ StartInv
    BY DEF Init, LockInv, StartInv, Starter, LockedPlaces, StartPlaces,
           AskPlaces, AwaitPlaces
  <1>9. QueueInv
    BY <1>4 DEF Init, QueueInv
  <1>10. UpdateInv /\ SizeInv /\ DisplayInv
    BY <1>4 DEF Init, UpdateInv, SizeInv, DisplayInv, Starter, SizedPlaces
  <1>11. PictureInv
    BY <1>4 DEF Init, PictureInv
  <1> QED BY <1>5, <1>6, <1>7, <1>8, <1>9, <1>10, <1>11 DEF IInv, Types

LEMMA StutterIInv == IInv /\ UNCHANGED vars => IInv'
  <1> SUFFICES ASSUME IInv, UNCHANGED vars PROVE IInv'
    OBVIOUS
  <1> USE DEF vars, camera, surface, looper, locks, capture, history
  <1>1. Types'
    BY DEF IInv, Types, FlagTypes, DataTypes, PcTypes
  <1>2. LockInv' /\ StartInv'
    BY DEF IInv, LockInv, StartInv
  <1>3. QueueInv'
    BY DEF IInv, QueueInv
  <1>4. UpdateInv' /\ SizeInv' /\ DisplayInv'
    BY DEF IInv, UpdateInv, SizeInv, DisplayInv, Good
  <1>5. PictureInv'
    BY DEF IInv, PictureInv
  <1> QED BY <1>1, <1>2, <1>3, <1>4, <1>5 DEF IInv

LEMMA NextIInv == IInv /\ [Next]_vars => IInv'
  <1>1. ASSUME IInv, Next PROVE IInv'
    <2>1. Types'
      BY <1>1, StepFlags, StepData, StepPc DEF IInv, Types
    <2>2. LockInv' /\ StartInv'
      BY <1>1, StepLock, StepStart DEF IInv
    <2>3. QueueInv' /\ PictureInv'
      BY <1>1, StepQueue, StepPicture DEF IInv
    <2>4. UpdateInv' /\ SizeInv' /\ DisplayInv'
      BY <1>1, StepUpdate, StepSize, StepDisplay DEF IInv
    <2> QED BY <2>1, <2>2, <2>3, <2>4 DEF IInv
  <1> QED BY <1>1, StutterIInv

LEMMA Invariant == Spec => []IInv
  BY InitIInv, NextIInv, PTL DEF Spec

(* The state of the preview, its queue and its pictures has its types. *)
THEOREM TypeCorrect == Spec => []TypeOK
  <1>1. IInv => TypeOK
    <2> SUFFICES ASSUME IInv PROVE TypeOK
      OBVIOUS
    <2>1. \A p \in Pictures : calls[p] \in 0 .. 2
      BY DEF IInv, PictureInv
    <2>2. calls \in [Pictures -> 0 .. 2]
      BY <2>1 DEF IInv, PictureInv
    <2> QED BY <2>2 DEF IInv, Types, FlagTypes, DataTypes, PcTypes, QueueInv,
                        PictureInv, TypeOK, Starter
  <1> QED BY <1>1, Invariant, PTL

(* takePicture, handleCapture and ImageSaver: a picture asked for is in one *)
(* place, or was answered, and answered once.                              *)
THEOREM PictureAnsweredOnce == Spec => []PictureOnce
  <1>1. IInv => PictureOnce
    <2> SUFFICES ASSUME IInv, NEW p \in Pictures
                 PROVE  /\ calls[p] <= 1
                        /\ calls[p] = 1 => picture[p] = "over"
                        /\ picture[p] = "over" => calls[p] = 1 \/ ~mRendererHolder
                        /\ picture[p] = "queue" <=> <<"capture", p>> \in asked(queue)
                        /\ \A i, j \in DOMAIN queue :
                              queue[i] = <<"capture", p>> /\ queue[j] = queue[i] => i = j
      BY DEF PictureOnce
    <2>1. DOMAIN queue = 1 .. Len(queue)
      BY LenProperties DEF IInv, QueueInv
    <2>2. Has(queue, <<"capture", p>>) <=> <<"capture", p>> \in asked(queue)
      BY <2>1 DEF Has, asked
    <2>3. calls[p] \in {0, 1}
      BY DEF IInv, PictureInv
    <2>4. \A i, j \in DOMAIN queue :
             queue[i] = <<"capture", p>> /\ queue[j] = queue[i] => i = j
      BY <2>1 DEF IInv, QueueInv, Once
    <2> QED BY <2>2, <2>3, <2>4 DEF IInv, PictureInv
  <1> QED BY <1>1, Invariant, PTL

(* startPreview and handleReCreatePrimarySurface: whatever replaces the     *)
(* surface, a running preview comes to draw on the present one, in the size *)
(* the camera sends, unless a change crossed the render thread's callback.  *)
THEOREM PreviewOnPresentSurface == Spec => []DisplayPresent
  <1>1. IInv => DisplayPresent
    <2> SUFFICES ASSUME IInv, Quiet, streaming, mRendererHolder, ~crossed, ~missed
                 PROVE  display = "present" /\ cameraSize = mVideoSize
      BY DEF DisplayPresent
    <2>1. Good /\ pc["render"] \notin StartPlaces \cup {"create"}
      BY DEF Good, Quiet, StartPlaces
    <2> QED BY <2>1 DEF IInv, DisplayInv, SizeInv
  <1> QED BY <1>1, Invariant, PTL

=============================================================================
