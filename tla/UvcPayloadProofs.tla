-------------------------- MODULE UvcPayloadProofs --------------------------
(***************************************************************************)
(* For buffers, frames, payloads and metadata of any size: the buffers are  *)
(* not overrun, no two frames are published as one unless every header that *)
(* would tell them apart was lost, and a frame that nothing happened to is  *)
(* published once, whole and alone.                                        *)
(*                                                                         *)
(* FramesApart speaks of what was published.  Two facts about what is still *)
(* in outbuf carry it: a frame heard of after the one in outbuf has emptied *)
(* it (Separate), as fid is the parity of the last frame heard of (Parity); *)
(* and a frame of which data was taken is heard of, or never will be        *)
(* (Known), so that the frame no one has heard of stays so.                *)
(*                                                                         *)
(* FramePublishedWhole follows such a frame from the camera to the buffers: *)
(* while it is sent, what was taken of it is in outbuf, alone, and is what  *)
(* the camera has sent (Present); afterwards all of it is published, or is  *)
(* in outbuf until the next frame is heard of (Past).                      *)
(***************************************************************************)
EXTENDS UvcPayload, SequenceTheorems, FiniteSetTheorems, TLAPS

Buffer == Seq(1 .. MaxFrames)

\* What FramesApart says of one buffer, if the frames in h were heard of.
ApartIn(b, h) ==
    \A i, j \in 1 .. Len(b) :
        i < j /\ b[i] # b[j]
        => b[i] < b[j] /\ \E c \in b[i] .. b[j] : c \notin h

Bounded ==
    /\ is_isight \in BOOLEAN /\ announced \in BOOLEAN
    /\ size \in Seq(FrameSizes) /\ cam <= MaxFrames /\ left \in Nat
    /\ fid \in {0, 1}
    /\ outbuf \in Buffer /\ Len(outbuf) < dwMaxVideoFrameSize
    /\ meta_got_bytes \in 0 .. MetaBufSize
    /\ heard \subseteq 1 .. cam /\ damaged \subseteq 1 .. cam
    /\ published \in Seq(Buffer)
    /\ \A k \in 1 .. Len(published) :
          Len(published[k]) \in 1 .. dwMaxVideoFrameSize

\* Data comes of frames sent so far; of the present one only if its header was
\* processed, or does not come any more.
KnownIn(b) ==
    \A i \in 1 .. Len(b) :
        /\ b[i] <= cam
        /\ b[i] = cam => cam \in heard \/ (is_isight /\ announced)

Known == /\ KnownIn(outbuf)
         /\ \A k \in 1 .. Len(published) : KnownIn(published[k])

Apart == /\ ApartIn(outbuf, heard)
         /\ \A k \in 1 .. Len(published) : ApartIn(published[k], heard)

\* A frame heard of after one in outbuf would have emptied outbuf.
Separate ==
    \A i \in 1 .. Len(outbuf), y \in heard :
        outbuf[i] < y => \E c \in outbuf[i] .. y : c \notin heard

Parity == \A m \in heard : (\A k \in heard : k <= m) => fid = m % 2

IInv == Bounded /\ Known /\ Apart /\ Separate /\ Parity

LEMMA ElementOfBuffer ==
    ASSUME NEW b \in Buffer, NEW i \in 1 .. Len(b)
    PROVE  b[i] \in 1 .. MaxFrames
  BY ElementOfSeq DEF Buffer

LEMMA CamIsNat == ASSUME Bounded PROVE cam \in 0 .. MaxFrames
  BY LenProperties, SizeAssumption DEF Bounded, cam

LEMMA AnnouncingFields ==
    ASSUME NEW p \in [len : {0}, meta : MetaSizes, header : {TRUE}, eof : {FALSE}]
    PROVE  p.len = 0 /\ p.meta \in Nat /\ p.header = TRUE
  BY SizeAssumption

LEMMA HeaderlessFields ==
    ASSUME NEW p \in [len : PayloadSizes \ {0}, meta : {0}, header : {FALSE},
                     eof : {FALSE}]
    PROVE  p.len \in Nat /\ p.meta \in Nat /\ p.header = FALSE
  <1>1. p.len \in PayloadSizes \ {0}
    OBVIOUS
  <1>2. p.meta = 0
    OBVIOUS
  <1>3. p.header = FALSE
    BY Zenon
  <1>4. p.len \in Nat /\ p.meta \in Nat
    <2>1. PayloadSizes \subseteq Nat /\ 0 \in Nat
      BY SizeAssumption
    <2> QED BY <1>1, <1>2, <2>1, Zenon
  <1> QED BY <1>3, <1>4, Zenon

LEMMA PlainFields ==
    ASSUME NEW p \in [len : PayloadSizes, meta : MetaSizes, header : {TRUE},
                     eof : BOOLEAN]
    PROVE  p.len \in Nat /\ p.meta \in Nat /\ p.header = TRUE
  BY SizeAssumption

LEMMA PayloadFields ==
    ASSUME Bounded, NEW p \in Payload
    PROVE  /\ p.len \in Nat /\ p.meta \in Nat /\ p.header \in BOOLEAN
           /\ ~is_isight => p.header
           /\ is_isight /\ p.len > 0 => ~p.header
  <1>1. CASE is_isight
    <2>1. \/ p \in [len : {0}, meta : MetaSizes, header : {TRUE}, eof : {FALSE}]
          \/ p \in [len : PayloadSizes \ {0}, meta : {0}, header : {FALSE},
                    eof : {FALSE}]
      BY <1>1 DEF Payload
    <2>2. CASE p \in [len : {0}, meta : MetaSizes, header : {TRUE}, eof : {FALSE}]
      <3>1. p.len = 0 /\ p.meta \in Nat /\ p.header = TRUE
        BY <2>2, AnnouncingFields, ZenonT(40)
      <3>2. p.len \in Nat /\ ~(p.len > 0)
        BY <3>1
      <3> QED BY <1>1, <3>1, <3>2, Zenon
    <2>3. CASE p \in [len : PayloadSizes \ {0}, meta : {0}, header : {FALSE},
                      eof : {FALSE}]
      <3>1. p.len \in Nat /\ p.meta \in Nat /\ p.header = FALSE
        BY <2>3, HeaderlessFields, Zenon
      <3> QED BY <1>1, <3>1
    <2> QED BY <2>1, <2>2, <2>3
  <1>2. CASE ~is_isight
    <2>1. p.len \in Nat /\ p.meta \in Nat /\ p.header = TRUE
      BY <1>2, PlainFields DEF Payload
    <2> QED BY <1>2, <2>1
  <1> QED BY <1>1, <1>2

\* Data is appended as units of the present frame, up to the buffer's end.
LEMMA AppendedIs ==
    ASSUME Bounded, NEW p \in Payload, cam > 0, NEW b \in Buffer,
           Len(b) < dwMaxVideoFrameSize
    PROVE  /\ Appended(b, p) \in Buffer
           /\ Len(b) <= Len(Appended(b, p))
           /\ Len(Appended(b, p)) <= dwMaxVideoFrameSize
           /\ p.len > 0 => Len(b) < Len(Appended(b, p))
           /\ p.len = 0 => Len(b) = Len(Appended(b, p))
           /\ \A i \in 1 .. Len(b) : Appended(b, p)[i] = b[i]
           /\ \A i \in 1 .. Len(Appended(b, p)) :
                 i > Len(b) => Appended(b, p)[i] = cam /\ p.len > 0
  <1> DEFINE n == Smaller(p.len, dwMaxVideoFrameSize - Len(b))
             u == Units(n, cam)
  <1>1. Len(b) \in Nat /\ cam \in 1 .. MaxFrames /\ p.len \in Nat
    BY CamIsNat, PayloadFields, LenProperties, SizeAssumption DEF Buffer
  <1>2. /\ n \in Nat /\ n <= p.len /\ Len(b) + n <= dwMaxVideoFrameSize
        /\ p.len > 0 => n > 0
    BY <1>1, SizeAssumption DEF Smaller
  <1>3. u \in Buffer /\ Len(u) = n /\ \A i \in 1 .. n : u[i] = cam
    <2>1. u \in [1 .. n -> 1 .. MaxFrames]
      BY <1>1, <1>2 DEF Units
    <2>2. u \in Buffer
      BY <2>1, <1>2, SeqDef DEF Buffer
    <2>3. Len(u) \in Nat /\ DOMAIN u = 1 .. Len(u) /\ DOMAIN u = 1 .. n
      BY <2>1, <2>2, LenProperties DEF Buffer
    <2>4. Len(u) = n
      BY <2>3, <1>2
    <2> QED BY <2>2, <2>4 DEF Units
  <1>4. /\ b \o u \in Buffer /\ Len(b \o u) = Len(b) + n
        /\ \A i \in 1 .. Len(b) + n :
              (b \o u)[i] = IF i <= Len(b) THEN b[i] ELSE u[i - Len(b)]
    BY <1>3, ConcatProperties DEF Buffer
  <1>5. Appended(b, p) = b \o u
    BY DEF Appended
  <1>6. \A i \in 1 .. Len(b) + n : i > Len(b) => (b \o u)[i] = cam /\ n > 0
    BY <1>1, <1>2, <1>3, <1>4
  <1> HIDE DEF u, n
  <1> QED BY <1>1, <1>2, <1>4, <1>5, <1>6

\* Publishing a buffer, or none, leaves those published before.
LEMMA OneMore ==
    ASSUME NEW s \in Seq(Buffer), NEW b \in Buffer, NEW more \in BOOLEAN
    PROVE  LET t == s \o (IF more THEN <<b>> ELSE << >>)
           IN  /\ t \in Seq(Buffer)
               /\ \A k \in 1 .. Len(t) :
                     \/ k \in 1 .. Len(s) /\ t[k] = s[k]
                     \/ more /\ t[k] = b
  <1> DEFINE e == IF more THEN <<b>> ELSE << >>
             t == s \o e
  <1>1. /\ e \in Seq(Buffer) /\ Len(e) \in Nat
        /\ \A k \in 1 .. Len(e) : more /\ e[k] = b
    <2>1. CASE more
      BY <2>1
    <2>2. CASE ~more
      BY <2>2
    <2> QED BY <2>1, <2>2
  <1> HIDE DEF e
  <1>2. /\ t \in Seq(Buffer) /\ Len(t) = Len(s) + Len(e)
        /\ \A k \in 1 .. Len(s) + Len(e) :
              t[k] = IF k <= Len(s) THEN s[k] ELSE e[k - Len(s)]
    BY <1>1, ConcatProperties
  <1>3. Len(s) \in Nat
    BY LenProperties
  <1> HIDE DEF t
  <1>4. \A k \in 1 .. Len(t) : \/ k \in 1 .. Len(s) /\ t[k] = s[k]
                               \/ more /\ t[k] = b
    BY <1>1, <1>2, <1>3
  <1> QED BY <1>2, <1>4 DEF t, e

\* What processPayload keeps of outbuf, what it makes of it, and whether it
\* publishes that.
Kept(p) == IF Flipped(p) THEN << >> ELSE outbuf
Data(p) == Appended(Kept(p), p)
Done(p) == Complete(Data(p), p)

LEMMA DataIs ==
    ASSUME Bounded, NEW p \in Payload, processPayload(p)
    PROVE  /\ cam \in 1 .. MaxFrames
           /\ Kept(p) \in Buffer /\ Data(p) \in Buffer
           /\ Len(Kept(p)) \in Nat /\ Len(Data(p)) \in 0 .. dwMaxVideoFrameSize
           /\ Len(Kept(p)) <= Len(Data(p))
           /\ \A i \in 1 .. Len(Kept(p)) : Data(p)[i] = Kept(p)[i]
           /\ \A i \in 1 .. Len(Data(p)) :
                 i > Len(Kept(p)) => Data(p)[i] = cam /\ p.len > 0
           /\ Done(p) => Len(Data(p)) > 0
           /\ ~Done(p) => Len(Data(p)) < dwMaxVideoFrameSize
  <1>1. cam \in 1 .. MaxFrames
    BY CamIsNat DEF processPayload, Sends
  <1>2. Kept(p) \in Buffer /\ Len(Kept(p)) < dwMaxVideoFrameSize
    <2>1. outbuf \in Buffer /\ Len(outbuf) < dwMaxVideoFrameSize
      BY DEF Bounded
    <2>2. << >> \in Buffer /\ Len(<< >>) < dwMaxVideoFrameSize
      BY SizeAssumption, EmptySeq DEF Buffer
    <2> QED BY <2>1, <2>2, Zenon DEF Kept
  <1>3. /\ Data(p) \in Buffer
        /\ Len(Kept(p)) <= Len(Data(p)) /\ Len(Data(p)) <= dwMaxVideoFrameSize
        /\ p.len > 0 => Len(Kept(p)) < Len(Data(p))
        /\ p.len = 0 => Len(Kept(p)) = Len(Data(p))
        /\ \A i \in 1 .. Len(Kept(p)) : Data(p)[i] = Kept(p)[i]
        /\ \A i \in 1 .. Len(Data(p)) :
              i > Len(Kept(p)) => Data(p)[i] = cam /\ p.len > 0
    BY <1>1, <1>2, AppendedIs DEF Data
  <1>4. Len(Data(p)) \in Nat /\ Len(Kept(p)) \in Nat /\ p.len \in Nat
    BY <1>2, <1>3, LenProperties, PayloadFields DEF Buffer
  <1>5. Done(p) => Len(Data(p)) > 0
    BY <1>3, <1>4 DEF Done, Complete
  <1>6. ~Done(p) => Len(Data(p)) < dwMaxVideoFrameSize
    BY <1>2, <1>3, <1>4, SizeAssumption DEF Done, Complete
  <1> QED BY <1>1, <1>2, <1>3, <1>4, <1>5, <1>6, SizeAssumption

LEMMA PublishedIs ==
    ASSUME Bounded, NEW p \in Payload, processPayload(p)
    PROVE  /\ published' \in Seq(Buffer)
           /\ \A k \in 1 .. Len(published') :
                 \/ k \in 1 .. Len(published) /\ published'[k] = published[k]
                 \/ Flipped(p) /\ published'[k] = outbuf
                 \/ Done(p) /\ published'[k] = Data(p)
  <1> DEFINE first == published \o (IF Flipped(p) THEN <<outbuf>> ELSE << >>)
  <1>1. Flipped(p) \in BOOLEAN /\ Done(p) \in BOOLEAN
    BY DEF Flipped, Complete, Done
  <1>2. /\ first \in Seq(Buffer)
        /\ \A k \in 1 .. Len(first) :
              \/ k \in 1 .. Len(published) /\ first[k] = published[k]
              \/ Flipped(p) /\ first[k] = outbuf
    BY <1>1, OneMore DEF Bounded
  <1>3. published' = first \o (IF Done(p) THEN <<Data(p)>> ELSE << >>)
    BY Zenon DEF processPayload, Kept, Data, Done
  <1>4. Data(p) \in Buffer
    BY DataIs
  <1> HIDE DEF first
  <1>5. /\ published' \in Seq(Buffer)
        /\ \A k \in 1 .. Len(published') :
              \/ k \in 1 .. Len(first) /\ published'[k] = first[k]
              \/ Done(p) /\ published'[k] = Data(p)
    BY <1>1, <1>2, <1>3, <1>4, OneMore
  <1> QED BY <1>2, <1>5

\* The rest of what processPayload does.
LEMMA HeardIs ==
    ASSUME Bounded, NEW p \in Payload, processPayload(p)
    PROVE  /\ cam' = cam /\ is_isight' = is_isight
           /\ announced' = (announced \/ p.header)
           /\ p.header => heard' = heard \cup {cam} /\ fid' = cam % 2
           /\ ~p.header => heard' = heard /\ fid' = fid
           /\ is_isight => (p.header <=> ~announced)
           /\ outbuf' = IF Done(p) THEN << >> ELSE Data(p)
  BY DEF processPayload, Sends, Sent, cam, Data, Done, Kept

LEMMA PayloadBounded ==
    ASSUME Bounded, NEW p \in Payload, processPayload(p)
    PROVE  Bounded'
  <1>1. UNCHANGED <<is_isight, damaged, size, cam>>
    BY DEF processPayload, Sent, cam
  <1>2. is_isight' \in BOOLEAN /\ announced' \in BOOLEAN
    <2>1. is_isight' = is_isight /\ announced' = (announced \/ p.header)
      BY HeardIs, Zenon
    <2>2. is_isight \in BOOLEAN
      BY DEF Bounded
    <2> QED BY <2>1, <2>2, Zenon
  <1>3. size' \in Seq(FrameSizes) /\ cam' <= MaxFrames /\ damaged' \subseteq 1 .. cam'
    BY <1>1 DEF Bounded
  <1>4. left' \in Nat
    BY PayloadFields DEF Bounded, processPayload, Sends, Sent
  <1>5. fid' \in {0, 1} /\ heard' \subseteq 1 .. cam'
    <2>1. fid \in {0, 1} /\ heard \subseteq 1 .. cam
      BY DEF Bounded
    <2>2. cam \in 1 .. MaxFrames /\ cam' = cam
      BY <1>1, DataIs
    <2>3. cam % 2 \in {0, 1}
      BY <2>2
    <2>4. CASE p.header
      <3>1. fid' = cam % 2 /\ heard' = heard \cup {cam}
        BY <2>4, HeardIs
      <3>2. cam \in 1 .. cam
        BY <2>2
      <3> QED BY <2>1, <2>2, <2>3, <3>1, <3>2, Zenon
    <2>5. CASE ~p.header
      BY <2>1, <2>2, <2>5, HeardIs
    <2> QED BY <2>4, <2>5
  <1>6. outbuf' \in Buffer /\ Len(outbuf') < dwMaxVideoFrameSize
    <2>1. << >> \in Buffer /\ Len(<< >>) < dwMaxVideoFrameSize
      BY SizeAssumption, EmptySeq DEF Buffer
    <2> QED BY <2>1, DataIs, HeardIs
  <1>7. meta_got_bytes' \in 0 .. MetaBufSize
    BY PayloadFields, SizeAssumption DEF Bounded, processPayload, Smaller
  <1>8. /\ published' \in Seq(Buffer)
        /\ \A k \in 1 .. Len(published') :
              Len(published'[k]) \in 1 .. dwMaxVideoFrameSize
    <2>1. Flipped(p) => Len(outbuf) \in 1 .. dwMaxVideoFrameSize
      BY SizeAssumption, EmptySeq DEF Bounded, Flipped, Buffer
    <2>2. Done(p) => Len(Data(p)) \in 1 .. dwMaxVideoFrameSize
      BY DataIs, SizeAssumption
    <2> QED BY <2>1, <2>2, PublishedIs DEF Bounded
  <1> QED BY <1>2, <1>3, <1>4, <1>5, <1>6, <1>7, <1>8 DEF Bounded

LEMMA PayloadKnown ==
    ASSUME Bounded, Known, NEW p \in Payload, processPayload(p)
    PROVE  Known'
  <1>1. p.len > 0 => cam \in heard' \/ (is_isight' /\ announced')
    BY HeardIs, PayloadFields DEF Bounded
  <1>2. cam \in heard \/ (is_isight /\ announced)
        => cam \in heard' \/ (is_isight' /\ announced')
    BY HeardIs
  <1>3. cam' = cam
    BY HeardIs
  <1>4. ASSUME NEW b, KnownIn(b)
        PROVE  \A i \in 1 .. Len(b) :
                  /\ b[i] <= cam'
                  /\ b[i] = cam' => cam' \in heard' \/ (is_isight' /\ announced')
    BY <1>2, <1>3, <1>4 DEF KnownIn
  <1>5. \A i \in 1 .. Len(Data(p)) :
            /\ Data(p)[i] <= cam'
            /\ Data(p)[i] = cam' => cam' \in heard' \/ (is_isight' /\ announced')
    <2> SUFFICES ASSUME NEW i \in 1 .. Len(Data(p))
                 PROVE  /\ Data(p)[i] <= cam
                        /\ Data(p)[i] = cam
                           => cam \in heard' \/ (is_isight' /\ announced')
      BY <1>3
    <2>1. CASE i > Len(Kept(p))
      BY <2>1, <1>1, DataIs
    <2>2. CASE ~(i > Len(Kept(p)))
      <3>1. i \in 1 .. Len(Kept(p)) /\ Data(p)[i] = Kept(p)[i]
        BY <2>2, DataIs
      <3>2. Kept(p) = outbuf
        BY <3>1, EmptySeq DEF Kept
      <3> QED BY <3>1, <3>2, <1>2 DEF Known, KnownIn
    <2> QED BY <2>1, <2>2
  <1>6. KnownIn(outbuf)'
    <2>1. CASE Done(p)
      <3>1. outbuf' = << >>
        BY <2>1, HeardIs
      <3> QED BY <3>1 DEF KnownIn
    <2>2. CASE ~Done(p)
      BY <2>2, <1>5, HeardIs DEF KnownIn
    <2> QED BY <2>1, <2>2
  <1>7. \A k \in 1 .. Len(published') : KnownIn(published[k])'
    <2> SUFFICES ASSUME NEW k \in 1 .. Len(published')
                 PROVE  \A i \in 1 .. Len(published'[k]) :
                           /\ published'[k][i] <= cam'
                           /\ published'[k][i] = cam'
                              => cam' \in heard' \/ (is_isight' /\ announced')
      BY DEF KnownIn
    <2>1. CASE Done(p) /\ published'[k] = Data(p)
      BY <2>1, <1>5
    <2>2. CASE Flipped(p) /\ published'[k] = outbuf
      BY <2>2, <1>4 DEF Known
    <2>3. CASE k \in 1 .. Len(published) /\ published'[k] = published[k]
      BY <2>3, <1>4 DEF Known
    <2> QED BY <2>1, <2>2, <2>3, PublishedIs
  <1> QED BY <1>6, <1>7 DEF Known

LEMMA PayloadParity ==
    ASSUME Bounded, Parity, NEW p \in Payload, processPayload(p)
    PROVE  Parity'
  <1>1. CASE p.header
    <2>1. heard' = heard \cup {cam} /\ fid' = cam % 2 /\ heard \subseteq 1 .. cam
      BY <1>1, HeardIs DEF Bounded
    <2> QED BY <2>1, DataIs DEF Parity
  <1>2. CASE ~p.header
    BY <1>2, HeardIs DEF Parity
  <1> QED BY <1>1, <1>2

LEMMA DataSeparate ==
    ASSUME Bounded, Known, Separate, Parity, NEW p \in Payload, processPayload(p),
           NEW i \in 1 .. Len(Data(p)), NEW y \in heard', Data(p)[i] < y
    PROVE  \E c \in Data(p)[i] .. y : c \notin heard'
  <1>1. cam \in Nat /\ heard \subseteq 1 .. cam /\ heard' \subseteq 1 .. cam
    <2>1. heard \subseteq 1 .. cam
      BY DEF Bounded
    <2>2. cam \in Nat /\ cam \in 1 .. cam
      BY DataIs
    <2>3. heard' \subseteq heard \cup {cam}
      BY HeardIs
    <2> QED BY <2>1, <2>2, <2>3
  <1>2. i <= Len(Kept(p))
    BY <1>1, DataIs
  <1>3. /\ i \in 1 .. Len(Kept(p)) /\ Data(p)[i] = Kept(p)[i]
        /\ Data(p)[i] \in 1 .. MaxFrames
    BY <1>2, DataIs, ElementOfBuffer
  <1>4. Kept(p) = outbuf /\ ~Flipped(p)
    BY <1>3, EmptySeq DEF Kept
  <1> DEFINE x == outbuf[i]
  <1>5. x \in 1 .. MaxFrames /\ x < y /\ y <= cam /\ i \in 1 .. Len(outbuf)
        /\ x = Data(p)[i]
    BY <1>1, <1>3, <1>4
  <1> HIDE DEF x
  <1>6. CASE y \in heard
    <2>1. PICK c \in x .. y : c \notin heard
      BY <1>5, <1>6 DEF Separate, x
    <2>2. CASE c # cam
      BY <2>1, <2>2, <1>5, HeardIs
    <2>3. CASE c = cam
      BY <2>1, <2>3, <1>5, <1>6, <1>1
    <2> QED BY <2>2, <2>3
  <1>7. CASE y \notin heard
    <2>1. p.header /\ y = cam /\ heard' = heard \cup {cam}
      BY <1>7, HeardIs
    <2>2. fid = cam % 2
      <3>1. outbuf # << >>
        BY <1>5, EmptySeq
      <3> QED BY <3>1, <2>1, <1>4 DEF Flipped
    <2>3. cam - 1 \in heard => fid = (cam - 1) % 2
      BY <1>1, <1>7, <2>1 DEF Parity
    <2>4. cam % 2 # (cam - 1) % 2
      BY <1>1, <1>5
    <2>5. cam - 1 \notin heard /\ cam - 1 \in x .. y
      BY <2>1, <2>2, <2>3, <2>4, <1>1, <1>5
    <2> QED BY <2>1, <2>5, <1>5, <1>1
  <1> QED BY <1>6, <1>7

LEMMA PayloadSeparate ==
    ASSUME Bounded, Known, Separate, Parity, NEW p \in Payload, processPayload(p)
    PROVE  Separate'
  <1>1. CASE Done(p)
    <2>1. outbuf' = << >> /\ Len(<< >>) = 0
      BY <1>1, HeardIs, EmptySeq
    <2> QED BY <2>1 DEF Separate
  <1>2. CASE ~Done(p)
    <2>1. outbuf' = Data(p)
      BY <1>2, HeardIs
    <2> QED BY <2>1, DataSeparate DEF Separate
  <1> QED BY <1>1, <1>2

\* A frame that becomes known takes nothing from what was apart.
LEMMA ApartStays ==
    ASSUME Bounded, NEW p \in Payload, processPayload(p),
           NEW b \in Buffer, KnownIn(b), ApartIn(b, heard)
    PROVE  ApartIn(b, heard')
  <1> SUFFICES ASSUME NEW i \in 1 .. Len(b), NEW j \in 1 .. Len(b),
                      i < j, b[i] # b[j]
               PROVE  b[i] < b[j] /\ \E c \in b[i] .. b[j] : c \notin heard'
    BY DEF ApartIn
  <1>1. b[i] < b[j]
    BY DEF ApartIn
  <1>2. PICK c \in b[i] .. b[j] : c \notin heard
    BY DEF ApartIn
  <1>3. b[i] \in 1 .. MaxFrames /\ b[j] \in 1 .. MaxFrames
    BY ElementOfBuffer
  <1>4. cam \in Nat /\ b[j] <= cam
        /\ (b[j] = cam => cam \in heard \/ (is_isight /\ announced))
    BY DataIs DEF KnownIn
  <1>5. c \notin heard'
    <2>1. CASE c # cam
      BY <2>1, <1>2, HeardIs
    <2>2. CASE c = cam
      <3>1. b[j] = cam
        BY <2>2, <1>2, <1>3, <1>4
      <3>2. is_isight /\ announced
        BY <3>1, <2>2, <1>2, <1>4
      <3> QED BY <3>2, <1>2, HeardIs
    <2> QED BY <2>1, <2>2
  <1> QED BY <1>1, <1>2, <1>5

LEMMA PayloadApart ==
    ASSUME Bounded, Known, Apart, Separate, Parity,
           NEW p \in Payload, processPayload(p)
    PROVE  Apart'
  <1>1. ApartIn(outbuf, heard')
    BY ApartStays DEF Bounded, Known, Apart
  <1>2. ApartIn(Data(p), heard')
    <2> SUFFICES ASSUME NEW i \in 1 .. Len(Data(p)), NEW j \in 1 .. Len(Data(p)),
                        i < j, Data(p)[i] # Data(p)[j]
                 PROVE  /\ Data(p)[i] < Data(p)[j]
                        /\ \E c \in Data(p)[i] .. Data(p)[j] : c \notin heard'
      BY DEF ApartIn
    <2>1. i <= Len(Kept(p))
      BY DataIs
    <2>2. i \in 1 .. Len(Kept(p)) /\ Data(p)[i] = Kept(p)[i]
      BY <2>1, DataIs
    <2>3. Kept(p) = outbuf
      BY <2>2, EmptySeq DEF Kept
    <2>4. CASE j <= Len(Kept(p))
      <3>1. j \in 1 .. Len(Kept(p)) /\ Data(p)[j] = Kept(p)[j]
        BY <2>4, DataIs
      <3> QED BY <3>1, <2>2, <2>3, <1>1 DEF ApartIn
    <2>5. CASE j > Len(Kept(p))
      <3>1. Data(p)[j] = cam /\ p.len > 0 /\ cam \in Nat
        BY <2>5, DataIs
      <3>2. Data(p)[i] <= cam /\ Data(p)[i] \in Nat
        <4>1. outbuf \in Buffer /\ KnownIn(outbuf) /\ i \in 1 .. Len(outbuf)
          BY <2>2, <2>3 DEF Known, Bounded
        <4> QED BY <4>1, <2>2, <2>3, ElementOfBuffer DEF KnownIn
      <3>3. Data(p)[i] < cam
        BY <3>1, <3>2
      <3>4. CASE cam \notin heard'
        BY <3>1, <3>2, <3>3, <3>4
      <3>5. CASE cam \in heard'
        <4>1. \E c \in outbuf[i] .. cam : c \notin heard'
          BY <3>3, <3>5, <2>2, <2>3, DataSeparate
        <4> QED BY <4>1, <3>1, <3>3, <2>2, <2>3
      <3> QED BY <3>4, <3>5
    <2> QED BY <2>4, <2>5, DataIs
  <1>3. ApartIn(outbuf, heard)'
    <2>1. CASE Done(p)
      <3>1. outbuf' = << >> /\ Len(<< >>) = 0
        BY <2>1, HeardIs, EmptySeq
      <3> QED BY <3>1 DEF ApartIn
    <2>2. CASE ~Done(p)
      <3>1. outbuf' = Data(p)
        BY <2>2, HeardIs
      <3> QED BY <3>1, <1>2 DEF ApartIn
    <2> QED BY <2>1, <2>2
  <1>4. \A k \in 1 .. Len(published') : ApartIn(published[k], heard)'
    <2> SUFFICES ASSUME NEW k \in 1 .. Len(published')
                 PROVE  ApartIn(published'[k], heard')
      BY DEF ApartIn
    <2>1. CASE k \in 1 .. Len(published) /\ published'[k] = published[k]
      <3>1. /\ published[k] \in Buffer /\ KnownIn(published[k])
            /\ ApartIn(published[k], heard)
        BY <2>1 DEF Bounded, Known, Apart
      <3> QED BY <2>1, <3>1, ApartStays
    <2> QED BY <2>1, <1>1, <1>2, PublishedIs
  <1> QED BY <1>3, <1>4 DEF Apart

----------------------------------------------------------------------------
(* The camera's steps and the theorems. *)

LEMMA NextFrameKeeps ==
    ASSUME IInv, nextFrame
    PROVE  IInv'
  <1>1. PICK n \in FrameSizes : size' = Append(size, n) /\ left' = n
    BY DEF nextFrame
  <1>2. /\ cam' = cam + 1 /\ cam \in Nat /\ cam' <= MaxFrames
        /\ size' \in Seq(FrameSizes) /\ left' \in Nat
    BY <1>1, SizeAssumption, AppendProperties, LenProperties
       DEF nextFrame, IInv, Bounded, cam
  <1>3. /\ UNCHANGED <<is_isight, fid, outbuf, meta_got_bytes, published,
                       heard, damaged>>
        /\ announced' = FALSE
    BY DEF nextFrame
  <1>4. Bounded'
    <2>1. /\ is_isight \in BOOLEAN /\ fid \in {0, 1}
          /\ outbuf \in Buffer /\ Len(outbuf) < dwMaxVideoFrameSize
          /\ meta_got_bytes \in 0 .. MetaBufSize
          /\ published \in Seq(Buffer)
          /\ \A k \in 1 .. Len(published) :
                Len(published[k]) \in 1 .. dwMaxVideoFrameSize
      BY DEF IInv, Bounded
    <2>2. heard \subseteq 1 .. cam /\ damaged \subseteq 1 .. cam
      BY DEF IInv, Bounded
    <2>3. heard' \subseteq 1 .. cam' /\ damaged' \subseteq 1 .. cam'
      BY <1>2, <1>3, <2>2
    <2> QED BY <1>2, <1>3, <2>1, <2>3, Zenon DEF Bounded
  <1>5. ASSUME NEW b \in Buffer, KnownIn(b)
        PROVE  \A i \in 1 .. Len(b) : b[i] <= cam' /\ b[i] # cam'
    BY <1>2, <1>5, ElementOfBuffer DEF KnownIn
  <1>6. Known'
    <2>1. outbuf \in Buffer /\ KnownIn(outbuf)
      BY DEF IInv, Bounded, Known
    <2>2. KnownIn(outbuf)'
      BY <2>1, <1>3, <1>5 DEF KnownIn
    <2>3. ASSUME NEW k \in 1 .. Len(published) PROVE KnownIn(published[k])'
      <3>1. published[k] \in Buffer /\ KnownIn(published[k])
        BY DEF IInv, Bounded, Known
      <3> QED BY <3>1, <1>3, <1>5 DEF KnownIn
    <2> QED BY <1>3, <2>2, <2>3 DEF Known
  <1>7. Apart' /\ Separate' /\ Parity'
    BY <1>3 DEF IInv, Apart, ApartIn, Separate, Parity
  <1> QED BY <1>4, <1>6, <1>7 DEF IInv

LEMMA LosePayloadKeeps ==
    ASSUME IInv, NEW p \in Payload, losePayload(p)
    PROVE  IInv'
  <1>1. /\ UNCHANGED <<is_isight, fid, outbuf, meta_got_bytes, published,
                       heard, size, cam>>
        /\ announced' = (announced \/ p.header)
        /\ damaged' = IF p.len > 0 THEN damaged \cup {cam} ELSE damaged
        /\ left' = left - p.len /\ p.len <= left /\ cam > 0
    BY DEF losePayload, Sends, Sent, cam
  <1>2. left' \in Nat /\ damaged' \subseteq 1 .. cam
    <2>1. Bounded /\ left \in Nat /\ damaged \subseteq 1 .. cam
      BY DEF IInv, Bounded
    <2>2. p.len \in Nat /\ cam \in 1 .. cam
      BY <2>1, <1>1, PayloadFields, CamIsNat
    <2>3. left' \in Nat
      BY <1>1, <2>1, <2>2
    <2> QED BY <1>1, <2>1, <2>2, <2>3, Zenon
  <1>3. announced' \in BOOLEAN
    BY <1>1, Zenon
  <1>4. Bounded'
    BY <1>1, <1>2, <1>3 DEF IInv, Bounded
  <1>5. Known'
    BY <1>1 DEF IInv, Known, KnownIn
  <1>6. Apart' /\ Separate' /\ Parity'
    BY <1>1 DEF IInv, Apart, ApartIn, Separate, Parity
  <1> QED BY <1>4, <1>5, <1>6 DEF IInv

LEMMA InitIInv == Init => IInv
  <1> SUFFICES ASSUME Init PROVE IInv OBVIOUS
  <1> USE DEF Init
  <1>1. cam = 0 /\ Len(published) = 0 /\ Len(outbuf) = 0
    BY EmptySeq DEF cam
  <1>2. Bounded
    <2>1. outbuf \in Buffer /\ published \in Seq(Buffer) /\ size \in Seq(FrameSizes)
      BY EmptySeq DEF Buffer
    <2>2. /\ is_isight \in BOOLEAN /\ announced \in BOOLEAN
          /\ heard \subseteq 1 .. cam /\ damaged \subseteq 1 .. cam
      BY Zenon
    <2>3. /\ cam <= MaxFrames /\ left \in Nat /\ fid \in {0, 1}
          /\ Len(outbuf) < dwMaxVideoFrameSize
          /\ meta_got_bytes \in 0 .. MetaBufSize
      BY <1>1, SizeAssumption
    <2>4. \A k \in 1 .. Len(published) :
             Len(published[k]) \in 1 .. dwMaxVideoFrameSize
      BY <1>1
    <2> QED BY <2>1, <2>2, <2>3, <2>4, Zenon DEF Bounded
  <1>3. Known /\ Apart
    BY <1>1 DEF Known, KnownIn, Apart, ApartIn
  <1>4. Separate /\ Parity
    BY <1>1 DEF Separate, Parity
  <1> QED BY <1>2, <1>3, <1>4 DEF IInv

LEMMA NextIInv == IInv /\ [Next]_vars => IInv'
  <1> SUFFICES ASSUME IInv, [Next]_vars PROVE IInv' OBVIOUS
  <1>1. ASSUME NEW p \in Payload, processPayload(p) PROVE IInv'
    BY <1>1, PayloadBounded, PayloadKnown, PayloadParity, PayloadSeparate,
       PayloadApart DEF IInv
  <1>2. CASE UNCHANGED vars
    BY <1>2 DEF vars, cameraVars, cam, IInv, Bounded, Known, KnownIn, Apart,
       ApartIn, Separate, Parity
  <1> QED BY <1>1, <1>2, NextFrameKeeps, LosePayloadKeeps DEF Next

\* The image and metadata buffers are not overrun, whatever the sizes of
\* frames and payloads and whichever payloads are lost (stream.c:956).
THEOREM BuffersNotOverrun == Spec => []TypeOK
  <1>1. IInv => TypeOK
    <2> SUFFICES ASSUME IInv PROVE TypeOK OBVIOUS
    <2>1. cam \in 0 .. MaxFrames
      BY CamIsNat DEF IInv
    <2>2. DOMAIN published = 1 .. Len(published)
      BY LenProperties DEF IInv, Bounded
    <2>3. heard \subseteq 1 .. MaxFrames /\ damaged \subseteq 1 .. MaxFrames
      <3>1. heard \subseteq 1 .. cam /\ damaged \subseteq 1 .. cam
        BY DEF IInv, Bounded
      <3> QED BY <3>1, <2>1, SizeAssumption
    <2> QED BY <2>2, <2>3, Zenon DEF IInv, Bounded, TypeOK, Buffer
  <1> QED BY InitIInv, NextIInv, <1>1, PTL DEF Spec

\* Data of two frames is published as one only when every header that would
\* tell them apart was lost (stream.c:909).
THEOREM FramesKeptApart == Spec => []FramesApart
  <1>1. IInv => FramesApart
    <2> SUFFICES ASSUME IInv, NEW k \in DOMAIN published
                 PROVE  \A i, j \in DOMAIN published[k] :
                           i < j /\ published[k][i] # published[k][j]
                           => /\ published[k][i] < published[k][j]
                              /\ \E c \in published[k][i] .. published[k][j] :
                                    c \notin heard
      BY DEF FramesApart
    <2>1. k \in 1 .. Len(published) /\ published[k] \in Buffer
      BY LenProperties DEF IInv, Bounded
    <2>2. DOMAIN published[k] = 1 .. Len(published[k])
      BY <2>1, LenProperties DEF Buffer
    <2> QED BY <2>1, <2>2 DEF IInv, Apart, ApartIn
  <1> QED BY InitIInv, NextIInv, <1>1, PTL DEF Spec

----------------------------------------------------------------------------
(* Frames published whole. *)

Lacks(b, n) == \A i \in 1 .. Len(b) : b[i] # n
Pure(b, n) == \A i \in 1 .. Len(b) : b[i] = n

\* A frame that nothing happened to that could spoil it, so far.
Good(n) == /\ n \in heard /\ (n = 1 \/ n - 1 \in heard)
           /\ n \notin damaged /\ size[n] <= dwMaxVideoFrameSize

\* Of frame n, m units were taken and are in outbuf, alone.
InBuffer(n, m) ==
    /\ Pure(outbuf, n) /\ Len(outbuf) = m
    /\ \A k \in 1 .. Len(published) : Lacks(published[k], n)

\* The k-th buffer published is the whole of frame n, which is nowhere else.
WholeAt(n, k) ==
    /\ Pure(published[k], n) /\ Len(published[k]) = size[n]
    /\ \A j \in 1 .. Len(published) : j # k => Lacks(published[j], n)
    /\ Lacks(outbuf, n)

Whole(n) == \E k \in 1 .. Len(published) : WholeAt(n, k)

\* No header of frame n will be processed.
Unheard(n) == n \notin heard /\ (n < cam \/ (is_isight /\ announced))

\* Nothing of the camera's frame was sent, unless it is known or damaged.
Fresh ==
    cam > 0 => /\ left <= size[cam]
               /\ cam \notin heard \cup damaged /\ ~(is_isight /\ announced)
                  => left = size[cam]

\* The frame the camera is sending.
Present ==
    cam > 0 /\ Good(cam)
    => (left = 0 /\ Whole(cam)) \/ InBuffer(cam, size[cam] - left)

\* The frames before it.
Past ==
    \A n \in 1 .. cam - 1 :
        Good(n) => \/ Whole(n)
                   \/ InBuffer(n, size[n]) /\ n + 1 \notin heard
                   \/ Unheard(n + 1)

WholeInv == Fresh /\ Present /\ Past

LEMMA SizeOf ==
    ASSUME Bounded, NEW n \in 1 .. cam
    PROVE  size[n] \in Nat /\ size[n] > 0
  <1>1. size \in Seq(FrameSizes) /\ n \in 1 .. Len(size)
    BY DEF Bounded, cam
  <1>2. size[n] \in FrameSizes
    BY <1>1, ElementOfSeq
  <1>3. size[n] \in Nat \ {0}
    BY <1>2, SizeAssumption, Zenon
  <1> QED BY <1>3

LEMMA DataLength ==
    ASSUME Bounded, NEW p \in Payload, processPayload(p)
    PROVE  Len(Data(p)) = Len(Kept(p))
                        + Smaller(p.len, dwMaxVideoFrameSize - Len(Kept(p)))
  <1> DEFINE n == Smaller(p.len, dwMaxVideoFrameSize - Len(Kept(p)))
             u == Units(n, cam)
  <1>1. Kept(p) \in Buffer /\ Len(Kept(p)) \in 0 .. dwMaxVideoFrameSize
    <2>1. Len(Kept(p)) \in Nat /\ Len(Kept(p)) <= Len(Data(p))
      BY DataIs
    <2>2. Len(Data(p)) \in 0 .. dwMaxVideoFrameSize
      BY DataIs
    <2> QED BY <2>1, <2>2, DataIs, SizeAssumption
  <1>2. n \in Nat /\ cam \in 1 .. MaxFrames
    BY <1>1, PayloadFields, DataIs, SizeAssumption DEF Smaller
  <1>3. u \in Buffer /\ Len(u) = n
    <2>1. u \in [1 .. n -> 1 .. MaxFrames]
      BY <1>2 DEF Units
    <2>2. u \in Buffer
      BY <2>1, <1>2, SeqDef DEF Buffer
    <2>3. Len(u) \in Nat /\ DOMAIN u = 1 .. Len(u) /\ DOMAIN u = 1 .. n
      BY <2>1, <2>2, LenProperties DEF Buffer
    <2> QED BY <2>2, <2>3, <1>2
  <1> HIDE DEF u, n
  <1>4. Len(Kept(p) \o u) = Len(Kept(p)) + n
    BY <1>1, <1>3, ConcatProperties DEF Buffer
  <1> QED BY <1>4 DEF Data, Appended, u, n

\* Publishing adds outbuf if the frame ID flipped, and then the frame if done.
LEMMA OneMoreAt ==
    ASSUME NEW s \in Seq(Buffer), NEW b \in Buffer, NEW more \in BOOLEAN
    PROVE  LET t == s \o (IF more THEN <<b>> ELSE << >>)
           IN  /\ Len(t) = Len(s) + IF more THEN 1 ELSE 0
               /\ \A k \in 1 .. Len(s) : t[k] = s[k]
               /\ more => t[Len(t)] = b
  <1>1. Len(s) \in Nat
    BY LenProperties
  <1>2. CASE more
    <2>1. <<b>> \in Seq(Buffer) /\ Len(<<b>>) = 1 /\ <<b>>[1] = b
      OBVIOUS
    <2> QED BY <1>1, <1>2, <2>1, ConcatProperties
  <1>3. CASE ~more
    <2>1. << >> \in Seq(Buffer) /\ Len(<< >>) = 0
      OBVIOUS
    <2> QED BY <1>1, <1>3, <2>1, ConcatProperties
  <1> QED BY <1>2, <1>3

LEMMA PublishedNow ==
    ASSUME Bounded, NEW p \in Payload, processPayload(p)
    PROVE  /\ Len(published) \in Nat /\ Len(published') \in Nat
           /\ Len(published') = Len(published) + (IF Flipped(p) THEN 1 ELSE 0)
                                               + (IF Done(p) THEN 1 ELSE 0)
           /\ Len(published) <= Len(published')
           /\ \A k \in 1 .. Len(published) : published'[k] = published[k]
           /\ \A k \in 1 .. Len(published') :
                 \/ k \in 1 .. Len(published)
                 \/ Flipped(p) /\ k = Len(published) + 1
                 \/ Done(p) /\ k = Len(published')
           /\ Flipped(p) => published'[Len(published) + 1] = outbuf
           /\ Done(p) => Len(published') > 0
                        /\ published'[Len(published')] = Data(p)
  <1> DEFINE first == published \o (IF Flipped(p) THEN <<outbuf>> ELSE << >>)
  <1>1. /\ Flipped(p) \in BOOLEAN /\ Done(p) \in BOOLEAN
        /\ published \in Seq(Buffer) /\ outbuf \in Buffer /\ Data(p) \in Buffer
    BY DataIs DEF Flipped, Complete, Done, Bounded
  <1>2. Len(published) \in Nat /\ Len(published') \in Nat
    BY <1>1, PublishedIs, LenProperties
  <1>3. /\ Len(first) = Len(published) + IF Flipped(p) THEN 1 ELSE 0
        /\ \A k \in 1 .. Len(published) : first[k] = published[k]
        /\ Flipped(p) => first[Len(first)] = outbuf
    BY <1>1, OneMoreAt
  <1>4. first \in Seq(Buffer)
    BY <1>1, OneMore
  <1>5. published' = first \o (IF Done(p) THEN <<Data(p)>> ELSE << >>)
    BY Zenon DEF processPayload, Kept, Data, Done
  <1> HIDE DEF first
  <1>6. /\ Len(published') = Len(first) + IF Done(p) THEN 1 ELSE 0
        /\ \A k \in 1 .. Len(first) : published'[k] = first[k]
        /\ Done(p) => published'[Len(published')] = Data(p)
    BY <1>1, <1>4, <1>5, OneMoreAt
  <1>7. CASE Flipped(p)
    <2>1. Len(first) = Len(published) + 1
      BY <1>3, <1>7
    <2>2. CASE Done(p)
      BY <1>2, <1>3, <1>6, <1>7, <2>1, <2>2
    <2>3. CASE ~Done(p)
      BY <1>2, <1>3, <1>6, <1>7, <2>1, <2>3
    <2> QED BY <2>2, <2>3
  <1>8. CASE ~Flipped(p)
    <2>1. Len(first) = Len(published)
      BY <1>2, <1>3, <1>8
    <2>2. CASE Done(p)
      BY <1>2, <1>3, <1>6, <1>8, <2>1, <2>2
    <2>3. CASE ~Done(p)
      <3>1. Len(published') = Len(published)
        BY <1>2, <1>3, <1>6, <1>8, <2>1, <2>3
      <3>2. \A k \in 1 .. Len(published) : published'[k] = published[k]
        BY <1>3, <1>6, <2>1
      <3> QED BY <1>2, <1>8, <2>3, <3>1, <3>2
    <2> QED BY <2>2, <2>3
  <1> QED BY <1>7, <1>8

\* Of the present frame nothing is there before it is known.
LEMMA UnknownIsNowhere ==
    ASSUME Bounded, Known, cam > 0,
           cam \notin heard, ~(is_isight /\ announced)
    PROVE  /\ Lacks(outbuf, cam)
           /\ \A k \in 1 .. Len(published) : Lacks(published[k], cam)
  BY DEF Known, KnownIn, Lacks

\* A frame published whole stays so, as only data of another is taken.
LEMMA WholeStays ==
    ASSUME Bounded, NEW p \in Payload, processPayload(p),
           NEW n \in 1 .. cam, n # cam \/ p.len = 0, Whole(n)
    PROVE  Whole(n)'
  <1>1. PICK k \in 1 .. Len(published) : WholeAt(n, k)
    BY DEF Whole
  <1>2. Lacks(Data(p), n)
    <2> SUFFICES ASSUME NEW i \in 1 .. Len(Data(p)) PROVE Data(p)[i] # n
      BY DEF Lacks
    <2>1. CASE i > Len(Kept(p))
      BY <2>1, DataIs
    <2>2. CASE ~(i > Len(Kept(p)))
      <3>1. i \in 1 .. Len(Kept(p)) /\ Data(p)[i] = Kept(p)[i]
        BY <2>2, DataIs
      <3>2. Kept(p) = outbuf
        BY <3>1, EmptySeq DEF Kept
      <3> QED BY <3>1, <3>2, <1>1 DEF WholeAt, Lacks
    <2> QED BY <2>1, <2>2
  <1>3. Lacks(outbuf', n)
    <2>1. CASE Done(p)
      <3>1. outbuf' = << >> /\ Len(<< >>) = 0
        BY <2>1, HeardIs, EmptySeq
      <3> QED BY <3>1 DEF Lacks
    <2> QED BY <2>1, <1>2, HeardIs
  <1>4. k \in 1 .. Len(published') /\ published'[k] = published[k]
    <2>1. Len(published) \in Nat /\ Len(published') \in Nat
          /\ Len(published) <= Len(published')
      BY PublishedNow
    <2>2. published'[k] = published[k]
      BY PublishedNow
    <2> QED BY <2>1, <2>2
  <1>5. ASSUME NEW j \in 1 .. Len(published'), j # k
        PROVE  Lacks(published'[j], n)
    <2>1. CASE j \in 1 .. Len(published) /\ published'[j] = published[j]
      BY <2>1, <1>1, <1>5 DEF WholeAt
    <2>2. CASE published'[j] = outbuf \/ published'[j] = Data(p)
      BY <2>2, <1>1, <1>2 DEF WholeAt
    <2> QED BY <2>1, <2>2, PublishedIs
  <1>6. size' = size
    BY DEF processPayload, Sent
  <1>7. WholeAt(n, k)'
    BY <1>1, <1>3, <1>4, <1>5, <1>6 DEF WholeAt, Pure, Lacks
  <1> QED BY <1>4, <1>7 DEF Whole

\* The payload's data goes after what outbuf holds of the present frame.
LEMMA PresentGrows ==
    ASSUME Bounded, NEW p \in Payload, processPayload(p),
           Pure(Kept(p), cam), Len(Kept(p)) = size[cam] - left,
           left <= size[cam], size[cam] <= dwMaxVideoFrameSize,
           Flipped(p) => Lacks(outbuf, cam),
           \A k \in 1 .. Len(published) : Lacks(published[k], cam)
    PROVE  \/ left' = 0 /\ Whole(cam)'
           \/ InBuffer(cam, size[cam] - left)'
  <1>1. /\ cam' = cam /\ size' = size /\ left' = left - p.len /\ p.len <= left
        /\ p.eof => p.len = left
    BY DEF processPayload, Sends, Sent, cam
  <1>2. p.len \in Nat /\ left \in Nat /\ size[cam] \in Nat /\ cam \in 1 .. MaxFrames
    BY PayloadFields, DataIs, SizeOf DEF Bounded
  <1>3. Len(Data(p)) = size[cam] - left'
    <2>1. Len(Data(p)) = Len(Kept(p))
                       + Smaller(p.len, dwMaxVideoFrameSize - Len(Kept(p)))
      BY DataLength
    <2>2. p.len <= dwMaxVideoFrameSize - Len(Kept(p))
      BY <1>1, <1>2, SizeAssumption
    <2>3. Smaller(p.len, dwMaxVideoFrameSize - Len(Kept(p))) = p.len
      <3>1. p.len <= dwMaxVideoFrameSize - Len(Kept(p))
            /\ dwMaxVideoFrameSize - Len(Kept(p)) \in Int
        BY <1>2, <2>2, SizeAssumption
      <3> QED BY <1>2, <3>1 DEF Smaller
    <2> QED BY <1>1, <1>2, <2>1, <2>3
  <1>4. Pure(Data(p), cam)
    BY DataIs DEF Pure
  <1>5. CASE Done(p)
    <2>1. left' = 0
      BY <1>1, <1>2, <1>3, <1>5, SizeAssumption DEF Done, Complete
    <2>2. PICK k \in 1 .. Len(published') :
             k = Len(published') /\ published'[k] = Data(p)
      <3>1. Len(published') \in Nat /\ Len(published') > 0
        BY <1>5, PublishedNow
      <3>2. Len(published') \in 1 .. Len(published')
        BY <3>1
      <3> QED BY <1>5, <3>2, PublishedNow
    <2>3. ASSUME NEW j \in 1 .. Len(published'), j # k
          PROVE  Lacks(published'[j], cam)
      <3>1. CASE j \in 1 .. Len(published)
        BY <3>1, PublishedNow
      <3>2. CASE j \notin 1 .. Len(published)
        <4>1. Flipped(p) /\ j = Len(published) + 1
          BY <2>3, <3>2, <2>2, PublishedNow
        <4> QED BY <4>1, PublishedNow
      <3> QED BY <3>1, <3>2
    <2>4. outbuf' = << >> /\ Len(<< >>) = 0
      BY <1>5, HeardIs, EmptySeq
    <2>5. WholeAt(cam, k)'
      <3>1. size[cam] = Len(Data(p))
        BY <1>2, <1>3, <2>1
      <3> QED BY <1>1, <1>4, <2>2, <2>3, <2>4, <3>1 DEF WholeAt, Pure, Lacks
    <2> QED BY <1>1, <2>1, <2>2, <2>5 DEF Whole
  <1>6. CASE ~Done(p)
    <2>1. outbuf' = Data(p)
      BY <1>6, HeardIs
    <2>2. ASSUME NEW j \in 1 .. Len(published')
          PROVE  Lacks(published'[j], cam)
      <3>1. CASE j \in 1 .. Len(published)
        BY <3>1, PublishedNow
      <3>2. CASE j \notin 1 .. Len(published)
        <4>1. Flipped(p) /\ j = Len(published) + 1
          BY <1>6, <3>2, PublishedNow
        <4> QED BY <4>1, PublishedNow
      <3> QED BY <3>1, <3>2
    <2> QED BY <1>1, <1>3, <1>4, <2>1, <2>2 DEF InBuffer, Pure, Lacks
  <1> QED BY <1>5, <1>6

\* A header of the present frame is processed, or came before.
LEMMA HeaderFirst ==
    ASSUME Bounded, NEW p \in Payload, processPayload(p)
    PROVE  /\ cam \in heard' \/ (is_isight /\ announced)
           /\ cam \notin heard /\ cam \in heard'
              => p.header /\ ~(is_isight /\ announced)
  BY HeardIs, PayloadFields

\* Flipped(p) says whether outbuf holds the frame before, if that was heard of.
LEMMA FlipIsSeen ==
    ASSUME Bounded, Parity, NEW p \in Payload, processPayload(p), p.header,
           cam - 1 \in heard, cam \notin heard
    PROVE  Flipped(p) <=> outbuf # << >>
  <1>1. cam \in 1 .. MaxFrames /\ heard \subseteq 1 .. cam
    BY DataIs DEF Bounded
  <1>2. fid = (cam - 1) % 2
    BY <1>1 DEF Parity
  <1>3. fid # cam % 2
    BY <1>1, <1>2
  <1> QED BY <1>3 DEF Flipped

LEMMA FlipOfHeard ==
    ASSUME Bounded, Parity, NEW p \in Payload, processPayload(p), cam \in heard
    PROVE  ~Flipped(p)
  <1>1. cam \in 1 .. MaxFrames /\ heard \subseteq 1 .. cam
    BY DataIs DEF Bounded
  <1>2. fid = cam % 2
    BY <1>1 DEF Parity
  <1> QED BY <1>2 DEF Flipped

LEMMA PayloadFresh ==
    ASSUME Bounded, Fresh, NEW p \in Payload, processPayload(p)
    PROVE  Fresh'
  <1>1. /\ cam' = cam /\ size' = size /\ left' = left - p.len
        /\ is_isight' = is_isight /\ announced' = (announced \/ p.header)
        /\ cam > 0
    BY HeardIs DEF processPayload, Sends, Sent
  <1>2. cam \in heard' \/ (is_isight' /\ announced')
    BY <1>1, HeaderFirst
  <1>3. left' <= size'[cam']
    <2>1. p.len \in Nat /\ left \in Nat /\ size[cam] \in Nat
      BY PayloadFields, SizeOf, DataIs DEF Bounded
    <2> QED BY <1>1, <2>1 DEF Fresh
  <1> QED BY <1>1, <1>2, <1>3 DEF Fresh

LEMMA PayloadPresent ==
    ASSUME IInv, Fresh, Present, NEW p \in Payload, processPayload(p)
    PROVE  Present'
  <1>1. Bounded /\ Known /\ Parity
    BY DEF IInv
  <1>2. /\ cam' = cam /\ size' = size /\ left' = left - p.len /\ p.len <= left
        /\ damaged' = damaged
        /\ heard' = IF p.header THEN heard \cup {cam} ELSE heard
    BY DEF processPayload, Sends, Sent, cam
  <1>3. /\ cam \in 1 .. MaxFrames /\ p.len \in Nat /\ left \in Nat
        /\ size[cam] \in Nat /\ left <= size[cam]
    BY <1>1, PayloadFields, SizeOf, DataIs DEF Bounded, Fresh
  <1> SUFFICES ASSUME Good(cam)'
               PROVE  \/ left' = 0 /\ Whole(cam)'
                      \/ InBuffer(cam, size[cam] - left)'
    BY DEF Present
  <1>4. /\ cam \in heard' /\ (cam = 1 \/ cam - 1 \in heard)
        /\ cam \notin damaged /\ size[cam] <= dwMaxVideoFrameSize
    BY <1>2, <1>3 DEF Good
  <1>5. CASE cam \in heard
    <2>1. Good(cam) /\ Kept(p) = outbuf /\ ~Flipped(p)
      BY <1>1, <1>4, <1>5, FlipOfHeard DEF Good, Kept
    <2>2. CASE left = 0 /\ Whole(cam)
      <3>1. p.len = 0 /\ left' = 0 /\ cam \in 1 .. cam
        BY <1>2, <1>3, <2>2
      <3>2. \A n \in 1 .. cam : n = cam /\ Whole(n) => Whole(n)'
        BY <1>1, <3>1, WholeStays
      <3> QED BY <1>2, <2>2, <3>1, <3>2
    <2>3. CASE InBuffer(cam, size[cam] - left)
      BY <1>1, <1>3, <1>4, <2>1, <2>3, PresentGrows DEF InBuffer
    <2> QED BY <1>3, <2>1, <2>2, <2>3 DEF Present
  <1>6. CASE cam \notin heard
    <2>1. p.header /\ ~(is_isight /\ announced)
      BY <1>1, <1>4, <1>6, HeaderFirst
    <2>2. left = size[cam]
      BY <1>3, <1>4, <1>6, <2>1 DEF Fresh
    <2>3. /\ Lacks(outbuf, cam)
          /\ \A k \in 1 .. Len(published) : Lacks(published[k], cam)
      BY <1>1, <1>3, <1>6, <2>1, UnknownIsNowhere
    <2>4. Kept(p) = << >>
      <3>1. CASE cam = 1
        <4>1. outbuf \in Buffer
          BY <1>1 DEF Bounded
        <4>2. \A i \in 1 .. Len(outbuf) : FALSE
          <5> SUFFICES ASSUME NEW i \in 1 .. Len(outbuf) PROVE FALSE
            OBVIOUS
          <5>1. outbuf[i] \in 1 .. MaxFrames
            BY <4>1, ElementOfBuffer
          <5>2. outbuf[i] <= 1 /\ outbuf[i] # 1
            BY <1>1, <2>3, <3>1 DEF Known, KnownIn, Lacks
          <5> QED BY <5>1, <5>2
        <4>3. Len(outbuf) \in Nat
          BY <4>1, LenProperties DEF Buffer
        <4>4. Len(outbuf) = 0
          <5>1. Len(outbuf) # 0 => 1 \in 1 .. Len(outbuf)
            BY <4>3
          <5> QED BY <4>2, <5>1
        <4>5. outbuf = << >>
          BY <4>1, <4>4, EmptySeq DEF Buffer
        <4> QED BY <4>5 DEF Kept
      <3>2. CASE cam - 1 \in heard
        BY <1>1, <1>6, <2>1, <3>2, FlipIsSeen DEF Kept
      <3> QED BY <1>4, <3>1, <3>2
    <2>5. Pure(Kept(p), cam) /\ Len(Kept(p)) = size[cam] - left
      BY <1>3, <2>2, <2>4, EmptySeq DEF Pure
    <2> QED BY <1>1, <1>3, <1>4, <2>3, <2>5, PresentGrows
  <1> QED BY <1>5, <1>6

\* The frame before leaves outbuf when the present one is heard of.
LEMMA PreviousPublished ==
    ASSUME IInv, NEW p \in Payload, processPayload(p), p.header,
           cam \notin heard, NEW n \in 1 .. cam - 1, n + 1 = cam, n \in heard,
           InBuffer(n, size[n])
    PROVE  Whole(n)'
  <1>1. Bounded /\ Parity
    BY DEF IInv
  <1>2. cam \in 1 .. MaxFrames /\ n \in 1 .. cam /\ cam # n /\ cam - 1 = n
    BY <1>1, DataIs
  <1>3. size[n] \in Nat /\ size[n] > 0
    BY <1>1, <1>2, SizeOf
  <1>4. outbuf # << >>
    BY <1>3, EmptySeq DEF InBuffer
  <1>5. Flipped(p) /\ Kept(p) = << >>
    BY <1>1, <1>2, <1>4, FlipIsSeen DEF Kept
  <1>6. Lacks(Data(p), n)
    <2>1. Len(Kept(p)) = 0
      BY <1>5, EmptySeq
    <2>2. \A i \in 1 .. Len(Data(p)) : i > Len(Kept(p))
      BY <2>1
    <2> QED BY <1>1, <1>2, <2>2, DataIs DEF Lacks
  <1>7. Lacks(outbuf', n)
    <2>1. outbuf' = Data(p) \/ outbuf' = << >>
      BY <1>1, HeardIs
    <2>2. CASE outbuf' = << >>
      BY <2>2, EmptySeq DEF Lacks
    <2> QED BY <1>6, <2>1, <2>2
  <1>8. PICK k \in 1 .. Len(published') :
           k = Len(published) + 1 /\ published'[k] = outbuf
    <2>1. Len(published) \in Nat /\ Len(published') \in Nat
          /\ Len(published) + 1 <= Len(published')
      <3>1. Len(published) \in Nat /\ Len(published') \in Nat
            /\ Len(published') = Len(published) + 1 + IF Done(p) THEN 1 ELSE 0
        BY <1>1, <1>5, PublishedNow
      <3> QED BY <3>1
    <2>2. Len(published) + 1 \in 1 .. Len(published')
      BY <2>1
    <2> QED BY <1>1, <1>5, <2>2, PublishedNow
  <1>9. ASSUME NEW j \in 1 .. Len(published'), j # k
        PROVE  Lacks(published'[j], n)
    <2>1. CASE j \in 1 .. Len(published)
      BY <1>1, <2>1, PublishedNow DEF InBuffer
    <2>2. CASE j \notin 1 .. Len(published)
      <3>1. Done(p) /\ j = Len(published')
        BY <1>1, <1>8, <1>9, <2>2, PublishedNow
      <3> QED BY <1>1, <1>6, <3>1, PublishedNow
    <2> QED BY <2>1, <2>2
  <1>10. size' = size
    BY DEF processPayload, Sent
  <1>11. WholeAt(n, k)'
    BY <1>7, <1>8, <1>9, <1>10 DEF WholeAt, InBuffer, Pure, Lacks
  <1> QED BY <1>8, <1>11 DEF Whole

\* What outbuf held of the frame before stays while its successor is unheard.
LEMMA PayloadPast ==
    ASSUME IInv, Past, NEW p \in Payload, processPayload(p)
    PROVE  Past'
  <1>1. Bounded
    BY DEF IInv
  <1>2. /\ cam' = cam /\ size' = size /\ damaged' = damaged
        /\ is_isight' = is_isight /\ announced' = (announced \/ p.header)
        /\ heard' = IF p.header THEN heard \cup {cam} ELSE heard
    BY DEF processPayload, Sent, cam
  <1>3. cam \in 1 .. MaxFrames
    BY <1>1, DataIs
  <1> SUFFICES ASSUME NEW n \in 1 .. cam - 1, Good(n)'
               PROVE  Whole(n)' \/ (InBuffer(n, size[n]) /\ n + 1 \notin heard)'
                      \/ Unheard(n + 1)'
    BY <1>2 DEF Past
  <1>4. n \in 1 .. cam /\ n # cam /\ n - 1 # cam /\ n + 1 \in 1 .. cam
    BY <1>3
  <1>5. Good(n)
    BY <1>2, <1>4 DEF Good
  <1>6. CASE Whole(n)
    BY <1>1, <1>4, <1>6, WholeStays
  <1>7. CASE Unheard(n + 1)
    <2>1. CASE n + 1 = cam
      <3>1. is_isight /\ announced /\ cam \notin heard
        BY <1>3, <1>7, <2>1 DEF Unheard
      <3>2. ~p.header
        BY <1>1, <3>1, HeardIs
      <3> QED BY <1>2, <2>1, <3>1, <3>2 DEF Unheard
    <2>2. CASE n + 1 # cam
      BY <1>2, <1>4, <1>7, <2>2 DEF Unheard
    <2> QED BY <2>1, <2>2
  <1>8. CASE InBuffer(n, size[n]) /\ n + 1 \notin heard
    <2>1. CASE n + 1 # cam
      <3>1. n + 1 < cam /\ n + 1 \notin heard'
        BY <1>2, <1>3, <1>8, <2>1
      <3> QED BY <1>2, <3>1 DEF Unheard
    <2>2. CASE n + 1 = cam /\ p.header
      BY <1>5, <1>8, <2>2, PreviousPublished DEF Good
    <2>3. CASE n + 1 = cam /\ ~p.header
      <3>1. cam \notin heard' /\ is_isight /\ announced
        BY <1>1, <1>2, <1>8, <2>3, HeaderFirst
      <3> QED BY <1>2, <2>3, <3>1 DEF Unheard
    <2> QED BY <2>1, <2>2, <2>3
  <1> QED BY <1>5, <1>6, <1>7, <1>8 DEF Past

LEMMA NextFrameWhole ==
    ASSUME IInv, WholeInv, nextFrame
    PROVE  WholeInv'
  <1>1. PICK m \in FrameSizes : size' = Append(size, m) /\ left' = m
    BY DEF nextFrame
  <1>2. UNCHANGED <<is_isight, outbuf, published, heard, damaged>> /\ left = 0
    BY DEF nextFrame
  <1>3. Bounded /\ size \in Seq(FrameSizes) /\ cam \in Nat
        /\ heard \subseteq 1 .. cam
    BY CamIsNat, LenProperties DEF IInv, Bounded, cam
  <1>4. /\ cam' = cam + 1 /\ size'[cam + 1] = m
        /\ \A n \in 1 .. cam : size'[n] = size[n]
    BY <1>1, <1>3, AppendProperties DEF cam
  <1>5. m \in Nat
    BY SizeAssumption
  <1>6. Fresh'
    BY <1>1, <1>4, <1>5 DEF Fresh
  <1>7. Present'
    <2>1. cam' \notin heard'
      BY <1>2, <1>3, <1>4
    <2> QED BY <2>1 DEF Present, Good
  <1>8. Past'
    <2> SUFFICES ASSUME NEW n \in 1 .. cam, Good(n)'
                 PROVE  Whole(n)' \/ (InBuffer(n, size[n]) /\ n + 1 \notin heard)'
                        \/ Unheard(n + 1)'
      BY <1>3, <1>4 DEF Past
    <2>1. Good(n)
      BY <1>2, <1>4 DEF Good
    <2>2. Whole(n) => Whole(n)'
      BY <1>2, <1>4 DEF Whole, WholeAt, Pure, Lacks
    <2>3. InBuffer(n, size[n]) => InBuffer(n, size[n])'
      BY <1>2, <1>4 DEF InBuffer, Pure, Lacks
    <2>4. CASE n = cam
      <3>1. size[n] \in Nat
        BY <1>3, SizeOf
      <3>2. Whole(n) \/ InBuffer(n, size[n])
        BY <1>2, <2>1, <2>4, <3>1 DEF WholeInv, Present
      <3>3. n + 1 \notin heard'
        BY <1>2, <1>3, <2>4
      <3> QED BY <2>2, <2>3, <3>2, <3>3
    <2>5. CASE n # cam
      <3>1. n \in 1 .. cam - 1
        BY <1>3, <2>5
      <3>2. \/ Whole(n) \/ (InBuffer(n, size[n]) /\ n + 1 \notin heard)
            \/ Unheard(n + 1)
        BY <2>1, <3>1 DEF WholeInv, Past
      <3>3. Unheard(n + 1) => Unheard(n + 1)'
        BY <1>2, <1>3, <1>4, <3>1 DEF Unheard
      <3> QED BY <1>2, <2>2, <2>3, <3>2, <3>3
    <2> QED BY <2>4, <2>5
  <1> QED BY <1>6, <1>7, <1>8 DEF WholeInv

LEMMA LosePayloadWhole ==
    ASSUME IInv, WholeInv, NEW p \in Payload, losePayload(p)
    PROVE  WholeInv'
  <1>1. /\ UNCHANGED <<is_isight, outbuf, published, heard, size, cam>>
        /\ announced' = (announced \/ p.header)
        /\ damaged' = IF p.len > 0 THEN damaged \cup {cam} ELSE damaged
        /\ left' = left - p.len /\ p.len <= left /\ cam > 0
    BY DEF losePayload, Sends, Sent, cam
  <1>2. /\ Bounded /\ cam \in Nat /\ p.len \in Nat /\ left \in Nat
        /\ size[cam] \in Nat
    <2>1. Bounded /\ left \in Nat
      BY DEF IInv, Bounded
    <2>2. cam \in Nat /\ cam \in 1 .. cam
      BY <1>1, <2>1, CamIsNat
    <2> QED BY <2>1, <2>2, PayloadFields, SizeOf
  <1>3. cam \notin damaged' => left' = left /\ cam \notin damaged
    BY <1>1, <1>2
  <1>4. Fresh'
    <2>1. left' <= size[cam]
      BY <1>1, <1>2 DEF WholeInv, Fresh
    <2> QED BY <1>1, <1>3, <2>1 DEF WholeInv, Fresh
  <1>5. Present'
    BY <1>1, <1>3 DEF WholeInv, Present, Good, Whole, WholeAt, InBuffer, Pure, Lacks
  <1>6. Past'
    <2> SUFFICES ASSUME NEW n \in 1 .. cam - 1, Good(n)'
                 PROVE  Whole(n)' \/ (InBuffer(n, size[n]) /\ n + 1 \notin heard)'
                        \/ Unheard(n + 1)'
      BY <1>1 DEF Past
    <2>1. Good(n)
      BY <1>1 DEF Good
    <2>2. Whole(n) => Whole(n)'
      BY <1>1 DEF Whole, WholeAt, Pure, Lacks
    <2>3. InBuffer(n, size[n]) => InBuffer(n, size[n])'
      BY <1>1 DEF InBuffer, Pure, Lacks
    <2>4. Unheard(n + 1) => Unheard(n + 1)'
      BY <1>1 DEF Unheard
    <2> QED BY <1>1, <2>1, <2>2, <2>3, <2>4 DEF WholeInv, Past
  <1> QED BY <1>4, <1>5, <1>6 DEF WholeInv

LEMMA InitWhole == Init => WholeInv
  <1> SUFFICES ASSUME Init PROVE WholeInv OBVIOUS
  <1>1. cam = 0
    BY EmptySeq DEF Init, cam
  <1> QED BY <1>1 DEF WholeInv, Fresh, Present, Past

LEMMA NextWhole == IInv /\ WholeInv /\ [Next]_vars => WholeInv'
  <1> SUFFICES ASSUME IInv, WholeInv, [Next]_vars PROVE WholeInv' OBVIOUS
  <1>1. ASSUME NEW p \in Payload, processPayload(p) PROVE WholeInv'
    BY <1>1, PayloadFresh, PayloadPresent, PayloadPast DEF IInv, WholeInv
  <1>2. CASE UNCHANGED vars
    BY <1>2 DEF vars, cameraVars, cam, WholeInv, Fresh, Present, Past, Good,
       Whole, WholeAt, InBuffer, Pure, Lacks, Unheard
  <1> QED BY <1>1, <1>2, NextFrameWhole, LosePayloadWhole DEF Next

\* A buffer of units of one frame is that many of them.
LEMMA PureIsUnits ==
    ASSUME NEW b \in Buffer, NEW n, Pure(b, n)
    PROVE  b = Units(Len(b), n)
  <1>1. b \in [1 .. Len(b) -> 1 .. MaxFrames]
    BY LenProperties DEF Buffer
  <1> QED BY <1>1 DEF Pure, Units

\* A frame that arrives undamaged, fits and is heard of like its neighbours is
\* published once, whole and alone, for any sizes of frames, payloads and
\* buffers, with or without EOF bits (stream.c:909-1012).
THEOREM UndamagedFramesPublished == Spec => []FramePublishedWhole
  <1>1. IInv /\ WholeInv => FramePublishedWhole
    <2> SUFFICES ASSUME IInv, WholeInv, NEW n \in 1 .. cam - 1,
                        {n, n + 1} \subseteq heard, n = 1 \/ n - 1 \in heard,
                        n \notin damaged, size[n] <= dwMaxVideoFrameSize
                 PROVE  /\ Cardinality(Holding(n)) = 1
                        /\ \A k \in Holding(n) : published[k] = Units(size[n], n)
      BY DEF FramePublishedWhole
    <2>1. Good(n) /\ ~Unheard(n + 1) /\ n + 1 \in heard
      BY DEF Good, Unheard
    <2>2. PICK k \in 1 .. Len(published) : WholeAt(n, k)
      BY <2>1 DEF WholeInv, Past, Whole
    <2>3. Bounded /\ cam \in Nat /\ n \in 1 .. cam
      BY CamIsNat DEF IInv
    <2>4. size[n] \in Nat /\ size[n] > 0
      BY <2>3, SizeOf
    <2>5. /\ DOMAIN published = 1 .. Len(published)
          /\ \A j \in 1 .. Len(published) :
                published[j] \in Buffer /\ DOMAIN published[j] = 1 .. Len(published[j])
      <3>1. published \in Seq(Buffer)
        BY <2>3 DEF Bounded
      <3> QED BY <3>1, LenProperties, ElementOfSeq DEF Buffer
    <2>6. Holding(n) = {k}
      <3>1. 1 \in 1 .. Len(published[k]) /\ published[k][1] = n
        BY <2>2, <2>4 DEF WholeAt, Pure
      <3>2. k \in Holding(n)
        BY <2>5, <3>1 DEF Holding
      <3>3. ASSUME NEW j \in Holding(n) PROVE j = k
        BY <2>2, <2>5 DEF Holding, WholeAt, Lacks
      <3> QED BY <3>2, <3>3
    <2>7. Cardinality(Holding(n)) = 1
      BY <2>6, FS_Singleton
    <2>8. published[k] = Units(size[n], n)
      BY <2>2, <2>5, PureIsUnits DEF WholeAt
    <2> QED BY <2>6, <2>7, <2>8
  <1> QED BY InitIInv, NextIInv, InitWhole, NextWhole, <1>1, PTL DEF Spec

=============================================================================
