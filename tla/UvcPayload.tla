----------------------------- MODULE UvcPayload -----------------------------
(***************************************************************************)
(* How jni/libuvc/src/stream.c assembles frames: _uvc_process_payload       *)
(* collects the data of the payloads in outbuf and publishes it when the    *)
(* end-of-frame bit is set, when the buffer is full, or when the frame ID   *)
(* bit flips while it holds data.                                          *)
(*                                                                         *)
(* The camera is external: it numbers its frames 1, 2, ..., sends each in   *)
(* payloads and toggles the frame ID from frame to frame; any payload may   *)
(* be lost, or be dropped because of its error bit or a bogus header.  Data *)
(* is counted in units, each unit standing for the number of the frame it   *)
(* belongs to.  An iSight camera sends the header of a frame without data   *)
(* and then data without headers.  Headers have the two bytes that UVC      *)
(* demands: the branch for shorter ones (stream.c:894) is left out.         *)
(***************************************************************************)
EXTENDS Naturals, Sequences, FiniteSets

CONSTANTS
    dwMaxVideoFrameSize,    \* capacity of the image buffers
    MetaBufSize,            \* LIBUVC_XFER_META_BUF_SIZE
    FrameSizes,             \* sizes of the frames the camera sends
    PayloadSizes,           \* data sizes of its payloads
    MetaSizes,              \* sizes of the metadata in their headers
    MaxFrames               \* bound on the frames the camera sends

ASSUME SizeAssumption == /\ dwMaxVideoFrameSize \in Nat \ {0}
                         /\ MetaBufSize \in Nat /\ MaxFrames \in Nat
                         /\ FrameSizes \subseteq Nat \ {0}
                         /\ PayloadSizes \subseteq Nat
                         /\ MetaSizes \subseteq Nat

VARIABLES
    is_isight,      \* devh->is_isight, found when the device is opened
    size,           \* size[n]: the size of the camera's n-th frame
    left,           \* data of the last of them not sent yet
    announced,      \* the iSight header of that frame was sent
    fid, outbuf,    \* got_bytes is Len(outbuf)
    meta_got_bytes,
    published,      \* the contents of the buffers published, in order
    heard,          \* frames a header of which was processed
    damaged         \* frames data of which was lost

cameraVars == <<is_isight, size, left, announced>>
vars == <<cameraVars, fid, outbuf, meta_got_bytes, published, heard, damaged>>

cam == Len(size)
Units(n, f) == [k \in 1 .. n |-> f]
Smaller(a, b) == IF a < b THEN a ELSE b

\* A payload: data size, metadata size, whether it has a header, and its EOF
\* bit.  The frame ID is the parity of the frame's number.
Payload ==
    IF is_isight
    THEN [len : {0}, meta : MetaSizes, header : {TRUE}, eof : {FALSE}]
           \cup [len : PayloadSizes \ {0}, meta : {0}, header : {FALSE},
                 eof : {FALSE}]
    ELSE [len : PayloadSizes, meta : MetaSizes, header : {TRUE}, eof : BOOLEAN]

\* The camera has such a payload to send.  EOF comes with a frame's last data.
Sends(p) ==
    /\ cam > 0 /\ p.len <= left
    /\ p.eof => p.len = left
    /\ is_isight => (p.header <=> ~announced)

Sent(p) ==
    /\ left' = left - p.len
    /\ announced' = (announced \/ p.header)
    /\ UNCHANGED <<is_isight, size>>

nextFrame ==
    /\ left = 0 /\ cam < MaxFrames
    /\ \E n \in FrameSizes : size' = Append(size, n) /\ left' = n
    /\ announced' = FALSE
    /\ UNCHANGED <<is_isight, fid, outbuf, meta_got_bytes, published, heard,
                   damaged>>

----------------------------------------------------------------------------
(* _uvc_process_payload *)

\* Mutant: a flip of the frame ID is not noticed.
FlippedNever(p) == FALSE

\* Mutant: a payload without a header counts as one with frame ID 0.
FlippedHeaderless(p) ==
    fid # (IF p.header THEN cam % 2 ELSE 0) /\ outbuf # << >>

\* The frame ID flipped with data around: the camera did not send an EOF.
Flipped(p) == p.header /\ fid # cam % 2 /\ outbuf # << >>

\* Mutant: the data is not cut at the end of the buffer.
AppendedWhole(buffer, p) == buffer \o Units(p.len, cam)

\* The payload's data, cut to what the buffer can take, after the buffer's.
Appended(buffer, p) ==
    buffer \o Units(Smaller(p.len, dwMaxVideoFrameSize - Len(buffer)), cam)

\* The frame is complete: EOF is set, or the buffer is full.
Complete(buffer, p) ==
    p.len > 0 /\ (p.eof \/ Len(buffer) = dwMaxVideoFrameSize)

processPayload(p) ==
    LET kept == IF Flipped(p) THEN << >> ELSE outbuf
        meta == IF Flipped(p) THEN 0 ELSE meta_got_bytes
        data == Appended(kept, p)
        done == Complete(data, p)
    IN  /\ Sends(p) /\ Sent(p)
        /\ published' = published \o (IF Flipped(p) THEN <<outbuf>> ELSE << >>)
                                  \o (IF done THEN <<data>> ELSE << >>)
        /\ outbuf' = IF done THEN << >> ELSE data
        /\ meta_got_bytes' = IF done THEN 0
                             ELSE Smaller(meta + p.meta, MetaBufSize)
        /\ fid' = IF p.header THEN cam % 2 ELSE fid
        /\ heard' = IF p.header THEN heard \cup {cam} ELSE heard
        /\ UNCHANGED damaged

\* The payload is lost, has the error bit set or a header longer than itself.
losePayload(p) ==
    /\ Sends(p) /\ Sent(p)
    /\ damaged' = IF p.len > 0 THEN damaged \cup {cam} ELSE damaged
    /\ UNCHANGED <<fid, outbuf, meta_got_bytes, published, heard>>

Init ==
    /\ is_isight \in BOOLEAN
    /\ size = << >> /\ left = 0 /\ announced = FALSE
    /\ fid = 0 /\ outbuf = << >> /\ meta_got_bytes = 0
    /\ published = << >> /\ heard = {} /\ damaged = {}

Next == \/ nextFrame
        \/ \E p \in Payload : processPayload(p) \/ losePayload(p)

Spec == Init /\ [][Next]_vars

----------------------------------------------------------------------------
(* Properties *)

\* The buffers are never overrun: outbuf has room between two payloads (a full
\* one is published), and no published frame exceeds dwMaxVideoFrameSize.
TypeOK ==
    /\ is_isight \in BOOLEAN /\ announced \in BOOLEAN
    /\ size \in Seq(FrameSizes) /\ left \in Nat
    /\ fid \in {0, 1}
    /\ outbuf \in Seq(1 .. MaxFrames) /\ Len(outbuf) < dwMaxVideoFrameSize
    /\ meta_got_bytes \in 0 .. MetaBufSize
    /\ heard \subseteq 1 .. MaxFrames /\ damaged \subseteq 1 .. MaxFrames
    /\ \A k \in DOMAIN published :
          Len(published[k]) \in 1 .. dwMaxVideoFrameSize

\* Data of two frames is published as one only when every header of one of
\* them, or of a frame between them, was lost: the flip of the frame ID that
\* would tell them apart is then not seen.
FramesApart ==
    \A k \in DOMAIN published :
        \A i, j \in DOMAIN published[k] :
            LET a == published[k][i]
                b == published[k][j]
            IN  i < j /\ a # b =>
                  a < b /\ \E c \in a .. b : c \notin heard

\* The buffers that hold data of frame n.
Holding(n) == {k \in DOMAIN published : \E i \in DOMAIN published[k] :
                                            published[k][i] = n}

\* A frame that was received undamaged, fits and is heard of like its
\* neighbours is published once, whole and alone, at the latest when the next
\* frame begins: also without an EOF bit, and with it on a payload that has
\* no data.
FramePublishedWhole ==
    \A n \in 1 .. cam - 1 :
        /\ {n, n + 1} \subseteq heard /\ (n = 1 \/ n - 1 \in heard)
        /\ n \notin damaged /\ size[n] <= dwMaxVideoFrameSize
        => /\ Cardinality(Holding(n)) = 1
           /\ \A k \in Holding(n) : published[k] = Units(size[n], n)

=============================================================================
