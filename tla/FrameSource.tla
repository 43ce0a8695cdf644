---------------------------- MODULE FrameSource ----------------------------
(***************************************************************************)
(* What uvc_start_streaming and uvc_stop_streaming promise to UVCPreview:   *)
(* while a stream is open the frame callback is called with one frame after *)
(* the other, each newer than the last, one call at a time; once the stream *)
(* is closed no call is running and none comes.  UVCPreview's               *)
(* frameCallback and stopStreaming are written against this promise, and    *)
(* UvcStream implements it.                                                *)
(***************************************************************************)
EXTENDS Naturals

CONSTANT MaxFrames      \* bound on the sequence numbers of a stream

VARIABLES
    open,       \* between uvc_start_streaming and uvc_stop_streaming
    calling,    \* sequence number of the frame in the callback, 0 for none
    last        \* sequence number of the last frame delivered

sourceVars == <<open, calling, last>>

SourceInit == open = FALSE /\ calling = 0 /\ last = 0

Open == /\ ~open
        /\ open' = TRUE /\ last' = 0
        /\ UNCHANGED calling

Call == /\ open /\ calling = 0
        /\ \E n \in (last + 1) .. MaxFrames : calling' = n /\ last' = n
        /\ UNCHANGED open

Return == /\ calling # 0
          /\ calling' = 0
          /\ UNCHANGED <<open, last>>

Close == /\ open /\ calling = 0
         /\ open' = FALSE
         /\ UNCHANGED <<calling, last>>

SourceNext == Open \/ Call \/ Return \/ Close

SourceSpec == SourceInit /\ [][SourceNext]_sourceVars
=============================================================================
