------------------------------ MODULE Recorder ------------------------------
(***************************************************************************)
(* What VideoCapture promises the caller of startRecording, who hears of a  *)
(* recording through OnVideoCaptureCallback (onStart, onVideoSaved,         *)
(* onError): each call is answered by onStart or onError before the next;   *)
(* a started recording "continues until stopRecording() is called"          *)
(* (VideoCapture.java:279) and ends with one onVideoSaved or with onError;   *)
(* nothing is heard of it after onVideoSaved, nor of a call that was        *)
(* refused.  onError may come again: that the recording is too short is     *)
(* told also after another error.                                          *)
(***************************************************************************)
EXTENDS Naturals

CONSTANT MaxRecordings  \* bound on the calls of startRecording

VARIABLES
    calls,      \* of startRecording so far
    stopped,    \* the recordings stopRecording was called for
    told        \* of each call: what its callback was told

recorderVars == <<calls, stopped, told>>

Failures == {"short", "error"}
Over(r) == told[r] \cap ({"saved"} \cup Failures) # {}

tell(what) == told' = [told EXCEPT ![calls] = @ \cup {what}]

RecorderInit ==
    calls = 0 /\ stopped = {} /\ told = [r \in 1 .. MaxRecordings |-> {}]

Call == /\ calls < MaxRecordings /\ \A r \in 1 .. calls : Over(r)
        /\ calls' = calls + 1
        /\ UNCHANGED <<stopped, told>>

Answer == /\ calls > 0 /\ told[calls] = {}
          /\ tell("start") \/ tell("error")
          /\ UNCHANGED <<calls, stopped>>

Stop == /\ calls > 0 /\ "start" \in told[calls]
        /\ stopped' = stopped \cup {calls}
        /\ UNCHANGED <<calls, told>>

Finish == /\ calls \in stopped
          /\ \/ told[calls] = {"start"} /\ tell("saved")
             \/ "saved" \notin told[calls] /\ \E what \in Failures : tell(what)
          /\ UNCHANGED <<calls, stopped>>

RecorderNext == Call \/ Answer \/ Stop \/ Finish
=============================================================================
