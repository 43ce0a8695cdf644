---------------------------- MODULE VideoCapture ----------------------------
(***************************************************************************)
(* Recording to a file: com/herohan/uvcapp/VideoCapture.java.  Four threads *)
(* share its fields:                                                       *)
(*                                                                         *)
(*   ui     the caller of startRecording, stopRecording and release (the    *)
(*          handler thread of CameraHelper);                               *)
(*   video  videoEncode, on mVideoHandler;                                 *)
(*   audio  audioEncode, on mAudioHandler;                                 *)
(*   exec   the executor of mRecordingFuture, which sets the encoders up    *)
(*          again after each recording.                                    *)
(*                                                                         *)
(* MediaCodec, MediaMuxer and AudioRecord are external: a codec must be     *)
(* configured to be started, tells its output format once, before its data, *)
(* and ends its output after its input was ended; a muxer takes tracks      *)
(* until it is started and may refuse to stop without a key frame.  A       *)
(* section under mMuxerLock is one step.  An exception nothing catches on a *)
(* handler thread ends the process ("crashed").  The camera surface and its *)
(* registration with the renderer, with the start that is refused without   *)
(* one (299-304), file descriptors and their failing close (836-844),       *)
(* setConfig and setResolution and the reading of audio samples are left    *)
(* out; so are exceptions of initMediaMuxer other than IOException          *)
(* (1089-1129), which the catch at 413 lets pass.                           *)
(***************************************************************************)
EXTENDS Naturals, Sequences, FiniteSets

CONSTANTS
    MaxRecordings,  \* bound on the calls of startRecording
    MaxDisturbed,   \* bound on the kinds of trouble met
    Documented      \* the caller starts as startRecording documents: only after
                    \* onVideoSaved or onError was called for the call before

ASSUME RecordingAssumption ==
    MaxRecordings \in Nat /\ MaxDisturbed \in Nat /\ Documented \in BOOLEAN

VARIABLES
    audioWanted,    \* mConfig.getAudioCaptureEnable()
    pc,             \* of each thread
    rec,            \* calls of startRecording so far
    mEndOfVideoStreamSignal, mEndOfAudioStreamSignal, mEndOfAudioVideoSignal,
    mIsFirstVideoKeyFrameWrite, mIsRecording, mIsAudioEnabled,
    mMuxer, mMuxerStarted,
    tracks,         \* the tracks whose index is not -1
    muxTracks,      \* the tracks mMuxer really has
    codec,          \* states of mVideoEncoder and mAudioEncoder
    format,         \* the codecs that told their format since they started
    inputEnded,     \* signalEndOfInputStream was called
    mAudioRecorder,
    initFailed,     \* the encoders whose init status is an error
    mRecordingFuture,   \* the recording it was created for, 0 if null
    executed,       \* the futures handed to the executor
    queue,          \* tasks of the video, audio and executor threads
    quit,           \* the handler threads that were told to quit
    job,            \* the recording each of those threads is working for
    errorOccurred,  \* videoEncode's local variable
    mRecordingWaitRelease, released,
    outcome,        \* the callbacks each call of startRecording got
    keyFrames,      \* the recordings whose file has a key frame
    stopped,        \* the recordings stopRecording was called for
    disturbed       \* what went wrong so far

signals == <<mEndOfVideoStreamSignal, mEndOfAudioStreamSignal,
             mEndOfAudioVideoSignal>>
flags == <<mIsFirstVideoKeyFrameWrite, mIsRecording, mIsAudioEnabled>>
muxVars == <<mMuxer, mMuxerStarted, tracks, muxTracks>>
codecVars == <<codec, format, inputEnded, mAudioRecorder, initFailed>>
taskVars == <<mRecordingFuture, executed, queue, quit>>
runVars == <<job, errorOccurred>>
lifeVars == <<audioWanted, rec, mRecordingWaitRelease, released, stopped>>
resultVars == <<outcome, keyFrames, disturbed>>
stateVars == <<signals, flags, muxVars, codecVars, taskVars, runVars, lifeVars,
               resultVars>>
vars == <<pc, stateVars>>

Recording == 1 .. MaxRecordings
Thread == {"ui", "video", "audio", "exec"}
Stream == {"video", "audio"}

\* "mic": the microphone could not be started; "codec": a codec failed; "io":
\* the file could not be created; "early": startRecording was called before
\* everything of the recording before was over.
Disturb(d) == /\ disturbed' = disturbed \cup {d}
              /\ Cardinality(disturbed') <= MaxDisturbed

\* No thread goes on once the process has ended.
Crashed == \E t \in Thread : pc[t] = "crashed"
Goto(t, label) == ~Crashed /\ pc' = [pc EXCEPT ![t] = label]
Move(t, from, to) == pc[t] = from /\ Goto(t, to)
Report(r, what) == outcome' = [outcome EXCEPT ![r] = @ \cup {what}]
Over(r) == outcome[r] \cap {"saved", "short", "error"} # {}

\* Nothing is going on or pending.
Idle == /\ \A t \in Thread : pc[t] = "idle"
        /\ \A t \in Thread \ {"ui"} : queue[t] = << >>

Post(t, r) == [queue EXCEPT ![t] = IF t \in quit THEN @ ELSE Append(@, r)]

\* mExecutor.execute(mRecordingFuture): a FutureTask runs only once.
Execute ==
    /\ executed' = executed \cup {mRecordingFuture}
    /\ queue' = IF mRecordingFuture \in executed THEN queue
                ELSE Post("exec", mRecordingFuture)
    /\ UNCHANGED <<mRecordingFuture, quit>>

Take(t, to) ==
    /\ Move(t, "idle", to) /\ queue[t] # << >>
    /\ job' = [job EXCEPT ![t] = Head(queue[t])]
    /\ queue' = [queue EXCEPT ![t] = Tail(@)]
    /\ UNCHANGED <<mRecordingFuture, executed, quit>>

releaseAudioInputResource ==
    /\ quit' = quit \cup {"audio"}
    /\ codec' = [codec EXCEPT !["audio"] = "null"]
    /\ mAudioRecorder' = "null"

releaseResources ==
    /\ quit' = quit \cup Stream
    /\ codec' = [s \in Stream |-> "null"]
    /\ mAudioRecorder' = "null"

----------------------------------------------------------------------------
(* ui: startRecording *)

startRecording ==
    /\ Move("ui", "idle", "check")
    /\ ~released /\ rec < MaxRecordings
    /\ Documented => \A r \in 1 .. rec : Over(r)
    /\ rec' = rec + 1
    /\ mIsFirstVideoKeyFrameWrite' = FALSE
    /\ IF Idle THEN UNCHANGED disturbed ELSE Disturb("early")
    /\ UNCHANGED <<signals, mIsRecording, mIsAudioEnabled, muxVars, codecVars,
                   taskVars, runVars, audioWanted, mRecordingWaitRelease,
                   released, stopped, outcome, keyFrames>>

\* An encoder could not be set up, or a recording is in progress.
Refuses == initFailed # {} \/ ~mEndOfAudioVideoSignal

\* Mutant: the refused caller is not told.
startCheckSilently ==
    /\ \/ Refuses /\ Move("ui", "check", "idle")
       \/ ~Refuses /\ Move("ui", "check", "audio")
    /\ UNCHANGED stateVars

startCheck ==
    /\ \/ Refuses /\ Move("ui", "check", "idle") /\ Report(rec, "error")
       \/ ~Refuses /\ Move("ui", "check", "audio") /\ UNCHANGED outcome
    /\ UNCHANGED <<signals, flags, muxVars, codecVars, taskVars, runVars,
                   lifeVars, keyFrames, disturbed>>

\* The microphone is started.  The recorder is used without a test: the call
\* ends with a NullPointerException if there is none (342), or if its start
\* threw, which also released it (355).
startAudio ==
    /\ \/ /\ ~mIsAudioEnabled /\ Move("ui", "audio", "future")
          /\ UNCHANGED <<mIsAudioEnabled, codec, mAudioRecorder, quit,
                         disturbed>>
       \/ /\ mIsAudioEnabled /\ mAudioRecorder = "null"
          /\ Move("ui", "audio", "idle")
          /\ UNCHANGED <<mIsAudioEnabled, codec, mAudioRecorder, quit,
                         disturbed>>
       \/ /\ mIsAudioEnabled /\ mAudioRecorder # "null"
          /\ Move("ui", "audio", "future")
          /\ mAudioRecorder' = "recording"
          /\ UNCHANGED <<mIsAudioEnabled, codec, quit, disturbed>>
       \/ /\ mIsAudioEnabled /\ mAudioRecorder # "null"
          /\ Move("ui", "audio", "future") \/ Move("ui", "audio", "idle")
          /\ mIsAudioEnabled' = FALSE /\ releaseAudioInputResource
          /\ Disturb("mic")
    /\ UNCHANGED <<signals, mIsFirstVideoKeyFrameWrite, mIsRecording, muxVars,
                   format, inputEnded, initFailed, mRecordingFuture, executed,
                   queue, runVars, lifeVars, outcome, keyFrames>>

newFuture ==
    /\ Move("ui", "future", "encoders")
    /\ mRecordingFuture' = rec
    /\ UNCHANGED <<signals, flags, muxVars, codecVars, executed, queue, quit,
                   runVars, lifeVars, resultVars>>

\* The codecs of these streams are started.
Started(S) ==
    /\ codec' = [s \in Stream |-> IF s \in S THEN "running" ELSE codec[s]]
    /\ format' = format \ S
    /\ inputEnded' = IF S = {} THEN inputEnded ELSE FALSE

\* The streams to record, and those of them that can be started now.
Recorded == IF mIsAudioEnabled THEN Stream ELSE {"video"}
Startable == {s \in Recorded : codec[s] = "configured"}

startEncoders ==
    /\ Recorded = Startable /\ Started(Recorded)
    /\ Move("ui", "encoders", "muxer")
    /\ UNCHANGED <<signals, flags, muxVars, mAudioRecorder, initFailed,
                   taskVars, runVars, lifeVars, resultVars>>

\* start throws.  An IllegalStateException ends the call with onError; the
\* NullPointerException of an audio encoder that was released ends it silently.
encodersRefuse ==
    /\ Move("ui", "encoders", "idle")
    /\ \/ /\ Startable # Recorded /\ Started(Startable \ {"audio"})
          /\ UNCHANGED disturbed
       \/ /\ Disturb("codec")
          /\ \E s \in Recorded : Started(IF s = "video" THEN {}
                                        ELSE Startable \ {"audio"})
    /\ IF /\ "audio" \in Recorded /\ "video" \in Startable
          /\ codec["audio"] = "null"
       THEN UNCHANGED <<taskVars, outcome>>
       ELSE Execute /\ Report(rec, "error")
    /\ UNCHANGED <<signals, flags, muxVars, mAudioRecorder, initFailed,
                   runVars, lifeVars, keyFrames>>

initMediaMuxer ==
    /\ \/ /\ Move("ui", "muxer", "begin")
          /\ mMuxer' = "open" /\ muxTracks' = {}
          /\ UNCHANGED <<taskVars, outcome, disturbed>>
       \/ /\ Move("ui", "muxer", "idle")
          /\ Execute /\ Report(rec, "error") /\ Disturb("io")
          /\ UNCHANGED <<mMuxer, muxTracks>>
    /\ UNCHANGED <<signals, flags, mMuxerStarted, tracks, codecVars, runVars,
                   lifeVars, keyFrames>>

\* Mutant: a stop the recording before did not take is still signalled.
SignalsClearedBut == /\ UNCHANGED mEndOfVideoStreamSignal
                     /\ mEndOfAudioStreamSignal' = FALSE
                     /\ mEndOfAudioVideoSignal' = FALSE

SignalsCleared == /\ mEndOfVideoStreamSignal' = FALSE
                  /\ mEndOfAudioStreamSignal' = FALSE
                  /\ mEndOfAudioVideoSignal' = FALSE

beginRecording ==
    /\ Move("ui", "begin", "post")
    /\ SignalsCleared /\ mIsRecording' = TRUE /\ Report(rec, "start")
    /\ UNCHANGED <<mIsFirstVideoKeyFrameWrite, mIsAudioEnabled, muxVars,
                   codecVars, taskVars, runVars, lifeVars, keyFrames,
                   disturbed>>

postEncoding ==
    /\ Move("ui", "post", "idle")
    /\ queue' = [t \in DOMAIN queue |->
                    IF t \in Recorded THEN Post(t, rec)[t] ELSE queue[t]]
    /\ UNCHANGED <<signals, flags, muxVars, codecVars, mRecordingFuture,
                   executed, quit, runVars, lifeVars, resultVars>>

----------------------------------------------------------------------------
(* ui: stopRecording and release *)

Stops == IF rec > 0 /\ "start" \in outcome[rec]
         THEN stopped \cup {rec} ELSE stopped

stopRecording ==
    /\ ~released /\ pc["ui"] = "idle" /\ stopped' = Stops
    /\ Goto("ui", IF mIsRecording THEN "stop" ELSE "idle")
    /\ UNCHANGED <<signals, flags, muxVars, codecVars, taskVars, runVars,
                   audioWanted, rec, mRecordingWaitRelease, released,
                   resultVars>>

\* Mutant: the video signal is set also when there is audio to be stopped first.
StopSignalVideo == /\ mEndOfVideoStreamSignal' = TRUE
                   /\ mEndOfAudioStreamSignal' = mIsAudioEnabled

StopSignal ==
    IF mIsAudioEnabled
    THEN mEndOfAudioStreamSignal' = TRUE /\ UNCHANGED mEndOfVideoStreamSignal
    ELSE mEndOfVideoStreamSignal' = TRUE /\ UNCHANGED mEndOfAudioStreamSignal

stopSignal ==
    /\ Move("ui", "stop", "idle") \/ Move("ui", "releaseStop", "release")
    /\ StopSignal
    /\ UNCHANGED <<mEndOfAudioVideoSignal, flags, muxVars, codecVars, taskVars,
                   runVars, lifeVars, resultVars>>

release ==
    /\ Move("ui", "idle", IF mIsRecording THEN "releaseStop" ELSE "release")
    /\ ~released /\ released' = TRUE /\ stopped' = Stops
    /\ UNCHANGED <<signals, flags, muxVars, codecVars, taskVars, runVars,
                   audioWanted, rec, mRecordingWaitRelease, resultVars>>

\* A recording that was ever started leaves the release to its future.
releaseLater ==
    /\ Move("ui", "release", "idle")
    /\ mRecordingFuture # 0 /\ mRecordingWaitRelease' = TRUE
    /\ UNCHANGED <<signals, flags, muxVars, codecVars, taskVars, runVars,
                   audioWanted, rec, released, stopped, resultVars>>

releaseNow ==
    /\ Move("ui", "release", "idle")
    /\ mRecordingFuture = 0 /\ releaseResources
    /\ UNCHANGED <<signals, flags, muxVars, format, inputEnded, initFailed,
                   mRecordingFuture, executed, queue, runVars, lifeVars,
                   resultVars>>

----------------------------------------------------------------------------
(* The muxer *)

\* Mutant: the video does not wait for the audio.
CompletesFirst(s) == s = "video" \/ "video" \in tracks

\* The track completes those the muxer is to have.
Completes(s) ==
    CASE s = "video" -> mIsAudioEnabled => "audio" \in tracks
      [] s = "audio" -> "video" \in tracks

addTrack(s) ==
    /\ mMuxer = "open"
    /\ tracks' = tracks \cup {s} /\ muxTracks' = muxTracks \cup {s}
    /\ mMuxer' = IF Completes(s) THEN "started" ELSE "open"
    /\ mMuxerStarted' = (mMuxerStarted \/ Completes(s))

\* addTrack throws: on a muxer that is null, or on one that was started.
TrackThrows == mMuxer # "open"

----------------------------------------------------------------------------
(* video: videoEncode *)

videoEncode ==
    /\ Take("video", "check")
    /\ errorOccurred' = FALSE
    /\ UNCHANGED <<signals, flags, muxVars, codecVars, lifeVars, resultVars>>

videoCheck ==
    /\ Move("video", "check", "dequeue")
    /\ mEndOfVideoStreamSignal => codec["video"] = "running"
    /\ inputEnded' = (inputEnded \/ mEndOfVideoStreamSignal)
    /\ mEndOfVideoStreamSignal' = FALSE
    /\ UNCHANGED <<mEndOfAudioStreamSignal, mEndOfAudioVideoSignal, flags,
                   muxVars, codec, format, mAudioRecorder, initFailed,
                   taskVars, runVars, lifeVars, resultVars>>

\* The encoder or the muxer throws; so may the encoder when its input is ended
\* a second time.  An IllegalStateException is reported, a NullPointerException
\* is not caught.
videoFails ==
    /\ \/ /\ pc["video"] = "check" /\ mEndOfVideoStreamSignal
          /\ codec["video"] # "running" \/ inputEnded
          /\ UNCHANGED <<format, disturbed>>
       \/ /\ pc["video"] = "dequeue" /\ codec["video"] # "running"
          /\ UNCHANGED <<format, disturbed>>
       \/ /\ pc["video"] = "dequeue" /\ "video" \notin format
          /\ codec["video"] = "running" /\ TrackThrows
          /\ format' = format \cup {"video"} /\ UNCHANGED disturbed
       \/ /\ pc["video"] = "dequeue" /\ Disturb("codec")
          /\ UNCHANGED format
    /\ IF "null" \in {codec["video"], mMuxer}
       THEN Goto("video", "crashed") /\ UNCHANGED <<errorOccurred, outcome>>
       ELSE /\ Goto("video", "stop")
            /\ errorOccurred' = TRUE /\ Report(job["video"], "error")
    /\ UNCHANGED <<signals, flags, muxVars, codec, inputEnded, mAudioRecorder,
                   initFailed, taskVars, job, lifeVars, keyFrames>>

videoTryAgain ==
    /\ Move("video", "dequeue", "check") /\ codec["video"] = "running"
    /\ UNCHANGED stateVars

videoFormat ==
    /\ Move("video", "dequeue", "check") /\ codec["video"] = "running"
    /\ "video" \notin format /\ format' = format \cup {"video"}
    /\ addTrack("video")
    /\ UNCHANGED <<signals, flags, codec, inputEnded, mAudioRecorder,
                   initFailed, taskVars, runVars, lifeVars, resultVars>>

\* writeVideoEncodedBuffer, for a key frame or another.
writeVideo ==
    /\ Move("video", "dequeue", "check") /\ codec["video"] = "running"
    /\ "video" \in format /\ mMuxerStarted /\ mMuxer = "started"
    /\ \E isKeyFrame \in BOOLEAN :
          /\ mIsFirstVideoKeyFrameWrite' =
                (mIsFirstVideoKeyFrameWrite \/ isKeyFrame)
          /\ keyFrames' = IF isKeyFrame THEN keyFrames \cup {job["video"]}
                          ELSE keyFrames
    /\ UNCHANGED <<signals, mIsRecording, mIsAudioEnabled, muxVars, codecVars,
                   taskVars, runVars, lifeVars, outcome, disturbed>>

videoEos ==
    /\ Move("video", "dequeue", "stop")
    /\ codec["video"] = "running" /\ inputEnded
    /\ UNCHANGED stateVars

\* An exception of stop is reported.
stopVideoEncoder ==
    /\ Move("video", "stop", "muxer") /\ codec["video"] # "null"
    /\ codec' = [codec EXCEPT !["video"] = "uninitialized"]
    /\ \/ UNCHANGED <<errorOccurred, outcome, disturbed>>
       \/ /\ errorOccurred' = TRUE
          /\ Report(job["video"], "error") /\ Disturb("codec")
    /\ UNCHANGED <<signals, flags, muxVars, format, inputEnded, mAudioRecorder,
                   initFailed, taskVars, job, lifeVars, keyFrames>>

stopMuxer ==
    /\ Move("video", "muxer", "key")
    /\ mMuxer' = "null" /\ muxTracks' = {}
    /\ UNCHANGED <<signals, flags, mMuxerStarted, tracks, codecVars, taskVars,
                   runVars, lifeVars, resultVars>>

\* mMuxer.stop() throws: the muxer stays, and the result is not checked.
stopMuxerFails ==
    /\ Move("video", "muxer", "signal")
    /\ mMuxer # "null" /\ mMuxerStarted
    /\ IF job["video"] \in keyFrames THEN Disturb("io") ELSE UNCHANGED disturbed
    /\ errorOccurred' = TRUE
    /\ Report(job["video"],
              IF mIsFirstVideoKeyFrameWrite THEN "error" ELSE "short")
    /\ UNCHANGED <<signals, flags, muxVars, codecVars, taskVars, job, lifeVars,
                   keyFrames>>

\* Mutant: a recording without a key frame is taken for a good one.
KeyFrameArrivedAlways == TRUE

KeyFrameArrived == mIsFirstVideoKeyFrameWrite

\* A recording without a key frame is deleted and reported as too short.
removeRecordingResultIfNoVideoKeyFrameArrived ==
    /\ Move("video", "key", "signal")
    /\ \/ KeyFrameArrived /\ UNCHANGED <<errorOccurred, outcome>>
       \/ /\ ~KeyFrameArrived
          /\ errorOccurred' = TRUE /\ Report(job["video"], "short")
    /\ UNCHANGED <<signals, flags, muxVars, codecVars, taskVars, job, lifeVars,
                   keyFrames, disturbed>>

videoSignal ==
    /\ Move("video", "signal", "report")
    /\ mMuxerStarted' = FALSE
    /\ mEndOfAudioVideoSignal' = TRUE
    /\ mIsFirstVideoKeyFrameWrite' = FALSE
    /\ UNCHANGED <<mEndOfVideoStreamSignal, mEndOfAudioStreamSignal,
                   mIsRecording, mIsAudioEnabled, mMuxer, tracks, muxTracks,
                   codecVars, taskVars, runVars, lifeVars, resultVars>>

onVideoSaved ==
    /\ Move("video", "report", "execute")
    /\ \/ errorOccurred /\ UNCHANGED outcome
       \/ ~errorOccurred /\ Report(job["video"], "saved")
    /\ UNCHANGED <<signals, flags, muxVars, codecVars, taskVars, runVars,
                   lifeVars, keyFrames, disturbed>>

\* Mutant: a failed recording does not set the encoders up again.
executeIfSaved ==
    /\ Move("video", "execute", "idle")
    /\ IF errorOccurred THEN UNCHANGED taskVars ELSE Execute
    /\ UNCHANGED <<signals, flags, muxVars, codecVars, runVars, lifeVars,
                   resultVars>>

\* The field is read now: it holds the future of the latest startRecording.
executeFuture ==
    /\ Move("video", "execute", "idle") /\ Execute
    /\ UNCHANGED <<signals, flags, muxVars, codecVars, runVars, lifeVars,
                   resultVars>>

----------------------------------------------------------------------------
(* audio: audioEncode *)

audioEncode ==
    /\ Take("audio", "loop")
    /\ UNCHANGED <<signals, flags, muxVars, codecVars, errorOccurred, lifeVars,
                   resultVars>>

audioLoop ==
    /\ pc["audio"] = "loop"
    /\ Goto("audio", IF mIsRecording THEN "check" ELSE "stop")
    /\ UNCHANGED stateVars

audioCheck ==
    /\ Move("audio", "check", "encode")
    /\ mIsRecording' = (mIsRecording /\ ~mEndOfAudioStreamSignal)
    /\ mEndOfAudioStreamSignal' = FALSE
    /\ UNCHANGED <<mEndOfVideoStreamSignal, mEndOfAudioVideoSignal,
                   mIsFirstVideoKeyFrameWrite, mIsAudioEnabled, muxVars,
                   codecVars, taskVars, runVars, lifeVars, resultVars>>

\* Samples are read and given to the encoder; an exception of it is caught.
audioInput ==
    /\ pc["audio"] = "encode"
    /\ Goto("audio", IF codec["audio"] # "null" /\ mAudioRecorder # "null"
                     THEN "output" ELSE "loop")
    /\ UNCHANGED stateVars

\* No output, or samples.
audioOutput ==
    /\ Move("audio", "output", "loop") /\ codec["audio"] = "running"
    /\ UNCHANGED stateVars

audioFormat ==
    /\ Move("audio", "output", "loop") /\ codec["audio"] = "running"
    /\ "audio" \notin format /\ format' = format \cup {"audio"}
    /\ addTrack("audio")
    /\ UNCHANGED <<signals, flags, codec, inputEnded, mAudioRecorder,
                   initFailed, taskVars, runVars, lifeVars, resultVars>>

\* Nothing catches what the encoder's output, the muxer or a null field throw.
audioCrashes ==
    /\ \/ /\ Move("audio", "output", "crashed")
          /\ \/ codec["audio"] # "running"
             \/ "audio" \notin format /\ TrackThrows
       \/ Move("audio", "stop", "crashed") /\ mAudioRecorder = "null"
       \/ Move("audio", "stopEncoder", "crashed") /\ codec["audio"] = "null"
    /\ UNCHANGED stateVars

\* An exception of stop is reported.
MayReport(d) == \/ UNCHANGED <<outcome, disturbed>>
                \/ Report(job["audio"], "error") /\ Disturb(d)

stopAudioRecorder ==
    /\ Move("audio", "stop", "stopEncoder")
    /\ mAudioRecorder # "null" /\ mAudioRecorder' = "ready" /\ MayReport("mic")
    /\ UNCHANGED <<signals, flags, muxVars, codec, format, inputEnded,
                   initFailed, taskVars, runVars, lifeVars, keyFrames>>

stopAudioEncoder ==
    /\ Move("audio", "stopEncoder", "signal")
    /\ codec["audio"] # "null" /\ MayReport("codec")
    /\ codec' = [codec EXCEPT !["audio"] = "uninitialized"]
    /\ UNCHANGED <<signals, flags, muxVars, format, inputEnded, mAudioRecorder,
                   initFailed, taskVars, runVars, lifeVars, keyFrames>>

\* Mutant: the end of the audio is not passed on.
PassesNothing == UNCHANGED mEndOfVideoStreamSignal

PassesEnd == mEndOfVideoStreamSignal' = TRUE

audioSignal ==
    /\ Move("audio", "signal", "idle") /\ PassesEnd
    /\ UNCHANGED <<mEndOfAudioStreamSignal, mEndOfAudioVideoSignal, flags,
                   muxVars, codecVars, taskVars, runVars, lifeVars,
                   resultVars>>

----------------------------------------------------------------------------
(* exec: mRecordingFuture *)

runFuture ==
    /\ Take("exec", IF mRecordingWaitRelease THEN "release" ELSE "video")
    /\ UNCHANGED <<signals, flags, muxVars, codecVars, errorOccurred, lifeVars,
                   resultVars>>

futureReleases ==
    /\ Move("exec", "release", "idle")
    /\ mRecordingWaitRelease' = FALSE /\ mIsRecording' = FALSE
    /\ releaseResources
    /\ UNCHANGED <<signals, mIsFirstVideoKeyFrameWrite, mIsAudioEnabled,
                   muxVars, format, inputEnded, initFailed, mRecordingFuture,
                   executed, queue, runVars, audioWanted, rec, released,
                   stopped, resultVars>>

\* setupEncoder.  An exception ends the future where it is thrown.
setupVideo ==
    /\ \/ /\ codec["video"] = "null" /\ Move("exec", "video", "idle")
          /\ UNCHANGED <<codec, initFailed, disturbed>>
       \/ /\ codec["video"] # "null" /\ Move("exec", "video", "surface")
          /\ codec' = [codec EXCEPT !["video"] = "configured"]
          /\ initFailed' = initFailed \ {"video"} /\ UNCHANGED disturbed
       \/ /\ codec["video"] # "null" /\ Move("exec", "video", "idle")
          /\ codec' = [codec EXCEPT !["video"] = "uninitialized"]
          /\ initFailed' = initFailed \cup {"video"} /\ Disturb("codec")
    /\ UNCHANGED <<signals, flags, muxVars, format, inputEnded, mAudioRecorder,
                   taskVars, runVars, lifeVars, outcome, keyFrames>>

\* createInputSurface throws if the encoder was started in the meantime.
setupSurface ==
    /\ pc["exec"] = "surface"
    /\ Goto("exec", IF codec["video"] = "configured" THEN "audio" ELSE "idle")
    /\ UNCHANGED stateVars

\* The audio encoder and a new AudioRecord, without which there is no audio.
setupAudio ==
    /\ \/ /\ ~audioWanted /\ Move("exec", "audio", "done")
          /\ mIsAudioEnabled' = FALSE
          /\ UNCHANGED <<codec, mAudioRecorder, disturbed>>
       \/ /\ audioWanted /\ codec["audio"] = "null"
          /\ Move("exec", "audio", "idle") /\ mIsAudioEnabled' = TRUE
          /\ UNCHANGED <<codec, mAudioRecorder, disturbed>>
       \/ /\ audioWanted /\ codec["audio"] # "null"
          /\ Move("exec", "audio", "done")
          /\ codec' = [codec EXCEPT !["audio"] = "configured"]
          /\ \/ /\ mAudioRecorder' = "ready" /\ mIsAudioEnabled' = TRUE
                /\ UNCHANGED disturbed
             \/ /\ mAudioRecorder' = "null" /\ mIsAudioEnabled' = FALSE
                /\ Disturb("mic")
    /\ UNCHANGED <<signals, mIsFirstVideoKeyFrameWrite, mIsRecording, muxVars,
                   format, inputEnded, initFailed, taskVars, runVars, lifeVars,
                   outcome, keyFrames>>

\* The audio encoder cannot be configured.
setupAudioFails ==
    /\ Move("exec", "audio", "idle")
    /\ audioWanted /\ codec["audio"] # "null" /\ mIsAudioEnabled' = TRUE
    /\ codec' = [codec EXCEPT !["audio"] = "uninitialized"]
    /\ initFailed' = initFailed \cup {"audio"} /\ Disturb("codec")
    /\ UNCHANGED <<signals, mIsFirstVideoKeyFrameWrite, mIsRecording, muxVars,
                   format, inputEnded, mAudioRecorder, taskVars, runVars,
                   lifeVars, outcome, keyFrames>>

\* Mutant: the tracks of the recording before are not forgotten.
TracksKept == UNCHANGED tracks

TracksForgotten == tracks' = {}

setupDone ==
    /\ Move("exec", "done", "idle")
    /\ TracksForgotten /\ mIsRecording' = FALSE
    /\ UNCHANGED <<signals, mIsFirstVideoKeyFrameWrite, mIsAudioEnabled,
                   mMuxer, mMuxerStarted, muxTracks, codecVars, taskVars,
                   runVars, lifeVars, resultVars>>

----------------------------------------------------------------------------
\* After the constructor: the encoders are set up.
Init ==
    /\ audioWanted \in BOOLEAN
    /\ pc = [t \in Thread |-> "idle"] /\ rec = 0
    /\ mEndOfVideoStreamSignal = TRUE /\ mEndOfAudioStreamSignal = TRUE
    /\ mEndOfAudioVideoSignal = TRUE
    /\ mIsFirstVideoKeyFrameWrite = FALSE /\ mIsRecording = FALSE
    /\ mIsAudioEnabled = audioWanted
    /\ mMuxer = "null" /\ mMuxerStarted = FALSE /\ tracks = {} /\ muxTracks = {}
    /\ codec = [s \in Stream |-> IF s = "video" \/ audioWanted
                                 THEN "configured" ELSE "uninitialized"]
    /\ format = {} /\ inputEnded = FALSE /\ initFailed = {}
    /\ mAudioRecorder = IF audioWanted THEN "ready" ELSE "null"
    /\ mRecordingFuture = 0 /\ executed = {} /\ quit = {}
    /\ queue = [t \in Thread \ {"ui"} |-> << >>]
    /\ job = [t \in Thread \ {"ui"} |-> 0] /\ errorOccurred = FALSE
    /\ mRecordingWaitRelease = FALSE /\ released = FALSE /\ stopped = {}
    /\ outcome = [r \in Recording |-> {}] /\ keyFrames = {} /\ disturbed = {}

\* The calls of the application, and what they do then.
Calls == startRecording \/ stopRecording \/ release
UiStep == \/ startCheck \/ startAudio \/ newFuture \/ startEncoders
          \/ encodersRefuse \/ initMediaMuxer
          \/ beginRecording \/ postEncoding \/ stopSignal \/ releaseLater
          \/ releaseNow
VideoStep == \/ videoEncode \/ videoCheck \/ videoFails
             \/ videoTryAgain \/ videoFormat \/ writeVideo \/ videoEos
             \/ stopVideoEncoder \/ stopMuxer \/ stopMuxerFails
             \/ removeRecordingResultIfNoVideoKeyFrameArrived \/ videoSignal
             \/ onVideoSaved \/ executeFuture
AudioStep == \/ audioEncode \/ audioLoop \/ audioCheck \/ audioInput
             \/ audioOutput \/ audioFormat \/ audioCrashes
             \/ stopAudioRecorder \/ stopAudioEncoder \/ audioSignal
ExecStep == \/ runFuture \/ futureReleases \/ setupVideo \/ setupSurface
            \/ setupAudio \/ setupAudioFails \/ setupDone

Next == Calls \/ UiStep \/ VideoStep \/ AudioStep \/ ExecStep

\* Threads are scheduled, and an encoder whose input was ended ends its output.
Fairness == /\ WF_vars(UiStep) /\ WF_vars(VideoStep) /\ WF_vars(AudioStep)
            /\ WF_vars(ExecStep) /\ SF_vars(videoEos)

Spec == Init /\ [][Next]_vars
FairSpec == Spec /\ Fairness

----------------------------------------------------------------------------
(* Properties *)

UiPlaces == {"idle", "check", "audio", "future", "encoders", "muxer", "begin",
             "post", "stop", "releaseStop", "release"}
VideoPlaces == {"idle", "check", "dequeue", "stop", "muxer", "key", "signal",
                "report", "execute", "crashed"}
AudioPlaces == {"idle", "loop", "check", "encode", "output", "stop",
                "stopEncoder", "signal", "crashed"}
ExecPlaces == {"idle", "release", "video", "surface", "audio", "done"}

PcTypeOK ==
    /\ pc \in [Thread -> UiPlaces \cup VideoPlaces \cup AudioPlaces
                         \cup ExecPlaces]
    /\ pc["ui"] \in UiPlaces /\ pc["video"] \in VideoPlaces
    /\ pc["audio"] \in AudioPlaces /\ pc["exec"] \in ExecPlaces

FlagsTypeOK ==
    /\ mEndOfVideoStreamSignal \in BOOLEAN /\ mEndOfAudioStreamSignal \in BOOLEAN
    /\ mEndOfAudioVideoSignal \in BOOLEAN /\ mIsRecording \in BOOLEAN
    /\ mIsFirstVideoKeyFrameWrite \in BOOLEAN /\ mIsAudioEnabled \in BOOLEAN
    /\ audioWanted \in BOOLEAN /\ released \in BOOLEAN
    /\ mRecordingWaitRelease \in BOOLEAN /\ errorOccurred \in BOOLEAN

\* There is no AudioRecord without its encoder.
MediaTypeOK ==
    /\ mMuxer \in {"null", "open", "started"} /\ mMuxerStarted \in BOOLEAN
    /\ tracks \subseteq Stream /\ muxTracks \subseteq Stream
    /\ codec \in [Stream -> {"uninitialized", "configured", "running", "null"}]
    /\ format \subseteq Stream /\ inputEnded \in BOOLEAN
    /\ mAudioRecorder \in {"null", "ready", "recording"}
    /\ mAudioRecorder # "null" => codec["audio"] # "null"
    /\ initFailed \subseteq Stream

TaskTypeOK ==
    /\ rec \in 0 .. MaxRecordings
    /\ mRecordingFuture \in 0 .. MaxRecordings /\ executed \subseteq Recording
    /\ queue \in [Thread \ {"ui"} -> Seq(Recording)] /\ quit \subseteq Stream
    /\ job \in [Thread \ {"ui"} -> 0 .. MaxRecordings]

ResultTypeOK ==
    /\ outcome \in [Recording -> SUBSET {"start", "saved", "short", "error"}]
    /\ keyFrames \subseteq Recording /\ stopped \subseteq Recording
    /\ disturbed \subseteq {"mic", "codec", "io", "early"}

\* The variables have the types of their declarations.
TypeOK ==
    PcTypeOK /\ FlagsTypeOK /\ MediaTypeOK /\ TaskTypeOK /\ ResultTypeOK

\* videoEncode: a recording is reported as saved only if its file has a key
\* frame; unless startRecording came too early it is reported as too short only
\* if its file has none; and it is not reported as saved and as failed.
VerdictRight ==
    \A r \in Recording :
        /\ "saved" \in outcome[r] => r \in keyFrames
        /\ "short" \in outcome[r] /\ "early" \notin disturbed
              => r \notin keyFrames
        /\ "saved" \in outcome[r] /\ disturbed \subseteq {"io", "early"}
              => outcome[r] = {"start", "saved"}

\* The key frame check of videoEncode: a file with a key frame is never deleted
\* as one without.  It does not hold, since a rejected start resets the flag; no
\* run checks it (README, section 6).
KeyFrameKept ==
    \A r \in Recording : "short" \in outcome[r] => r \notin keyFrames

\* The two threads that add tracks start the muxer when it has the tracks of
\* this recording, neither sooner nor with those of the one before.
MuxerComplete ==
    mMuxerStarted /\ mMuxer = "started" /\ "early" \notin disturbed
        => muxTracks = Recorded

\* Unless a codec failed or startRecording came too early, no handler thread
\* meets an exception that ends the process.
NoCrash == Crashed => disturbed \cap {"codec", "early"} # {}

\* setupEncoder: after a recording, also one whose file could not be written,
\* the next can start as the first did.
ReadyWhenIdle ==
    Idle /\ ~released /\ disturbed \subseteq {"io"} =>
        /\ codec["video"] = "configured" /\ ~mIsRecording
        /\ mEndOfAudioVideoSignal /\ tracks = {} /\ ~mMuxerStarted
        /\ mIsAudioEnabled = audioWanted
        /\ audioWanted => codec["audio"] = "configured"
                          /\ mAudioRecorder = "ready"

\* startRecording calls onStart or onError, whatever happens (but for the
\* exceptions the header leaves out).
EveryStartAnswered ==
    pc["ui"] = "idle" => \A r \in 1 .. rec : outcome[r] # {}

\* ... unless the microphone failed.
StartAnswered == "mic" \notin disturbed => EveryStartAnswered

\* A started recording that stopRecording or release was called for ends with
\* onVideoSaved or onError, unless the process ended.
StopEndsRecording ==
    \A r \in Recording : r \in stopped ~> Over(r) \/ Crashed

\* ... and unless startRecording came too early.
StopEnds ==
    \A r \in Recording :
        r \in stopped ~> Over(r) \/ Crashed \/ "early" \in disturbed

\* A release while a recording goes on or is wound up releases the encoders.
ReleaseCompletes ==
    mRecordingWaitRelease /\ mRecordingFuture \notin executed
        ~> \/ codec["video"] = "null" \/ Crashed
           \/ disturbed \cap {"early", "mic"} # {}

\* Something other than a file failed, or startRecording was called too early.
Troubled == ~(disturbed \subseteq {"io"})

\* The promise to the caller.
Caller == INSTANCE Recorder WITH calls <- rec, told <- outcome

\* startRecording, stopRecording and videoEncode keep it, whatever file could
\* not be written, as long as nothing else fails: no recording ends that was
\* not stopped, none is answered twice, none gets a verdict after onVideoSaved.
KeepsPromise ==
    /\ Caller!RecorderInit
    /\ [][Troubled' \/ Caller!RecorderNext]_(Caller!recorderVars)

=============================================================================
