------------------------- MODULE VideoCaptureProofs -------------------------
(***************************************************************************)
(* The safety properties of VideoCapture hold for any number of recordings *)
(* and any troubles, not only for those TLC runs through.                   *)
(*                                                                         *)
(* No single formula carries them: the invariants below build on each other *)
(* in the order they are given in.  FutureInv and OrderInv fix who a task   *)
(* belongs to; on them rest the verdicts (PendingInv, KeyInv, VerdictInv).  *)
(* Phases says that, unless startRecording comes too early, preparing,      *)
(* encoding and setting up take turns; Muxing, TracksInv and Calm say what   *)
(* state the muxer and the codecs are in then; Ready, that the executor     *)
(* restores all of it.  Each invariant has a Step lemma, one step per action *)
(* that can disturb it; the lemmas named ...Stay say which actions cannot.   *)
(* On all of them rests PromiseInv, under which each step is one of         *)
(* Recorder.                                                               *)
(***************************************************************************)
EXTENDS VideoCapture, TLAPS

Starting == {"check", "audio", "future", "encoders", "muxer", "begin", "post"}
NotBegun == Starting \ {"post"}
tasks == queue["video"]

\* The future of a call of startRecording is handed to the executor once.
FutureInv ==
    /\ pc["ui"] \in Starting => rec >= 1
    /\ mRecordingFuture <= rec /\ \A r \in executed : r <= rec
    /\ pc["ui"] \in {"check", "audio", "future"}
          => mRecordingFuture # rec /\ rec \notin executed
    /\ pc["ui"] \in {"encoders", "muxer", "begin", "post"}
          => mRecordingFuture = rec
    /\ tasks # << >> \/ pc["video"] # "idle" => mRecordingFuture # 0
    /\ pc["video"] # "idle" => job["video"] # 0
Outcomes == [Recording -> SUBSET {"start", "saved", "short", "error"}]

\* Recordings are encoded in the order of their starts.
OrderInv ==
    /\ \A i, j \in 1 .. Len(tasks) : i < j => tasks[i] < tasks[j]
    /\ \A i \in 1 .. Len(tasks) : job["video"] < tasks[i] /\ tasks[i] <= rec
    /\ job["video"] <= rec
    /\ pc["ui"] \in Starting =>
          job["video"] < rec /\ \A i \in 1 .. Len(tasks) : tasks[i] < rec

\* A recording that waits or goes on got no callback but onStart.
Encoding == {"check", "dequeue", "stop", "muxer", "key", "signal", "report"}
Clean == disturbed \subseteq {"io", "early"}
Pending ==
    /\ \A r \in Recording : r > rec => outcome[r] = {}
    /\ pc["ui"] \in NotBegun => outcome[rec] = {}
    /\ pc["ui"] = "post" => outcome[rec] = {"start"}
    /\ \A i \in 1 .. Len(tasks) : outcome[tasks[i]] = {"start"}
    /\ pc["video"] \in Encoding /\ ~errorOccurred
          => outcome[job["video"]] = {"start"}
PendingInv == Clean => Pending

\* The flag of the first key frame stands for the recording that goes on.
KeyInv ==
    /\ \A r \in keyFrames : r <= job["video"]
    /\ mIsFirstVideoKeyFrameWrite =>
          /\ pc["video"] \notin {"idle", "report", "execute"}
          /\ job["video"] \in keyFrames
    /\ pc["video"] \in {"signal", "report"} /\ ~errorOccurred
          => job["video"] \in keyFrames
    /\ /\ "early" \notin disturbed /\ ~mIsFirstVideoKeyFrameWrite
       /\ pc["video"] \notin {"idle", "signal", "report", "execute"}
       => job["video"] \notin keyFrames

\* A verdict is given on a recording that is over, once.
Past(r) == \/ r < job["video"]
           \/ r = job["video"] /\ pc["video"] \in {"idle", "execute"}
Wound(r) == \/ r < job["video"]
            \/ /\ r = job["video"]
               /\ pc["video"] \in {"signal", "report", "idle", "execute"}
VerdictInv ==
    \A r \in Recording :
        /\ "saved" \in outcome[r] => Past(r) /\ r \in keyFrames
        /\ "short" \in outcome[r] => Wound(r)
        /\ "saved" \in outcome[r] /\ Clean => outcome[r] = {"start", "saved"}
        /\ "short" \in outcome[r] /\ "early" \notin disturbed
              => r \notin keyFrames

\* The encoders are released only after release was called.
ReleasedInv ==
    /\ pc["ui"] \in Starting => ~released
    /\ \/ mRecordingWaitRelease \/ pc["ui"] \in {"release", "releaseStop"}
       \/ pc["exec"] = "release"
       => released

\* There is an AudioRecord as long as the microphone works, and a call of
\* startRecording is answered before it returns.
AnswerInv ==
    "mic" \notin disturbed =>
        /\ audioWanted /\ ~released => mAudioRecorder # "null"
        /\ mIsAudioEnabled => audioWanted
        /\ \A r \in 1 .. rec :
              r < rec \/ pc["ui"] \notin NotBegun => outcome[r] # {}

\* Unless startRecording comes too early, a call of it finds nothing going on,
\* and the encoders are not set up while a recording goes on.
Busy(t) == queue[t] # << >> \/ pc[t] # "idle"
Early == "early" \in disturbed
Phases ==
    /\ pc["ui"] \in Starting =>
          ~Busy("video") /\ ~Busy("audio") /\ ~Busy("exec")
            /\ rec \notin executed
    /\ ~(Busy("video") /\ Busy("exec"))
    /\ \A t \in Thread \ {"ui"} : /\ pc[t] # "idle" => queue[t] = << >>
                                  /\ Len(queue[t]) \in {0, 1}
    /\ Busy("video") => mRecordingFuture \notin executed
    /\ Busy("exec") => mRecordingFuture # 0
PhaseInv == ~Early => Phases

\* The encoders of a camera that is not released can be set up.
QuitInv == ~released => "video" \notin quit /\ codec["video"] # "null"

\* The muxer is open while a recording goes on, has the tracks whose index is
\* known, and is started when it has them all.
OpenVideo == {"check", "dequeue", "stop", "muxer", "crashed"}
Muxing ==
    /\ mMuxer = "open" =>
          /\ \/ pc["ui"] \in {"begin", "post"} \/ tasks # << >>
             \/ pc["video"] \in OpenVideo
          /\ tracks = muxTracks /\ tracks \subseteq Recorded
               /\ tracks # Recorded
          /\ ~mMuxerStarted
          /\ Busy("audio") => mIsAudioEnabled
          /\ "video" \in tracks => pc["video"] \in OpenVideo
    /\ mMuxerStarted => pc["video"] \in OpenVideo \cup {"key", "signal"}
    /\ mMuxerStarted /\ mMuxer = "started" =>
          tracks = muxTracks /\ muxTracks = Recorded
MuxInv == ~Early => Muxing

\* The tracks of the recording before are forgotten when the next one begins.
NoAudio == mIsAudioEnabled /\ mAudioRecorder = "null"
TracksInv ==
    ~Early /\ tracks # {} =>
        /\ pc["ui"] \notin Starting \ {"check", "audio"}
        /\ pc["ui"] = "audio" => NoAudio
        /\ \/ Busy("video") \/ Busy("exec") \/ released \/ NoAudio
           \/ initFailed # {} /\ pc["ui"] # "audio"
SetupInv == ~Early /\ pc["exec"] = "surface" => codec["video"] = "configured"

\* While a recording is being taken its encoders run, and the audio thread ends
\* before the video thread does.
Taking == \/ pc["ui"] \in {"begin", "post"} \/ tasks # << >>
          \/ pc["video"] \in {"check", "dequeue"}
Listening ==
    /\ mIsAudioEnabled /\ mAudioRecorder # "null"
    /\ ~mEndOfVideoStreamSignal /\ ~inputEnded
    /\ tasks # << >> \/ pc["video"] \in {"check", "dequeue"}
    /\ pc["audio"] # "signal" => codec["audio"] = "running"
TakenRight ==
    /\ pc["ui"] = "muxer" \/ Taking =>
          /\ codec["video"] = "running"
          /\ \A s \in Recorded : s \in format <=> s \in tracks
    /\ Taking => mMuxer = "open" \/ (mMuxer = "started" /\ mMuxerStarted)
PreparedRight ==
    /\ pc["ui"] \in {"future", "encoders", "muxer", "begin", "post"}
       /\ mIsAudioEnabled => mAudioRecorder # "null"
    /\ pc["ui"] \in {"muxer", "begin", "post"} =>
          ~inputEnded /\ (mIsAudioEnabled => codec["audio"] = "running")
    /\ pc["ui"] = "post" => ~mEndOfVideoStreamSignal
Calm ==
    /\ TakenRight /\ PreparedRight
    /\ Busy("audio") /\ "codec" \notin disturbed => Listening
    /\ NoCrash
CalmInv == ~Early => Calm

\* Whatever file could not be written, the executor leaves all as it was when
\* the VideoCapture was new.
OnlyIo == disturbed \subseteq {"io"} /\ ~released
Resting == /\ ~Busy("exec") /\ ~Busy("video")
           /\ pc["ui"] \notin {"muxer", "begin", "post"}
AudioReady ==
    /\ mIsAudioEnabled = audioWanted
    /\ audioWanted => codec["audio"] = "configured" /\ mAudioRecorder = "ready"
Ready ==
    /\ initFailed = {}
    /\ \/ Busy("exec") \/ pc["video"] \in {"report", "execute"}
       \/ ~Busy("video") /\ pc["ui"] # "post"
       => mEndOfAudioVideoSignal /\ ~mMuxerStarted
    /\ pc["exec"] \in {"audio", "done"} => codec["video"] = "configured"
    /\ pc["exec"] = "done" => AudioReady
    /\ Resting =>
          /\ codec["video"] = "configured" /\ ~mIsRecording
          /\ mIsAudioEnabled = audioWanted
          /\ audioWanted => codec["audio"] = "configured"
          /\ pc["ui"] \notin {"future", "encoders"} => AudioReady
ReadyInv == OnlyIo => Ready
----------------------------------------------------------------------------
(* The steps, one by one. *)

\* The steps of all threads.
LEMMA NextIs ==
    ASSUME Next
    PROVE  \/ startRecording
           \/ startCheck
           \/ startAudio
           \/ newFuture
           \/ startEncoders
           \/ encodersRefuse
           \/ initMediaMuxer
           \/ beginRecording
           \/ postEncoding
           \/ stopRecording
           \/ stopSignal
           \/ release
           \/ releaseLater
           \/ releaseNow
           \/ videoEncode
           \/ videoCheck
           \/ videoFails
           \/ videoTryAgain
           \/ videoFormat
           \/ writeVideo
           \/ videoEos
           \/ stopVideoEncoder
           \/ stopMuxer
           \/ stopMuxerFails
           \/ removeRecordingResultIfNoVideoKeyFrameArrived
           \/ videoSignal
           \/ onVideoSaved
           \/ executeFuture
           \/ audioEncode
           \/ audioLoop
           \/ audioCheck
           \/ audioInput
           \/ audioOutput
           \/ audioFormat
           \/ audioCrashes
           \/ stopAudioRecorder
           \/ stopAudioEncoder
           \/ audioSignal
           \/ runFuture
           \/ futureReleases
           \/ setupVideo
           \/ setupSurface
           \/ setupAudio
           \/ setupAudioFails
           \/ setupDone
  BY DEF Next, Calls, UiStep, VideoStep, AudioStep, ExecStep

\* Each thread stays at a place of its own.
LEMMA StepPc ==
    ASSUME PcTypeOK, Next
    PROVE  PcTypeOK'
  <1> USE DEF PcTypeOK, UiPlaces, VideoPlaces, AudioPlaces, ExecPlaces, Thread,
     signals, flags, muxVars, codecVars, taskVars, runVars, lifeVars,
     resultVars, stateVars, Move, Goto, Report, Disturb
  <1>1. ASSUME startRecording PROVE PcTypeOK'
    BY <1>1 DEF startRecording
  <1>2. ASSUME startCheck PROVE PcTypeOK'
    BY <1>2 DEF startCheck, Refuses
  <1>3. ASSUME startAudio PROVE PcTypeOK'
    BY <1>3 DEF startAudio, releaseAudioInputResource
  <1>4. ASSUME newFuture PROVE PcTypeOK'
    BY <1>4 DEF newFuture
  <1>5. ASSUME startEncoders PROVE PcTypeOK'
    BY <1>5 DEF startEncoders, Started, Startable, Recorded
  <1>6. ASSUME encodersRefuse PROVE PcTypeOK'
    BY <1>6 DEF encodersRefuse, Started, Startable, Recorded, Execute, Post
  <1>7. ASSUME initMediaMuxer PROVE PcTypeOK'
    BY <1>7 DEF initMediaMuxer, Execute, Post
  <1>8. ASSUME beginRecording PROVE PcTypeOK'
    BY <1>8 DEF beginRecording, SignalsCleared
  <1>9. ASSUME postEncoding PROVE PcTypeOK'
    BY <1>9 DEF postEncoding, Recorded, Post
  <1>10. ASSUME stopRecording PROVE PcTypeOK'
    BY <1>10 DEF stopRecording, Stops
  <1>11. ASSUME stopSignal PROVE PcTypeOK'
    BY <1>11 DEF stopSignal, StopSignal
  <1>12. ASSUME release PROVE PcTypeOK'
    BY <1>12 DEF release, Stops
  <1>13. ASSUME releaseLater PROVE PcTypeOK'
    BY <1>13 DEF releaseLater
  <1>14. ASSUME releaseNow PROVE PcTypeOK'
    BY <1>14 DEF releaseNow, releaseResources
  <1>15. ASSUME videoEncode PROVE PcTypeOK'
    BY <1>15 DEF videoEncode, Take
  <1>16. ASSUME videoCheck PROVE PcTypeOK'
    BY <1>16 DEF videoCheck
  <1>17. ASSUME videoFails PROVE PcTypeOK'
    BY <1>17 DEF videoFails, TrackThrows
  <1>18. ASSUME videoTryAgain PROVE PcTypeOK'
    BY <1>18 DEF videoTryAgain
  <1>19. ASSUME videoFormat PROVE PcTypeOK'
    BY <1>19 DEF videoFormat, addTrack, Completes
  <1>20. ASSUME writeVideo PROVE PcTypeOK'
    BY <1>20 DEF writeVideo
  <1>21. ASSUME videoEos PROVE PcTypeOK'
    BY <1>21 DEF videoEos
  <1>22. ASSUME stopVideoEncoder PROVE PcTypeOK'
    BY <1>22 DEF stopVideoEncoder
  <1>23. ASSUME stopMuxer PROVE PcTypeOK'
    BY <1>23 DEF stopMuxer
  <1>24. ASSUME stopMuxerFails PROVE PcTypeOK'
    BY <1>24 DEF stopMuxerFails
  <1>25. ASSUME removeRecordingResultIfNoVideoKeyFrameArrived PROVE PcTypeOK'
    BY <1>25 DEF removeRecordingResultIfNoVideoKeyFrameArrived, KeyFrameArrived
  <1>26. ASSUME videoSignal PROVE PcTypeOK'
    BY <1>26 DEF videoSignal
  <1>27. ASSUME onVideoSaved PROVE PcTypeOK'
    BY <1>27 DEF onVideoSaved
  <1>28. ASSUME executeFuture PROVE PcTypeOK'
    BY <1>28 DEF executeFuture, Execute, Post
  <1>29. ASSUME audioEncode PROVE PcTypeOK'
    BY <1>29 DEF audioEncode, Take
  <1>30. ASSUME audioLoop PROVE PcTypeOK'
    BY <1>30 DEF audioLoop
  <1>31. ASSUME audioCheck PROVE PcTypeOK'
    BY <1>31 DEF audioCheck
  <1>32. ASSUME audioInput PROVE PcTypeOK'
    BY <1>32 DEF audioInput
  <1>33. ASSUME audioOutput PROVE PcTypeOK'
    BY <1>33 DEF audioOutput
  <1>34. ASSUME audioFormat PROVE PcTypeOK'
    BY <1>34 DEF audioFormat, addTrack, Completes
  <1>35. ASSUME audioCrashes PROVE PcTypeOK'
    BY <1>35 DEF audioCrashes, TrackThrows
  <1>36. ASSUME stopAudioRecorder PROVE PcTypeOK'
    BY <1>36 DEF stopAudioRecorder, MayReport
  <1>37. ASSUME stopAudioEncoder PROVE PcTypeOK'
    BY <1>37 DEF stopAudioEncoder, MayReport
  <1>38. ASSUME audioSignal PROVE PcTypeOK'
    BY <1>38 DEF audioSignal, PassesEnd
  <1>39. ASSUME runFuture PROVE PcTypeOK'
    BY <1>39 DEF runFuture, Take
  <1>40. ASSUME futureReleases PROVE PcTypeOK'
    BY <1>40 DEF futureReleases, releaseResources
  <1>41. ASSUME setupVideo PROVE PcTypeOK'
    BY <1>41 DEF setupVideo
  <1>42. ASSUME setupSurface PROVE PcTypeOK'
    BY <1>42 DEF setupSurface
  <1>43. ASSUME setupAudio PROVE PcTypeOK'
    BY <1>43 DEF setupAudio
  <1>44. ASSUME setupAudioFails PROVE PcTypeOK'
    BY <1>44 DEF setupAudioFails
  <1>45. ASSUME setupDone PROVE PcTypeOK'
    BY <1>45 DEF setupDone, TracksForgotten
  <1> QED BY <1>1, <1>2, <1>3, <1>4, <1>5, <1>6, <1>7, <1>8, <1>9, <1>10,
       <1>11, <1>12, <1>13, <1>14, <1>15, <1>16, <1>17, <1>18, <1>19, <1>20,
       <1>21, <1>22, <1>23, <1>24, <1>25, <1>26, <1>27, <1>28, <1>29, <1>30,
       <1>31, <1>32, <1>33, <1>34, <1>35, <1>36, <1>37, <1>38, <1>39, <1>40,
       <1>41, <1>42, <1>43, <1>44, <1>45, NextIs

\* The Boolean fields stay Boolean.
LEMMA StepFlags ==
    ASSUME FlagsTypeOK, Next
    PROVE  FlagsTypeOK'
  <1> USE DEF FlagsTypeOK, signals, flags, muxVars, codecVars, taskVars,
     runVars, lifeVars, resultVars, stateVars, Move, Goto, Report, Disturb
  <1>1. ASSUME startRecording PROVE FlagsTypeOK'
    BY <1>1 DEF startRecording
  <1>2. ASSUME startAudio PROVE FlagsTypeOK'
    BY <1>2 DEF startAudio, releaseAudioInputResource
  <1>3. ASSUME startEncoders PROVE FlagsTypeOK'
    BY <1>3 DEF startEncoders
  <1>4. ASSUME encodersRefuse PROVE FlagsTypeOK'
    BY <1>4 DEF encodersRefuse
  <1>5. ASSUME beginRecording PROVE FlagsTypeOK'
    BY <1>5 DEF beginRecording, SignalsCleared
  <1>6. ASSUME stopSignal PROVE FlagsTypeOK'
    BY <1>6 DEF stopSignal, StopSignal
  <1>7. ASSUME release PROVE FlagsTypeOK'
    BY <1>7 DEF release, Stops
  <1>8. ASSUME releaseLater PROVE FlagsTypeOK'
    BY <1>8 DEF releaseLater
  <1>9. ASSUME videoEncode PROVE FlagsTypeOK'
    BY <1>9 DEF videoEncode, Take
  <1>10. ASSUME videoCheck PROVE FlagsTypeOK'
    BY <1>10 DEF videoCheck
  <1>11. ASSUME videoFails PROVE FlagsTypeOK'
    BY <1>11 DEF videoFails, TrackThrows
  <1>12. ASSUME writeVideo PROVE FlagsTypeOK'
    BY <1>12 DEF writeVideo
  <1>13. ASSUME stopVideoEncoder PROVE FlagsTypeOK'
    BY <1>13 DEF stopVideoEncoder
  <1>14. ASSUME stopMuxerFails PROVE FlagsTypeOK'
    BY <1>14 DEF stopMuxerFails
  <1>15. ASSUME removeRecordingResultIfNoVideoKeyFrameArrived PROVE FlagsTypeOK'
    BY <1>15 DEF removeRecordingResultIfNoVideoKeyFrameArrived, KeyFrameArrived
  <1>16. ASSUME videoSignal PROVE FlagsTypeOK'
    BY <1>16 DEF videoSignal
  <1>17. ASSUME audioCheck PROVE FlagsTypeOK'
    BY <1>17 DEF audioCheck
  <1>18. ASSUME audioSignal PROVE FlagsTypeOK'
    BY <1>18 DEF audioSignal, PassesEnd
  <1>19. ASSUME futureReleases PROVE FlagsTypeOK'
    BY <1>19 DEF futureReleases, releaseResources
  <1>20. ASSUME setupAudio PROVE FlagsTypeOK'
    BY <1>20 DEF setupAudio
  <1>21. ASSUME setupAudioFails PROVE FlagsTypeOK'
    BY <1>21 DEF setupAudioFails
  <1>22. ASSUME setupDone PROVE FlagsTypeOK'
    BY <1>22 DEF setupDone, TracksForgotten
  <1>23. CASE \/ startCheck
              \/ newFuture
              \/ initMediaMuxer
              \/ postEncoding
    BY <1>23 DEF startCheck, Refuses, newFuture, initMediaMuxer, Execute,
       Post, postEncoding, Recorded
  <1>24. CASE \/ stopRecording
              \/ releaseNow
              \/ videoTryAgain
              \/ videoFormat
    BY <1>24 DEF stopRecording, Stops, releaseNow, releaseResources,
       videoTryAgain, videoFormat, addTrack, Completes
  <1>25. CASE \/ videoEos
              \/ stopMuxer
              \/ onVideoSaved
              \/ executeFuture
    BY <1>25 DEF videoEos, stopMuxer, onVideoSaved, executeFuture, Execute,
       Post
  <1>26. CASE \/ audioEncode
              \/ audioLoop
              \/ audioInput
              \/ audioOutput
    BY <1>26 DEF audioEncode, Take, audioLoop, audioInput, audioOutput
  <1>27. CASE \/ audioFormat
              \/ audioCrashes
              \/ stopAudioRecorder
              \/ stopAudioEncoder
    BY <1>27 DEF audioFormat, addTrack, Completes, audioCrashes, TrackThrows,
       stopAudioRecorder, MayReport, stopAudioEncoder
  <1>28. CASE \/ runFuture
              \/ setupVideo
              \/ setupSurface
    BY <1>28 DEF runFuture, Take, setupVideo, setupSurface
  <1> QED BY <1>1, <1>2, <1>3, <1>4, <1>5, <1>6, <1>7, <1>8, <1>9, <1>10,
       <1>11, <1>12, <1>13, <1>14, <1>15, <1>16, <1>17, <1>18, <1>19, <1>20,
       <1>21, <1>22, <1>23, <1>24, <1>25, <1>26, <1>27, <1>28, NextIs

\* There is never an AudioRecord without its encoder: both are dropped together.
LEMMA StepMedia ==
    ASSUME MediaTypeOK, Next
    PROVE  MediaTypeOK'
  <1> USE DEF MediaTypeOK, Stream, signals, flags, muxVars, codecVars,
     taskVars, runVars, lifeVars, resultVars, stateVars, Move, Goto, Report,
     Disturb
  <1>1. ASSUME startAudio PROVE MediaTypeOK'
    BY <1>1 DEF startAudio, releaseAudioInputResource
  <1>2. ASSUME startEncoders PROVE MediaTypeOK'
    BY <1>2 DEF startEncoders, Started, Startable, Recorded
  <1>3. ASSUME encodersRefuse PROVE MediaTypeOK'
    <2>1. \E S \in SUBSET Stream : Started(S)
      <3>1. Startable \ {"audio"} \in SUBSET Stream /\ {} \in SUBSET Stream
        BY DEF Startable, Recorded
      <3>2. Started(Startable \ {"audio"}) \/ Started({})
        BY <1>3, Zenon DEF encodersRefuse
      <3> QED BY <3>1, <3>2
    <2>2. UNCHANGED <<muxVars, mAudioRecorder, initFailed>>
      BY <1>3 DEF encodersRefuse
    <2>3. codec["audio"] # "null" => codec'["audio"] # "null"
      BY <2>1 DEF Started
    <2> QED BY <2>1, <2>2, <2>3 DEF Started
  <1>4. ASSUME initMediaMuxer PROVE MediaTypeOK'
    BY <1>4 DEF initMediaMuxer, Execute, Post
  <1>5. ASSUME releaseNow PROVE MediaTypeOK'
    BY <1>5 DEF releaseNow, releaseResources
  <1>6. ASSUME videoCheck PROVE MediaTypeOK'
    BY <1>6 DEF videoCheck
  <1>7. ASSUME videoFails PROVE MediaTypeOK'
    BY <1>7 DEF videoFails, TrackThrows
  <1>8. ASSUME videoFormat PROVE MediaTypeOK'
    BY <1>8 DEF videoFormat, addTrack, Completes
  <1>9. ASSUME stopVideoEncoder PROVE MediaTypeOK'
    BY <1>9 DEF stopVideoEncoder
  <1>10. ASSUME stopMuxer PROVE MediaTypeOK'
    BY <1>10 DEF stopMuxer
  <1>11. ASSUME videoSignal PROVE MediaTypeOK'
    BY <1>11 DEF videoSignal
  <1>12. ASSUME audioFormat PROVE MediaTypeOK'
    BY <1>12 DEF audioFormat, addTrack, Completes
  <1>13. ASSUME stopAudioRecorder PROVE MediaTypeOK'
    BY <1>13 DEF stopAudioRecorder, MayReport
  <1>14. ASSUME stopAudioEncoder PROVE MediaTypeOK'
    BY <1>14 DEF stopAudioEncoder, MayReport
  <1>15. ASSUME futureReleases PROVE MediaTypeOK'
    BY <1>15 DEF futureReleases, releaseResources
  <1>16. ASSUME setupVideo PROVE MediaTypeOK'
    BY <1>16 DEF setupVideo
  <1>17. ASSUME setupAudio PROVE MediaTypeOK'
    BY <1>17 DEF setupAudio
  <1>18. ASSUME setupAudioFails PROVE MediaTypeOK'
    BY <1>18 DEF setupAudioFails
  <1>19. ASSUME setupDone PROVE MediaTypeOK'
    BY <1>19 DEF setupDone, TracksForgotten
  <1>20. CASE \/ startRecording
              \/ startCheck
              \/ newFuture
              \/ beginRecording
              \/ postEncoding
    BY <1>20 DEF startRecording, startCheck, Refuses, newFuture,
       beginRecording, SignalsCleared, postEncoding, Recorded, Post
  <1>21. CASE \/ stopRecording
              \/ stopSignal
              \/ release
              \/ releaseLater
              \/ videoEncode
    BY <1>21 DEF stopRecording, Stops, stopSignal, StopSignal, release,
       releaseLater, videoEncode, Take
  <1>22. CASE \/ videoTryAgain
              \/ writeVideo
              \/ videoEos
              \/ stopMuxerFails
              \/ removeRecordingResultIfNoVideoKeyFrameArrived
    BY <1>22 DEF videoTryAgain, writeVideo, videoEos, stopMuxerFails,
       removeRecordingResultIfNoVideoKeyFrameArrived, KeyFrameArrived
  <1>23. CASE \/ onVideoSaved
              \/ executeFuture
              \/ audioEncode
              \/ audioLoop
              \/ audioCheck
    BY <1>23 DEF onVideoSaved, executeFuture, Execute, Post, audioEncode,
       Take, audioLoop, audioCheck
  <1>24. CASE \/ audioInput
              \/ audioOutput
              \/ audioCrashes
              \/ audioSignal
              \/ runFuture
    BY <1>24 DEF audioInput, audioOutput, audioCrashes, TrackThrows,
       audioSignal, PassesEnd, runFuture, Take
  <1>25. CASE \/ setupSurface
    BY <1>25 DEF setupSurface
  <1> QED BY <1>1, <1>2, <1>3, <1>4, <1>5, <1>6, <1>7, <1>8, <1>9, <1>10,
       <1>11, <1>12, <1>13, <1>14, <1>15, <1>16, <1>17, <1>18, <1>19, <1>20,
       <1>21, <1>22, <1>23, <1>24, <1>25, NextIs

(* Who changes what. *)

\* Only videoEncode changes what belongs to it, and only the caller what
\* belongs to startRecording.
LEMMA VideoStays ==
    ASSUME PcTypeOK, TaskTypeOK, Next, ~VideoStep
    PROVE  /\ pc'["video"] = pc["video"] /\ job'["video"] = job["video"]
           /\ errorOccurred' = errorOccurred /\ keyFrames' = keyFrames
  <1> USE DEF PcTypeOK, TaskTypeOK, Thread, signals, flags, muxVars, codecVars,
     taskVars, runVars, lifeVars, resultVars, stateVars, Move, Goto, Report,
     Disturb
  <1>1. CASE \/ startRecording \/ startCheck \/ startAudio \/ newFuture
             \/ startEncoders \/ encodersRefuse
    BY <1>1 DEF startRecording, startCheck, Refuses, startAudio, newFuture,
       startEncoders, encodersRefuse
  <1>2. CASE \/ initMediaMuxer \/ beginRecording \/ postEncoding
             \/ stopRecording \/ stopSignal \/ release
    BY <1>2 DEF initMediaMuxer, beginRecording, postEncoding, stopRecording,
       stopSignal, release
  <1>3. CASE \/ releaseLater \/ releaseNow \/ audioEncode \/ audioLoop
             \/ audioCheck \/ audioInput
    BY <1>3 DEF releaseLater, releaseNow, audioEncode, Take, audioLoop,
       audioCheck, audioInput
  <1>4. CASE \/ audioOutput \/ audioFormat \/ audioCrashes
             \/ stopAudioRecorder \/ stopAudioEncoder \/ audioSignal
    BY <1>4 DEF audioOutput, audioFormat, addTrack, Completes, audioCrashes,
       TrackThrows, stopAudioRecorder, MayReport, stopAudioEncoder,
       audioSignal, PassesEnd
  <1>5. CASE \/ runFuture \/ futureReleases \/ setupVideo \/ setupSurface
             \/ setupAudio \/ setupAudioFails
    BY <1>5 DEF runFuture, Take, futureReleases, setupVideo, setupSurface,
       setupAudio, setupAudioFails
  <1>6. CASE setupDone
    BY <1>6 DEF setupDone, TracksForgotten
  <1> QED BY <1>1, <1>2, <1>3, <1>4, <1>5, <1>6, NextIs DEF VideoStep

LEMMA UiStays ==
    ASSUME PcTypeOK, TaskTypeOK, Next, ~Calls, ~UiStep
    PROVE  /\ pc'["ui"] = pc["ui"] /\ rec' = rec /\ released' = released
           /\ mRecordingFuture' = mRecordingFuture
  <1> USE DEF PcTypeOK, TaskTypeOK, Thread, signals, flags, muxVars, codecVars,
     taskVars, runVars, lifeVars, resultVars, stateVars, Move, Goto, Report,
     Disturb
  <1>1. CASE \/ videoEncode \/ videoCheck \/ videoFails \/ videoTryAgain
             \/ videoFormat \/ writeVideo
    BY <1>1 DEF videoEncode, Take, videoCheck, videoFails, TrackThrows,
       videoTryAgain, videoFormat, writeVideo
  <1>2. CASE \/ videoEos \/ stopVideoEncoder \/ stopMuxer \/ stopMuxerFails
             \/ removeRecordingResultIfNoVideoKeyFrameArrived \/ videoSignal
    BY <1>2 DEF videoEos, stopVideoEncoder, stopMuxer, stopMuxerFails,
       removeRecordingResultIfNoVideoKeyFrameArrived, KeyFrameArrived,
       videoSignal
  <1>3. CASE \/ onVideoSaved \/ executeFuture \/ audioEncode \/ audioLoop
             \/ audioCheck \/ audioInput
    BY <1>3 DEF onVideoSaved, executeFuture, Execute, audioEncode, Take,
       audioLoop, audioCheck, audioInput
  <1>4. CASE \/ audioOutput \/ audioFormat \/ audioCrashes
             \/ stopAudioRecorder \/ stopAudioEncoder \/ audioSignal
    BY <1>4 DEF audioOutput, audioFormat, audioCrashes, TrackThrows,
       stopAudioRecorder, MayReport, stopAudioEncoder, audioSignal, PassesEnd
  <1>5. CASE \/ runFuture \/ futureReleases \/ setupVideo \/ setupSurface
             \/ setupAudio \/ setupAudioFails
    BY <1>5 DEF runFuture, Take, futureReleases, releaseResources,
       setupVideo, setupSurface, setupAudio, setupAudioFails
  <1>6. CASE setupDone
    BY <1>6 DEF setupDone, TracksForgotten
  <1> QED BY <1>1, <1>2, <1>3, <1>4, <1>5, <1>6, NextIs DEF Calls, UiStep

\* Only postEncoding and videoEncode change the tasks of the video thread.
LEMMA TasksStay ==
    ASSUME TaskTypeOK, Next, ~videoEncode, ~postEncoding
    PROVE  tasks' = tasks
  <1> USE DEF tasks, TaskTypeOK, Thread, signals, flags, muxVars, codecVars,
     taskVars, runVars, lifeVars, resultVars, stateVars, Move, Goto, Report,
     Disturb
  <1>1. CASE \/ startRecording \/ startCheck \/ startAudio \/ newFuture
             \/ startEncoders \/ encodersRefuse
    BY <1>1 DEF startRecording, startCheck, Refuses, startAudio,
       releaseAudioInputResource, newFuture, startEncoders, encodersRefuse,
       Execute, Post
  <1>2. CASE \/ initMediaMuxer \/ beginRecording \/ stopRecording
             \/ stopSignal \/ release \/ releaseLater
    BY <1>2 DEF initMediaMuxer, Execute, Post, beginRecording, stopRecording,
       stopSignal, release, releaseLater
  <1>3. CASE \/ releaseNow \/ videoCheck \/ videoFails \/ videoTryAgain
             \/ videoFormat \/ writeVideo
    BY <1>3 DEF releaseNow, releaseResources, videoCheck, videoFails,
       TrackThrows, videoTryAgain, videoFormat, writeVideo
  <1>4. CASE \/ videoEos \/ stopVideoEncoder \/ stopMuxer \/ stopMuxerFails
             \/ removeRecordingResultIfNoVideoKeyFrameArrived \/ videoSignal
    BY <1>4 DEF videoEos, stopVideoEncoder, stopMuxer, stopMuxerFails,
       removeRecordingResultIfNoVideoKeyFrameArrived, KeyFrameArrived,
       videoSignal
  <1>5. CASE \/ onVideoSaved \/ executeFuture \/ audioEncode \/ audioLoop
             \/ audioCheck \/ audioInput
    BY <1>5 DEF onVideoSaved, executeFuture, Execute, Post, audioEncode,
       Take, audioLoop, audioCheck, audioInput
  <1>6. CASE \/ audioOutput \/ audioFormat \/ audioCrashes
             \/ stopAudioRecorder \/ stopAudioEncoder \/ audioSignal
    BY <1>6 DEF audioOutput, audioFormat, audioCrashes, TrackThrows,
       stopAudioRecorder, MayReport, stopAudioEncoder, audioSignal, PassesEnd
  <1>7. CASE \/ runFuture \/ futureReleases \/ setupVideo \/ setupSurface
             \/ setupAudio \/ setupAudioFails
    BY <1>7 DEF runFuture, Take, futureReleases, releaseResources,
       setupVideo, setupSurface, setupAudio, setupAudioFails
  <1>8. CASE setupDone
    BY <1>8 DEF setupDone, TracksForgotten
  <1> QED BY <1>1, <1>2, <1>3, <1>4, <1>5, <1>6, <1>7, <1>8, NextIs

(* The queues. *)

\* What mExecutor.execute, the posting of the two tasks, taking a task and
\* telling the caller do.
LEMMA ExecuteDoes ==
    ASSUME TaskTypeOK, Execute, mRecordingFuture # 0
    PROVE  /\ executed' = executed \cup {mRecordingFuture}
           /\ executed' \subseteq Recording
           /\ queue' \in [Thread \ {"ui"} -> Seq(Recording)]
           /\ queue'["video"] = queue["video"]
                /\ queue'["audio"] = queue["audio"]
           /\ queue'["exec"] \in {queue["exec"],
                                  Append(queue["exec"], mRecordingFuture)}
           /\ mRecordingFuture \in executed => queue' = queue
           /\ "exec" \notin quit /\ mRecordingFuture \notin executed
              => queue'["exec"] = Append(queue["exec"], mRecordingFuture)
           /\ mRecordingFuture' = mRecordingFuture /\ quit' = quit
  <1> USE RecordingAssumption DEF TaskTypeOK, Thread, Recording
  <1>1. mRecordingFuture \in Recording
    OBVIOUS
  <1>2. queue["exec"] \in Seq(Recording)
    OBVIOUS
  <1>3. Append(queue["exec"], mRecordingFuture) \in Seq(Recording)
    BY <1>1, <1>2
  <1>4. \/ queue' = queue
        \/ queue'
             = [queue EXCEPT !["exec"]
               = Append(queue["exec"], mRecordingFuture)]
    BY DEF Execute, Post
  <1> QED BY <1>1, <1>3, <1>4 DEF Execute, Post

LEMMA PostDoes ==
    ASSUME TaskTypeOK, postEncoding, rec # 0
    PROVE  /\ queue' \in [Thread \ {"ui"} -> Seq(Recording)]
           /\ queue'["exec"] = queue["exec"]
           /\ queue'["video"] = IF "video" \in quit THEN queue["video"]
                                ELSE Append(queue["video"], rec)
           /\ queue'["audio"] = IF "audio" \in quit \/ ~mIsAudioEnabled
                                THEN queue["audio"]
                                ELSE Append(queue["audio"], rec)
  <1> USE RecordingAssumption DEF TaskTypeOK, Thread, Recording
  <1>1. \A t \in Thread \ {"ui"} : Append(queue[t], rec) \in Seq(Recording)
    OBVIOUS
  <1>2. \A t \in Thread \ {"ui"} :
           queue'[t] = IF t \in Recorded
             /\ t \notin quit THEN Append(queue[t], rec)
                       ELSE queue[t]
    BY DEF postEncoding, Post
  <1>3. queue' = [t \in Thread \ {"ui"} |-> queue'[t]]
    BY DEF postEncoding
  <1> QED BY <1>1, <1>2, <1>3 DEF Recorded, Stream

LEMMA TakeDoes ==
    ASSUME TaskTypeOK, PcTypeOK, NEW t \in Thread \ {"ui"}, NEW to, Take(t, to)
    PROVE  /\ queue[t] # << >> /\ Head(queue[t]) \in Recording
           /\ queue' = [queue EXCEPT ![t] = Tail(queue[t])]
           /\ job' = [job EXCEPT ![t] = Head(queue[t])]
           /\ Tail(queue[t]) \in Seq(Recording)
           /\ pc[t] = "idle" /\ pc' = [pc EXCEPT ![t] = to]
           /\ UNCHANGED <<mRecordingFuture, executed, quit>>
  <1>1. queue[t] \in Seq(Recording) /\ queue[t] # << >>
    BY DEF TaskTypeOK, Take
  <1>2. Head(queue[t]) \in Recording /\ Tail(queue[t]) \in Seq(Recording)
    BY <1>1
  <1> QED BY <1>1, <1>2 DEF Take, Move, Goto

LEMMA ReportDoes ==
    ASSUME outcome \in Outcomes, NEW r, NEW what \in {"start", "saved",
           "short", "error"},
           Report(r, what)
    PROVE  /\ outcome' \in Outcomes
           /\ \A s \in Recording :
                 outcome'[s] = IF s = r THEN outcome[s] \cup {what}
                               ELSE outcome[s]
  BY DEF Outcomes, Report

\* The callbacks stay those of VideoCapture.
LEMMA StepOutcomes ==
    ASSUME outcome \in Outcomes, Next
    PROVE  (outcome \in Outcomes)'
  <1> USE DEF signals, flags, muxVars, codecVars, taskVars, runVars, lifeVars,
     resultVars, stateVars, Move, Goto, Disturb
  <1>1. ASSUME startCheck PROVE (outcome \in Outcomes)'
    BY <1>1, ReportDoes DEF startCheck, Refuses
  <1>2. ASSUME startEncoders PROVE (outcome \in Outcomes)'
    BY <1>2 DEF startEncoders
  <1>3. ASSUME encodersRefuse PROVE (outcome \in Outcomes)'
    BY <1>3, ReportDoes DEF encodersRefuse
  <1>4. ASSUME initMediaMuxer PROVE (outcome \in Outcomes)'
    BY <1>4, ReportDoes DEF initMediaMuxer
  <1>5. ASSUME beginRecording PROVE (outcome \in Outcomes)'
    BY <1>5, ReportDoes DEF beginRecording, SignalsCleared
  <1>6. ASSUME postEncoding PROVE (outcome \in Outcomes)'
    BY <1>6 DEF postEncoding
  <1>7. ASSUME videoFails PROVE (outcome \in Outcomes)'
    BY <1>7, ReportDoes DEF videoFails, TrackThrows
  <1>8. ASSUME stopVideoEncoder PROVE (outcome \in Outcomes)'
    BY <1>8, ReportDoes DEF stopVideoEncoder
  <1>9. ASSUME stopMuxerFails PROVE (outcome \in Outcomes)'
    BY <1>9, ReportDoes DEF stopMuxerFails
  <1>10. ASSUME removeRecordingResultIfNoVideoKeyFrameArrived
         PROVE (outcome \in Outcomes)'
    BY <1>10, ReportDoes DEF removeRecordingResultIfNoVideoKeyFrameArrived,
       KeyFrameArrived
  <1>11. ASSUME onVideoSaved PROVE (outcome \in Outcomes)'
    BY <1>11, ReportDoes DEF onVideoSaved
  <1>12. ASSUME executeFuture PROVE (outcome \in Outcomes)'
    BY <1>12 DEF executeFuture
  <1>13. ASSUME stopAudioRecorder PROVE (outcome \in Outcomes)'
    BY <1>13, ReportDoes DEF stopAudioRecorder, MayReport
  <1>14. ASSUME stopAudioEncoder PROVE (outcome \in Outcomes)'
    BY <1>14, ReportDoes DEF stopAudioEncoder, MayReport
  <1>15. CASE \/ startRecording
              \/ startAudio
              \/ newFuture
              \/ stopRecording
              \/ stopSignal
    BY <1>15, ReportDoes DEF startRecording, startAudio,
       releaseAudioInputResource, newFuture, stopRecording, Stops,
       stopSignal, StopSignal
  <1>16. CASE \/ release
              \/ releaseLater
              \/ releaseNow
              \/ videoEncode
              \/ videoCheck
    BY <1>16, ReportDoes DEF release, Stops, releaseLater, releaseNow,
       releaseResources, videoEncode, Take, videoCheck
  <1>17. CASE \/ videoTryAgain
              \/ videoFormat
              \/ writeVideo
              \/ videoEos
              \/ stopMuxer
    BY <1>17, ReportDoes DEF videoTryAgain, videoFormat, addTrack, Completes,
       writeVideo, videoEos, stopMuxer
  <1>18. CASE \/ videoSignal
              \/ audioEncode
              \/ audioLoop
              \/ audioCheck
              \/ audioInput
    BY <1>18, ReportDoes DEF videoSignal, audioEncode, Take, audioLoop,
       audioCheck, audioInput
  <1>19. CASE \/ audioOutput
              \/ audioFormat
              \/ audioCrashes
              \/ audioSignal
              \/ runFuture
    BY <1>19, ReportDoes DEF audioOutput, audioFormat, addTrack, Completes,
       audioCrashes, TrackThrows, audioSignal, PassesEnd, runFuture, Take
  <1>20. CASE \/ futureReleases
              \/ setupVideo
              \/ setupSurface
              \/ setupAudio
              \/ setupAudioFails
    BY <1>20, ReportDoes DEF futureReleases, releaseResources, setupVideo,
       setupSurface, setupAudio, setupAudioFails
  <1>21. CASE \/ setupDone
    BY <1>21, ReportDoes DEF setupDone, TracksForgotten
  <1> QED BY <1>1, <1>2, <1>3, <1>4, <1>5, <1>6, <1>7, <1>8, <1>9, <1>10,
       <1>11, <1>12, <1>13, <1>14, <1>15, <1>16, <1>17, <1>18, <1>19, <1>20,
       <1>21, NextIs

LEMMA StepResult ==
    ASSUME ResultTypeOK, TaskTypeOK, FutureInv, Next
    PROVE  ResultTypeOK'
  <1> USE DEF ResultTypeOK, Outcomes, signals, flags, muxVars, codecVars,
     taskVars, runVars, lifeVars, resultVars, stateVars, Move, Goto, Disturb
  <1>1. ASSUME startRecording PROVE ResultTypeOK'
    BY <1>1, StepOutcomes DEF startRecording
  <1>2. ASSUME startAudio PROVE ResultTypeOK'
    BY <1>2, StepOutcomes DEF startAudio
  <1>3. ASSUME encodersRefuse PROVE ResultTypeOK'
    BY <1>3, StepOutcomes DEF encodersRefuse
  <1>4. ASSUME initMediaMuxer PROVE ResultTypeOK'
    BY <1>4, StepOutcomes DEF initMediaMuxer
  <1>5. ASSUME stopRecording PROVE ResultTypeOK'
    BY <1>5, StepOutcomes, RecordingAssumption DEF stopRecording, Stops,
       TaskTypeOK, FutureInv, Recording
  <1>6. ASSUME release PROVE ResultTypeOK'
    BY <1>6, StepOutcomes, RecordingAssumption DEF release, Stops, TaskTypeOK,
       FutureInv, Recording
  <1>7. ASSUME videoFails PROVE ResultTypeOK'
    BY <1>7, StepOutcomes DEF videoFails
  <1>8. ASSUME writeVideo PROVE ResultTypeOK'
    <2>1. job["video"] \in Recording
      BY <1>8, RecordingAssumption DEF writeVideo, FutureInv, TaskTypeOK,
         Thread, Recording
    <2> QED BY <1>8, <2>1, StepOutcomes DEF writeVideo
  <1>9. ASSUME stopVideoEncoder PROVE ResultTypeOK'
    BY <1>9, StepOutcomes DEF stopVideoEncoder
  <1>10. ASSUME stopMuxerFails PROVE ResultTypeOK'
    BY <1>10, StepOutcomes DEF stopMuxerFails
  <1>11. ASSUME stopAudioRecorder PROVE ResultTypeOK'
    BY <1>11, StepOutcomes DEF stopAudioRecorder, MayReport
  <1>12. ASSUME stopAudioEncoder PROVE ResultTypeOK'
    BY <1>12, StepOutcomes DEF stopAudioEncoder, MayReport
  <1>13. ASSUME setupVideo PROVE ResultTypeOK'
    BY <1>13, StepOutcomes DEF setupVideo
  <1>14. ASSUME setupAudio PROVE ResultTypeOK'
    BY <1>14, StepOutcomes DEF setupAudio
  <1>15. ASSUME setupAudioFails PROVE ResultTypeOK'
    BY <1>15, StepOutcomes DEF setupAudioFails
  <1>16. CASE \/ startCheck
              \/ newFuture
              \/ startEncoders
              \/ beginRecording
              \/ postEncoding
    BY <1>16, StepOutcomes DEF startCheck, Refuses, newFuture, startEncoders,
       Started, Startable, Recorded, beginRecording, SignalsCleared,
       postEncoding, Post
  <1>17. CASE \/ stopSignal
              \/ releaseLater
              \/ releaseNow
              \/ videoEncode
              \/ videoCheck
    BY <1>17, StepOutcomes DEF stopSignal, StopSignal, releaseLater,
       releaseNow, releaseResources, videoEncode, Take, videoCheck
  <1>18. CASE \/ videoTryAgain
              \/ videoFormat
              \/ videoEos
              \/ stopMuxer
              \/ removeRecordingResultIfNoVideoKeyFrameArrived
    BY <1>18, StepOutcomes DEF videoTryAgain, videoFormat, addTrack,
       Completes, videoEos, stopMuxer,
       removeRecordingResultIfNoVideoKeyFrameArrived, KeyFrameArrived
  <1>19. CASE \/ videoSignal
              \/ onVideoSaved
              \/ executeFuture
              \/ audioEncode
              \/ audioLoop
    BY <1>19, StepOutcomes DEF videoSignal, onVideoSaved, executeFuture,
       Execute, Post, audioEncode, Take, audioLoop
  <1>20. CASE \/ audioCheck
              \/ audioInput
              \/ audioOutput
              \/ audioFormat
              \/ audioCrashes
    BY <1>20, StepOutcomes DEF audioCheck, audioInput, audioOutput,
       audioFormat, addTrack, Completes, audioCrashes, TrackThrows
  <1>21. CASE \/ audioSignal
              \/ runFuture
              \/ futureReleases
              \/ setupSurface
              \/ setupDone
    BY <1>21, StepOutcomes DEF audioSignal, PassesEnd, runFuture, Take,
       futureReleases, releaseResources, setupSurface, setupDone,
       TracksForgotten
  <1> QED BY <1>1, <1>2, <1>3, <1>4, <1>5, <1>6, <1>7, <1>8, <1>9, <1>10,
       <1>11, <1>12, <1>13, <1>14, <1>15, <1>16, <1>17, <1>18, <1>19, <1>20,
       <1>21, NextIs

\* Three steps hand a future to the executor, and seven change a queue.
LEMMA ExecutedStays ==
    ASSUME PcTypeOK, TaskTypeOK, Next, ~encodersRefuse, ~initMediaMuxer,
           ~executeFuture
    PROVE  executed' = executed
  <1> USE DEF PcTypeOK, TaskTypeOK, Thread, signals, flags, muxVars, codecVars,
     taskVars, runVars, lifeVars, resultVars, stateVars, Move, Goto, Report,
     Disturb
  <1>1. CASE \/ startRecording \/ startCheck \/ startAudio \/ newFuture
             \/ startEncoders \/ beginRecording
    BY <1>1 DEF startRecording, startCheck, Refuses, startAudio,
       releaseAudioInputResource, newFuture, startEncoders, beginRecording
  <1>2. CASE \/ postEncoding \/ stopRecording \/ stopSignal \/ release
             \/ releaseLater \/ releaseNow
    BY <1>2 DEF postEncoding, stopRecording, stopSignal, release,
       releaseLater, releaseNow
  <1>3. CASE \/ videoEncode \/ videoCheck \/ videoFails \/ videoTryAgain
             \/ videoFormat \/ writeVideo
    BY <1>3 DEF videoEncode, Take, videoCheck, videoFails, videoTryAgain,
       videoFormat, writeVideo
  <1>4. CASE \/ videoEos \/ stopVideoEncoder \/ stopMuxer \/ stopMuxerFails
             \/ removeRecordingResultIfNoVideoKeyFrameArrived \/ videoSignal
    BY <1>4 DEF videoEos, stopVideoEncoder, stopMuxer, stopMuxerFails,
       removeRecordingResultIfNoVideoKeyFrameArrived, KeyFrameArrived,
       videoSignal
  <1>5. CASE \/ onVideoSaved \/ audioEncode \/ audioLoop \/ audioCheck
             \/ audioInput \/ audioOutput
    BY <1>5 DEF onVideoSaved, audioEncode, Take, audioLoop, audioCheck,
       audioInput, audioOutput
  <1>6. CASE \/ audioFormat \/ audioCrashes \/ stopAudioRecorder
             \/ stopAudioEncoder \/ audioSignal \/ runFuture
    BY <1>6 DEF audioFormat, audioCrashes, stopAudioRecorder,
       stopAudioEncoder, audioSignal, PassesEnd, runFuture, Take
  <1>7. CASE \/ futureReleases \/ setupVideo \/ setupSurface \/ setupAudio
             \/ setupAudioFails \/ setupDone
    BY <1>7 DEF futureReleases, setupVideo, setupSurface, setupAudio,
       setupAudioFails, setupDone, TracksForgotten
  <1> QED BY <1>1, <1>2, <1>3, <1>4, <1>5, <1>6, <1>7, NextIs

LEMMA QueueStays ==
    ASSUME PcTypeOK, TaskTypeOK, Next, ~encodersRefuse, ~initMediaMuxer,
           ~executeFuture, ~postEncoding, ~videoEncode, ~audioEncode,
           ~runFuture
    PROVE  queue' = queue /\ job' = job
  <1> USE DEF PcTypeOK, TaskTypeOK, Thread, signals, flags, muxVars, codecVars,
     taskVars, runVars, lifeVars, resultVars, stateVars, Move, Goto, Report,
     Disturb
  <1>1. CASE \/ startRecording \/ startCheck \/ startAudio \/ newFuture
             \/ startEncoders \/ beginRecording
    BY <1>1 DEF startRecording, startCheck, Refuses, startAudio,
       releaseAudioInputResource, newFuture, startEncoders, beginRecording
  <1>2. CASE \/ stopRecording \/ stopSignal \/ release \/ releaseLater
             \/ releaseNow \/ videoCheck
    BY <1>2 DEF stopRecording, stopSignal, release, releaseLater, releaseNow,
       videoCheck
  <1>3. CASE \/ videoFails \/ videoTryAgain \/ videoFormat \/ writeVideo
             \/ videoEos \/ stopVideoEncoder
    BY <1>3 DEF videoFails, videoTryAgain, videoFormat, writeVideo, videoEos,
       stopVideoEncoder
  <1>4. CASE \/ stopMuxer \/ stopMuxerFails
             \/ removeRecordingResultIfNoVideoKeyFrameArrived \/ videoSignal
             \/ onVideoSaved \/ audioLoop
    BY <1>4 DEF stopMuxer, stopMuxerFails,
       removeRecordingResultIfNoVideoKeyFrameArrived, KeyFrameArrived,
       videoSignal, onVideoSaved, audioLoop
  <1>5. CASE \/ audioCheck \/ audioInput \/ audioOutput \/ audioFormat
             \/ audioCrashes \/ stopAudioRecorder
    BY <1>5 DEF audioCheck, audioInput, audioOutput, audioFormat,
       audioCrashes, stopAudioRecorder
  <1>6. CASE \/ stopAudioEncoder \/ audioSignal \/ futureReleases
             \/ setupVideo \/ setupSurface \/ setupAudio
    BY <1>6 DEF stopAudioEncoder, audioSignal, PassesEnd, futureReleases,
       setupVideo, setupSurface, setupAudio
  <1>7. CASE \/ setupAudioFails \/ setupDone
    BY <1>7 DEF setupAudioFails, setupDone, TracksForgotten
  <1> QED BY <1>1, <1>2, <1>3, <1>4, <1>5, <1>6, <1>7, NextIs

LEMMA VideoWorks ==
    ASSUME PcTypeOK, TaskTypeOK, Next, ~videoEncode
    PROVE  /\ pc'["video"] # "idle" => pc["video"] # "idle"
           /\ job'["video"] = job["video"]
  <1> USE DEF PcTypeOK, TaskTypeOK, Thread, signals, flags, muxVars, codecVars,
     taskVars, runVars, lifeVars, resultVars, stateVars, Move, Goto, Report,
     Disturb
  <1>1. CASE \/ startRecording \/ startCheck \/ startAudio \/ newFuture
             \/ startEncoders \/ encodersRefuse
    BY <1>1 DEF startRecording, startCheck, Refuses, startAudio,
       releaseAudioInputResource, newFuture, startEncoders, encodersRefuse
  <1>2. CASE \/ initMediaMuxer \/ beginRecording \/ postEncoding
             \/ stopRecording \/ stopSignal \/ release
    BY <1>2 DEF initMediaMuxer, beginRecording, postEncoding, stopRecording,
       stopSignal, release
  <1>3. CASE \/ releaseLater \/ releaseNow \/ videoCheck \/ videoFails
             \/ videoTryAgain \/ videoFormat
    BY <1>3 DEF releaseLater, releaseNow, videoCheck, videoFails,
       videoTryAgain, videoFormat
  <1>4. CASE \/ writeVideo \/ videoEos \/ stopVideoEncoder \/ stopMuxer
             \/ stopMuxerFails
             \/ removeRecordingResultIfNoVideoKeyFrameArrived
    BY <1>4 DEF writeVideo, videoEos, stopVideoEncoder, stopMuxer,
       stopMuxerFails, removeRecordingResultIfNoVideoKeyFrameArrived,
       KeyFrameArrived
  <1>5. CASE \/ videoSignal \/ onVideoSaved \/ executeFuture \/ audioEncode
             \/ audioLoop \/ audioCheck
    BY <1>5 DEF videoSignal, onVideoSaved, executeFuture, audioEncode, Take,
       audioLoop, audioCheck
  <1>6. CASE \/ audioInput \/ audioOutput \/ audioFormat \/ audioCrashes
             \/ stopAudioRecorder \/ stopAudioEncoder
    BY <1>6 DEF audioInput, audioOutput, audioFormat, audioCrashes,
       stopAudioRecorder, stopAudioEncoder
  <1>7. CASE \/ audioSignal \/ runFuture \/ futureReleases \/ setupVideo
             \/ setupSurface \/ setupAudio
    BY <1>7 DEF audioSignal, PassesEnd, runFuture, Take, futureReleases,
       setupVideo, setupSurface, setupAudio
  <1>8. CASE \/ setupAudioFails \/ setupDone
    BY <1>8 DEF setupAudioFails, setupDone, TracksForgotten
  <1> QED BY <1>1, <1>2, <1>3, <1>4, <1>5, <1>6, <1>7, <1>8, NextIs

\* startRecording hands out the future it has just created.
LEMMA StepFuture ==
    ASSUME TypeOK, FutureInv, Next
    PROVE  FutureInv'
  <1> USE DEF FutureInv, TypeOK, PcTypeOK, TaskTypeOK, Thread, Starting, tasks,
     signals, flags, muxVars, codecVars, taskVars, runVars, lifeVars,
     resultVars, stateVars, Move, Goto, Report, Disturb
  <1>1. ASSUME startRecording PROVE FutureInv'
    BY <1>1, RecordingAssumption DEF startRecording, Recording
  <1>2. ASSUME startCheck PROVE FutureInv'
    BY <1>2 DEF startCheck, Refuses
  <1>3. ASSUME startAudio PROVE FutureInv'
    BY <1>3 DEF startAudio, releaseAudioInputResource
  <1>4. ASSUME newFuture PROVE FutureInv'
    BY <1>4, RecordingAssumption DEF newFuture
  <1>5. ASSUME startEncoders PROVE FutureInv'
    BY <1>5 DEF startEncoders, Started, Startable, Recorded
  <1>6. ASSUME encodersRefuse PROVE FutureInv'
    BY <1>6, ExecuteDoes, RecordingAssumption DEF encodersRefuse
  <1>7. ASSUME initMediaMuxer PROVE FutureInv'
    BY <1>7, ExecuteDoes, RecordingAssumption DEF initMediaMuxer
  <1>8. ASSUME beginRecording PROVE FutureInv'
    BY <1>8 DEF beginRecording, SignalsCleared
  <1>9. ASSUME postEncoding PROVE FutureInv'
    BY <1>9 DEF postEncoding, Recorded, Post
  <1>10. ASSUME stopRecording PROVE FutureInv'
    BY <1>10 DEF stopRecording, Stops
  <1>11. ASSUME stopSignal PROVE FutureInv'
    BY <1>11 DEF stopSignal, StopSignal
  <1>12. ASSUME release PROVE FutureInv'
    BY <1>12 DEF release, Stops
  <1>13. ASSUME releaseLater PROVE FutureInv'
    BY <1>13 DEF releaseLater
  <1>14. ASSUME releaseNow PROVE FutureInv'
    BY <1>14 DEF releaseNow, releaseResources
  <1>15. ASSUME videoEncode PROVE FutureInv'
    <2>1. job'["video"] # 0
      BY <1>15, TakeDoes, RecordingAssumption DEF videoEncode, Recording
    <2>2. queue["video"] # << >>
      BY <1>15 DEF videoEncode, Take
    <2> QED BY <1>15, <2>1, <2>2 DEF videoEncode, Take
  <1>16. ASSUME executeFuture PROVE FutureInv'
    BY <1>16, ExecuteDoes, RecordingAssumption DEF executeFuture
  <1>17. ASSUME ~startRecording, ~startCheck, ~startAudio, ~newFuture,
                ~startEncoders, ~encodersRefuse, ~initMediaMuxer,
                ~beginRecording, ~postEncoding, ~stopRecording, ~stopSignal,
                ~release, ~releaseLater, ~releaseNow, ~videoEncode,
                ~executeFuture
         PROVE  FutureInv'
    BY <1>17, VideoWorks, UiStays, TasksStay, ExecutedStays DEF Calls, UiStep
  <1> QED BY <1>1, <1>2, <1>3, <1>4, <1>5, <1>6, <1>7, <1>8, <1>9, <1>10,
       <1>11, <1>12, <1>13, <1>14, <1>15, <1>16, <1>17

LEMMA LifeStays ==
    ASSUME PcTypeOK, TaskTypeOK, Next, ~startRecording, ~newFuture,
           ~startAudio, ~releaseNow, ~futureReleases
    PROVE  /\ rec' = rec /\ mRecordingFuture' = mRecordingFuture
           /\ quit' = quit
  <1> USE DEF PcTypeOK, TaskTypeOK, Thread, signals, flags, muxVars, codecVars,
     taskVars, runVars, lifeVars, resultVars, stateVars, Move, Goto, Report,
     Disturb
  <1>1. CASE \/ startCheck \/ startEncoders \/ encodersRefuse
             \/ initMediaMuxer \/ beginRecording \/ postEncoding
    BY <1>1 DEF startCheck, Refuses, startEncoders, encodersRefuse, Execute,
       initMediaMuxer, beginRecording, postEncoding
  <1>2. CASE \/ stopRecording \/ stopSignal \/ release \/ releaseLater
             \/ videoEncode \/ videoCheck
    BY <1>2 DEF stopRecording, stopSignal, release, releaseLater,
       videoEncode, Take, videoCheck
  <1>3. CASE \/ videoFails \/ videoTryAgain \/ videoFormat \/ writeVideo
             \/ videoEos \/ stopVideoEncoder
    BY <1>3 DEF videoFails, videoTryAgain, videoFormat, writeVideo, videoEos,
       stopVideoEncoder
  <1>4. CASE \/ stopMuxer \/ stopMuxerFails
             \/ removeRecordingResultIfNoVideoKeyFrameArrived \/ videoSignal
             \/ onVideoSaved \/ executeFuture
    BY <1>4 DEF stopMuxer, stopMuxerFails,
       removeRecordingResultIfNoVideoKeyFrameArrived, KeyFrameArrived,
       videoSignal, onVideoSaved, executeFuture, Execute
  <1>5. CASE \/ audioEncode \/ audioLoop \/ audioCheck \/ audioInput
             \/ audioOutput \/ audioFormat
    BY <1>5 DEF audioEncode, Take, audioLoop, audioCheck, audioInput,
       audioOutput, audioFormat
  <1>6. CASE \/ audioCrashes \/ stopAudioRecorder \/ stopAudioEncoder
             \/ audioSignal \/ runFuture \/ setupVideo
    BY <1>6 DEF audioCrashes, stopAudioRecorder, stopAudioEncoder,
       audioSignal, PassesEnd, runFuture, Take, setupVideo
  <1>7. CASE \/ setupSurface \/ setupAudio \/ setupAudioFails \/ setupDone
    BY <1>7 DEF setupSurface, setupAudio, setupAudioFails, setupDone,
       TracksForgotten
  <1> QED BY <1>1, <1>2, <1>3, <1>4, <1>5, <1>6, <1>7, NextIs

\* The queues hold recordings.
LEMMA StepTask ==
    ASSUME TypeOK, FutureInv, Next
    PROVE  TaskTypeOK'
  <1> USE DEF TypeOK, TaskTypeOK, PcTypeOK, Thread, Stream, signals, flags,
     muxVars, codecVars, taskVars, runVars, lifeVars, resultVars, stateVars,
     Move, Goto, Report, Disturb
  <1>1. ASSUME startRecording PROVE TaskTypeOK'
    BY <1>1, RecordingAssumption DEF startRecording
  <1>2. ASSUME newFuture PROVE TaskTypeOK'
    BY <1>2, RecordingAssumption DEF newFuture
  <1>3. ASSUME encodersRefuse PROVE TaskTypeOK'
    <2>1. mRecordingFuture # 0
      BY <1>3 DEF FutureInv, encodersRefuse, Starting
    <2>2. Execute \/ UNCHANGED taskVars
      BY <1>3 DEF encodersRefuse
    <2> QED BY <1>3, <2>1, <2>2, ExecuteDoes DEF encodersRefuse
  <1>4. ASSUME initMediaMuxer PROVE TaskTypeOK'
    <2>1. mRecordingFuture # 0
      BY <1>4 DEF FutureInv, initMediaMuxer, Starting
    <2>2. Execute \/ UNCHANGED taskVars
      BY <1>4 DEF initMediaMuxer
    <2> QED BY <1>4, <2>1, <2>2, ExecuteDoes DEF initMediaMuxer
  <1>5. ASSUME executeFuture PROVE TaskTypeOK'
    <2>1. mRecordingFuture # 0
      BY <1>5 DEF FutureInv, executeFuture, Starting
    <2>2. Execute \/ UNCHANGED taskVars
      BY <1>5 DEF executeFuture
    <2> QED BY <1>5, <2>1, <2>2, ExecuteDoes DEF executeFuture
  <1>6. ASSUME postEncoding PROVE TaskTypeOK'
    BY <1>6, PostDoes DEF postEncoding, FutureInv, Starting
  <1>7. ASSUME videoEncode PROVE TaskTypeOK'
    <2>1. PICK to : Take("video", to)
      BY <1>7 DEF videoEncode
    <2>2. UNCHANGED rec
      BY <1>7 DEF videoEncode
    <2>3. /\ Head(queue["video"]) \in Recording
          /\ queue' = [queue EXCEPT !["video"] = Tail(queue["video"])]
          /\ job' = [job EXCEPT !["video"] = Head(queue["video"])]
          /\ Tail(queue["video"]) \in Seq(Recording)
          /\ UNCHANGED <<mRecordingFuture, executed, quit>>
      BY <2>1, TakeDoes
    <2>4. job' \in [Thread \ {"ui"} -> 0 .. MaxRecordings]
      BY <2>3, RecordingAssumption DEF Recording
    <2> QED BY <2>2, <2>3, <2>4
  <1>8. ASSUME audioEncode PROVE TaskTypeOK'
    <2>1. PICK to : Take("audio", to)
      BY <1>8 DEF audioEncode
    <2>2. UNCHANGED rec
      BY <1>8 DEF audioEncode
    <2>3. /\ Head(queue["audio"]) \in Recording
          /\ queue' = [queue EXCEPT !["audio"] = Tail(queue["audio"])]
          /\ job' = [job EXCEPT !["audio"] = Head(queue["audio"])]
          /\ Tail(queue["audio"]) \in Seq(Recording)
          /\ UNCHANGED <<mRecordingFuture, executed, quit>>
      BY <2>1, TakeDoes
    <2>4. job' \in [Thread \ {"ui"} -> 0 .. MaxRecordings]
      BY <2>3, RecordingAssumption DEF Recording
    <2> QED BY <2>2, <2>3, <2>4
  <1>9. ASSUME runFuture PROVE TaskTypeOK'
    <2>1. PICK to : Take("exec", to)
      BY <1>9 DEF runFuture
    <2>2. UNCHANGED rec
      BY <1>9 DEF runFuture
    <2>3. /\ Head(queue["exec"]) \in Recording
          /\ queue' = [queue EXCEPT !["exec"] = Tail(queue["exec"])]
          /\ job' = [job EXCEPT !["exec"] = Head(queue["exec"])]
          /\ Tail(queue["exec"]) \in Seq(Recording)
          /\ UNCHANGED <<mRecordingFuture, executed, quit>>
      BY <2>1, TakeDoes
    <2>4. job' \in [Thread \ {"ui"} -> 0 .. MaxRecordings]
      BY <2>3, RecordingAssumption DEF Recording
    <2> QED BY <2>2, <2>3, <2>4
  <1>10. ASSUME startAudio PROVE TaskTypeOK'
    BY <1>10 DEF startAudio, releaseAudioInputResource
  <1>11. ASSUME releaseNow PROVE TaskTypeOK'
    BY <1>11 DEF releaseNow, releaseResources
  <1>12. ASSUME futureReleases PROVE TaskTypeOK'
    BY <1>12 DEF futureReleases, releaseResources
  <1>13. ASSUME ~startRecording, ~newFuture, ~encodersRefuse,
                ~initMediaMuxer, ~executeFuture, ~postEncoding, ~videoEncode,
                ~audioEncode, ~runFuture, ~startAudio, ~releaseNow,
                ~futureReleases
         PROVE  TaskTypeOK'
    BY <1>13, QueueStays, ExecutedStays, LifeStays
  <1> QED BY <1>1, <1>2, <1>3, <1>4, <1>5, <1>6, <1>7, <1>8, <1>9, <1>10,
       <1>11, <1>12, <1>13

LEMMA Appended ==
    ASSUME tasks \in Seq(Recording), rec \in Recording,
           tasks' \in {tasks, Append(tasks, rec)}
    PROVE  \A i \in 1 .. Len(tasks') :
              \/ i \in 1 .. Len(tasks) /\ tasks'[i] = tasks[i]
              \/ i = Len(tasks) + 1 /\ tasks'[i] = rec
  OBVIOUS

LEMMA UiWorks ==
    ASSUME PcTypeOK, TaskTypeOK, Next, ~startRecording
    PROVE  /\ rec' = rec
           /\ pc'["ui"] \in Starting => pc["ui"] \in Starting
           /\ pc'["ui"] \in NotBegun => pc["ui"] \in NotBegun
  <1> USE DEF PcTypeOK, TaskTypeOK, Thread, Starting, NotBegun, signals, flags,
     muxVars, codecVars, taskVars, runVars, lifeVars, resultVars, stateVars,
     Move, Goto, Report, Disturb
  <1>1. CASE \/ startCheck \/ startAudio \/ newFuture \/ startEncoders
             \/ encodersRefuse \/ initMediaMuxer
    BY <1>1 DEF startCheck, Refuses, startAudio, releaseAudioInputResource,
       newFuture, startEncoders, encodersRefuse, initMediaMuxer
  <1>2. CASE \/ beginRecording \/ postEncoding \/ stopRecording \/ stopSignal
             \/ release \/ releaseLater
    BY <1>2 DEF beginRecording, postEncoding, stopRecording, stopSignal,
       release, releaseLater
  <1>3. CASE \/ releaseNow \/ videoEncode \/ videoCheck \/ videoFails
             \/ videoTryAgain \/ videoFormat
    BY <1>3 DEF releaseNow, videoEncode, Take, videoCheck, videoFails,
       videoTryAgain, videoFormat
  <1>4. CASE \/ writeVideo \/ videoEos \/ stopVideoEncoder \/ stopMuxer
             \/ stopMuxerFails
             \/ removeRecordingResultIfNoVideoKeyFrameArrived
    BY <1>4 DEF writeVideo, videoEos, stopVideoEncoder, stopMuxer,
       stopMuxerFails, removeRecordingResultIfNoVideoKeyFrameArrived,
       KeyFrameArrived
  <1>5. CASE \/ videoSignal \/ onVideoSaved \/ executeFuture \/ audioEncode
             \/ audioLoop \/ audioCheck
    BY <1>5 DEF videoSignal, onVideoSaved, executeFuture, audioEncode, Take,
       audioLoop, audioCheck
  <1>6. CASE \/ audioInput \/ audioOutput \/ audioFormat \/ audioCrashes
             \/ stopAudioRecorder \/ stopAudioEncoder
    BY <1>6 DEF audioInput, audioOutput, audioFormat, audioCrashes,
       stopAudioRecorder, stopAudioEncoder
  <1>7. CASE \/ audioSignal \/ runFuture \/ futureReleases \/ setupVideo
             \/ setupSurface \/ setupAudio
    BY <1>7 DEF audioSignal, PassesEnd, runFuture, Take, futureReleases,
       setupVideo, setupSurface, setupAudio
  <1>8. CASE \/ setupAudioFails \/ setupDone
    BY <1>8 DEF setupAudioFails, setupDone, TracksForgotten
  <1> QED BY <1>1, <1>2, <1>3, <1>4, <1>5, <1>6, <1>7, <1>8, NextIs

LEMMA VideoEncodes ==
    ASSUME PcTypeOK, TaskTypeOK, Next, ~videoEncode
    PROVE  /\ pc'["video"] \in Encoding => pc["video"] \in Encoding
           /\ errorOccurred => errorOccurred'
  <1> USE DEF PcTypeOK, TaskTypeOK, Thread, Encoding, signals, flags, muxVars,
     codecVars, taskVars, runVars, lifeVars, resultVars, stateVars, Move, Goto,
     Report, Disturb
  <1>1. CASE \/ startRecording \/ startCheck \/ startAudio \/ newFuture
             \/ startEncoders \/ encodersRefuse
    BY <1>1 DEF startRecording, startCheck, Refuses, startAudio,
       releaseAudioInputResource, newFuture, startEncoders, encodersRefuse
  <1>2. CASE \/ initMediaMuxer \/ beginRecording \/ postEncoding
             \/ stopRecording \/ stopSignal \/ release
    BY <1>2 DEF initMediaMuxer, beginRecording, postEncoding, stopRecording,
       stopSignal, release
  <1>3. CASE \/ releaseLater \/ releaseNow \/ videoCheck \/ videoFails
             \/ videoTryAgain \/ videoFormat
    BY <1>3 DEF releaseLater, releaseNow, videoCheck, videoFails,
       videoTryAgain, videoFormat
  <1>4. CASE \/ writeVideo \/ videoEos \/ stopVideoEncoder \/ stopMuxer
             \/ stopMuxerFails
             \/ removeRecordingResultIfNoVideoKeyFrameArrived
    BY <1>4 DEF writeVideo, videoEos, stopVideoEncoder, stopMuxer,
       stopMuxerFails, removeRecordingResultIfNoVideoKeyFrameArrived,
       KeyFrameArrived
  <1>5. CASE \/ videoSignal \/ onVideoSaved \/ executeFuture \/ audioEncode
             \/ audioLoop \/ audioCheck
    BY <1>5 DEF videoSignal, onVideoSaved, executeFuture, audioEncode, Take,
       audioLoop, audioCheck
  <1>6. CASE \/ audioInput \/ audioOutput \/ audioFormat \/ audioCrashes
             \/ stopAudioRecorder \/ stopAudioEncoder
    BY <1>6 DEF audioInput, audioOutput, audioFormat, audioCrashes,
       stopAudioRecorder, stopAudioEncoder
  <1>7. CASE \/ audioSignal \/ runFuture \/ futureReleases \/ setupVideo
             \/ setupSurface \/ setupAudio
    BY <1>7 DEF audioSignal, PassesEnd, runFuture, Take, futureReleases,
       setupVideo, setupSurface, setupAudio
  <1>8. CASE \/ setupAudioFails \/ setupDone
    BY <1>8 DEF setupAudioFails, setupDone, TracksForgotten
  <1> QED BY <1>1, <1>2, <1>3, <1>4, <1>5, <1>6, <1>7, <1>8, NextIs

LEMMA OutcomeStays ==
    ASSUME Next, ~startCheck, ~encodersRefuse, ~initMediaMuxer,
           ~beginRecording, ~videoFails, ~stopVideoEncoder, ~stopMuxerFails,
           ~removeRecordingResultIfNoVideoKeyFrameArrived, ~onVideoSaved,
           ~stopAudioRecorder, ~stopAudioEncoder
    PROVE  outcome' = outcome
  <1> USE DEF signals, flags, muxVars, codecVars, taskVars, runVars, lifeVars,
     resultVars, stateVars, Move, Goto, Disturb
  <1>1. CASE \/ startRecording \/ startAudio \/ newFuture \/ startEncoders
             \/ postEncoding \/ stopRecording
    BY <1>1 DEF startRecording, startAudio, releaseAudioInputResource,
       newFuture, startEncoders, postEncoding, stopRecording
  <1>2. CASE \/ stopSignal \/ release \/ releaseLater \/ releaseNow
             \/ videoEncode \/ videoCheck
    BY <1>2 DEF stopSignal, release, releaseLater, releaseNow, videoEncode,
       Take, videoCheck
  <1>3. CASE \/ videoTryAgain \/ videoFormat \/ writeVideo \/ videoEos
             \/ stopMuxer \/ videoSignal
    BY <1>3 DEF videoTryAgain, videoFormat, writeVideo, videoEos, stopMuxer,
       videoSignal
  <1>4. CASE \/ executeFuture \/ audioEncode \/ audioLoop \/ audioCheck
             \/ audioInput \/ audioOutput
    BY <1>4 DEF executeFuture, audioEncode, Take, audioLoop, audioCheck,
       audioInput, audioOutput
  <1>5. CASE \/ audioFormat \/ audioCrashes \/ audioSignal \/ runFuture
             \/ futureReleases \/ setupVideo
    BY <1>5 DEF audioFormat, audioCrashes, audioSignal, PassesEnd, runFuture,
       Take, futureReleases, setupVideo
  <1>6. CASE \/ setupSurface \/ setupAudio \/ setupAudioFails \/ setupDone
    BY <1>6 DEF setupSurface, setupAudio, setupAudioFails, setupDone,
       TracksForgotten
  <1> QED BY <1>1, <1>2, <1>3, <1>4, <1>5, <1>6, NextIs

LEMMA DisturbedGrows ==
    ASSUME Next
    PROVE  disturbed \subseteq disturbed'
  <1> USE DEF Disturb, signals, flags, muxVars, codecVars, taskVars, runVars,
     lifeVars, resultVars, stateVars, Move, Goto, Report
  <1>1. CASE \/ startRecording \/ startCheck \/ startAudio \/ newFuture
             \/ startEncoders \/ encodersRefuse
    BY <1>1 DEF startRecording, startCheck, Refuses, startAudio,
       releaseAudioInputResource, newFuture, startEncoders, encodersRefuse
  <1>2. CASE \/ initMediaMuxer \/ beginRecording \/ postEncoding
             \/ stopRecording \/ stopSignal \/ release
    BY <1>2 DEF initMediaMuxer, beginRecording, postEncoding, stopRecording,
       stopSignal, release
  <1>3. CASE \/ releaseLater \/ releaseNow \/ videoEncode \/ videoCheck
             \/ videoFails \/ videoTryAgain
    BY <1>3 DEF releaseLater, releaseNow, videoEncode, Take, videoCheck,
       videoFails, videoTryAgain
  <1>4. CASE \/ videoFormat \/ writeVideo \/ videoEos \/ stopVideoEncoder
             \/ stopMuxer \/ stopMuxerFails
    BY <1>4 DEF videoFormat, writeVideo, videoEos, stopVideoEncoder,
       stopMuxer, stopMuxerFails
  <1>5. CASE \/ removeRecordingResultIfNoVideoKeyFrameArrived \/ videoSignal
             \/ onVideoSaved \/ executeFuture \/ audioEncode \/ audioLoop
    BY <1>5 DEF removeRecordingResultIfNoVideoKeyFrameArrived,
       KeyFrameArrived, videoSignal, onVideoSaved, executeFuture,
       audioEncode, Take, audioLoop
  <1>6. CASE \/ audioCheck \/ audioInput \/ audioOutput \/ audioFormat
             \/ audioCrashes \/ stopAudioRecorder
    BY <1>6 DEF audioCheck, audioInput, audioOutput, audioFormat,
       audioCrashes, stopAudioRecorder, MayReport
  <1>7. CASE \/ stopAudioEncoder \/ audioSignal \/ runFuture \/ futureReleases
             \/ setupVideo \/ setupSurface
    BY <1>7 DEF stopAudioEncoder, MayReport, audioSignal, PassesEnd,
       runFuture, Take, futureReleases, setupVideo, setupSurface
  <1>8. CASE \/ setupAudio \/ setupAudioFails \/ setupDone
    BY <1>8 DEF setupAudio, setupAudioFails, setupDone, TracksForgotten
  <1> QED BY <1>1, <1>2, <1>3, <1>4, <1>5, <1>6, <1>7, <1>8, NextIs

\* Recordings are encoded in the order they were started in.
LEMMA StepOrder ==
    ASSUME TypeOK, FutureInv, OrderInv, Next
    PROVE  OrderInv'
  <1> USE DEF OrderInv, TypeOK, TaskTypeOK, tasks, signals, flags, muxVars,
     codecVars, taskVars, runVars, lifeVars, resultVars, stateVars, Move, Goto,
     Disturb
  <1>1. ASSUME startRecording PROVE OrderInv'
    BY <1>1, TasksStay, RecordingAssumption DEF startRecording, Starting,
       TypeOK, PcTypeOK, TaskTypeOK, Thread, Recording
  <1>2. ASSUME postEncoding PROVE OrderInv'
    <2>1. rec # 0 /\ rec' = rec
      BY <1>2 DEF FutureInv, Starting, postEncoding
    <2>2. pc["ui"] \in Starting /\ pc'["ui"] \notin Starting /\ job' = job
      BY <1>2 DEF Starting, postEncoding, PcTypeOK, Thread
    <2>3. rec \in Recording
      BY <2>1, RecordingAssumption DEF Recording
    <2>4. tasks \in Seq(Recording)
      BY DEF Thread
    <2>5. tasks' \in {tasks, Append(tasks, rec)}
      BY <1>2, <2>1, PostDoes
    <2>6. \A i \in 1 .. Len(tasks') :
             \/ i \in 1 .. Len(tasks) /\ tasks'[i] = tasks[i]
             \/ i = Len(tasks) + 1 /\ tasks'[i] = rec
      <3> HIDE DEF tasks
      <3> QED BY <2>3, <2>4, <2>5, Appended
    <2> HIDE DEF tasks
    <2>7. \A i \in 1 .. Len(tasks) : tasks[i] \in Nat
      BY <2>4, RecordingAssumption DEF Recording
    <2>8. Len(tasks) \in Nat /\ job["video"] \in Nat
      BY <2>4, RecordingAssumption DEF Thread
    <2>9. \A i, j \in 1 .. Len(tasks') : i < j => tasks'[i] < tasks'[j]
      BY <2>1, <2>2, <2>3, <2>5, <2>6, <2>7, <2>8 DEF Recording
    <2>10. \A i \in 1 .. Len(tasks') : job'["video"] < tasks'[i]
             /\ tasks'[i] <= rec'
      BY <2>1, <2>2, <2>3, <2>6, <2>7, <2>8 DEF Recording
    <2> QED BY <2>1, <2>2, <2>9, <2>10
  <1>3. ASSUME videoEncode PROVE OrderInv'
    <2>1. /\ tasks # << >> /\ tasks \in Seq(Recording)
          /\ tasks' = Tail(tasks) /\ job'["video"] = Head(tasks)
      BY <1>3, TakeDoes DEF videoEncode, Thread
    <2>2. UNCHANGED <<pc["ui"], rec>>
      BY <1>3, UiStays DEF videoEncode, PcTypeOK, Thread, Take
    <2> HIDE DEF tasks
    <2> QED BY <2>1, <2>2, RecordingAssumption DEF Recording, Thread
  <1>4. ASSUME ~startRecording, ~postEncoding, ~videoEncode
        PROVE  OrderInv'
    BY <1>4, UiWorks, TasksStay, VideoWorks
  <1> QED BY <1>1, <1>2, <1>3, <1>4

(* The callbacks. *)

\* The step tells recording s what, from the thread and at the place named.
UiTells(s) ==
    /\ s = rec /\ pc["ui"] \in NotBegun
    /\ \/ pc'["ui"] = "post" /\ outcome'[s] = outcome[s] \cup {"start"}
       \/ pc'["ui"] = "idle" /\ outcome'[s] = outcome[s] \cup {"error"}
VideoTells(s) ==
    /\ s = job["video"] /\ pc["video"] \in Encoding
    /\ \/ outcome'[s] = outcome[s] \cup {"error"} /\ errorOccurred'
       \/ /\ outcome'[s] = outcome[s] \cup {"short"} /\ errorOccurred'
          /\ pc'["video"] = "signal" /\ ~mIsFirstVideoKeyFrameWrite
          /\ pc["video"] \in {"muxer", "key"} /\ keyFrames' = keyFrames
       \/ /\ outcome'[s] = outcome[s] \cup {"saved"} /\ ~errorOccurred
          /\ pc["video"] = "report" /\ pc'["video"] = "execute"
          /\ keyFrames' = keyFrames
TroubleTells(s) == outcome'[s] = outcome[s] \cup {"error"} /\ ~Clean'

LEMMA OutcomeChanges ==
    ASSUME TypeOK, FutureInv, Next, NEW s \in Recording
    PROVE  outcome'[s] = outcome[s] \/ UiTells(s) \/ VideoTells(s)
             \/ TroubleTells(s)
  <1> USE DEF TypeOK, PcTypeOK, ResultTypeOK, Thread, Move, Goto, resultVars,
     runVars, stateVars
  <1>1. outcome \in Outcomes
    BY DEF Outcomes
  <1>start. ASSUME NEW r, Report(r, "start")
           PROVE  outcome'[s] = IF s = r THEN outcome[s] \cup {"start"}
                    ELSE outcome[s]
    BY <1>start, <1>1, ReportDoes
  <1>error. ASSUME NEW r, Report(r, "error")
           PROVE  outcome'[s] = IF s = r THEN outcome[s] \cup {"error"}
                    ELSE outcome[s]
    BY <1>error, <1>1, ReportDoes
  <1>short. ASSUME NEW r, Report(r, "short")
           PROVE  outcome'[s] = IF s = r THEN outcome[s] \cup {"short"}
                    ELSE outcome[s]
    BY <1>short, <1>1, ReportDoes
  <1>saved. ASSUME NEW r, Report(r, "saved")
           PROVE  outcome'[s] = IF s = r THEN outcome[s] \cup {"saved"}
                    ELSE outcome[s]
    BY <1>saved, <1>1, ReportDoes
  <1>2. ASSUME startCheck PROVE outcome'[s] = outcome[s] \/ UiTells(s)
    <2>1. \/ UNCHANGED outcome
          \/ pc["ui"] = "check" /\ pc'["ui"] = "idle" /\ Report(rec, "error")
      BY <1>2 DEF startCheck
    <2> QED BY <2>1, <1>error DEF UiTells, NotBegun, Starting, Encoding
  <1>3. ASSUME encodersRefuse PROVE outcome'[s] = outcome[s] \/ UiTells(s)
    <2>1. \/ UNCHANGED outcome
          \/ pc["ui"] = "encoders" /\ pc'["ui"] = "idle" /\ Report(rec, "error")
      BY <1>3 DEF encodersRefuse
    <2> QED BY <2>1, <1>error DEF UiTells, NotBegun, Starting, Encoding
  <1>4. ASSUME initMediaMuxer PROVE outcome'[s] = outcome[s] \/ UiTells(s)
    <2>1. \/ UNCHANGED outcome
          \/ pc["ui"] = "muxer" /\ pc'["ui"] = "idle" /\ Report(rec, "error")
      BY <1>4 DEF initMediaMuxer
    <2> QED BY <2>1, <1>error DEF UiTells, NotBegun, Starting, Encoding
  <1>5. ASSUME beginRecording PROVE outcome'[s] = outcome[s] \/ UiTells(s)
    <2>1. pc["ui"] = "begin" /\ pc'["ui"] = "post" /\ Report(rec, "start")
      BY <1>5 DEF beginRecording
    <2> QED BY <2>1, <1>start DEF UiTells, NotBegun, Starting, Encoding
  <1>6. ASSUME videoFails PROVE outcome'[s] = outcome[s] \/ VideoTells(s)
    <2>1. \/ UNCHANGED outcome
          \/ pc["video"] = "check" /\ errorOccurred'
               /\ Report(job["video"], "error")
          \/ pc["video"] = "dequeue" /\ errorOccurred'
               /\ Report(job["video"], "error")
      BY <1>6 DEF videoFails
    <2> QED BY <2>1, <1>error DEF VideoTells, NotBegun, Starting, Encoding
  <1>7. ASSUME stopVideoEncoder PROVE outcome'[s] = outcome[s] \/ VideoTells(s)
    <2>1. \/ UNCHANGED outcome
          \/ pc["video"] = "stop" /\ errorOccurred'
               /\ Report(job["video"], "error")
      BY <1>7 DEF stopVideoEncoder
    <2> QED BY <2>1, <1>error DEF VideoTells, NotBegun, Starting, Encoding
  <1>8. ASSUME stopMuxerFails PROVE outcome'[s] = outcome[s] \/ VideoTells(s)
    <2>1. \/ pc["video"] = "muxer" /\ errorOccurred'
               /\ Report(job["video"], "error")
          \/ /\ pc["video"] \in {"muxer", "key"} /\ errorOccurred'
                  /\ pc'["video"] = "signal"
             /\ Report(job["video"], "short") /\ ~mIsFirstVideoKeyFrameWrite
             /\ keyFrames' = keyFrames
      BY <1>8 DEF stopMuxerFails
    <2> QED BY <2>1, <1>error, <1>short DEF VideoTells, NotBegun, Starting,
       Encoding
  <1>9. ASSUME removeRecordingResultIfNoVideoKeyFrameArrived
        PROVE outcome'[s] = outcome[s] \/ VideoTells(s)
    <2>1. \/ UNCHANGED outcome
          \/ /\ pc["video"] \in {"muxer", "key"} /\ errorOccurred'
                  /\ pc'["video"] = "signal"
             /\ Report(job["video"], "short") /\ ~mIsFirstVideoKeyFrameWrite
             /\ keyFrames' = keyFrames
      BY <1>9 DEF removeRecordingResultIfNoVideoKeyFrameArrived, KeyFrameArrived
    <2> QED BY <2>1, <1>short DEF VideoTells, NotBegun, Starting, Encoding
  <1>10. ASSUME onVideoSaved PROVE outcome'[s] = outcome[s] \/ VideoTells(s)
    <2>1. \/ UNCHANGED outcome
          \/ /\ pc["video"] = "report" /\ ~errorOccurred
                  /\ pc'["video"] = "execute"
             /\ Report(job["video"], "saved") /\ keyFrames' = keyFrames
      BY <1>10 DEF onVideoSaved
    <2> QED BY <2>1, <1>saved DEF VideoTells, NotBegun, Starting, Encoding
  <1>11. ASSUME stopAudioRecorder
         PROVE outcome'[s] = outcome[s] \/ TroubleTells(s)
    <2>1. \/ UNCHANGED outcome
          \/ Report(job["audio"], "error") /\ ~Clean'
      BY <1>11 DEF stopAudioRecorder, MayReport, Disturb, Clean
    <2> QED BY <2>1, <1>error DEF TroubleTells, NotBegun, Starting, Encoding
  <1>12. ASSUME stopAudioEncoder
         PROVE outcome'[s] = outcome[s] \/ TroubleTells(s)
    <2>1. \/ UNCHANGED outcome
          \/ Report(job["audio"], "error") /\ ~Clean'
      BY <1>12 DEF stopAudioEncoder, MayReport, Disturb, Clean
    <2> QED BY <2>1, <1>error DEF TroubleTells, NotBegun, Starting, Encoding
  <1> QED
    BY <1>2, <1>3, <1>4, <1>5, <1>6, <1>7, <1>8, <1>9, <1>10, <1>11, <1>12,
         OutcomeStays

LEMMA PostFollows ==
    ASSUME TypeOK, pc'["ui"] = "post", Next, ~beginRecording
    PROVE  pc["ui"] = "post"
  <1> USE DEF TypeOK, PcTypeOK, Thread, Move, Goto, stateVars, Take
  <1>1. CASE \/ startRecording \/ startCheck \/ startAudio \/ newFuture
             \/ startEncoders \/ encodersRefuse
    BY <1>1 DEF startRecording, startCheck, Refuses, startAudio,
       releaseAudioInputResource, newFuture, startEncoders, encodersRefuse
  <1>2. CASE \/ initMediaMuxer \/ postEncoding \/ stopRecording \/ stopSignal
             \/ release \/ releaseLater
    BY <1>2 DEF initMediaMuxer, postEncoding, stopRecording, stopSignal,
       release, releaseLater
  <1>3. CASE \/ releaseNow \/ videoEncode \/ videoCheck \/ videoFails
             \/ videoTryAgain \/ videoFormat
    BY <1>3 DEF releaseNow, videoEncode, videoCheck, videoFails,
       videoTryAgain, videoFormat
  <1>4. CASE \/ writeVideo \/ videoEos \/ stopVideoEncoder \/ stopMuxer
             \/ stopMuxerFails
             \/ removeRecordingResultIfNoVideoKeyFrameArrived
    BY <1>4 DEF writeVideo, videoEos, stopVideoEncoder, stopMuxer,
       stopMuxerFails, removeRecordingResultIfNoVideoKeyFrameArrived,
       KeyFrameArrived
  <1>5. CASE \/ videoSignal \/ onVideoSaved \/ executeFuture \/ audioEncode
             \/ audioLoop \/ audioCheck
    BY <1>5 DEF videoSignal, onVideoSaved, executeFuture, audioEncode,
       audioLoop, audioCheck
  <1>6. CASE \/ audioInput \/ audioOutput \/ audioFormat \/ audioCrashes
             \/ stopAudioRecorder \/ stopAudioEncoder
    BY <1>6 DEF audioInput, audioOutput, audioFormat, audioCrashes,
       stopAudioRecorder, stopAudioEncoder
  <1>7. CASE \/ audioSignal \/ runFuture \/ futureReleases \/ setupVideo
             \/ setupSurface \/ setupAudio
    BY <1>7 DEF audioSignal, PassesEnd, runFuture, futureReleases,
       setupVideo, setupSurface, setupAudio
  <1>8. CASE \/ setupAudioFails \/ setupDone
    BY <1>8 DEF setupAudioFails, setupDone, TracksForgotten
  <1> QED BY <1>1, <1>2, <1>3, <1>4, <1>5, <1>6, <1>7, <1>8, NextIs

\* What the steps do to the waiting recordings and to the one that goes on.
LEMMA TasksChange ==
    ASSUME TypeOK, FutureInv, OrderInv, Next
    PROVE  \A i \in 1 .. Len(tasks') :
              \/ \E j \in 1 .. Len(tasks) : tasks'[i] = tasks[j]
              \/ tasks'[i] = rec /\ pc["ui"] = "post"
  <1>1. tasks \in Seq(Recording)
    BY DEF TypeOK, TaskTypeOK, tasks, Thread
  <1>2. CASE postEncoding
    <2>1. rec \in Recording /\ pc["ui"] = "post"
      BY <1>2, RecordingAssumption DEF TypeOK, TaskTypeOK, FutureInv, Starting,
         postEncoding, Move, Recording
    <2>2. rec # 0
      BY <2>1 DEF Recording
    <2>3. tasks' \in {tasks, Append(tasks, rec)}
      BY <1>2, <2>2, PostDoes DEF tasks, TypeOK
    <2> QED BY <1>1, <2>1, <2>3, Appended
  <1>3. CASE videoEncode
    <2>1. tasks # << >> /\ tasks' = Tail(tasks)
      BY <1>3, TakeDoes DEF videoEncode, Thread, TypeOK, TaskTypeOK, tasks
    <2> QED BY <1>1, <2>1
  <1>4. CASE ~postEncoding /\ ~videoEncode
    <2>1. tasks' = tasks
      BY <1>4, TasksStay DEF TypeOK
    <2> QED BY <2>1
  <1> QED BY <1>2, <1>3, <1>4

LEMMA EncodingChanges ==
    ASSUME TypeOK, FutureInv, OrderInv, Next
    PROVE  \/ /\ job'["video"] = job["video"]
              /\ pc'["video"] \in Encoding => pc["video"] \in Encoding
              /\ errorOccurred => errorOccurred'
           \/ /\ \E j \in 1 .. Len(tasks) : job'["video"] = tasks[j]
              /\ pc["video"] = "idle"
  <1>1. CASE videoEncode
    <2>1. /\ tasks # << >> /\ tasks \in Seq(Recording) /\ pc["video"] = "idle"
          /\ job'["video"] = Head(tasks)
      BY <1>1, TakeDoes DEF videoEncode, Thread, TypeOK, TaskTypeOK, tasks
    <2>2. Head(tasks) = tasks[1] /\ 1 \in 1 .. Len(tasks)
      BY <2>1
    <2> QED BY <2>1, <2>2
  <1> QED BY <1>1, VideoEncodes, VideoWorks DEF TypeOK

LEMMA UiChanges ==
    ASSUME TypeOK, FutureInv, OrderInv, Next
    PROVE  \/ rec' = rec /\ (pc'["ui"] \in NotBegun => pc["ui"] \in NotBegun)
              /\ (pc'["ui"] \in Starting => pc["ui"] \in Starting)
           \/ rec' = rec + 1 /\ pc["ui"] = "idle" /\ pc'["ui"] = "check"
  BY UiWorks DEF TypeOK, PcTypeOK, Thread, startRecording, Move, Goto

\* A recording that waits or goes on was told of its start only.
LEMMA StepPending ==
    ASSUME TypeOK, FutureInv, OrderInv, PendingInv, Next
    PROVE  PendingInv'
  <1> SUFFICES ASSUME Clean' PROVE Pending'
    BY DEF PendingInv
  <1>1. Pending
    BY DisturbedGrows DEF PendingInv, Clean
  <1>2. /\ rec \in Nat /\ job["video"] \in Nat /\ tasks \in Seq(Recording)
        /\ pc["ui"] \in Starting => rec \in Recording
    BY RecordingAssumption DEF TypeOK, TaskTypeOK, tasks, Thread, FutureInv,
       Recording
  <1>3. \A i \in 1 .. Len(tasks) : tasks[i] \in Recording
    BY <1>2
  <1>4. \A r \in Recording : outcome'[r] = outcome[r] \/ UiTells(r)
          \/ VideoTells(r)
    BY OutcomeChanges DEF TroubleTells
  <1>5. Recording \subseteq Nat
    BY DEF Recording
  <1>6. ASSUME NEW r \in Recording, r > rec PROVE outcome'[r] = {}
    <2>1. r # rec /\ r # job["video"]
      BY <1>2, <1>5, <1>6 DEF OrderInv
    <2> QED BY <1>1, <1>4, <1>6, <2>1 DEF Pending, UiTells, VideoTells
  <1>7. \A r \in Recording : r > rec' => outcome'[r] = {}
    BY <1>2, <1>5, <1>6, UiChanges
  <1>8. ASSUME NEW i \in 1 .. Len(tasks) PROVE outcome'[tasks[i]] = {"start"}
    <2>1. tasks[i] # job["video"] /\ (pc["ui"] \in NotBegun => tasks[i] # rec)
      BY <1>2, <1>3, <1>5 DEF OrderInv, NotBegun
    <2> QED BY <1>1, <1>3, <1>4, <2>1 DEF Pending, UiTells, VideoTells
  <1>9. ASSUME pc["ui"] = "post" PROVE outcome'[rec] = {"start"}
    <2>1. rec # job["video"]
      BY <1>2, <1>9 DEF OrderInv, Starting
    <2>2. rec \in Recording
      BY <1>2, <1>9 DEF Starting
    <2> QED BY <1>1, <1>4, <1>9, <2>1, <2>2 DEF Pending, UiTells, VideoTells,
       NotBegun
  <1>10. \A i \in 1 .. Len(tasks') : outcome'[tasks'[i]] = {"start"}
    BY <1>8, <1>9, TasksChange
  <1>11. ASSUME pc'["ui"] \in NotBegun PROVE outcome'[rec'] = {}
    <2>1. CASE rec' = rec + 1
      <3>1. rec' \in Recording
        BY <1>2, <2>1, StepTask, RecordingAssumption DEF TaskTypeOK, Recording
      <3> QED BY <1>2, <1>6, <2>1, <3>1
    <2>2. CASE rec' = rec /\ pc["ui"] \in NotBegun
      <3>1. rec # job["video"] /\ rec \in Recording
        BY <1>2, <2>2 DEF OrderInv, NotBegun
      <3> QED BY <1>1, <1>4, <1>11, <2>2, <3>1 DEF Pending, UiTells,
         VideoTells, NotBegun, Starting
    <2> QED BY <1>11, <2>1, <2>2, UiChanges
  <1>12. ASSUME pc'["ui"] = "post" PROVE outcome'[rec'] = {"start"}
    <2>1. rec' = rec /\ pc["ui"] \in Starting
      BY <1>12, UiChanges DEF Starting
    <2>2. CASE beginRecording
      <3>1. Report(rec, "start") /\ pc["ui"] = "begin"
        BY <2>2 DEF beginRecording, Move
      <3>2. outcome \in Outcomes /\ rec \in Recording
        BY <1>2, <2>1 DEF TypeOK, ResultTypeOK, Outcomes
      <3>3. outcome'[rec] = outcome[rec] \cup {"start"}
        BY <3>1, <3>2, ReportDoes
      <3> QED BY <1>1, <2>1, <3>1, <3>3 DEF Pending, NotBegun, Starting
    <2>3. CASE pc["ui"] = "post"
      BY <1>9, <2>1, <2>3
    <2>4. beginRecording \/ pc["ui"] = "post"
      BY <1>12, PostFollows
    <2> QED BY <2>2, <2>3, <2>4
  <1>13. ASSUME pc'["video"] \in Encoding, ~errorOccurred'
         PROVE  outcome'[job'["video"]] = {"start"}
    <2>1. CASE \E j \in 1 .. Len(tasks) : job'["video"] = tasks[j]
      BY <1>8, <2>1
    <2>2. CASE job'["video"] = job["video"] /\ pc["video"] \in Encoding
                 /\ ~errorOccurred
      <3>1. job["video"] \in Recording
        BY <2>2, RecordingAssumption DEF FutureInv, TypeOK, TaskTypeOK, Thread,
           Recording, Encoding
      <3>2. pc["ui"] \in NotBegun => job["video"] # rec
        BY <1>2 DEF OrderInv, NotBegun
      <3> QED BY <1>1, <1>4, <1>13, <2>2, <3>1, <3>2 DEF Pending, UiTells,
         VideoTells, Encoding
    <2> QED BY <1>13, <2>1, <2>2, EncodingChanges
  <1> QED BY <1>7, <1>10, <1>11, <1>12, <1>13 DEF Pending

LEMMA FlagStays ==
    ASSUME Next, ~startRecording, ~writeVideo, ~videoSignal
    PROVE  mIsFirstVideoKeyFrameWrite' = mIsFirstVideoKeyFrameWrite
  <1> USE DEF signals, flags, muxVars, codecVars, taskVars, runVars, lifeVars,
     resultVars, stateVars, Move, Goto, Report, Disturb
  <1>1. CASE \/ startCheck \/ startAudio \/ newFuture \/ startEncoders
             \/ encodersRefuse \/ initMediaMuxer
    BY <1>1 DEF startCheck, Refuses, startAudio, releaseAudioInputResource,
       newFuture, startEncoders, encodersRefuse, initMediaMuxer
  <1>2. CASE \/ beginRecording \/ postEncoding \/ stopRecording \/ stopSignal
             \/ release \/ releaseLater
    BY <1>2 DEF beginRecording, postEncoding, stopRecording, stopSignal,
       release, releaseLater
  <1>3. CASE \/ releaseNow \/ videoEncode \/ videoCheck \/ videoFails
             \/ videoTryAgain \/ videoFormat
    BY <1>3 DEF releaseNow, videoEncode, Take, videoCheck, videoFails,
       videoTryAgain, videoFormat
  <1>4. CASE \/ videoEos \/ stopVideoEncoder \/ stopMuxer \/ stopMuxerFails
             \/ removeRecordingResultIfNoVideoKeyFrameArrived \/ onVideoSaved
    BY <1>4 DEF videoEos, stopVideoEncoder, stopMuxer, stopMuxerFails,
       removeRecordingResultIfNoVideoKeyFrameArrived, KeyFrameArrived,
       onVideoSaved
  <1>5. CASE \/ executeFuture \/ audioEncode \/ audioLoop \/ audioCheck
             \/ audioInput \/ audioOutput
    BY <1>5 DEF executeFuture, audioEncode, Take, audioLoop, audioCheck,
       audioInput, audioOutput
  <1>6. CASE \/ audioFormat \/ audioCrashes \/ stopAudioRecorder
             \/ stopAudioEncoder \/ audioSignal \/ runFuture
    BY <1>6 DEF audioFormat, audioCrashes, stopAudioRecorder,
       stopAudioEncoder, audioSignal, PassesEnd, runFuture, Take
  <1>7. CASE \/ futureReleases \/ setupVideo \/ setupSurface \/ setupAudio
             \/ setupAudioFails \/ setupDone
    BY <1>7 DEF futureReleases, setupVideo, setupSurface, setupAudio,
       setupAudioFails, setupDone, TracksForgotten
  <1> QED BY <1>1, <1>2, <1>3, <1>4, <1>5, <1>6, <1>7, NextIs

\* The first key frame flag follows the recording that goes on.
LEMMA StepKey ==
    ASSUME TypeOK, FutureInv, OrderInv, KeyInv, Next
    PROVE  KeyInv'
  <1> USE DEF KeyInv, TypeOK, PcTypeOK, TaskTypeOK, Thread, signals, flags,
     muxVars, codecVars, taskVars, runVars, lifeVars, resultVars, stateVars,
     Move, Goto
  <1>1. ASSUME startRecording PROVE KeyInv'
    BY <1>1, VideoStays, RecordingAssumption DEF startRecording, Idle, Disturb,
       resultVars, Thread, PcTypeOK
  <1>2. ASSUME videoEncode PROVE KeyInv'
    <2>1. job'["video"] > job["video"] /\ pc["video"] = "idle"
            /\ job'["video"] \in Nat
      <3>1. /\ tasks # << >> /\ tasks \in Seq(Recording) /\ pc["video"] = "idle"
            /\ job'["video"] = Head(tasks)
        BY <1>2, TakeDoes DEF videoEncode, TypeOK, tasks
      <3>2. Head(tasks) = tasks[1] /\ 1 \in 1 .. Len(tasks)
              /\ Head(tasks) \in Recording
        BY <3>1
      <3> QED BY <3>1, <3>2, RecordingAssumption DEF OrderInv, Recording
    <2>2. /\ keyFrames' = keyFrames /\ pc'["video"] = "check"
          /\ mIsFirstVideoKeyFrameWrite' = mIsFirstVideoKeyFrameWrite
      BY <1>2 DEF videoEncode, Take
    <2>3. \A r \in keyFrames : r \in Nat
      BY DEF TypeOK, ResultTypeOK, Recording
    <2> QED BY <2>1, <2>2, <2>3, RecordingAssumption
  <1>3. ASSUME videoCheck PROVE KeyInv'
    BY <1>3, DisturbedGrows, FlagStays, RecordingAssumption DEF videoCheck
  <1>4. ASSUME videoFails PROVE KeyInv'
    BY <1>4, DisturbedGrows, FlagStays, RecordingAssumption DEF videoFails
  <1>5. ASSUME videoTryAgain PROVE KeyInv'
    BY <1>5, DisturbedGrows, FlagStays, RecordingAssumption DEF videoTryAgain
  <1>6. ASSUME videoFormat PROVE KeyInv'
    BY <1>6, DisturbedGrows, FlagStays, RecordingAssumption DEF videoFormat
  <1>7. ASSUME writeVideo PROVE KeyInv'
    <2>1. /\ pc["video"] = "dequeue" /\ pc'["video"] = "check"
          /\ UNCHANGED <<job, errorOccurred, disturbed>>
      BY <1>7 DEF writeVideo
    <2>2. PICK b \in BOOLEAN :
             /\ mIsFirstVideoKeyFrameWrite' = (mIsFirstVideoKeyFrameWrite \/ b)
             /\ keyFrames' = IF b THEN keyFrames \cup {job["video"]}
                  ELSE keyFrames
      BY <1>7, Zenon DEF writeVideo
    <2>3. job["video"] \in Nat
      BY RecordingAssumption
    <2>4. CASE b
      <3>1. mIsFirstVideoKeyFrameWrite'
              /\ keyFrames' = keyFrames \cup {job["video"]}
        BY <2>2, <2>4, Zenon
      <3>2. job'["video"] = job["video"] /\ job["video"] \in keyFrames'
        BY <2>1, <3>1
      <3>3. \A r \in keyFrames' : r <= job'["video"]
        BY <2>1, <2>3, <3>1
      <3> QED BY <2>1, <3>1, <3>2, <3>3
    <2>5. CASE ~b
      BY <2>1, <2>2, <2>3, <2>5
    <2> QED BY <2>4, <2>5
  <1>8. ASSUME videoEos PROVE KeyInv'
    BY <1>8, DisturbedGrows, FlagStays, RecordingAssumption DEF videoEos
  <1>9. ASSUME stopVideoEncoder PROVE KeyInv'
    BY <1>9, DisturbedGrows, FlagStays, RecordingAssumption DEF stopVideoEncoder
  <1>10. ASSUME stopMuxer PROVE KeyInv'
    BY <1>10, DisturbedGrows, FlagStays, RecordingAssumption DEF stopMuxer
  <1>11. ASSUME stopMuxerFails PROVE KeyInv'
    BY <1>11, DisturbedGrows, FlagStays, RecordingAssumption DEF stopMuxerFails
  <1>12. ASSUME removeRecordingResultIfNoVideoKeyFrameArrived PROVE KeyInv'
    BY <1>12, DisturbedGrows, FlagStays,
       RecordingAssumption DEF removeRecordingResultIfNoVideoKeyFrameArrived,
       KeyFrameArrived
  <1>13. ASSUME videoSignal PROVE KeyInv'
    BY <1>13, DisturbedGrows, FlagStays, RecordingAssumption DEF videoSignal
  <1>14. ASSUME onVideoSaved PROVE KeyInv'
    BY <1>14, DisturbedGrows, FlagStays, RecordingAssumption DEF onVideoSaved
  <1>15. ASSUME executeFuture PROVE KeyInv'
    BY <1>15, DisturbedGrows, FlagStays, RecordingAssumption DEF executeFuture
  <1>16. ASSUME ~startRecording, ~videoEncode, ~videoCheck, ~videoFails,
                ~videoTryAgain, ~videoFormat, ~writeVideo, ~videoEos,
                ~stopVideoEncoder, ~stopMuxer, ~stopMuxerFails,
                ~removeRecordingResultIfNoVideoKeyFrameArrived, ~videoSignal,
                ~onVideoSaved, ~executeFuture
         PROVE  KeyInv'
    BY <1>16, VideoStays, FlagStays, DisturbedGrows DEF VideoStep
  <1> QED BY <1>1, <1>2, <1>3, <1>4, <1>5, <1>6, <1>7, <1>8, <1>9, <1>10,
       <1>11, <1>12, <1>13, <1>14, <1>15, <1>16

LEMMA KeyFramesStay ==
    ASSUME Next, ~writeVideo
    PROVE  keyFrames' = keyFrames
  <1> USE DEF signals, flags, muxVars, codecVars, taskVars, runVars, lifeVars,
     resultVars, stateVars, Move, Goto, Report, Disturb
  <1>1. CASE \/ startRecording \/ startCheck \/ startAudio \/ newFuture
             \/ startEncoders \/ encodersRefuse
    BY <1>1 DEF startRecording, startCheck, Refuses, startAudio,
       releaseAudioInputResource, newFuture, startEncoders, encodersRefuse
  <1>2. CASE \/ initMediaMuxer \/ beginRecording \/ postEncoding
             \/ stopRecording \/ stopSignal \/ release
    BY <1>2 DEF initMediaMuxer, beginRecording, postEncoding, stopRecording,
       stopSignal, release
  <1>3. CASE \/ releaseLater \/ releaseNow \/ videoEncode \/ videoCheck
             \/ videoFails \/ videoTryAgain
    BY <1>3 DEF releaseLater, releaseNow, videoEncode, Take, videoCheck,
       videoFails, videoTryAgain
  <1>4. CASE \/ videoFormat \/ videoEos \/ stopVideoEncoder \/ stopMuxer
             \/ stopMuxerFails
             \/ removeRecordingResultIfNoVideoKeyFrameArrived
    BY <1>4 DEF videoFormat, videoEos, stopVideoEncoder, stopMuxer,
       stopMuxerFails, removeRecordingResultIfNoVideoKeyFrameArrived,
       KeyFrameArrived
  <1>5. CASE \/ videoSignal \/ onVideoSaved \/ executeFuture \/ audioEncode
             \/ audioLoop \/ audioCheck
    BY <1>5 DEF videoSignal, onVideoSaved, executeFuture, audioEncode, Take,
       audioLoop, audioCheck
  <1>6. CASE \/ audioInput \/ audioOutput \/ audioFormat \/ audioCrashes
             \/ stopAudioRecorder \/ stopAudioEncoder
    BY <1>6 DEF audioInput, audioOutput, audioFormat, audioCrashes,
       stopAudioRecorder, stopAudioEncoder
  <1>7. CASE \/ audioSignal \/ runFuture \/ futureReleases \/ setupVideo
             \/ setupSurface \/ setupAudio
    BY <1>7 DEF audioSignal, PassesEnd, runFuture, Take, futureReleases,
       setupVideo, setupSurface, setupAudio
  <1>8. CASE \/ setupAudioFails \/ setupDone
    BY <1>8 DEF setupAudioFails, setupDone, TracksForgotten
  <1> QED BY <1>1, <1>2, <1>3, <1>4, <1>5, <1>6, <1>7, <1>8, NextIs

LEMMA EndsStay ==
    ASSUME PcTypeOK, TaskTypeOK, Next, ~videoEncode
    PROVE  /\ pc["video"] \in {"idle", "execute"}
                => pc'["video"] \in {"idle", "execute"}
           /\ pc["video"] \in {"signal", "report", "idle", "execute"} =>
                 pc'["video"] \in {"signal", "report", "idle", "execute"}
  <1> USE DEF PcTypeOK, TaskTypeOK, Thread, signals, flags, muxVars, codecVars,
     taskVars, runVars, lifeVars, resultVars, stateVars, Move, Goto, Report,
     Disturb
  <1>1. CASE \/ startRecording \/ startCheck \/ startAudio \/ newFuture
             \/ startEncoders \/ encodersRefuse
    BY <1>1 DEF startRecording, startCheck, Refuses, startAudio,
       releaseAudioInputResource, newFuture, startEncoders, encodersRefuse
  <1>2. CASE \/ initMediaMuxer \/ beginRecording \/ postEncoding
             \/ stopRecording \/ stopSignal \/ release
    BY <1>2 DEF initMediaMuxer, beginRecording, postEncoding, stopRecording,
       stopSignal, release
  <1>3. CASE \/ releaseLater \/ releaseNow \/ videoCheck \/ videoFails
             \/ videoTryAgain \/ videoFormat
    BY <1>3 DEF releaseLater, releaseNow, videoCheck, videoFails,
       videoTryAgain, videoFormat
  <1>4. CASE \/ writeVideo \/ videoEos \/ stopVideoEncoder \/ stopMuxer
             \/ stopMuxerFails
             \/ removeRecordingResultIfNoVideoKeyFrameArrived
    BY <1>4 DEF writeVideo, videoEos, stopVideoEncoder, stopMuxer,
       stopMuxerFails, removeRecordingResultIfNoVideoKeyFrameArrived,
       KeyFrameArrived
  <1>5. CASE \/ videoSignal \/ onVideoSaved \/ executeFuture \/ audioEncode
             \/ audioLoop \/ audioCheck
    BY <1>5 DEF videoSignal, onVideoSaved, executeFuture, audioEncode, Take,
       audioLoop, audioCheck
  <1>6. CASE \/ audioInput \/ audioOutput \/ audioFormat \/ audioCrashes
             \/ stopAudioRecorder \/ stopAudioEncoder
    BY <1>6 DEF audioInput, audioOutput, audioFormat, audioCrashes,
       stopAudioRecorder, stopAudioEncoder
  <1>7. CASE \/ audioSignal \/ runFuture \/ futureReleases \/ setupVideo
             \/ setupSurface \/ setupAudio
    BY <1>7 DEF audioSignal, PassesEnd, runFuture, Take, futureReleases,
       setupVideo, setupSurface, setupAudio
  <1>8. CASE \/ setupAudioFails \/ setupDone
    BY <1>8 DEF setupAudioFails, setupDone, TracksForgotten
  <1> QED BY <1>1, <1>2, <1>3, <1>4, <1>5, <1>6, <1>7, <1>8, NextIs

\* A verdict is given once, on a recording that is over.
LEMMA StepVerdict ==
    ASSUME TypeOK, FutureInv, OrderInv, PendingInv, KeyInv, VerdictInv, Next
    PROVE  VerdictInv'
  <1>1. /\ rec \in Nat /\ job["video"] \in Nat /\ tasks \in Seq(Recording)
        /\ pc["ui"] \in Starting => rec \in Recording
        /\ Recording \subseteq Nat /\ disturbed \subseteq disturbed'
    BY RecordingAssumption, DisturbedGrows
    DEF TypeOK, TaskTypeOK, tasks, Thread, FutureInv, Recording
  <1>2. \A i \in 1 .. Len(tasks) : tasks[i] \in Recording
    BY <1>1
  <1>3. ASSUME NEW r \in Recording
        PROVE  (Past(r) => Past(r)') /\ (Wound(r) => Wound(r)')
    <2>1. CASE videoEncode
      <3>1. \E j \in 1 .. Len(tasks) : job'["video"] = tasks[j]
        <4>1. tasks # << >> /\ job'["video"] = Head(tasks)
          BY <2>1, TakeDoes DEF videoEncode, Thread, TypeOK, TaskTypeOK, tasks
        <4>2. Head(tasks) = tasks[1] /\ 1 \in 1 .. Len(tasks)
          BY <1>1, <4>1
        <4> QED BY <4>1, <4>2
      <3>2. job["video"] < job'["video"] /\ job'["video"] \in Nat
        BY <1>1, <1>2, <3>1 DEF OrderInv
      <3> QED BY <1>1, <3>2 DEF Past, Wound
    <2>2. CASE ~videoEncode
      BY <2>2, EndsStay, VideoWorks DEF TypeOK, Past, Wound
    <2> QED BY <2>1, <2>2
  <1>4. \A r \in Recording : \/ outcome'[r] = outcome[r] \/ UiTells(r)
                             \/ VideoTells(r) \/ TroubleTells(r)
    BY OutcomeChanges
  <1>5. ASSUME NEW r \in Recording PROVE r \in keyFrames => r \in keyFrames'
    BY KeyFramesStay DEF writeVideo
  <1>6. ASSUME NEW r \in Recording, "saved" \in outcome'[r]
        PROVE  Past(r)' /\ r \in keyFrames'
    <2>1. CASE "saved" \in outcome[r]
      BY <1>3, <1>5, <2>1 DEF VerdictInv
    <2>2. CASE "saved" \notin outcome[r]
      <3>1. /\ r = job["video"] /\ ~errorOccurred
            /\ pc["video"] = "report" /\ pc'["video"] = "execute"
        BY <1>4, <1>6, <2>2 DEF UiTells, VideoTells, TroubleTells
      <3>2. job'["video"] = job["video"]
        BY <3>1, EncodingChanges
      <3> QED BY <1>5, <3>1, <3>2 DEF Past, KeyInv
    <2> QED BY <2>1, <2>2
  <1>7. ASSUME NEW r \in Recording, "short" \in outcome'[r]
        PROVE  Wound(r)' /\ ("early" \notin disturbed' => r \notin keyFrames')
    <2>1. CASE "short" \in outcome[r]
      <3>1. Wound(r) /\ Wound(r)'
        BY <1>3, <2>1 DEF VerdictInv
      <3>2. r \in keyFrames' => r \in keyFrames
        <4>1. CASE writeVideo
          BY <1>1, <3>1, <4>1 DEF writeVideo, Wound, Move
        <4> QED BY <4>1, KeyFramesStay
      <3> QED BY <1>1, <2>1, <3>1, <3>2 DEF VerdictInv
    <2>2. CASE "short" \notin outcome[r]
      <3>1. /\ r = job["video"] /\ ~mIsFirstVideoKeyFrameWrite
            /\ pc["video"] \in {"muxer", "key"} /\ pc'["video"] = "signal"
            /\ keyFrames' = keyFrames
        BY <1>4, <1>7, <2>2 DEF UiTells, VideoTells, TroubleTells
      <3>2. job'["video"] = job["video"]
        BY <3>1, EncodingChanges
      <3> QED BY <1>1, <3>1, <3>2 DEF Wound, KeyInv
    <2> QED BY <2>1, <2>2
  <1>8. ASSUME NEW r \in Recording, "saved" \in outcome'[r], Clean'
        PROVE  outcome'[r] = {"start", "saved"}
    <2>1. Clean /\ Pending
      BY <1>1, <1>8 DEF Clean, PendingInv
    <2>2. CASE "saved" \in outcome[r]
      <3>1. outcome[r] = {"start", "saved"} /\ Past(r)
        BY <2>1, <2>2 DEF VerdictInv
      <3>2. ~UiTells(r)
        BY <2>1, <2>2 DEF UiTells, Pending
      <3>3. ~VideoTells(r)
        BY <1>1, <3>1 DEF VideoTells, Past, Encoding
      <3> QED BY <1>4, <1>8, <3>1, <3>2, <3>3 DEF TroubleTells
    <2>3. CASE "saved" \notin outcome[r]
      <3>1. /\ r = job["video"] /\ ~errorOccurred /\ pc["video"] = "report"
            /\ outcome'[r] = outcome[r] \cup {"saved"}
        BY <1>4, <1>8, <2>3 DEF UiTells, VideoTells, TroubleTells
      <3> QED BY <2>1, <3>1 DEF Pending, Encoding
    <2> QED BY <2>2, <2>3
  <1> QED BY <1>6, <1>7, <1>8 DEF VerdictInv

LEMMA PlacesStay ==
    ASSUME PcTypeOK, Next, ~Calls, ~UiStep, ~ExecStep
    PROVE  /\ pc'["ui"] = pc["ui"] /\ pc'["exec"] = pc["exec"]
           /\ released' = released
                /\ mRecordingWaitRelease' = mRecordingWaitRelease
  <1> USE DEF PcTypeOK, Thread, signals, flags, muxVars, codecVars, taskVars,
     runVars, lifeVars, resultVars, stateVars, Move, Goto, Report, Disturb
  <1>1. CASE \/ videoEncode \/ videoCheck \/ videoFails \/ videoTryAgain
             \/ videoFormat \/ writeVideo
    BY <1>1 DEF videoEncode, Take, videoCheck, videoFails, videoTryAgain,
       videoFormat, writeVideo
  <1>2. CASE \/ videoEos \/ stopVideoEncoder \/ stopMuxer \/ stopMuxerFails
             \/ removeRecordingResultIfNoVideoKeyFrameArrived \/ videoSignal
    BY <1>2 DEF videoEos, stopVideoEncoder, stopMuxer, stopMuxerFails,
       removeRecordingResultIfNoVideoKeyFrameArrived, KeyFrameArrived,
       videoSignal
  <1>3. CASE \/ onVideoSaved \/ executeFuture \/ audioEncode \/ audioLoop
             \/ audioCheck \/ audioInput
    BY <1>3 DEF onVideoSaved, executeFuture, audioEncode, Take, audioLoop,
       audioCheck, audioInput
  <1>4. CASE \/ audioOutput \/ audioFormat \/ audioCrashes
             \/ stopAudioRecorder \/ stopAudioEncoder \/ audioSignal
    BY <1>4 DEF audioOutput, audioFormat, audioCrashes, stopAudioRecorder,
       stopAudioEncoder, audioSignal, PassesEnd
  <1> QED BY <1>1, <1>2, <1>3, <1>4, NextIs DEF Calls, ExecStep, UiStep

\* Nothing is given up before release is called.
LEMMA StepReleased ==
    ASSUME TypeOK, ReleasedInv, Next
    PROVE  ReleasedInv'
  <1> USE DEF ReleasedInv, Starting, TypeOK, PcTypeOK, Thread, signals, flags,
     muxVars, codecVars, taskVars, runVars, lifeVars, resultVars, stateVars,
     Move, Goto
  <1>1. ASSUME startRecording PROVE ReleasedInv'
    BY <1>1 DEF startRecording
  <1>2. ASSUME startCheck PROVE ReleasedInv'
    BY <1>2 DEF startCheck
  <1>3. ASSUME startAudio PROVE ReleasedInv'
    BY <1>3 DEF startAudio
  <1>4. ASSUME newFuture PROVE ReleasedInv'
    BY <1>4 DEF newFuture
  <1>5. ASSUME startEncoders PROVE ReleasedInv'
    BY <1>5 DEF startEncoders
  <1>6. ASSUME encodersRefuse PROVE ReleasedInv'
    BY <1>6 DEF encodersRefuse
  <1>7. ASSUME initMediaMuxer PROVE ReleasedInv'
    BY <1>7 DEF initMediaMuxer
  <1>8. ASSUME beginRecording PROVE ReleasedInv'
    BY <1>8 DEF beginRecording
  <1>9. ASSUME postEncoding PROVE ReleasedInv'
    BY <1>9 DEF postEncoding
  <1>10. ASSUME stopRecording PROVE ReleasedInv'
    BY <1>10 DEF stopRecording
  <1>11. ASSUME stopSignal PROVE ReleasedInv'
    BY <1>11 DEF stopSignal
  <1>12. ASSUME release PROVE ReleasedInv'
    BY <1>12 DEF release
  <1>13. ASSUME releaseLater PROVE ReleasedInv'
    BY <1>13 DEF releaseLater
  <1>14. ASSUME releaseNow PROVE ReleasedInv'
    BY <1>14 DEF releaseNow
  <1>15. ASSUME runFuture PROVE ReleasedInv'
    BY <1>15 DEF runFuture, Take
  <1>16. ASSUME futureReleases PROVE ReleasedInv'
    BY <1>16 DEF futureReleases
  <1>17. ASSUME setupVideo PROVE ReleasedInv'
    BY <1>17 DEF setupVideo
  <1>18. ASSUME setupSurface PROVE ReleasedInv'
    BY <1>18 DEF setupSurface
  <1>19. ASSUME setupAudio PROVE ReleasedInv'
    BY <1>19 DEF setupAudio
  <1>20. ASSUME setupAudioFails PROVE ReleasedInv'
    BY <1>20 DEF setupAudioFails
  <1>21. ASSUME setupDone PROVE ReleasedInv'
    BY <1>21 DEF setupDone
  <1>22. ASSUME ~startRecording, ~startCheck, ~startAudio, ~newFuture,
                ~startEncoders, ~encodersRefuse, ~initMediaMuxer,
                ~beginRecording, ~postEncoding, ~stopRecording, ~stopSignal,
                ~release, ~releaseLater, ~releaseNow, ~runFuture,
                ~futureReleases, ~setupVideo, ~setupSurface, ~setupAudio,
                ~setupAudioFails, ~setupDone
         PROVE  ReleasedInv'
    BY <1>22, PlacesStay DEF Calls, UiStep, ExecStep
  <1> QED BY <1>1, <1>2, <1>3, <1>4, <1>5, <1>6, <1>7, <1>8, <1>9, <1>10,
       <1>11, <1>12, <1>13, <1>14, <1>15, <1>16, <1>17, <1>18, <1>19, <1>20,
       <1>21, <1>22

LEMMA WantedStays ==
    ASSUME Next
    PROVE  audioWanted' = audioWanted
  <1> USE DEF signals, flags, muxVars, codecVars, taskVars, runVars, lifeVars,
     resultVars, stateVars, Move, Goto, Report, Disturb
  <1>1. CASE \/ startRecording \/ startCheck \/ startAudio \/ newFuture
             \/ startEncoders \/ encodersRefuse
    BY <1>1 DEF startRecording, startCheck, Refuses, startAudio,
       releaseAudioInputResource, newFuture, startEncoders, encodersRefuse
  <1>2. CASE \/ initMediaMuxer \/ beginRecording \/ postEncoding
             \/ stopRecording \/ stopSignal \/ release
    BY <1>2 DEF initMediaMuxer, beginRecording, postEncoding, stopRecording,
       stopSignal, release
  <1>3. CASE \/ releaseLater \/ releaseNow \/ videoEncode \/ videoCheck
             \/ videoFails \/ videoTryAgain
    BY <1>3 DEF releaseLater, releaseNow, videoEncode, Take, videoCheck,
       videoFails, videoTryAgain
  <1>4. CASE \/ videoFormat \/ writeVideo \/ videoEos \/ stopVideoEncoder
             \/ stopMuxer \/ stopMuxerFails
    BY <1>4 DEF videoFormat, writeVideo, videoEos, stopVideoEncoder,
       stopMuxer, stopMuxerFails
  <1>5. CASE \/ removeRecordingResultIfNoVideoKeyFrameArrived \/ videoSignal
             \/ onVideoSaved \/ executeFuture \/ audioEncode \/ audioLoop
    BY <1>5 DEF removeRecordingResultIfNoVideoKeyFrameArrived,
       KeyFrameArrived, videoSignal, onVideoSaved, executeFuture,
       audioEncode, Take, audioLoop
  <1>6. CASE \/ audioCheck \/ audioInput \/ audioOutput \/ audioFormat
             \/ audioCrashes \/ stopAudioRecorder
    BY <1>6 DEF audioCheck, audioInput, audioOutput, audioFormat,
       audioCrashes, stopAudioRecorder
  <1>7. CASE \/ stopAudioEncoder \/ audioSignal \/ runFuture \/ futureReleases
             \/ setupVideo \/ setupSurface
    BY <1>7 DEF stopAudioEncoder, audioSignal, PassesEnd, runFuture, Take,
       futureReleases, setupVideo, setupSurface
  <1>8. CASE \/ setupAudio \/ setupAudioFails \/ setupDone
    BY <1>8 DEF setupAudio, setupAudioFails, setupDone, TracksForgotten
  <1> QED BY <1>1, <1>2, <1>3, <1>4, <1>5, <1>6, <1>7, <1>8, NextIs

LEMMA AudioStays ==
    ASSUME Next, ~startAudio, ~releaseNow, ~stopAudioRecorder, ~futureReleases,
           ~setupAudio, ~setupAudioFails
    PROVE  mAudioRecorder' = mAudioRecorder
             /\ mIsAudioEnabled' = mIsAudioEnabled
  <1> USE DEF signals, flags, muxVars, codecVars, taskVars, runVars, lifeVars,
     resultVars, stateVars, Move, Goto, Report, Disturb
  <1>1. CASE \/ startRecording \/ startCheck \/ newFuture \/ startEncoders
             \/ encodersRefuse \/ initMediaMuxer
    BY <1>1 DEF startRecording, startCheck, Refuses, newFuture,
       startEncoders, encodersRefuse, initMediaMuxer
  <1>2. CASE \/ beginRecording \/ postEncoding \/ stopRecording \/ stopSignal
             \/ release \/ releaseLater
    BY <1>2 DEF beginRecording, postEncoding, stopRecording, stopSignal,
       release, releaseLater
  <1>3. CASE \/ videoEncode \/ videoCheck \/ videoFails \/ videoTryAgain
             \/ videoFormat \/ writeVideo
    BY <1>3 DEF videoEncode, Take, videoCheck, videoFails, videoTryAgain,
       videoFormat, writeVideo
  <1>4. CASE \/ videoEos \/ stopVideoEncoder \/ stopMuxer \/ stopMuxerFails
             \/ removeRecordingResultIfNoVideoKeyFrameArrived \/ videoSignal
    BY <1>4 DEF videoEos, stopVideoEncoder, stopMuxer, stopMuxerFails,
       removeRecordingResultIfNoVideoKeyFrameArrived, KeyFrameArrived,
       videoSignal
  <1>5. CASE \/ onVideoSaved \/ executeFuture \/ audioEncode \/ audioLoop
             \/ audioCheck \/ audioInput
    BY <1>5 DEF onVideoSaved, executeFuture, audioEncode, Take, audioLoop,
       audioCheck, audioInput
  <1>6. CASE \/ audioOutput \/ audioFormat \/ audioCrashes \/ stopAudioEncoder
             \/ audioSignal \/ runFuture
    BY <1>6 DEF audioOutput, audioFormat, audioCrashes, stopAudioEncoder,
       audioSignal, PassesEnd, runFuture, Take
  <1>7. CASE \/ setupVideo \/ setupSurface \/ setupDone
    BY <1>7 DEF setupVideo, setupSurface, setupDone, TracksForgotten
  <1> QED BY <1>1, <1>2, <1>3, <1>4, <1>5, <1>6, <1>7, NextIs

LEMMA ReleasedStays ==
    ASSUME Next, ~release
    PROVE  released' = released
  <1> USE DEF signals, flags, muxVars, codecVars, taskVars, runVars, lifeVars,
     resultVars, stateVars, Move, Goto, Report, Disturb
  <1>1. CASE \/ startRecording \/ startCheck \/ startAudio \/ newFuture
             \/ startEncoders \/ encodersRefuse
    BY <1>1 DEF startRecording, startCheck, Refuses, startAudio,
       releaseAudioInputResource, newFuture, startEncoders, encodersRefuse
  <1>2. CASE \/ initMediaMuxer \/ beginRecording \/ postEncoding
             \/ stopRecording \/ stopSignal \/ releaseLater
    BY <1>2 DEF initMediaMuxer, beginRecording, postEncoding, stopRecording,
       stopSignal, releaseLater
  <1>3. CASE \/ releaseNow \/ videoEncode \/ videoCheck \/ videoFails
             \/ videoTryAgain \/ videoFormat
    BY <1>3 DEF releaseNow, videoEncode, Take, videoCheck, videoFails,
       videoTryAgain, videoFormat
  <1>4. CASE \/ writeVideo \/ videoEos \/ stopVideoEncoder \/ stopMuxer
             \/ stopMuxerFails
             \/ removeRecordingResultIfNoVideoKeyFrameArrived
    BY <1>4 DEF writeVideo, videoEos, stopVideoEncoder, stopMuxer,
       stopMuxerFails, removeRecordingResultIfNoVideoKeyFrameArrived,
       KeyFrameArrived
  <1>5. CASE \/ videoSignal \/ onVideoSaved \/ executeFuture \/ audioEncode
             \/ audioLoop \/ audioCheck
    BY <1>5 DEF videoSignal, onVideoSaved, executeFuture, audioEncode, Take,
       audioLoop, audioCheck
  <1>6. CASE \/ audioInput \/ audioOutput \/ audioFormat \/ audioCrashes
             \/ stopAudioRecorder \/ stopAudioEncoder
    BY <1>6 DEF audioInput, audioOutput, audioFormat, audioCrashes,
       stopAudioRecorder, stopAudioEncoder
  <1>7. CASE \/ audioSignal \/ runFuture \/ futureReleases \/ setupVideo
             \/ setupSurface \/ setupAudio
    BY <1>7 DEF audioSignal, PassesEnd, runFuture, Take, futureReleases,
       setupVideo, setupSurface, setupAudio
  <1>8. CASE \/ setupAudioFails \/ setupDone
    BY <1>8 DEF setupAudioFails, setupDone, TracksForgotten
  <1> QED BY <1>1, <1>2, <1>3, <1>4, <1>5, <1>6, <1>7, <1>8, NextIs

\* The first two parts of AnswerInv.
AudioInv ==
    "mic" \notin disturbed =>
        /\ audioWanted /\ ~released => mAudioRecorder # "null"
        /\ mIsAudioEnabled => audioWanted

LEMMA StepAudio ==
    ASSUME TypeOK, ReleasedInv, AudioInv, Next
    PROVE  AudioInv'
  <1> USE DEF AudioInv, ReleasedInv, TypeOK, PcTypeOK, Thread, signals, flags,
     muxVars, codecVars, taskVars, runVars, lifeVars, resultVars, stateVars,
     Move, Goto
  <1>1. ASSUME startAudio PROVE AudioInv'
    BY <1>1, WantedStays, ReleasedStays, DisturbedGrows DEF startAudio,
       releaseAudioInputResource, Disturb
  <1>2. ASSUME releaseNow PROVE AudioInv'
    BY <1>2, WantedStays, ReleasedStays, DisturbedGrows DEF releaseNow,
       releaseResources
  <1>3. ASSUME stopAudioRecorder PROVE AudioInv'
    BY <1>3, WantedStays, ReleasedStays, DisturbedGrows DEF stopAudioRecorder
  <1>4. ASSUME futureReleases PROVE AudioInv'
    BY <1>4, WantedStays, ReleasedStays, DisturbedGrows DEF futureReleases,
       releaseResources
  <1>5. ASSUME setupAudio PROVE AudioInv'
    BY <1>5, WantedStays, ReleasedStays, DisturbedGrows DEF setupAudio, Disturb
  <1>6. ASSUME setupAudioFails PROVE AudioInv'
    BY <1>6, WantedStays, ReleasedStays, DisturbedGrows DEF setupAudioFails
  <1>7. ASSUME release PROVE AudioInv'
    BY <1>7, WantedStays, AudioStays, DisturbedGrows DEF release
  <1>8. ASSUME ~startAudio, ~releaseNow, ~stopAudioRecorder, ~futureReleases,
               ~setupAudio, ~setupAudioFails, ~release
        PROVE  AudioInv'
    BY <1>8, WantedStays, AudioStays, ReleasedStays, DisturbedGrows
  <1> QED BY <1>1, <1>2, <1>3, <1>4, <1>5, <1>6, <1>7, <1>8

LEMMA NotBegunStays ==
    ASSUME TypeOK, pc["ui"] \in NotBegun, Next, ~startCheck, ~startAudio,
           ~encodersRefuse, ~initMediaMuxer, ~beginRecording
    PROVE  pc'["ui"] \in NotBegun
  <1> USE DEF TypeOK, PcTypeOK, NotBegun, Starting, Thread, Move, Goto,
     stateVars
  <1>1. CASE \/ startRecording \/ newFuture \/ startEncoders \/ postEncoding
             \/ stopRecording \/ stopSignal
    BY <1>1 DEF startRecording, newFuture, startEncoders, postEncoding,
       stopRecording, stopSignal
  <1>2. CASE \/ release \/ releaseLater \/ releaseNow \/ videoEncode
             \/ videoCheck \/ videoFails
    BY <1>2 DEF release, releaseLater, releaseNow, videoEncode, Take,
       videoCheck, videoFails
  <1>3. CASE \/ videoTryAgain \/ videoFormat \/ writeVideo \/ videoEos
             \/ stopVideoEncoder \/ stopMuxer
    BY <1>3 DEF videoTryAgain, videoFormat, writeVideo, videoEos,
       stopVideoEncoder, stopMuxer
  <1>4. CASE \/ stopMuxerFails
             \/ removeRecordingResultIfNoVideoKeyFrameArrived \/ videoSignal
             \/ onVideoSaved \/ executeFuture \/ audioEncode
    BY <1>4 DEF stopMuxerFails,
       removeRecordingResultIfNoVideoKeyFrameArrived, KeyFrameArrived,
       videoSignal, onVideoSaved, executeFuture, audioEncode, Take
  <1>5. CASE \/ audioLoop \/ audioCheck \/ audioInput \/ audioOutput
             \/ audioFormat \/ audioCrashes
    BY <1>5 DEF audioLoop, audioCheck, audioInput, audioOutput, audioFormat,
       audioCrashes
  <1>6. CASE \/ stopAudioRecorder \/ stopAudioEncoder \/ audioSignal
             \/ runFuture \/ futureReleases \/ setupVideo
    BY <1>6 DEF stopAudioRecorder, stopAudioEncoder, audioSignal, PassesEnd,
       runFuture, Take, futureReleases, setupVideo
  <1>7. CASE \/ setupSurface \/ setupAudio \/ setupAudioFails \/ setupDone
    BY <1>7 DEF setupSurface, setupAudio, setupAudioFails, setupDone,
       TracksForgotten
  <1> QED BY <1>1, <1>2, <1>3, <1>4, <1>5, <1>6, <1>7, NextIs

\* Every return of startRecording comes after a callback.
LEMMA StepAnswer ==
    ASSUME TypeOK, FutureInv, OrderInv, ReleasedInv, AnswerInv, Next
    PROVE  AnswerInv'
  <1>1. AudioInv'
    BY StepAudio DEF AnswerInv, AudioInv
  <1> SUFFICES ASSUME "mic" \notin disturbed'
               PROVE  \A r \in 1 .. rec' :
                         r < rec' \/ pc'["ui"] \notin NotBegun
                           => outcome'[r] # {}
    BY <1>1 DEF AnswerInv, AudioInv
  <1>2. /\ "mic" \notin disturbed
        /\ \A r \in 1 .. rec : r < rec \/ pc["ui"] \notin NotBegun
             => outcome[r] # {}
    BY DisturbedGrows DEF AnswerInv
  <1>3. rec \in Nat /\ 1 .. rec \subseteq Recording /\ outcome \in Outcomes
    BY RecordingAssumption DEF TypeOK, TaskTypeOK, ResultTypeOK, Outcomes,
       Recording
  <1>4. ASSUME NEW r \in 1 .. rec, outcome[r] # {} PROVE outcome'[r] # {}
    BY <1>3, <1>4, OutcomeChanges DEF UiTells, VideoTells, TroubleTells
  <1>5. ASSUME pc["ui"] \in NotBegun, pc'["ui"] \notin NotBegun,
                 NEW r \in 1 .. rec, r = rec
        PROVE  outcome'[r] # {}
    <2>1. mIsAudioEnabled => mAudioRecorder # "null" /\ codec["audio"] # "null"
      BY <1>2, <1>5 DEF AnswerInv, ReleasedInv, NotBegun, TypeOK, MediaTypeOK
    <2>2. ASSUME NEW what \in {"start", "saved", "short", "error"},
                   Report(rec, what)
          PROVE  outcome'[r] # {}
      <3>1. r \in Recording
        BY <1>3
      <3>2. outcome'[r] = outcome[r] \cup {what}
        BY <1>3, <1>5, <2>2, <3>1, ReportDoes
      <3> QED BY <3>2
    <2> USE DEF TypeOK, PcTypeOK, NotBegun, Starting, Thread, Move, Goto
    <2>3. CASE startCheck
      BY <1>5, <2>2, <2>3 DEF startCheck
    <2>4. CASE startAudio
      <3>1. pc'["ui"] = "future"
        BY <1>2, <1>5, <2>1, <2>4 DEF startAudio, Disturb
      <3> QED BY <1>5, <3>1
    <2>5. CASE encodersRefuse
      <3>1. Report(rec, "error")
        BY <2>1, <2>5 DEF encodersRefuse, Recorded
      <3> QED BY <2>2, <3>1
    <2>6. CASE initMediaMuxer
      <3>1. Report(rec, "error")
        BY <1>5, <2>6 DEF initMediaMuxer
      <3> QED BY <2>2, <3>1
    <2>7. CASE beginRecording
      <3>1. Report(rec, "start")
        BY <2>7 DEF beginRecording
      <3> QED BY <2>2, <3>1
    <2> QED BY <1>5, <2>3, <2>4, <2>5, <2>6, <2>7, NotBegunStays
  <1>6. ASSUME NEW r \in 1 .. rec', r < rec' \/ pc'["ui"] \notin NotBegun
        PROVE  outcome'[r] # {}
    <2>1. CASE rec' = rec
      <3>1. CASE outcome[r] # {}
        BY <1>4, <2>1, <3>1
      <3>2. CASE outcome[r] = {}
        <4>1. r = rec /\ pc["ui"] \in NotBegun /\ pc'["ui"] \notin NotBegun
          BY <1>2, <1>3, <1>6, <2>1, <3>2
        <4> QED BY <1>5, <2>1, <4>1
      <3> QED BY <3>1, <3>2
    <2>2. CASE rec' = rec + 1 /\ pc["ui"] = "idle" /\ pc'["ui"] = "check"
      <3>1. r \in 1 .. rec /\ pc["ui"] \notin NotBegun
        BY <1>3, <1>6, <2>2 DEF NotBegun, Starting
      <3> QED BY <1>2, <1>4, <3>1
    <2> QED BY <2>1, <2>2, UiChanges
  <1> QED BY <1>6

(* The phases of a recording. *)

LEMMA VideoBusyStays ==
    ASSUME PcTypeOK, TaskTypeOK, Next, ~videoEncode, ~executeFuture,
           ~postEncoding
    PROVE  (pc'["video"] = "idle") = (pc["video"] = "idle")
  <1> USE DEF PcTypeOK, TaskTypeOK, Thread, signals, flags, muxVars, codecVars,
     taskVars, runVars, lifeVars, resultVars, stateVars, Move, Goto, Report,
     Disturb
  <1>1. CASE \/ startRecording \/ startCheck \/ startAudio \/ newFuture
             \/ startEncoders \/ encodersRefuse
    BY <1>1 DEF startRecording, startCheck, Refuses, startAudio,
       releaseAudioInputResource, newFuture, startEncoders, encodersRefuse
  <1>2. CASE \/ initMediaMuxer \/ beginRecording \/ stopRecording
             \/ stopSignal \/ release \/ releaseLater
    BY <1>2 DEF initMediaMuxer, beginRecording, stopRecording, stopSignal,
       release, releaseLater
  <1>3. CASE \/ releaseNow \/ videoCheck \/ videoFails \/ videoTryAgain
             \/ videoFormat \/ writeVideo
    BY <1>3 DEF releaseNow, videoCheck, videoFails, videoTryAgain,
       videoFormat, writeVideo
  <1>4. CASE \/ videoEos \/ stopVideoEncoder \/ stopMuxer \/ stopMuxerFails
             \/ removeRecordingResultIfNoVideoKeyFrameArrived \/ videoSignal
    BY <1>4 DEF videoEos, stopVideoEncoder, stopMuxer, stopMuxerFails,
       removeRecordingResultIfNoVideoKeyFrameArrived, KeyFrameArrived,
       videoSignal
  <1>5. CASE \/ onVideoSaved \/ audioEncode \/ audioLoop \/ audioCheck
             \/ audioInput \/ audioOutput
    BY <1>5 DEF onVideoSaved, audioEncode, Take, audioLoop, audioCheck,
       audioInput, audioOutput
  <1>6. CASE \/ audioFormat \/ audioCrashes \/ stopAudioRecorder
             \/ stopAudioEncoder \/ audioSignal \/ runFuture
    BY <1>6 DEF audioFormat, audioCrashes, stopAudioRecorder,
       stopAudioEncoder, audioSignal, PassesEnd, runFuture, Take
  <1>7. CASE \/ futureReleases \/ setupVideo \/ setupSurface \/ setupAudio
             \/ setupAudioFails \/ setupDone
    BY <1>7 DEF futureReleases, setupVideo, setupSurface, setupAudio,
       setupAudioFails, setupDone, TracksForgotten
  <1> QED BY <1>1, <1>2, <1>3, <1>4, <1>5, <1>6, <1>7, NextIs

LEMMA AudioPcStays ==
    ASSUME PcTypeOK, TaskTypeOK, Next, ~audioEncode
    PROVE  pc'["audio"] # "idle" => pc["audio"] # "idle"
  <1> USE DEF PcTypeOK, TaskTypeOK, Thread, signals, flags, muxVars, codecVars,
     taskVars, runVars, lifeVars, resultVars, stateVars, Move, Goto, Report,
     Disturb
  <1>1. CASE \/ startRecording \/ startCheck \/ startAudio \/ newFuture
             \/ startEncoders \/ encodersRefuse
    BY <1>1 DEF startRecording, startCheck, Refuses, startAudio,
       releaseAudioInputResource, newFuture, startEncoders, encodersRefuse
  <1>2. CASE \/ initMediaMuxer \/ beginRecording \/ postEncoding
             \/ stopRecording \/ stopSignal \/ release
    BY <1>2 DEF initMediaMuxer, beginRecording, postEncoding, stopRecording,
       stopSignal, release
  <1>3. CASE \/ releaseLater \/ releaseNow \/ videoEncode \/ videoCheck
             \/ videoFails \/ videoTryAgain
    BY <1>3 DEF releaseLater, releaseNow, videoEncode, Take, videoCheck,
       videoFails, videoTryAgain
  <1>4. CASE \/ videoFormat \/ writeVideo \/ videoEos \/ stopVideoEncoder
             \/ stopMuxer \/ stopMuxerFails
    BY <1>4 DEF videoFormat, writeVideo, videoEos, stopVideoEncoder,
       stopMuxer, stopMuxerFails
  <1>5. CASE \/ removeRecordingResultIfNoVideoKeyFrameArrived \/ videoSignal
             \/ onVideoSaved \/ executeFuture \/ audioLoop \/ audioCheck
    BY <1>5 DEF removeRecordingResultIfNoVideoKeyFrameArrived,
       KeyFrameArrived, videoSignal, onVideoSaved, executeFuture, audioLoop,
       audioCheck
  <1>6. CASE \/ audioInput \/ audioOutput \/ audioFormat \/ audioCrashes
             \/ stopAudioRecorder \/ stopAudioEncoder
    BY <1>6 DEF audioInput, audioOutput, audioFormat, audioCrashes,
       stopAudioRecorder, stopAudioEncoder
  <1>7. CASE \/ audioSignal \/ runFuture \/ futureReleases \/ setupVideo
             \/ setupSurface \/ setupAudio
    BY <1>7 DEF audioSignal, PassesEnd, runFuture, Take, futureReleases,
       setupVideo, setupSurface, setupAudio
  <1>8. CASE \/ setupAudioFails \/ setupDone
    BY <1>8 DEF setupAudioFails, setupDone, TracksForgotten
  <1> QED BY <1>1, <1>2, <1>3, <1>4, <1>5, <1>6, <1>7, <1>8, NextIs

LEMMA ExecPcStays ==
    ASSUME PcTypeOK, TaskTypeOK, Next, ~ExecStep
    PROVE  pc'["exec"] = pc["exec"]
  <1> USE DEF PcTypeOK, TaskTypeOK, Thread, signals, flags, muxVars, codecVars,
     taskVars, runVars, lifeVars, resultVars, stateVars, Move, Goto, Report,
     Disturb
  <1>1. CASE \/ startRecording \/ startCheck \/ startAudio \/ newFuture
             \/ startEncoders \/ encodersRefuse
    BY <1>1 DEF startRecording, startCheck, Refuses, startAudio,
       releaseAudioInputResource, newFuture, startEncoders, encodersRefuse
  <1>2. CASE \/ initMediaMuxer \/ beginRecording \/ postEncoding
             \/ stopRecording \/ stopSignal \/ release
    BY <1>2 DEF initMediaMuxer, beginRecording, postEncoding, stopRecording,
       stopSignal, release
  <1>3. CASE \/ releaseLater \/ releaseNow \/ videoEncode \/ videoCheck
             \/ videoFails \/ videoTryAgain
    BY <1>3 DEF releaseLater, releaseNow, videoEncode, Take, videoCheck,
       videoFails, videoTryAgain
  <1>4. CASE \/ videoFormat \/ writeVideo \/ videoEos \/ stopVideoEncoder
             \/ stopMuxer \/ stopMuxerFails
    BY <1>4 DEF videoFormat, writeVideo, videoEos, stopVideoEncoder,
       stopMuxer, stopMuxerFails
  <1>5. CASE \/ removeRecordingResultIfNoVideoKeyFrameArrived \/ videoSignal
             \/ onVideoSaved \/ executeFuture \/ audioEncode \/ audioLoop
    BY <1>5 DEF removeRecordingResultIfNoVideoKeyFrameArrived,
       KeyFrameArrived, videoSignal, onVideoSaved, executeFuture,
       audioEncode, Take, audioLoop
  <1>6. CASE \/ audioCheck \/ audioInput \/ audioOutput \/ audioFormat
             \/ audioCrashes \/ stopAudioRecorder
    BY <1>6 DEF audioCheck, audioInput, audioOutput, audioFormat,
       audioCrashes, stopAudioRecorder
  <1>7. CASE \/ stopAudioEncoder \/ audioSignal
    BY <1>7 DEF stopAudioEncoder, audioSignal, PassesEnd
  <1> QED BY <1>1, <1>2, <1>3, <1>4, <1>5, <1>6, <1>7, NextIs DEF ExecStep

LEMMA ExecPcWorks ==
    ASSUME PcTypeOK, TaskTypeOK, Next, ~runFuture
    PROVE  pc'["exec"] # "idle" => pc["exec"] # "idle"
  <1> USE DEF PcTypeOK, TaskTypeOK, Thread, signals, flags, muxVars, codecVars,
     taskVars, runVars, lifeVars, resultVars, stateVars, Move, Goto, Report,
     Disturb
  <1>1. CASE \/ startRecording \/ startCheck \/ startAudio \/ newFuture
             \/ startEncoders \/ encodersRefuse
    BY <1>1 DEF startRecording, startCheck, Refuses, startAudio,
       releaseAudioInputResource, newFuture, startEncoders, encodersRefuse
  <1>2. CASE \/ initMediaMuxer \/ beginRecording \/ postEncoding
             \/ stopRecording \/ stopSignal \/ release
    BY <1>2 DEF initMediaMuxer, beginRecording, postEncoding, stopRecording,
       stopSignal, release
  <1>3. CASE \/ releaseLater \/ releaseNow \/ videoEncode \/ videoCheck
             \/ videoFails \/ videoTryAgain
    BY <1>3 DEF releaseLater, releaseNow, videoEncode, Take, videoCheck,
       videoFails, videoTryAgain
  <1>4. CASE \/ videoFormat \/ writeVideo \/ videoEos \/ stopVideoEncoder
             \/ stopMuxer \/ stopMuxerFails
    BY <1>4 DEF videoFormat, writeVideo, videoEos, stopVideoEncoder,
       stopMuxer, stopMuxerFails
  <1>5. CASE \/ removeRecordingResultIfNoVideoKeyFrameArrived \/ videoSignal
             \/ onVideoSaved \/ executeFuture \/ audioEncode \/ audioLoop
    BY <1>5 DEF removeRecordingResultIfNoVideoKeyFrameArrived,
       KeyFrameArrived, videoSignal, onVideoSaved, executeFuture,
       audioEncode, Take, audioLoop
  <1>6. CASE \/ audioCheck \/ audioInput \/ audioOutput \/ audioFormat
             \/ audioCrashes \/ stopAudioRecorder
    BY <1>6 DEF audioCheck, audioInput, audioOutput, audioFormat,
       audioCrashes, stopAudioRecorder
  <1>7. CASE \/ stopAudioEncoder \/ audioSignal \/ futureReleases
             \/ setupVideo \/ setupSurface \/ setupAudio
    BY <1>7 DEF stopAudioEncoder, audioSignal, PassesEnd, futureReleases,
       setupVideo, setupSurface, setupAudio
  <1>8. CASE \/ setupAudioFails \/ setupDone
    BY <1>8 DEF setupAudioFails, setupDone, TracksForgotten
  <1> QED BY <1>1, <1>2, <1>3, <1>4, <1>5, <1>6, <1>7, <1>8, NextIs

LEMMA FutureStays ==
    ASSUME PcTypeOK, TaskTypeOK, Next, ~newFuture
    PROVE  mRecordingFuture' = mRecordingFuture
  <1> USE DEF PcTypeOK, TaskTypeOK, Thread, signals, flags, muxVars, codecVars,
     taskVars, runVars, lifeVars, resultVars, stateVars, Move, Goto, Report,
     Disturb
  <1>1. CASE \/ startRecording \/ startCheck \/ startAudio \/ startEncoders
             \/ encodersRefuse \/ initMediaMuxer
    BY <1>1 DEF startRecording, startCheck, Refuses, startAudio,
       releaseAudioInputResource, startEncoders, encodersRefuse, Execute,
       initMediaMuxer
  <1>2. CASE \/ beginRecording \/ postEncoding \/ stopRecording \/ stopSignal
             \/ release \/ releaseLater
    BY <1>2 DEF beginRecording, postEncoding, stopRecording, stopSignal,
       release, releaseLater
  <1>3. CASE \/ releaseNow \/ videoEncode \/ videoCheck \/ videoFails
             \/ videoTryAgain \/ videoFormat
    BY <1>3 DEF releaseNow, videoEncode, Take, videoCheck, videoFails,
       videoTryAgain, videoFormat
  <1>4. CASE \/ writeVideo \/ videoEos \/ stopVideoEncoder \/ stopMuxer
             \/ stopMuxerFails
             \/ removeRecordingResultIfNoVideoKeyFrameArrived
    BY <1>4 DEF writeVideo, videoEos, stopVideoEncoder, stopMuxer,
       stopMuxerFails, removeRecordingResultIfNoVideoKeyFrameArrived,
       KeyFrameArrived
  <1>5. CASE \/ videoSignal \/ onVideoSaved \/ executeFuture \/ audioEncode
             \/ audioLoop \/ audioCheck
    BY <1>5 DEF videoSignal, onVideoSaved, executeFuture, Execute,
       audioEncode, Take, audioLoop, audioCheck
  <1>6. CASE \/ audioInput \/ audioOutput \/ audioFormat \/ audioCrashes
             \/ stopAudioRecorder \/ stopAudioEncoder
    BY <1>6 DEF audioInput, audioOutput, audioFormat, audioCrashes,
       stopAudioRecorder, stopAudioEncoder
  <1>7. CASE \/ audioSignal \/ runFuture \/ futureReleases \/ setupVideo
             \/ setupSurface \/ setupAudio
    BY <1>7 DEF audioSignal, PassesEnd, runFuture, Take, futureReleases,
       setupVideo, setupSurface, setupAudio
  <1>8. CASE \/ setupAudioFails \/ setupDone
    BY <1>8 DEF setupAudioFails, setupDone, TracksForgotten
  <1> QED BY <1>1, <1>2, <1>3, <1>4, <1>5, <1>6, <1>7, <1>8, NextIs

LEMMA EmptyQueue ==
    ASSUME NEW S, NEW q \in Seq(S), Len(q) = 0
    PROVE  q = << >>
  OBVIOUS

LEMMA ShortQueue ==
    ASSUME TaskTypeOK, NEW t \in Thread \ {"ui"}, queue[t] # << >>,
           Len(queue[t]) \in {0, 1}
    PROVE  Tail(queue[t]) = << >>
  <1>1. queue[t] \in Seq(Recording)
    BY DEF TaskTypeOK
  <1>2. Len(queue[t]) \in Nat /\ Len(queue[t]) # 0
    BY <1>1
  <1>3. Len(queue[t]) = 1
    BY <1>2
  <1>4. Tail(queue[t]) \in Seq(Recording) /\ Len(Tail(queue[t])) = 0
    BY <1>1, <1>3
  <1> QED BY <1>4, EmptyQueue

\* A future is handed to the executor by a thread that then does nothing.
LEMMA ExecuteFrom ==
    ASSUME TypeOK, encodersRefuse \/ initMediaMuxer \/ executeFuture
    PROVE  /\ \/ UNCHANGED taskVars
              \/ Execute /\ (~executeFuture => pc'["ui"] = "idle")
           /\ executeFuture
                => Execute /\ pc["video"] = "execute" /\ pc'["video"] = "idle"
           /\ ~executeFuture =>
                 /\ pc["ui"] \in {"encoders", "muxer"}
                      /\ pc'["ui"] \in {"idle", "begin"}
                 /\ pc'["video"] = pc["video"]
           /\ executeFuture => pc'["ui"] = pc["ui"]
           /\ pc'["exec"] = pc["exec"] /\ pc'["audio"] = pc["audio"]
           /\ UNCHANGED <<job, rec>>
  BY DEF TypeOK, PcTypeOK, Thread, encodersRefuse, initMediaMuxer,
     executeFuture, Move, Goto, runVars, lifeVars

\* Preparing, encoding and setting up take turns.
LEMMA StepPhase ==
    ASSUME TypeOK, FutureInv, PhaseInv, Next
    PROVE  PhaseInv'
  <1> SUFFICES ASSUME ~Early' PROVE Phases'
    BY DEF PhaseInv
  <1>1. Phases /\ ~Early
    BY DisturbedGrows DEF PhaseInv, Early
  <1>2. PcTypeOK /\ TaskTypeOK
    BY DEF TypeOK
  <1>3. \A t \in Thread \ {"ui"} : queue[t] \in Seq(Recording)
    BY <1>2 DEF TaskTypeOK
  <1> USE <1>1, <1>2
  <1>4. CASE startRecording
    <2>1. Idle /\ UNCHANGED <<queue, executed, mRecordingFuture>>
            /\ rec' = rec + 1
      BY <1>4 DEF startRecording, Early, Disturb, taskVars
    <2>2. \A t \in Thread \ {"ui"} : pc'[t] = pc[t]
      BY <1>4 DEF startRecording, Move, Goto, PcTypeOK
    <2>3. rec' \notin executed
      BY <2>1, RecordingAssumption DEF FutureInv, TaskTypeOK, Recording
    <2> QED BY <2>1, <2>2, <2>3 DEF Phases, Busy, Idle, Thread
  <1>5. CASE postEncoding
    <2>1. rec # 0 /\ rec \in Recording /\ mRecordingFuture = rec
            /\ pc["ui"] \in Starting
      BY <1>5, RecordingAssumption DEF FutureInv, TaskTypeOK, Starting,
         postEncoding, Move, Recording
    <2>2. /\ pc'["ui"] = "idle" /\ UNCHANGED <<executed, mRecordingFuture, rec>>
          /\ \A t \in Thread \ {"ui"} : pc'[t] = pc[t]
      BY <1>5 DEF postEncoding, Move, Goto, PcTypeOK, Thread, lifeVars
    <2>3. /\ queue["video"] = << >> /\ queue["audio"] = << >>
          /\ queue'["exec"] = queue["exec"]
          /\ queue'["video"] \in {<< >>, Append(<< >>, rec)}
          /\ queue'["audio"] \in {<< >>, Append(<< >>, rec)}
      BY <1>5, <2>1, PostDoes DEF Phases, Busy
    <2>4. Len(Append(<< >>, rec)) = 1 /\ Len(<< >>) = 0
      BY <2>1
    <2>5. ~Busy("exec")' /\ rec \notin executed
      BY <2>1, <2>2, <2>3 DEF Phases, Busy, Thread
    <2>6. \A t \in Thread \ {"ui"} : pc'[t] = "idle"
            /\ Len(queue'[t]) \in {0, 1}
      <3>1. \A t \in Thread \ {"ui"} : pc'[t] = "idle" /\ queue["exec"] = << >>
        BY <2>1, <2>2 DEF Phases, Busy, Thread
      <3>2. Len(queue'["video"]) \in {0, 1} /\ Len(queue'["audio"]) \in {0, 1}
        BY <2>3, <2>4
      <3>3. Len(queue'["exec"]) \in {0, 1}
        BY <2>3, <2>4, <3>1 DEF Thread
      <3> QED BY <3>1, <3>2, <3>3 DEF Thread
    <2> QED BY <2>1, <2>2, <2>5, <2>6 DEF Phases, Starting
  <1>6. CASE encodersRefuse \/ initMediaMuxer \/ executeFuture
    <2>1. CASE UNCHANGED taskVars
      BY <1>6, <2>1, ExecuteFrom DEF Phases, Busy, Thread, Starting, taskVars
    <2>2. CASE Execute /\ (~executeFuture => pc'["ui"] = "idle")
      <3>1. mRecordingFuture # 0
        BY <1>6, ExecuteFrom DEF FutureInv, Starting
      <3>2. ~Busy("exec")
        BY <1>6, ExecuteFrom DEF Phases, Starting, Busy
      <3>3. queue'["exec"] \in {<< >>, Append(<< >>, mRecordingFuture)}
        BY <2>2, <3>1, <3>2, ExecuteDoes DEF Busy
      <3>4. Len(Append(<< >>, mRecordingFuture)) = 1 /\ Len(<< >>) = 0
        BY <3>1
      <3>5. /\ queue'["video"] = queue["video"]
                 /\ queue'["audio"] = queue["audio"]
            /\ mRecordingFuture' = mRecordingFuture
        BY <2>2, <3>1, ExecuteDoes
      <3>6. ~Busy("video")' /\ pc'["ui"] \notin Starting
        <4>1. CASE executeFuture
          BY <3>5, <4>1, ExecuteFrom DEF Phases, Starting, Busy, Thread
        <4>2. CASE ~executeFuture
          BY <1>6, <2>2, <3>5, <4>2, ExecuteFrom DEF Phases, Starting, Busy,
             Thread
        <4> QED BY <4>1, <4>2
      <3>7. \A t \in Thread \ {"ui"} : /\ pc'[t] # "idle" => queue'[t] = << >>
                                       /\ Len(queue'[t]) \in {0, 1}
        <4>1. /\ pc'["audio"] = pc["audio"] /\ pc'["exec"] = "idle"
              /\ pc'["video"] = "idle" /\ queue["video"] = << >>
          BY <1>6, <3>2, <3>5, <3>6, ExecuteFrom DEF Busy
        <4>2. Len(queue'["exec"]) \in {0, 1}
          BY <3>3, <3>4
        <4>3. Len(queue'["video"]) \in {0, 1} /\ Len(queue'["audio"]) \in {0, 1}
          BY <3>5 DEF Phases, Thread
        <4> QED BY <3>5, <4>1, <4>2, <4>3 DEF Phases, Thread
      <3> QED BY <3>1, <3>5, <3>6, <3>7 DEF Phases
    <2> QED BY <1>6, <2>1, <2>2, ExecuteFrom
  <1>7. ASSUME NEW t \in Thread \ {"ui"}, NEW to, Take(t, to), to # "idle",
                 rec' = rec
        PROVE  Phases'
    <2>1. /\ queue[t] # << >> /\ queue' = [queue EXCEPT ![t] = Tail(queue[t])]
          /\ pc[t] = "idle" /\ pc' = [pc EXCEPT ![t] = to]
          /\ UNCHANGED <<mRecordingFuture, executed>>
      BY <1>7, TakeDoes
    <2>2. Tail(queue[t]) = << >> /\ Len(<< >>) = 0
      BY <2>1, ShortQueue DEF Phases
    <2>3. \A u \in Thread \ {"ui"} : Busy(u)' = Busy(u)
      BY <1>7, <2>1, <2>2 DEF Busy, PcTypeOK, TaskTypeOK, Thread
    <2>4. \A u \in Thread \ {"ui"} : /\ pc'[u] # "idle" => queue'[u] = << >>
                                     /\ Len(queue'[u]) \in {0, 1}
      BY <1>7, <2>1, <2>2 DEF Phases, PcTypeOK, TaskTypeOK, Thread
    <2>5. pc'["ui"] = pc["ui"]
      BY <1>7, <2>1 DEF PcTypeOK, Thread
    <2> QED BY <1>7, <2>1, <2>3, <2>4, <2>5 DEF Phases, Thread
  <1>8. CASE videoEncode \/ audioEncode \/ runFuture
    <2>1. \E t \in Thread \ {"ui"},
            to \in {"check", "loop", "release", "video"} : Take(t, to)
      BY <1>8 DEF videoEncode, audioEncode, runFuture, Thread
    <2>2. rec' = rec
      BY <1>8 DEF videoEncode, audioEncode, runFuture, lifeVars
    <2> QED BY <1>7, <2>1, <2>2
  <1>9. CASE newFuture
    <2>1. /\ pc["ui"] \in Starting /\ UNCHANGED <<executed, queue, rec>>
               /\ mRecordingFuture' = rec
          /\ \A t \in Thread \ {"ui"} : pc'[t] = pc[t]
      BY <1>9 DEF newFuture, Move, Goto, PcTypeOK, Thread, Starting, lifeVars
    <2> QED BY <2>1 DEF Phases, Busy, Thread
  <1>10. ASSUME ~startRecording, ~postEncoding, ~encodersRefuse,
                  ~initMediaMuxer, ~executeFuture,
                ~videoEncode, ~audioEncode, ~runFuture, ~newFuture
         PROVE  Phases'
    <2>1. UNCHANGED <<queue, executed, mRecordingFuture, rec>>
      BY <1>10, QueueStays, ExecutedStays, FutureStays, UiWorks
    <2>2. /\ pc'["ui"] \in Starting => pc["ui"] \in Starting
          /\ (pc'["video"] = "idle") = (pc["video"] = "idle")
          /\ pc'["audio"] # "idle" => pc["audio"] # "idle"
          /\ pc'["exec"] # "idle" => pc["exec"] # "idle"
      BY <1>10, UiWorks, VideoBusyStays, AudioPcStays, ExecPcWorks
    <2> QED BY <2>1, <2>2 DEF Phases, Busy, Thread
  <1> QED BY <1>4, <1>5, <1>6, <1>8, <1>9, <1>10

LEMMA CodecStays ==
    ASSUME Next, ~startAudio, ~startEncoders, ~encodersRefuse, ~releaseNow,
           ~stopVideoEncoder, ~stopAudioEncoder, ~futureReleases, ~setupVideo,
           ~setupAudio, ~setupAudioFails
    PROVE  codec' = codec
  <1> USE DEF signals, flags, muxVars, codecVars, taskVars, runVars, lifeVars,
     resultVars, stateVars, Move, Goto, Report, Disturb
  <1>1. CASE \/ startRecording \/ startCheck \/ newFuture \/ initMediaMuxer
             \/ beginRecording \/ postEncoding
    BY <1>1 DEF startRecording, startCheck, Refuses, newFuture,
       initMediaMuxer, beginRecording, postEncoding
  <1>2. CASE \/ stopRecording \/ stopSignal \/ release \/ releaseLater
             \/ videoEncode \/ videoCheck
    BY <1>2 DEF stopRecording, stopSignal, release, releaseLater,
       videoEncode, Take, videoCheck
  <1>3. CASE \/ videoFails \/ videoTryAgain \/ videoFormat \/ writeVideo
             \/ videoEos \/ stopMuxer
    BY <1>3 DEF videoFails, videoTryAgain, videoFormat, writeVideo, videoEos,
       stopMuxer
  <1>4. CASE \/ stopMuxerFails
             \/ removeRecordingResultIfNoVideoKeyFrameArrived \/ videoSignal
             \/ onVideoSaved \/ executeFuture \/ audioEncode
    BY <1>4 DEF stopMuxerFails,
       removeRecordingResultIfNoVideoKeyFrameArrived, KeyFrameArrived,
       videoSignal, onVideoSaved, executeFuture, audioEncode, Take
  <1>5. CASE \/ audioLoop \/ audioCheck \/ audioInput \/ audioOutput
             \/ audioFormat \/ audioCrashes
    BY <1>5 DEF audioLoop, audioCheck, audioInput, audioOutput, audioFormat,
       audioCrashes
  <1>6. CASE \/ stopAudioRecorder \/ audioSignal \/ runFuture \/ setupSurface
             \/ setupDone
    BY <1>6 DEF stopAudioRecorder, audioSignal, PassesEnd, runFuture, Take,
       setupSurface, setupDone, TracksForgotten
  <1> QED BY <1>1, <1>2, <1>3, <1>4, <1>5, <1>6, NextIs

\* Until release, the video encoder and its handler thread are there.
LEMMA StepQuit ==
    ASSUME TypeOK, ReleasedInv, QuitInv, Next
    PROVE  QuitInv'
  <1> USE DEF QuitInv, ReleasedInv, TypeOK, MediaTypeOK, Stream, signals,
     flags, muxVars, codecVars, taskVars, runVars, lifeVars, resultVars,
     stateVars, Move, Goto
  <1>1. ASSUME startAudio PROVE QuitInv'
    BY <1>1, ReleasedStays DEF startAudio, releaseAudioInputResource
  <1>2. ASSUME startEncoders PROVE QuitInv'
    <2>1. codec'["video"] \in {"running", codec["video"]}
      BY <1>2 DEF startEncoders, Started
    <2> QED BY <1>2, <2>1 DEF startEncoders
  <1>3. ASSUME encodersRefuse PROVE QuitInv'
    <2>1. codec'["video"] \in {"running", codec["video"]}
      BY <1>3 DEF encodersRefuse, Started
    <2>2. quit' = quit
      BY <1>3 DEF encodersRefuse, Execute
    <2> QED BY <1>3, <2>1, <2>2 DEF encodersRefuse
  <1>4. ASSUME releaseNow PROVE QuitInv'
    BY <1>4 DEF releaseNow
  <1>5. ASSUME stopVideoEncoder PROVE QuitInv'
    BY <1>5 DEF stopVideoEncoder
  <1>6. ASSUME stopAudioEncoder PROVE QuitInv'
    BY <1>6 DEF stopAudioEncoder, MayReport
  <1>7. ASSUME futureReleases PROVE QuitInv'
    BY <1>7 DEF futureReleases
  <1>8. ASSUME setupVideo PROVE QuitInv'
    BY <1>8 DEF setupVideo
  <1>9. ASSUME setupAudio PROVE QuitInv'
    BY <1>9 DEF setupAudio
  <1>10. ASSUME setupAudioFails PROVE QuitInv'
    BY <1>10 DEF setupAudioFails
  <1>11. ASSUME ~startAudio, ~startEncoders, ~encodersRefuse, ~releaseNow,
                ~stopVideoEncoder, ~stopAudioEncoder, ~futureReleases,
                ~setupVideo, ~setupAudio, ~setupAudioFails
         PROVE  QuitInv'
    BY <1>11, CodecStays, LifeStays, ReleasedStays DEF release, startRecording,
       newFuture
  <1> QED BY <1>1, <1>2, <1>3, <1>4, <1>5, <1>6, <1>7, <1>8, <1>9, <1>10,
       <1>11

LEMMA MuxerStays ==
    ASSUME Next, ~initMediaMuxer, ~videoFormat, ~stopMuxer, ~audioFormat,
           ~videoSignal, ~setupDone
    PROVE  UNCHANGED muxVars
  <1> USE DEF signals, flags, muxVars, codecVars, taskVars, runVars, lifeVars,
     resultVars, stateVars, Move, Goto, Report, Disturb
  <1>1. CASE \/ startRecording \/ startCheck \/ startAudio \/ newFuture
             \/ startEncoders \/ encodersRefuse
    BY <1>1 DEF startRecording, startCheck, Refuses, startAudio,
       releaseAudioInputResource, newFuture, startEncoders, encodersRefuse
  <1>2. CASE \/ beginRecording \/ postEncoding \/ stopRecording \/ stopSignal
             \/ release \/ releaseLater
    BY <1>2 DEF beginRecording, postEncoding, stopRecording, stopSignal,
       release, releaseLater
  <1>3. CASE \/ releaseNow \/ videoEncode \/ videoCheck \/ videoFails
             \/ videoTryAgain \/ writeVideo
    BY <1>3 DEF releaseNow, videoEncode, Take, videoCheck, videoFails,
       videoTryAgain, writeVideo
  <1>4. CASE \/ videoEos \/ stopVideoEncoder \/ stopMuxerFails
             \/ removeRecordingResultIfNoVideoKeyFrameArrived \/ onVideoSaved
             \/ executeFuture
    BY <1>4 DEF videoEos, stopVideoEncoder, stopMuxerFails,
       removeRecordingResultIfNoVideoKeyFrameArrived, KeyFrameArrived,
       onVideoSaved, executeFuture
  <1>5. CASE \/ audioEncode \/ audioLoop \/ audioCheck \/ audioInput
             \/ audioOutput \/ audioCrashes
    BY <1>5 DEF audioEncode, Take, audioLoop, audioCheck, audioInput,
       audioOutput, audioCrashes
  <1>6. CASE \/ stopAudioRecorder \/ stopAudioEncoder \/ audioSignal
             \/ runFuture \/ futureReleases \/ setupVideo
    BY <1>6 DEF stopAudioRecorder, stopAudioEncoder, audioSignal, PassesEnd,
       runFuture, Take, futureReleases, setupVideo
  <1>7. CASE \/ setupSurface \/ setupAudio \/ setupAudioFails
    BY <1>7 DEF setupSurface, setupAudio, setupAudioFails
  <1> QED BY <1>1, <1>2, <1>3, <1>4, <1>5, <1>6, <1>7, NextIs

LEMMA EnabledStays ==
    ASSUME Next, ~startAudio, ~setupAudio, ~setupAudioFails
    PROVE  mIsAudioEnabled' = mIsAudioEnabled
  <1> USE DEF signals, flags, muxVars, codecVars, taskVars, runVars, lifeVars,
     resultVars, stateVars, Move, Goto, Report, Disturb
  <1>1. CASE \/ startRecording \/ startCheck \/ newFuture \/ startEncoders
             \/ encodersRefuse \/ initMediaMuxer
    BY <1>1 DEF startRecording, startCheck, Refuses, newFuture,
       startEncoders, encodersRefuse, initMediaMuxer
  <1>2. CASE \/ beginRecording \/ postEncoding \/ stopRecording \/ stopSignal
             \/ release \/ releaseLater
    BY <1>2 DEF beginRecording, postEncoding, stopRecording, stopSignal,
       release, releaseLater
  <1>3. CASE \/ releaseNow \/ videoEncode \/ videoCheck \/ videoFails
             \/ videoTryAgain \/ videoFormat
    BY <1>3 DEF releaseNow, videoEncode, Take, videoCheck, videoFails,
       videoTryAgain, videoFormat
  <1>4. CASE \/ writeVideo \/ videoEos \/ stopVideoEncoder \/ stopMuxer
             \/ stopMuxerFails
             \/ removeRecordingResultIfNoVideoKeyFrameArrived
    BY <1>4 DEF writeVideo, videoEos, stopVideoEncoder, stopMuxer,
       stopMuxerFails, removeRecordingResultIfNoVideoKeyFrameArrived,
       KeyFrameArrived
  <1>5. CASE \/ videoSignal \/ onVideoSaved \/ executeFuture \/ audioEncode
             \/ audioLoop \/ audioCheck
    BY <1>5 DEF videoSignal, onVideoSaved, executeFuture, audioEncode, Take,
       audioLoop, audioCheck
  <1>6. CASE \/ audioInput \/ audioOutput \/ audioFormat \/ audioCrashes
             \/ stopAudioRecorder \/ stopAudioEncoder
    BY <1>6 DEF audioInput, audioOutput, audioFormat, audioCrashes,
       stopAudioRecorder, stopAudioEncoder
  <1>7. CASE \/ audioSignal \/ runFuture \/ futureReleases \/ setupVideo
             \/ setupSurface \/ setupDone
    BY <1>7 DEF audioSignal, PassesEnd, runFuture, Take, futureReleases,
       setupVideo, setupSurface, setupDone, TracksForgotten
  <1> QED BY <1>1, <1>2, <1>3, <1>4, <1>5, <1>6, <1>7, NextIs

LEMMA OpenPlacesStay ==
    ASSUME PcTypeOK, Next, ~postEncoding, ~videoEncode, ~stopMuxer,
           ~stopMuxerFails
    PROVE  /\ pc["ui"] \in {"begin", "post"} => pc'["ui"] \in {"begin", "post"}
           /\ pc["video"] \in OpenVideo => pc'["video"] \in OpenVideo
  <1> USE DEF PcTypeOK, OpenVideo, Thread, signals, flags, muxVars, codecVars,
     taskVars, runVars, lifeVars, resultVars, stateVars, Move, Goto, Report,
     Disturb
  <1>1. CASE \/ startRecording \/ startCheck \/ startAudio \/ newFuture
             \/ startEncoders \/ encodersRefuse
    BY <1>1 DEF startRecording, startCheck, Refuses, startAudio,
       releaseAudioInputResource, newFuture, startEncoders, encodersRefuse
  <1>2. CASE \/ initMediaMuxer \/ beginRecording \/ stopRecording
             \/ stopSignal \/ release \/ releaseLater
    BY <1>2 DEF initMediaMuxer, beginRecording, stopRecording, stopSignal,
       release, releaseLater
  <1>3. CASE \/ releaseNow \/ videoCheck \/ videoFails \/ videoTryAgain
             \/ videoFormat \/ writeVideo
    BY <1>3 DEF releaseNow, videoCheck, videoFails, videoTryAgain,
       videoFormat, writeVideo
  <1>4. CASE \/ videoEos \/ stopVideoEncoder
             \/ removeRecordingResultIfNoVideoKeyFrameArrived \/ videoSignal
             \/ onVideoSaved \/ executeFuture
    BY <1>4 DEF videoEos, stopVideoEncoder,
       removeRecordingResultIfNoVideoKeyFrameArrived, KeyFrameArrived,
       videoSignal, onVideoSaved, executeFuture
  <1>5. CASE \/ audioEncode \/ audioLoop \/ audioCheck \/ audioInput
             \/ audioOutput \/ audioFormat
    BY <1>5 DEF audioEncode, Take, audioLoop, audioCheck, audioInput,
       audioOutput, audioFormat
  <1>6. CASE \/ audioCrashes \/ stopAudioRecorder \/ stopAudioEncoder
             \/ audioSignal \/ runFuture \/ futureReleases
    BY <1>6 DEF audioCrashes, stopAudioRecorder, stopAudioEncoder,
       audioSignal, PassesEnd, runFuture, Take, futureReleases
  <1>7. CASE \/ setupVideo \/ setupSurface \/ setupAudio \/ setupAudioFails
             \/ setupDone
    BY <1>7 DEF setupVideo, setupSurface, setupAudio, setupAudioFails,
       setupDone, TracksForgotten
  <1> QED BY <1>1, <1>2, <1>3, <1>4, <1>5, <1>6, <1>7, NextIs

LEMMA MuxerPlacesStay ==
    ASSUME PcTypeOK, Next, ~videoEncode, ~videoSignal
    PROVE  pc["video"] \in OpenVideo \cup {"key", "signal"}
              => pc'["video"] \in OpenVideo \cup {"key", "signal"}
  <1> USE DEF PcTypeOK, OpenVideo, Thread, signals, flags, muxVars, codecVars,
     taskVars, runVars, lifeVars, resultVars, stateVars, Move, Goto, Report,
     Disturb
  <1>1. CASE \/ startRecording \/ startCheck \/ startAudio \/ newFuture
             \/ startEncoders \/ encodersRefuse
    BY <1>1 DEF startRecording, startCheck, Refuses, startAudio,
       releaseAudioInputResource, newFuture, startEncoders, encodersRefuse
  <1>2. CASE \/ initMediaMuxer \/ beginRecording \/ postEncoding
             \/ stopRecording \/ stopSignal \/ release
    BY <1>2 DEF initMediaMuxer, beginRecording, postEncoding, stopRecording,
       stopSignal, release
  <1>3. CASE \/ releaseLater \/ releaseNow \/ videoCheck \/ videoFails
             \/ videoTryAgain \/ videoFormat
    BY <1>3 DEF releaseLater, releaseNow, videoCheck, videoFails,
       videoTryAgain, videoFormat
  <1>4. CASE \/ writeVideo \/ videoEos \/ stopVideoEncoder \/ stopMuxer
             \/ stopMuxerFails
             \/ removeRecordingResultIfNoVideoKeyFrameArrived
    BY <1>4 DEF writeVideo, videoEos, stopVideoEncoder, stopMuxer,
       stopMuxerFails, removeRecordingResultIfNoVideoKeyFrameArrived,
       KeyFrameArrived
  <1>5. CASE \/ onVideoSaved \/ executeFuture \/ audioEncode \/ audioLoop
             \/ audioCheck \/ audioInput
    BY <1>5 DEF onVideoSaved, executeFuture, audioEncode, Take, audioLoop,
       audioCheck, audioInput
  <1>6. CASE \/ audioOutput \/ audioFormat \/ audioCrashes
             \/ stopAudioRecorder \/ stopAudioEncoder \/ audioSignal
    BY <1>6 DEF audioOutput, audioFormat, audioCrashes, stopAudioRecorder,
       stopAudioEncoder, audioSignal, PassesEnd
  <1>7. CASE \/ runFuture \/ futureReleases \/ setupVideo \/ setupSurface
             \/ setupAudio \/ setupAudioFails
    BY <1>7 DEF runFuture, Take, futureReleases, setupVideo, setupSurface,
       setupAudio, setupAudioFails
  <1>8. CASE setupDone
    BY <1>8 DEF setupDone, TracksForgotten
  <1> QED BY <1>1, <1>2, <1>3, <1>4, <1>5, <1>6, <1>7, <1>8, NextIs

\* Only postEncoding gives the audio thread something to do.
LEMMA AudioRests ==
    ASSUME TypeOK, FutureInv, Next, ~postEncoding
    PROVE  Busy("audio")' => Busy("audio")
  <1> USE DEF TypeOK
  <1>1. CASE audioEncode
    BY <1>1, TakeDoes DEF audioEncode, Busy, Thread
  <1>2. CASE encodersRefuse \/ initMediaMuxer \/ executeFuture
    <2>1. mRecordingFuture # 0
      BY <1>2, ExecuteFrom DEF FutureInv, Starting
    <2>2. queue'["audio"] = queue["audio"]
      BY <1>2, <2>1, ExecuteFrom, ExecuteDoes DEF taskVars
    <2> QED BY <1>2, <2>2, ExecuteFrom DEF Busy
  <1>3. CASE videoEncode \/ runFuture
    <2>1. \E t \in {"video", "exec"} : \E to : Take(t, to)
      BY <1>3 DEF videoEncode, runFuture
    <2> QED BY <2>1, TakeDoes DEF Busy, Thread, TaskTypeOK, PcTypeOK
  <1>4. CASE ~audioEncode /\ ~encodersRefuse /\ ~initMediaMuxer
               /\ ~executeFuture /\ ~videoEncode /\ ~runFuture
    BY <1>4, QueueStays, AudioPcStays DEF Busy
  <1> QED BY <1>1, <1>2, <1>3, <1>4

\* The muxer is not open while a recording is prepared or the encoders are
\* set up.
LEMMA NotOpen ==
    ASSUME Phases, Muxing, \/ pc["ui"] \in Starting \ {"begin", "post"}
                           \/ pc["ui"] \notin Starting /\ Busy("exec")
    PROVE  mMuxer # "open" /\ ~mMuxerStarted
  BY DEF Phases, Muxing, Busy, tasks, OpenVideo, Starting

\* An open muxer belongs to the recording that goes on.
LEMMA StepMux ==
    ASSUME TypeOK, FutureInv, ReleasedInv, QuitInv, PhaseInv, MuxInv,
           TracksInv, Next
    PROVE  MuxInv'
  <1> SUFFICES ASSUME ~Early' PROVE Muxing'
    BY DEF MuxInv
  <1>1. /\ ~Early /\ Phases /\ Muxing /\ PcTypeOK /\ TaskTypeOK /\ MediaTypeOK
        /\ pc["ui"] \in Starting \ {"check", "audio"} => tracks = {}
    BY DisturbedGrows DEF PhaseInv, MuxInv, TracksInv, Early, TypeOK
  <1> USE <1>1
  <1>2. CASE startAudio \/ setupAudio \/ setupAudioFails
    <2>1. mMuxer # "open" /\ ~mMuxerStarted
      BY <1>2, NotOpen DEF startAudio, setupAudio, setupAudioFails, Starting,
         Move, Phases, Busy
    <2>2. UNCHANGED muxVars
      BY <1>2 DEF startAudio, setupAudio, setupAudioFails
    <2> QED BY <2>1, <2>2 DEF Muxing, muxVars
  <1>3. CASE initMediaMuxer
    <2>1. /\ ~mMuxerStarted /\ ~Busy("audio") /\ tracks = {} /\ mMuxer # "open"
          /\ pc["ui"] = "muxer"
      BY <1>3, NotOpen DEF initMediaMuxer, Move, Phases, Starting
    <2>2. UNCHANGED <<mMuxerStarted, tracks, mIsAudioEnabled>>
      BY <1>3 DEF initMediaMuxer, flags
    <2>3. ~Busy("audio")'
      BY <1>3, <2>1, AudioRests DEF initMediaMuxer, postEncoding, Move
    <2>4. \/ mMuxer' = "open" /\ muxTracks' = {} /\ pc'["ui"] = "begin"
          \/ mMuxer' = mMuxer
      BY <1>3 DEF initMediaMuxer, Move, Goto, PcTypeOK, Thread
    <2> QED BY <2>1, <2>2, <2>3, <2>4 DEF Muxing, Recorded, Stream
  <1>4. CASE postEncoding
    <2>1. rec # 0 /\ pc["ui"] = "post" /\ ~released
      BY <1>4 DEF postEncoding, Move, FutureInv, ReleasedInv, Starting
    <2>2. tasks' # << >>
      BY <1>4, <2>1, PostDoes DEF QuitInv, tasks, TaskTypeOK, Thread
    <2>3. UNCHANGED <<mIsAudioEnabled, mMuxer, mMuxerStarted, tracks,
            muxTracks>> /\ pc'["video"] = pc["video"]
      BY <1>4 DEF postEncoding, muxVars, flags, Move, Goto, PcTypeOK, Thread
    <2>4. Busy("audio")' => mIsAudioEnabled
      BY <1>4, <2>1, PostDoes DEF Phases, Busy, Starting, postEncoding, Move,
         Goto, PcTypeOK, Thread
    <2> QED BY <2>1, <2>2, <2>3, <2>4 DEF Muxing, Recorded, tasks
  <1>5. CASE videoEncode
    <2>1. pc["video"] = "idle" /\ pc'["video"] = "check"
            /\ UNCHANGED <<mIsAudioEnabled, mMuxer, mMuxerStarted, tracks,
                 muxTracks>>
      BY <1>5 DEF videoEncode, Take, Move, Goto, muxVars, flags, PcTypeOK,
         Thread
    <2>2. Busy("audio")' => Busy("audio")
      BY <1>5, <2>1, AudioRests DEF postEncoding, videoEncode, Take, Move,
         Goto, PcTypeOK
    <2> QED BY <2>1, <2>2 DEF Muxing, Recorded, OpenVideo
  <1>6. CASE videoFormat \/ audioFormat
    <2>1. PICK s \in Stream : /\ addTrack(s) /\ pc[s] # "idle"
                              /\ s = "video"
                                   => pc'["video"] = "check"
                                     /\ pc["video"] = "dequeue"
                              /\ s = "audio" => pc'["video"] = pc["video"]
      BY <1>6 DEF videoFormat, audioFormat, Stream, Move, Goto, PcTypeOK, Thread
    <2>2. /\ mMuxer = "open" /\ tracks' = tracks \cup {s}
               /\ muxTracks' = tracks'
          /\ mMuxer' = IF Completes(s) THEN "started" ELSE "open"
          /\ mMuxerStarted' = (mMuxerStarted \/ Completes(s)) /\ ~mMuxerStarted
      BY <2>1 DEF addTrack, Muxing
    <2>3. UNCHANGED <<mIsAudioEnabled, queue>> /\ pc'["ui"] = pc["ui"]
      BY <1>6 DEF videoFormat, audioFormat, flags, taskVars, Move, Goto,
         PcTypeOK, Thread
    <2>4. Busy("audio")' => Busy("audio")
      BY <1>6, <2>3, AudioPcStays DEF Busy, videoFormat, audioFormat,
         audioEncode, Take, Move
    <2>5. s = "audio" => mIsAudioEnabled
      BY <2>1, <2>2 DEF Muxing, Busy
    <2>6. s \in Recorded /\ tracks \subseteq Recorded /\ tracks # Recorded
      BY <2>2, <2>5 DEF Recorded, Stream, Muxing
    <2>7. CASE Completes(s)
      <3>1. tracks' = Recorded
        BY <2>2, <2>5, <2>6, <2>7 DEF Completes, Recorded, Stream
      <3>2. pc'["video"] \in OpenVideo
        BY <2>1, <2>2, <2>7 DEF Completes, Muxing, OpenVideo, Stream
      <3>3. mMuxer' = "started"
        BY <2>2, <2>7
      <3> QED BY <2>2, <2>3, <3>1, <3>2, <3>3 DEF Muxing, Recorded
    <2>8. CASE ~Completes(s)
      <3>1. \E u \in Recorded : u \notin tracks'
        BY <2>2, <2>5, <2>8 DEF Completes, Recorded, Stream
      <3>2. "video" \in tracks' => pc'["video"] \in OpenVideo
        BY <2>1, <2>2, <2>8 DEF Completes, Muxing, OpenVideo, Stream
      <3>3. \/ pc'["ui"] \in {"begin", "post"} \/ tasks' # << >>
            \/ pc'["video"] \in OpenVideo
        BY <2>1, <2>2, <2>3 DEF Muxing, OpenVideo, tasks, Stream
      <3>4. tracks' \subseteq Recorded /\ tracks' # Recorded
        BY <2>2, <2>6, <3>1
      <3>5. mMuxer' = "open" /\ ~mMuxerStarted'
        BY <2>2, <2>8, Zenon
      <3> QED BY <2>2, <2>3, <2>4, <3>2, <3>3, <3>4, <3>5 DEF Muxing, Recorded
    <2> QED BY <2>7, <2>8
  <1>7. CASE stopMuxer
    <2>1. /\ mMuxer' = "null" /\ pc["video"] = "muxer" /\ pc'["video"] = "key"
      BY <1>7 DEF stopMuxer, Move, Goto, PcTypeOK, Thread
    <2> QED BY <2>1 DEF Muxing
  <1>8. CASE stopMuxerFails
    <2>1. /\ mMuxerStarted /\ mMuxer # "null" /\ pc'["video"] = "signal"
          /\ UNCHANGED <<mIsAudioEnabled, mMuxer, mMuxerStarted, tracks,
               muxTracks>>
      BY <1>8 DEF stopMuxerFails, Move, Goto, PcTypeOK, Thread, muxVars, flags
    <2> QED BY <2>1 DEF Muxing, Recorded
  <1>9. CASE videoSignal
    <2>1. /\ pc["video"] = "signal" /\ ~mMuxerStarted'
          /\ UNCHANGED <<mMuxer>>
      BY <1>9 DEF videoSignal, Move
    <2>2. mMuxer # "open"
      BY <2>1 DEF Phases, Muxing, Busy, Starting, OpenVideo, Thread, tasks
    <2> QED BY <2>1, <2>2 DEF Muxing
  <1>10. CASE setupDone
    <2>1. /\ Busy("exec") /\ UNCHANGED <<mMuxer, mMuxerStarted>>
      BY <1>10 DEF setupDone, Move, Busy
    <2>2. mMuxer # "open" /\ ~mMuxerStarted
      BY <2>1, NotOpen DEF Phases
    <2> QED BY <2>1, <2>2 DEF Muxing
  <1>11. ASSUME ~startAudio, ~setupAudio, ~setupAudioFails, ~initMediaMuxer,
                  ~postEncoding, ~videoEncode, ~videoFormat,
                ~audioFormat, ~stopMuxer, ~stopMuxerFails, ~videoSignal,
                  ~setupDone
         PROVE  Muxing'
    <2>1. UNCHANGED <<mMuxer, mMuxerStarted, tracks, muxTracks,
            mIsAudioEnabled, tasks>>
      BY <1>11, MuxerStays, EnabledStays, TasksStay DEF muxVars
    <2>2. Busy("audio")' => Busy("audio")
      BY <1>11, AudioRests
    <2> QED BY <1>11, <2>1, <2>2, OpenPlacesStay, MuxerPlacesStay DEF Muxing,
       Recorded
  <1> QED BY <1>2, <1>3, <1>4, <1>5, <1>6, <1>7, <1>8, <1>9, <1>10, <1>11

LEMMA Busied ==
    ASSUME PcTypeOK, VideoStep \/ AudioStep \/ ExecStep
    PROVE  /\ VideoStep => Busy("video")
           /\ AudioStep => Busy("audio")
           /\ ExecStep => Busy("exec")
  <1>1. ASSUME VideoStep PROVE Busy("video")
    <2>1. CASE videoEncode \/ videoCheck \/ videoFails \/ videoTryAgain
                 \/ videoFormat
      BY <2>1 DEF Busy, Move, videoEncode, Take, videoCheck, videoFails,
         videoTryAgain, videoFormat
    <2>2. CASE writeVideo \/ videoEos \/ stopVideoEncoder \/ stopMuxer
                 \/ stopMuxerFails
      BY <2>2 DEF Busy, Move, writeVideo, videoEos, stopVideoEncoder,
         stopMuxer, stopMuxerFails
    <2>3. CASE removeRecordingResultIfNoVideoKeyFrameArrived \/ videoSignal
                 \/ onVideoSaved \/ executeFuture
      BY <2>3 DEF Busy, Move, removeRecordingResultIfNoVideoKeyFrameArrived,
         KeyFrameArrived, videoSignal, onVideoSaved, executeFuture
    <2> QED BY <1>1, <2>1, <2>2, <2>3 DEF VideoStep
  <1>2. ASSUME AudioStep PROVE Busy("audio")
    <2>1. CASE audioEncode \/ audioLoop \/ audioCheck \/ audioInput
                 \/ audioOutput
      BY <2>1 DEF Busy, Move, audioEncode, Take, audioLoop, audioCheck,
         audioInput, audioOutput
    <2>2. CASE audioFormat \/ audioCrashes \/ stopAudioRecorder
                 \/ stopAudioEncoder \/ audioSignal
      BY <2>2 DEF Busy, Move, audioFormat, audioCrashes, stopAudioRecorder,
         stopAudioEncoder, audioSignal, PassesEnd
    <2> QED BY <1>2, <2>1, <2>2 DEF AudioStep
  <1>3. ASSUME ExecStep PROVE Busy("exec")
    <2>1. CASE runFuture \/ futureReleases \/ setupVideo \/ setupSurface
                 \/ setupAudio
      BY <2>1 DEF Busy, Move, runFuture, Take, futureReleases, setupVideo,
         setupSurface, setupAudio
    <2>2. CASE setupAudioFails \/ setupDone
      BY <2>2 DEF Busy, Move, setupAudioFails, setupDone, TracksForgotten
    <2> QED BY <1>3, <2>1, <2>2 DEF ExecStep
  <1> QED BY <1>1, <1>2, <1>3

\* While a recording is prepared no other thread has anything to do.
LEMMA Alone ==
    ASSUME PcTypeOK, Phases, pc["ui"] \in Starting, Next
    PROVE  UiStep
  <1>1. ~Calls
    BY DEF Calls, startRecording, stopRecording, release, Starting, Move
  <1> QED BY <1>1, Busied DEF Next, Phases

\* Who may end the work of the video thread and of the executor.
LEMMA VideoStaysBusy ==
    ASSUME TypeOK, FutureInv, Next, ~executeFuture, Busy("video")
    PROVE  Busy("video")'
  <1> USE DEF TypeOK
  <1>1. CASE videoEncode
    BY <1>1 DEF videoEncode, Take, Move, Goto, Busy, PcTypeOK, Thread
  <1>2. CASE postEncoding
    <2>1. rec # 0 /\ rec \in Recording
      BY <1>2, RecordingAssumption DEF FutureInv, TaskTypeOK, Starting,
         postEncoding, Move, Recording
    <2>2. queue'["video"] \in {queue["video"], Append(queue["video"], rec)}
      BY <1>2, <2>1, PostDoes
    <2>3. queue["video"] \in Seq(Recording)
      BY DEF TaskTypeOK, Thread
    <2>4. queue["video"] # << >> => queue'["video"] # << >>
      BY <2>1, <2>2, <2>3
    <2>5. pc'["video"] = pc["video"]
      BY <1>2 DEF postEncoding, Move, Goto, PcTypeOK, Thread
    <2> QED BY <2>4, <2>5 DEF Busy
  <1>3. CASE ~videoEncode /\ ~postEncoding
    <2>1. tasks' = tasks /\ (pc'["video"] = "idle") = (pc["video"] = "idle")
      BY <1>3, TasksStay, VideoBusyStays
    <2> QED BY <2>1 DEF Busy, tasks
  <1> QED BY <1>1, <1>2, <1>3

LEMMA ExecStaysBusy ==
    ASSUME TypeOK, FutureInv, Next, Busy("exec"), ~futureReleases, ~setupVideo,
           ~setupSurface, ~setupAudio, ~setupAudioFails, ~setupDone
    PROVE  Busy("exec")'
  <1> USE DEF TypeOK
  <1>1. CASE runFuture
    BY <1>1 DEF runFuture, Take, Move, Goto, Busy, PcTypeOK, Thread
  <1>2. CASE encodersRefuse \/ initMediaMuxer \/ executeFuture
    <2>1. mRecordingFuture # 0 /\ mRecordingFuture \in Recording
      BY <1>2, ExecuteFrom, RecordingAssumption DEF FutureInv, Starting,
         TaskTypeOK, Recording
    <2>2. queue'["exec"] \in {queue["exec"],
            Append(queue["exec"], mRecordingFuture)}
      BY <1>2, <2>1, ExecuteFrom, ExecuteDoes DEF taskVars
    <2>3. queue["exec"] \in Seq(Recording)
      BY DEF TaskTypeOK, Thread
    <2>4. queue["exec"] # << >> => queue'["exec"] # << >>
      BY <2>1, <2>2, <2>3
    <2> QED BY <1>2, <2>4, ExecuteFrom DEF Busy
  <1>3. CASE postEncoding
    <2>1. rec # 0 /\ pc'["exec"] = pc["exec"]
      BY <1>3 DEF FutureInv, Starting, postEncoding, Move, Goto, PcTypeOK,
         Thread
    <2> QED BY <1>3, <2>1, PostDoes DEF Busy
  <1>4. CASE videoEncode \/ audioEncode
    <2>1. \E t \in {"video", "audio"} : \E to : Take(t, to)
      BY <1>4 DEF videoEncode, audioEncode
    <2> QED BY <2>1, TakeDoes DEF Busy, Thread, TaskTypeOK, PcTypeOK
  <1>5. CASE ~runFuture /\ ~encodersRefuse /\ ~initMediaMuxer
               /\ ~executeFuture /\ ~postEncoding /\ ~videoEncode
                    /\ ~audioEncode
    BY <1>5, QueueStays, ExecPcStays DEF Busy, ExecStep
  <1> QED BY <1>1, <1>2, <1>3, <1>4, <1>5

\* The end of a recording, however it went, sets the encoders up.
LEMMA ExecBegins ==
    ASSUME TypeOK, FutureInv, Phases, Busy("video"), executeFuture
    PROVE  Busy("exec")'
  <1> USE DEF TypeOK
  <1>1. mRecordingFuture # 0 /\ mRecordingFuture \in Recording
          /\ mRecordingFuture \notin executed
    BY ExecuteFrom, RecordingAssumption DEF FutureInv, TaskTypeOK, Recording,
       Phases
  <1>2. queue["exec"] \in Seq(Recording) /\ "exec" \notin quit
    BY DEF TaskTypeOK, Thread, Stream
  <1>3. queue'["exec"] = Append(queue["exec"], mRecordingFuture)
    BY <1>1, <1>2, ExecuteFrom, ExecuteDoes
  <1> QED BY <1>1, <1>2, <1>3 DEF Busy

LEMMA SurfaceStays ==
    ASSUME PcTypeOK, Next, ~setupVideo
    PROVE  pc'["exec"] = "surface" => pc["exec"] = "surface"
  <1> USE DEF PcTypeOK, Thread, signals, flags, muxVars, codecVars, taskVars,
     runVars, lifeVars, resultVars, stateVars, Move, Goto, Report, Disturb
  <1>1. CASE \/ startRecording \/ startCheck \/ startAudio \/ newFuture
             \/ startEncoders \/ encodersRefuse
    BY <1>1 DEF startRecording, startCheck, Refuses, startAudio,
       releaseAudioInputResource, newFuture, startEncoders, encodersRefuse
  <1>2. CASE \/ initMediaMuxer \/ beginRecording \/ postEncoding
             \/ stopRecording \/ stopSignal \/ release
    BY <1>2 DEF initMediaMuxer, beginRecording, postEncoding, stopRecording,
       stopSignal, release
  <1>3. CASE \/ releaseLater \/ releaseNow \/ videoEncode \/ videoCheck
             \/ videoFails \/ videoTryAgain
    BY <1>3 DEF releaseLater, releaseNow, videoEncode, Take, videoCheck,
       videoFails, videoTryAgain
  <1>4. CASE \/ videoFormat \/ writeVideo \/ videoEos \/ stopVideoEncoder
             \/ stopMuxer \/ stopMuxerFails
    BY <1>4 DEF videoFormat, writeVideo, videoEos, stopVideoEncoder,
       stopMuxer, stopMuxerFails
  <1>5. CASE \/ removeRecordingResultIfNoVideoKeyFrameArrived \/ videoSignal
             \/ onVideoSaved \/ executeFuture \/ audioEncode \/ audioLoop
    BY <1>5 DEF removeRecordingResultIfNoVideoKeyFrameArrived,
       KeyFrameArrived, videoSignal, onVideoSaved, executeFuture,
       audioEncode, Take, audioLoop
  <1>6. CASE \/ audioCheck \/ audioInput \/ audioOutput \/ audioFormat
             \/ audioCrashes \/ stopAudioRecorder
    BY <1>6 DEF audioCheck, audioInput, audioOutput, audioFormat,
       audioCrashes, stopAudioRecorder
  <1>7. CASE \/ stopAudioEncoder \/ audioSignal \/ runFuture \/ futureReleases
             \/ setupSurface \/ setupAudio
    BY <1>7 DEF stopAudioEncoder, audioSignal, PassesEnd, runFuture, Take,
       futureReleases, setupSurface, setupAudio
  <1>8. CASE \/ setupAudioFails \/ setupDone
    BY <1>8 DEF setupAudioFails, setupDone, TracksForgotten
  <1> QED BY <1>1, <1>2, <1>3, <1>4, <1>5, <1>6, <1>7, <1>8, NextIs

\* The surface is created for the encoder that was just configured.
LEMMA StepSetup ==
    ASSUME TypeOK, FutureInv, PhaseInv, SetupInv, Next
    PROVE  SetupInv'
  <1> SUFFICES ASSUME ~Early', pc'["exec"] = "surface"
               PROVE  codec'["video"] = "configured"
    BY DEF SetupInv
  <1>1. ~Early /\ Phases /\ PcTypeOK /\ MediaTypeOK
    BY DisturbedGrows DEF PhaseInv, Early, TypeOK
  <1> USE <1>1
  <1>2. CASE setupVideo
    BY <1>2 DEF setupVideo, Move, Goto, PcTypeOK, MediaTypeOK, Thread, Stream
  <1>3. CASE ~setupVideo
    <2>1. pc["exec"] = "surface" /\ codec["video"] = "configured"
            /\ Busy("exec")
      BY <1>3, SurfaceStays DEF SetupInv, Busy
    <2>2. pc["ui"] \notin Starting /\ ~Busy("video") /\ mRecordingFuture # 0
      BY <2>1 DEF Phases
    <2>3. ~startAudio /\ ~startEncoders /\ ~encodersRefuse /\ ~releaseNow
      BY <2>2 DEF startAudio, startEncoders, encodersRefuse, releaseNow, Move,
         Starting
    <2>4. ~stopVideoEncoder /\ ~futureReleases /\ ~setupAudio
            /\ ~setupAudioFails
      BY <2>1, <2>2 DEF stopVideoEncoder, futureReleases, setupAudio,
         setupAudioFails, Move, Busy
    <2>5. CASE stopAudioEncoder
      BY <2>1, <2>5 DEF stopAudioEncoder, MediaTypeOK, Stream
    <2> QED BY <1>3, <2>1, <2>3, <2>4, <2>5, CodecStays
  <1> QED BY <1>2, <1>3

LEMMA LateStays ==
    ASSUME PcTypeOK, Next, ~startAudio
    PROVE  pc'["ui"] \in Starting \ {"check", "audio"}
              => pc["ui"] \in Starting \ {"check", "audio"}
  <1> USE DEF PcTypeOK, Thread, Starting, signals, flags, muxVars, codecVars,
     taskVars, runVars, lifeVars, resultVars, stateVars, Move, Goto, Report,
     Disturb
  <1>1. CASE \/ startRecording \/ startCheck \/ newFuture \/ startEncoders
             \/ encodersRefuse \/ initMediaMuxer
    BY <1>1 DEF startRecording, startCheck, Refuses, newFuture,
       startEncoders, encodersRefuse, initMediaMuxer
  <1>2. CASE \/ beginRecording \/ postEncoding \/ stopRecording \/ stopSignal
             \/ release \/ releaseLater
    BY <1>2 DEF beginRecording, postEncoding, stopRecording, stopSignal,
       release, releaseLater
  <1>3. CASE \/ releaseNow \/ videoEncode \/ videoCheck \/ videoFails
             \/ videoTryAgain \/ videoFormat
    BY <1>3 DEF releaseNow, videoEncode, Take, videoCheck, videoFails,
       videoTryAgain, videoFormat
  <1>4. CASE \/ writeVideo \/ videoEos \/ stopVideoEncoder \/ stopMuxer
             \/ stopMuxerFails
             \/ removeRecordingResultIfNoVideoKeyFrameArrived
    BY <1>4 DEF writeVideo, videoEos, stopVideoEncoder, stopMuxer,
       stopMuxerFails, removeRecordingResultIfNoVideoKeyFrameArrived,
       KeyFrameArrived
  <1>5. CASE \/ videoSignal \/ onVideoSaved \/ executeFuture \/ audioEncode
             \/ audioLoop \/ audioCheck
    BY <1>5 DEF videoSignal, onVideoSaved, executeFuture, audioEncode, Take,
       audioLoop, audioCheck
  <1>6. CASE \/ audioInput \/ audioOutput \/ audioFormat \/ audioCrashes
             \/ stopAudioRecorder \/ stopAudioEncoder
    BY <1>6 DEF audioInput, audioOutput, audioFormat, audioCrashes,
       stopAudioRecorder, stopAudioEncoder
  <1>7. CASE \/ audioSignal \/ runFuture \/ futureReleases \/ setupVideo
             \/ setupSurface \/ setupAudio
    BY <1>7 DEF audioSignal, PassesEnd, runFuture, Take, futureReleases,
       setupVideo, setupSurface, setupAudio
  <1>8. CASE \/ setupAudioFails \/ setupDone
    BY <1>8 DEF setupAudioFails, setupDone, TracksForgotten
  <1> QED BY <1>1, <1>2, <1>3, <1>4, <1>5, <1>6, <1>7, <1>8, NextIs

LEMMA AudioFollows ==
    ASSUME PcTypeOK, Next, ~startCheck
    PROVE  pc'["ui"] = "audio" => pc["ui"] = "audio"
  <1> USE DEF PcTypeOK, Thread, signals, flags, muxVars, codecVars, taskVars,
     runVars, lifeVars, resultVars, stateVars, Move, Goto, Report, Disturb
  <1>1. CASE \/ startRecording \/ startAudio \/ newFuture \/ startEncoders
             \/ encodersRefuse \/ initMediaMuxer
    BY <1>1 DEF startRecording, startAudio, releaseAudioInputResource,
       newFuture, startEncoders, encodersRefuse, initMediaMuxer
  <1>2. CASE \/ beginRecording \/ postEncoding \/ stopRecording \/ stopSignal
             \/ release \/ releaseLater
    BY <1>2 DEF beginRecording, postEncoding, stopRecording, stopSignal,
       release, releaseLater
  <1>3. CASE \/ releaseNow \/ videoEncode \/ videoCheck \/ videoFails
             \/ videoTryAgain \/ videoFormat
    BY <1>3 DEF releaseNow, videoEncode, Take, videoCheck, videoFails,
       videoTryAgain, videoFormat
  <1>4. CASE \/ writeVideo \/ videoEos \/ stopVideoEncoder \/ stopMuxer
             \/ stopMuxerFails
             \/ removeRecordingResultIfNoVideoKeyFrameArrived
    BY <1>4 DEF writeVideo, videoEos, stopVideoEncoder, stopMuxer,
       stopMuxerFails, removeRecordingResultIfNoVideoKeyFrameArrived,
       KeyFrameArrived
  <1>5. CASE \/ videoSignal \/ onVideoSaved \/ executeFuture \/ audioEncode
             \/ audioLoop \/ audioCheck
    BY <1>5 DEF videoSignal, onVideoSaved, executeFuture, audioEncode, Take,
       audioLoop, audioCheck
  <1>6. CASE \/ audioInput \/ audioOutput \/ audioFormat \/ audioCrashes
             \/ stopAudioRecorder \/ stopAudioEncoder
    BY <1>6 DEF audioInput, audioOutput, audioFormat, audioCrashes,
       stopAudioRecorder, stopAudioEncoder
  <1>7. CASE \/ audioSignal \/ runFuture \/ futureReleases \/ setupVideo
             \/ setupSurface \/ setupAudio
    BY <1>7 DEF audioSignal, PassesEnd, runFuture, Take, futureReleases,
       setupVideo, setupSurface, setupAudio
  <1>8. CASE \/ setupAudioFails \/ setupDone
    BY <1>8 DEF setupAudioFails, setupDone, TracksForgotten
  <1> QED BY <1>1, <1>2, <1>3, <1>4, <1>5, <1>6, <1>7, <1>8, NextIs

LEMMA InitFailedStays ==
    ASSUME Next, ~setupVideo, ~setupAudioFails
    PROVE  initFailed' = initFailed
  <1> USE DEF signals, flags, muxVars, codecVars, taskVars, runVars, lifeVars,
     resultVars, stateVars, Move, Goto, Report, Disturb
  <1>1. CASE \/ startRecording \/ startCheck \/ startAudio \/ newFuture
             \/ startEncoders \/ encodersRefuse
    BY <1>1 DEF startRecording, startCheck, Refuses, startAudio,
       releaseAudioInputResource, newFuture, startEncoders, encodersRefuse
  <1>2. CASE \/ initMediaMuxer \/ beginRecording \/ postEncoding
             \/ stopRecording \/ stopSignal \/ release
    BY <1>2 DEF initMediaMuxer, beginRecording, postEncoding, stopRecording,
       stopSignal, release
  <1>3. CASE \/ releaseLater \/ releaseNow \/ videoEncode \/ videoCheck
             \/ videoFails \/ videoTryAgain
    BY <1>3 DEF releaseLater, releaseNow, videoEncode, Take, videoCheck,
       videoFails, videoTryAgain
  <1>4. CASE \/ videoFormat \/ writeVideo \/ videoEos \/ stopVideoEncoder
             \/ stopMuxer \/ stopMuxerFails
    BY <1>4 DEF videoFormat, writeVideo, videoEos, stopVideoEncoder,
       stopMuxer, stopMuxerFails
  <1>5. CASE \/ removeRecordingResultIfNoVideoKeyFrameArrived \/ videoSignal
             \/ onVideoSaved \/ executeFuture \/ audioEncode \/ audioLoop
    BY <1>5 DEF removeRecordingResultIfNoVideoKeyFrameArrived,
       KeyFrameArrived, videoSignal, onVideoSaved, executeFuture,
       audioEncode, Take, audioLoop
  <1>6. CASE \/ audioCheck \/ audioInput \/ audioOutput \/ audioFormat
             \/ audioCrashes \/ stopAudioRecorder
    BY <1>6 DEF audioCheck, audioInput, audioOutput, audioFormat,
       audioCrashes, stopAudioRecorder
  <1>7. CASE \/ stopAudioEncoder \/ audioSignal \/ runFuture \/ futureReleases
             \/ setupSurface \/ setupAudio
    BY <1>7 DEF stopAudioEncoder, audioSignal, PassesEnd, runFuture, Take,
       futureReleases, setupSurface, setupAudio
  <1>8. CASE setupDone
    BY <1>8 DEF setupDone, TracksForgotten
  <1> QED BY <1>1, <1>2, <1>3, <1>4, <1>5, <1>6, <1>7, <1>8, NextIs

\* No track of the recording before is known when the next one begins.
LEMMA StepTracks ==
    ASSUME TypeOK, FutureInv, ReleasedInv, QuitInv, PhaseInv, MuxInv,
           TracksInv, SetupInv, Next
    PROVE  TracksInv'
  <1> SUFFICES ASSUME ~Early', tracks' # {}
               PROVE  /\ pc'["ui"] \notin Starting \ {"check", "audio"}
                      /\ pc'["ui"] = "audio" => NoAudio'
                      /\ \/ Busy("video")' \/ Busy("exec")' \/ released'
                              \/ NoAudio'
                         \/ (initFailed' # {} /\ pc'["ui"] # "audio")
    BY DEF TracksInv
  <1>1. ~Early /\ Phases /\ Muxing /\ PcTypeOK /\ MediaTypeOK
    BY DisturbedGrows DEF PhaseInv, MuxInv, Early, TypeOK
  <1> USE <1>1
  <1>2. CASE videoFormat \/ audioFormat
    <2>1. mMuxer = "open" /\ (Busy("video") \/ Busy("audio")) /\ ~executeFuture
      BY <1>2 DEF videoFormat, audioFormat, addTrack, Busy, Move, Goto,
         executeFuture, PcTypeOK, Thread
    <2>2. pc["ui"] \notin Starting /\ pc'["ui"] = pc["ui"]
      BY <1>2, <2>1 DEF Phases, videoFormat, audioFormat, Move, Goto, PcTypeOK,
         Thread
    <2>3. Busy("video")
      BY <2>1, <2>2 DEF Muxing, Starting, Busy, tasks, OpenVideo
    <2>4. Busy("video")'
      BY <2>1, <2>3, VideoStaysBusy
    <2> QED BY <2>2, <2>4 DEF Starting
  <1>3. CASE ~videoFormat /\ ~audioFormat
    <2>1. tracks # {} /\ ~setupDone
      BY <1>3, MuxerStays DEF muxVars, setupDone, TracksForgotten,
         initMediaMuxer, stopMuxer, videoSignal
    <2>2. /\ pc["ui"] \notin Starting \ {"check", "audio"}
          /\ pc["ui"] = "audio" => NoAudio
          /\ \/ Busy("video") \/ Busy("exec") \/ released \/ NoAudio
             \/ initFailed # {} /\ pc["ui"] # "audio"
      BY <2>1 DEF TracksInv
    <2>3. NoAudio
            => NoAudio' \/ Busy("exec")'
              \/ (initFailed' # {} /\ pc'["ui"] # "audio")
      <3>1. CASE startAudio
        BY <3>1 DEF startAudio, NoAudio, releaseAudioInputResource
      <3>2. CASE setupAudio
        BY <3>2 DEF setupAudio, NoAudio, Busy, Move, Goto, PcTypeOK,
           MediaTypeOK, Thread
      <3>3. CASE setupAudioFails
        <4>1. pc'["ui"] = pc["ui"] /\ Busy("exec")
          BY <3>3 DEF setupAudioFails, Move, Goto, PcTypeOK, Thread, Busy
        <4>2. pc["ui"] # "audio"
          BY <4>1 DEF Phases, Starting
        <4> QED BY <3>3, <4>1, <4>2 DEF setupAudioFails
      <3>4. CASE stopAudioRecorder
        BY <3>4 DEF stopAudioRecorder, NoAudio
      <3>5. CASE releaseNow \/ futureReleases
        BY <3>5 DEF releaseNow, futureReleases, releaseResources, NoAudio, flags
      <3> QED BY <3>1, <3>2, <3>3, <3>4, <3>5, AudioStays DEF NoAudio
    <2>4. pc'["ui"] \notin Starting \ {"check", "audio"}
      <3>1. CASE startAudio
        <4>1. NoAudio
          BY <2>2, <3>1 DEF startAudio, Move
        <4>2. pc'["ui"] = "idle"
          BY <3>1, <4>1 DEF startAudio, NoAudio, Move, Goto, PcTypeOK, Thread
        <4> QED BY <4>2 DEF Starting
      <3> QED BY <2>2, <3>1, LateStays
    <2>5. pc'["ui"] = "audio" => NoAudio'
      <3>1. CASE startCheck
        <4>1. ~Refuses \/ pc'["ui"] = "idle"
          BY <3>1 DEF startCheck, Move, Goto, PcTypeOK, Thread
        <4>2. pc["ui"] \in Starting /\ ~released
                /\ UNCHANGED <<mIsAudioEnabled, mAudioRecorder>>
          BY <3>1 DEF startCheck, Move, Starting, ReleasedInv, flags, codecVars
        <4> QED BY <2>2, <4>1, <4>2 DEF Refuses, Phases, NoAudio
      <3>2. CASE ~startCheck /\ pc'["ui"] = "audio"
        <4>1. pc["ui"] = "audio" /\ NoAudio
          BY <2>2, <3>2, AudioFollows
        <4>2. UiStep
          BY <4>1, Alone DEF Starting
        <4>3. startAudio
          BY <3>2, <4>1, <4>2 DEF UiStep, newFuture, startEncoders,
             encodersRefuse, initMediaMuxer, beginRecording, postEncoding,
             stopSignal, releaseLater, releaseNow, Move
        <4> QED BY <3>2, <4>1, <4>3 DEF startAudio, NoAudio, Move, Goto,
           PcTypeOK, Thread
      <3> QED BY <3>1, <3>2
    <2>6. Busy("video") => Busy("video")' \/ Busy("exec")'
      BY VideoStaysBusy, ExecBegins
    <2>7. ASSUME Busy("exec")
          PROVE  Busy("exec")' \/ released' \/ NoAudio'
                   \/ (initFailed' # {} /\ pc'["ui"] # "audio")
      <3>1. pc["ui"] # "audio"
        BY <2>7 DEF Phases, Starting
      <3>2. CASE futureReleases
        BY <3>2, ReleasedStays DEF futureReleases, ReleasedInv, Move, release
      <3>3. CASE setupVideo
        <4>1. pc'["ui"] = pc["ui"] /\ released' = released
          BY <3>3 DEF setupVideo, Move, Goto, PcTypeOK, Thread, lifeVars
        <4> QED BY <3>1, <3>3, <4>1 DEF setupVideo, QuitInv, Busy, Move, Goto,
           PcTypeOK, Thread
      <3>4. CASE setupSurface
        BY <3>4 DEF setupSurface, SetupInv, Busy, Goto, PcTypeOK, Thread
      <3>5. CASE setupAudio
        BY <3>5 DEF setupAudio, Busy, NoAudio, Move, Goto, PcTypeOK,
           MediaTypeOK, Thread
      <3>6. CASE setupAudioFails
        <4>1. pc'["ui"] = pc["ui"]
          BY <3>6 DEF setupAudioFails, Move, Goto, PcTypeOK, Thread
        <4> QED BY <3>1, <3>6, <4>1 DEF setupAudioFails
      <3> QED BY <2>1, <2>7, <3>2, <3>3, <3>4, <3>5, <3>6, ExecStaysBusy
    <2>8. released => released'
      BY ReleasedStays DEF release
    <2>9. ASSUME initFailed # {}, pc["ui"] # "audio"
          PROVE  Busy("exec")' \/ (initFailed' # {} /\ pc'["ui"] # "audio")
      <3>1. CASE startCheck
        BY <2>9, <3>1 DEF startCheck, Refuses, Move, Goto, PcTypeOK, Thread,
           codecVars
      <3>2. CASE setupVideo
        <4>1. pc'["ui"] = pc["ui"]
          BY <3>2 DEF setupVideo, Move, Goto, PcTypeOK, Thread
        <4> QED BY <2>9, <3>2, <4>1 DEF setupVideo, Busy, Move, Goto, PcTypeOK,
           Thread
      <3>3. CASE setupAudioFails
        <4>1. pc'["ui"] = pc["ui"]
          BY <3>3 DEF setupAudioFails, Move, Goto, PcTypeOK, Thread
        <4> QED BY <2>9, <3>3, <4>1 DEF setupAudioFails
      <3> QED BY <2>9, <3>1, <3>2, <3>3, AudioFollows, InitFailedStays
    <2> QED BY <2>2, <2>3, <2>4, <2>5, <2>6, <2>7, <2>8, <2>9
  <1> QED BY <1>2, <1>3

\* Only a failing videoEncode or audioEncode ends the process.
LEMMA CrashStays ==
    ASSUME PcTypeOK, Next, ~videoFails, ~audioCrashes
    PROVE  Crashed' => Crashed
  <1> USE DEF PcTypeOK, Crashed, Thread, UiPlaces, VideoPlaces, AudioPlaces,
     ExecPlaces, signals, flags, muxVars, codecVars, taskVars, runVars,
     lifeVars, resultVars, stateVars, Move, Goto, Report, Disturb
  <1>1. CASE \/ startRecording \/ startCheck \/ startAudio \/ newFuture
             \/ startEncoders \/ encodersRefuse
    BY <1>1 DEF startRecording, startCheck, Refuses, startAudio,
       releaseAudioInputResource, newFuture, startEncoders, encodersRefuse
  <1>2. CASE \/ initMediaMuxer \/ beginRecording \/ postEncoding
             \/ stopRecording \/ stopSignal \/ release
    BY <1>2 DEF initMediaMuxer, beginRecording, postEncoding, stopRecording,
       stopSignal, release
  <1>3. CASE \/ releaseLater \/ releaseNow \/ videoEncode \/ videoCheck
             \/ videoTryAgain \/ videoFormat
    BY <1>3 DEF releaseLater, releaseNow, videoEncode, Take, videoCheck,
       videoTryAgain, videoFormat
  <1>4. CASE \/ writeVideo \/ videoEos \/ stopVideoEncoder \/ stopMuxer
             \/ stopMuxerFails
             \/ removeRecordingResultIfNoVideoKeyFrameArrived
    BY <1>4 DEF writeVideo, videoEos, stopVideoEncoder, stopMuxer,
       stopMuxerFails, removeRecordingResultIfNoVideoKeyFrameArrived,
       KeyFrameArrived
  <1>5. CASE \/ videoSignal \/ onVideoSaved \/ executeFuture \/ audioEncode
             \/ audioLoop \/ audioCheck
    BY <1>5 DEF videoSignal, onVideoSaved, executeFuture, audioEncode, Take,
       audioLoop, audioCheck
  <1>6. CASE \/ audioInput \/ audioOutput \/ audioFormat \/ stopAudioRecorder
             \/ stopAudioEncoder \/ audioSignal
    BY <1>6 DEF audioInput, audioOutput, audioFormat, stopAudioRecorder,
       stopAudioEncoder, audioSignal, PassesEnd
  <1>7. CASE \/ runFuture \/ futureReleases \/ setupVideo \/ setupSurface
             \/ setupAudio \/ setupAudioFails
    BY <1>7 DEF runFuture, Take, futureReleases, setupVideo, setupSurface,
       setupAudio, setupAudioFails
  <1>8. CASE setupDone
    BY <1>8 DEF setupDone, TracksForgotten
  <1> QED BY <1>1, <1>2, <1>3, <1>4, <1>5, <1>6, <1>7, <1>8, NextIs

\* What videoEncode leaves alone.
LEMMA VideoKeeps ==
    ASSUME PcTypeOK, TaskTypeOK, VideoStep
    PROVE  /\ pc'["ui"] = pc["ui"] /\ pc'["audio"] = pc["audio"]
  <1> USE DEF PcTypeOK, TaskTypeOK, Thread, signals, flags, muxVars,
     codecVars, taskVars, runVars, lifeVars, resultVars, stateVars, Move,
     Goto, Report, Disturb
  <1>1. CASE videoEncode \/ videoCheck \/ videoFails \/ videoTryAgain
    BY <1>1 DEF videoEncode, Take, videoCheck, videoFails, videoTryAgain
  <1>2. CASE videoFormat \/ writeVideo \/ videoEos \/ stopVideoEncoder
    BY <1>2 DEF videoFormat, writeVideo, videoEos, stopVideoEncoder
  <1>3. CASE stopMuxer \/ stopMuxerFails
               \/ removeRecordingResultIfNoVideoKeyFrameArrived \/ videoSignal
    BY <1>3 DEF stopMuxer, stopMuxerFails,
       removeRecordingResultIfNoVideoKeyFrameArrived, KeyFrameArrived,
       videoSignal
  <1>4. CASE onVideoSaved \/ executeFuture
    BY <1>4 DEF onVideoSaved, executeFuture
  <1> QED BY <1>1, <1>2, <1>3, <1>4 DEF VideoStep

\* What audioEncode leaves alone.
LEMMA AudioKeeps ==
    ASSUME PcTypeOK, TaskTypeOK, MediaTypeOK, AudioStep
    PROVE  /\ pc'["ui"] = pc["ui"] /\ pc'["video"] = pc["video"]
                /\ tasks' = tasks
           /\ UNCHANGED <<mIsAudioEnabled, inputEnded>>
           /\ codec'["video"] = codec["video"]
  <1> USE DEF PcTypeOK, TaskTypeOK, Thread, signals, flags, muxVars,
     codecVars, taskVars, runVars, lifeVars, resultVars, stateVars, Move,
     Goto, Report, Disturb, tasks, MediaTypeOK, Stream
  <1>1. CASE audioEncode \/ audioLoop \/ audioCheck
    BY <1>1 DEF audioEncode, Take, audioLoop, audioCheck
  <1>2. CASE audioInput \/ audioOutput \/ audioFormat
    BY <1>2 DEF audioInput, audioOutput, audioFormat
  <1>3. CASE audioCrashes \/ stopAudioRecorder \/ stopAudioEncoder
    BY <1>3 DEF audioCrashes, stopAudioRecorder, stopAudioEncoder
  <1>4. CASE audioSignal
    BY <1>4 DEF audioSignal, PassesEnd
  <1> QED BY <1>1, <1>2, <1>3, <1>4 DEF AudioStep

LEMMA FormatKept ==
    ASSUME PcTypeOK, TaskTypeOK, AudioStep, ~audioFormat
    PROVE  UNCHANGED <<format, muxVars>>
  <1> USE DEF PcTypeOK, TaskTypeOK, Thread, signals, flags, muxVars,
     codecVars, taskVars, runVars, lifeVars, resultVars, stateVars, Move,
     Goto, Report, Disturb
  <1>1. CASE audioEncode \/ audioLoop \/ audioCheck
    BY <1>1 DEF audioEncode, Take, audioLoop, audioCheck
  <1>2. CASE audioInput \/ audioOutput \/ audioCrashes
    BY <1>2 DEF audioInput, audioOutput, audioCrashes
  <1>3. CASE stopAudioRecorder \/ stopAudioEncoder \/ audioSignal
    BY <1>3 DEF stopAudioRecorder, stopAudioEncoder, audioSignal, PassesEnd
  <1> QED BY <1>1, <1>2, <1>3 DEF AudioStep

LEMMA CodecKept ==
    ASSUME PcTypeOK, TaskTypeOK, AudioStep, ~stopAudioEncoder
    PROVE  codec' = codec /\ (pc["audio"] = "signal" => audioSignal)
  <1> USE DEF PcTypeOK, TaskTypeOK, Thread, signals, flags, muxVars,
     codecVars, taskVars, runVars, lifeVars, resultVars, stateVars, Move,
     Goto, Report, Disturb
  <1>1. CASE audioEncode
    BY <1>1 DEF audioEncode, Take
  <1>2. CASE audioLoop
    BY <1>2 DEF audioLoop
  <1>3. CASE audioCheck
    BY <1>3 DEF audioCheck
  <1>4. CASE audioInput
    BY <1>4 DEF audioInput
  <1>5. CASE audioOutput
    BY <1>5 DEF audioOutput
  <1>6. CASE audioFormat
    BY <1>6 DEF audioFormat
  <1>7. CASE audioCrashes
    BY <1>7 DEF audioCrashes
  <1>8. CASE stopAudioRecorder
    BY <1>8 DEF stopAudioRecorder
  <1>9. CASE audioSignal
    BY <1>9 DEF audioSignal, PassesEnd
  <1> QED BY <1>1, <1>2, <1>3, <1>4, <1>5, <1>6, <1>7, <1>8, <1>9 DEF AudioStep

LEMMA RecorderKept ==
    ASSUME PcTypeOK, TaskTypeOK, AudioStep
    PROVE  mAudioRecorder' = mAudioRecorder \/ stopAudioRecorder
  <1> USE DEF PcTypeOK, TaskTypeOK, Thread, signals, flags, muxVars,
     codecVars, taskVars, runVars, lifeVars, resultVars, stateVars, Move,
     Goto, Report, Disturb
  <1>1. CASE audioEncode
    BY <1>1 DEF audioEncode, Take
  <1>2. CASE audioLoop
    BY <1>2 DEF audioLoop
  <1>3. CASE audioCheck
    BY <1>3 DEF audioCheck
  <1>4. CASE audioInput
    BY <1>4 DEF audioInput
  <1>5. CASE audioOutput
    BY <1>5 DEF audioOutput
  <1>6. CASE audioFormat
    BY <1>6 DEF audioFormat
  <1>7. CASE audioCrashes
    BY <1>7 DEF audioCrashes
  <1>8. CASE stopAudioRecorder
    BY <1>8 DEF stopAudioRecorder
  <1>9. CASE stopAudioEncoder
    BY <1>9 DEF stopAudioEncoder
  <1>10. CASE audioSignal
    BY <1>10 DEF audioSignal, PassesEnd
  <1> QED BY <1>1, <1>2, <1>3, <1>4, <1>5, <1>6, <1>7, <1>8, <1>9,
     <1>10 DEF AudioStep

LEMMA EndKept ==
    ASSUME PcTypeOK, TaskTypeOK, AudioStep, ~audioSignal
    PROVE  mEndOfVideoStreamSignal' = mEndOfVideoStreamSignal
  <1> USE DEF PcTypeOK, TaskTypeOK, Thread, signals, flags, muxVars,
     codecVars, taskVars, runVars, lifeVars, resultVars, stateVars, Move,
     Goto, Report, Disturb
  <1>1. CASE audioEncode \/ audioLoop \/ audioCheck
    BY <1>1 DEF audioEncode, Take, audioLoop, audioCheck
  <1>2. CASE audioInput \/ audioOutput \/ audioFormat
    BY <1>2 DEF audioInput, audioOutput, audioFormat
  <1>3. CASE audioCrashes \/ stopAudioRecorder \/ stopAudioEncoder
    BY <1>3 DEF audioCrashes, stopAudioRecorder, stopAudioEncoder
  <1> QED BY <1>1, <1>2, <1>3 DEF AudioStep

LEMMA RecorderStops ==
    stopAudioRecorder => mAudioRecorder' = "ready"
  BY DEF stopAudioRecorder

\* What the executor leaves alone.
LEMMA ExecKeeps ==
    ASSUME PcTypeOK, TaskTypeOK, ExecStep
    PROVE  /\ pc'["ui"] = pc["ui"] /\ pc'["video"] = pc["video"]
           /\ pc'["audio"] = pc["audio"] /\ tasks' = tasks
  <1> USE DEF PcTypeOK, TaskTypeOK, Thread, signals, flags, muxVars,
     codecVars, taskVars, runVars, lifeVars, resultVars, stateVars, Move,
     Goto, Report, Disturb, tasks
  <1>1. CASE runFuture \/ futureReleases \/ setupVideo \/ setupSurface
    BY <1>1 DEF runFuture, Take, futureReleases, setupVideo, setupSurface
  <1>2. CASE setupAudio \/ setupAudioFails \/ setupDone
    BY <1>2 DEF setupAudio, setupAudioFails, setupDone, TracksForgotten
  <1> QED BY <1>1, <1>2 DEF ExecStep

LEMMA VideoLeft ==
    ASSUME PcTypeOK, Next
    PROVE  pc["video"] \notin {"idle", "check", "dequeue"}
              => pc'["video"] \notin {"check", "dequeue"}
  <1> USE DEF PcTypeOK, Thread, signals, flags, muxVars, codecVars, taskVars,
     runVars, lifeVars, resultVars, stateVars, Move, Goto, Report, Disturb
  <1>1. CASE \/ startRecording \/ startCheck \/ startAudio \/ newFuture
             \/ startEncoders \/ encodersRefuse
    BY <1>1 DEF startRecording, startCheck, Refuses, startAudio,
       releaseAudioInputResource, newFuture, startEncoders, encodersRefuse
  <1>2. CASE \/ initMediaMuxer \/ beginRecording \/ postEncoding
             \/ stopRecording \/ stopSignal \/ release
    BY <1>2 DEF initMediaMuxer, beginRecording, postEncoding, stopRecording,
       stopSignal, release
  <1>3. CASE \/ releaseLater \/ releaseNow \/ videoEncode \/ videoCheck
             \/ videoFails \/ videoTryAgain
    BY <1>3 DEF releaseLater, releaseNow, videoEncode, Take, videoCheck,
       videoFails, videoTryAgain
  <1>4. CASE \/ videoFormat \/ writeVideo \/ videoEos \/ stopVideoEncoder
             \/ stopMuxer \/ stopMuxerFails
    BY <1>4 DEF videoFormat, writeVideo, videoEos, stopVideoEncoder,
       stopMuxer, stopMuxerFails
  <1>5. CASE \/ removeRecordingResultIfNoVideoKeyFrameArrived \/ videoSignal
             \/ onVideoSaved \/ executeFuture \/ audioEncode \/ audioLoop
    BY <1>5 DEF removeRecordingResultIfNoVideoKeyFrameArrived,
       KeyFrameArrived, videoSignal, onVideoSaved, executeFuture,
       audioEncode, Take, audioLoop
  <1>6. CASE \/ audioCheck \/ audioInput \/ audioOutput \/ audioFormat
             \/ audioCrashes \/ stopAudioRecorder
    BY <1>6 DEF audioCheck, audioInput, audioOutput, audioFormat,
       audioCrashes, stopAudioRecorder
  <1>7. CASE \/ stopAudioEncoder \/ audioSignal \/ runFuture \/ futureReleases
             \/ setupVideo \/ setupSurface
    BY <1>7 DEF stopAudioEncoder, audioSignal, PassesEnd, runFuture, Take,
       futureReleases, setupVideo, setupSurface
  <1>8. CASE \/ setupAudio \/ setupAudioFails \/ setupDone
    BY <1>8 DEF setupAudio, setupAudioFails, setupDone, TracksForgotten
  <1> QED BY <1>1, <1>2, <1>3, <1>4, <1>5, <1>6, <1>7, <1>8, NextIs

LEMMA Moves ==
    ASSUME PcTypeOK
    PROVE  /\ videoFails => /\ pc["video"] \in {"check", "dequeue"}
                            /\ pc'["video"] \in {"crashed", "stop"}
           /\ audioCrashes
                => pc["audio"] # "crashed" /\ pc'["audio"] = "crashed"
           /\ postEncoding => pc["ui"] = "post" /\ pc'["ui"] = "idle"
  BY DEF PcTypeOK, Thread, videoFails, audioCrashes, postEncoding, Move, Goto

LEMMA AudioEnds ==
    ASSUME TaskTypeOK, PcTypeOK, Phases, audioSignal
    PROVE  ~Busy("audio")'
  BY DEF TaskTypeOK, PcTypeOK, Phases, Thread, audioSignal, Busy, Move, Goto,
     taskVars

\* What a step that ends no process needs to keep of Calm.
LEMMA CalmStep ==
    ASSUME Calm, Next, PcTypeOK, ~Early', ~videoFails, ~audioCrashes,
           TakenRight', PreparedRight',
           Busy("audio")' /\ "codec" \notin disturbed' => Listening'
    PROVE  Calm'
  <1>1. Crashed' => disturbed' \cap {"codec", "early"} # {}
    BY CrashStays, DisturbedGrows DEF Calm, NoCrash
  <1> QED BY <1>1 DEF Calm, NoCrash

\* Where nobody records.
LEMMA CalmOff ==
    ASSUME TypeOK, FutureInv, Calm, Next, ~Early', ~videoFails, ~audioCrashes,
           ~postEncoding,
           ~Taking',
             pc'["ui"] \notin {"future", "encoders", "muxer", "begin", "post"},
           Busy("audio") => "codec" \in disturbed
    PROVE  Calm'
  <1>1. Busy("audio")' => "codec" \in disturbed'
    BY AudioRests, DisturbedGrows
  <1> QED BY <1>1, CalmStep DEF TypeOK, TakenRight, PreparedRight

\* startRecording, step by step.
LEMMA CalmPrepared ==
    ASSUME TypeOK, FutureInv, ReleasedInv, QuitInv, Phases, Muxing, Calm,
           pc["ui"] \in Starting \ {"check", "audio"} => tracks = {},
           pc["ui"] \in Starting, Next, ~Early'
    PROVE  Calm'
  <1> USE DEF TypeOK
  <1>1. /\ ~Busy("video") /\ ~Busy("audio") /\ ~Busy("exec") /\ UiStep
        /\ tasks = << >> /\ pc["video"] = "idle"
    BY Alone DEF Phases, Busy, tasks
  <1>2. ~videoFails /\ ~audioCrashes /\ ~videoEncode /\ pc'["video"] = "idle"
    BY <1>1, VideoStays, Busied DEF VideoStep, AudioStep
  <1>3. ASSUME ~postEncoding PROVE ~Busy("audio")' /\ tasks' = << >>
    BY <1>1, <1>2, <1>3, AudioRests, TasksStay
  <1>4. CASE startCheck \/ encodersRefuse
    <2>1. pc'["ui"] \in {"audio", "idle"} /\ ~postEncoding
      BY <1>4 DEF startCheck, encodersRefuse, Move, Goto, PcTypeOK, Thread,
         postEncoding
    <2> QED BY <1>1, <1>2, <1>3, <2>1, CalmOff DEF Taking
  <1>5. CASE startAudio \/ newFuture
    <2>1. /\ pc'["ui"] \in {"idle", "future", "encoders"} /\ ~postEncoding
          /\ pc'["ui"] = "idle"
               \/ (mIsAudioEnabled' => mAudioRecorder' # "null")
      BY <1>5 DEF startAudio, newFuture, Move, Goto, PcTypeOK, Thread,
         postEncoding, Calm, PreparedRight, flags, codecVars
    <2>2. ~Taking' /\ pc'["ui"] # "muxer" /\ ~Busy("audio")'
      BY <1>2, <1>3, <2>1 DEF Taking
    <2> QED BY <1>2, <2>1, <2>2, CalmStep DEF TakenRight, PreparedRight
  <1>6. CASE startEncoders
    <2>1. /\ pc["ui"] = "encoders" /\ pc'["ui"] = "muxer" /\ ~postEncoding
          /\ UNCHANGED <<mIsAudioEnabled, mAudioRecorder, tracks>>
      BY <1>6 DEF startEncoders, Move, Goto, PcTypeOK, Thread, postEncoding,
         flags, muxVars
    <2>2. /\ \A s \in Recorded : codec'[s] = "running" /\ s \notin format'
          /\ ~inputEnded'
      BY <1>6 DEF startEncoders, Started, Recorded, Stream
    <2>3. tracks' = {} /\ Recorded' = Recorded /\ "video" \in Recorded
      BY <2>1 DEF Starting, Recorded, Stream
    <2>4. mIsAudioEnabled => "audio" \in Recorded
      BY DEF Recorded, Stream
    <2>5. ~Taking' /\ ~Busy("audio")'
      BY <1>2, <1>3, <2>1 DEF Taking
    <2>6. TakenRight'
      BY <2>2, <2>3, <2>5 DEF TakenRight
    <2>7. PreparedRight'
      BY <2>1, <2>2, <2>4 DEF PreparedRight, Calm
    <2> QED BY <1>2, <2>5, <2>6, <2>7, CalmStep
  <1>7. CASE initMediaMuxer
    <2>1. CASE pc'["ui"] = "idle"
      BY <1>1, <1>2, <1>3, <1>7, <2>1, CalmOff DEF Taking, initMediaMuxer,
         postEncoding, Move
    <2>2. CASE pc'["ui"] = "begin" /\ pc["ui"] = "muxer" /\ mMuxer' = "open"
      <3>1. UNCHANGED <<mIsAudioEnabled, mAudioRecorder, tracks, codec,
              format, inputEnded>>
        BY <1>7 DEF initMediaMuxer, flags, codecVars
      <3>2. TakenRight'
        BY <2>2, <3>1 DEF TakenRight, Calm, Recorded
      <3>3. PreparedRight'
        BY <2>2, <3>1 DEF PreparedRight, Calm
      <3>4. ~Busy("audio")'
        BY <1>3, <2>2 DEF postEncoding, Move
      <3> QED BY <1>2, <3>2, <3>3, <3>4, CalmStep
    <2> QED BY <1>7, <2>1, <2>2 DEF initMediaMuxer, Move, Goto, PcTypeOK, Thread
  <1>8. CASE beginRecording
    <2>1. /\ pc["ui"] = "begin" /\ pc'["ui"] = "post"
               /\ ~mEndOfVideoStreamSignal' /\ ~postEncoding
          /\ UNCHANGED <<mIsAudioEnabled, mAudioRecorder, tracks, codec,
               format, inputEnded, mMuxer, mMuxerStarted>>
      BY <1>8 DEF beginRecording, SignalsCleared, Move, Goto, PcTypeOK, Thread,
         postEncoding, codecVars, muxVars
    <2>2. TakenRight'
      BY <2>1 DEF TakenRight, Taking, Calm, Recorded
    <2>3. PreparedRight'
      BY <2>1 DEF PreparedRight, Calm
    <2> QED BY <1>2, <1>3, <2>1, <2>2, <2>3, CalmStep
  <1>9. CASE postEncoding
    <2>1. /\ pc["ui"] = "post" /\ pc'["ui"] = "idle"
               /\ pc'["audio"] = pc["audio"] /\ rec # 0 /\ ~released
          /\ UNCHANGED <<mIsAudioEnabled, mAudioRecorder, tracks, codec,
               format, inputEnded, mMuxer, mMuxerStarted,
                 mEndOfVideoStreamSignal>>
      BY <1>9 DEF postEncoding, Move, Goto, PcTypeOK, Thread, codecVars,
         muxVars, flags, signals, FutureInv, ReleasedInv, Starting
    <2>2. tasks' # << >>
      BY <1>9, <2>1, PostDoes DEF QuitInv, tasks, TaskTypeOK, Thread
    <2>3. TakenRight'
      BY <2>1 DEF TakenRight, Taking, Calm, Recorded
    <2>4. PreparedRight'
      BY <2>1 DEF PreparedRight
    <2>5. Busy("audio")' => mIsAudioEnabled
      BY <1>1, <1>9, <2>1, PostDoes DEF Busy
    <2>6. Busy("audio")' => Listening'
      BY <2>1, <2>2, <2>5 DEF Listening, Calm, PreparedRight
    <2> QED BY <1>2, <2>3, <2>4, <2>6, CalmStep
  <1>10. startCheck \/ encodersRefuse \/ startAudio \/ newFuture
           \/ startEncoders \/ initMediaMuxer \/ beginRecording \/ postEncoding
    BY <1>1 DEF UiStep, stopSignal, releaseLater, releaseNow, Starting, Move
  <1> QED BY <1>4, <1>5, <1>6, <1>7, <1>8, <1>9, <1>10

\* The calls of the application and what stopRecording and release do.
LEMMA CalmUi ==
    ASSUME TypeOK, FutureInv, Phases, Calm, Calls \/ UiStep,
           pc["ui"] \notin Starting, Next, ~Early'
    PROVE  Calm'
  <1> USE DEF TypeOK
  <1>1. startRecording \/ stopRecording \/ release \/ stopSignal
          \/ releaseLater \/ releaseNow
    BY DEF Calls, UiStep, Starting, Move, startCheck, startAudio, newFuture,
       startEncoders, encodersRefuse, initMediaMuxer, beginRecording,
       postEncoding
  <1>2. ~videoFails /\ ~audioCrashes /\ ~postEncoding /\ ~videoEncode
          /\ tasks' = tasks
    BY <1>1, TasksStay DEF startRecording, stopRecording, release, stopSignal,
       releaseLater, releaseNow, Move, Goto, PcTypeOK, Thread, videoFails,
       audioCrashes, postEncoding, Starting, videoEncode, Take
  <1>3. \A t \in {"video", "audio", "exec"} : pc'[t] = pc[t]
    BY <1>1 DEF startRecording, stopRecording, release, stopSignal,
       releaseLater, releaseNow, Move, Goto, PcTypeOK, Thread
  <1>4. CASE startRecording
    <2>1. Idle /\ pc'["ui"] = "check"
      BY <1>4 DEF startRecording, Early, Disturb, Move, Goto, PcTypeOK, Thread
    <2>2. ~Busy("audio") /\ tasks = << >> /\ pc["video"] = "idle"
      BY <2>1 DEF Idle, Busy, tasks, Thread
    <2> QED BY <1>2, <1>3, <2>1, <2>2, CalmOff DEF Taking
  <1>5. CASE releaseNow
    <2>1. tasks = << >> /\ pc["video"] = "idle" /\ pc'["ui"] = "idle"
      BY <1>5 DEF releaseNow, FutureInv, Move, Goto, PcTypeOK, Thread
    <2>2. Busy("audio") => "codec" \in disturbed
      BY <2>1 DEF Calm, Listening
    <2> QED BY <1>2, <1>3, <2>1, <2>2, CalmOff DEF Taking
  <1>6. CASE stopRecording \/ release \/ stopSignal \/ releaseLater
    <2>1. /\ pc'["ui"] \in {"idle", "stop", "releaseStop", "release"}
          /\ UNCHANGED <<mIsAudioEnabled, mAudioRecorder, tracks, codec,
               format, inputEnded, mMuxer, mMuxerStarted, disturbed>>
      BY <1>6 DEF stopRecording, release, stopSignal, releaseLater, Move, Goto,
         PcTypeOK, Thread, flags, codecVars, muxVars, resultVars
    <2>2. mIsAudioEnabled => mEndOfVideoStreamSignal' = mEndOfVideoStreamSignal
      BY <1>6 DEF stopRecording, release, stopSignal, StopSignal, releaseLater,
         signals
    <2>3. TakenRight'
      BY <1>2, <1>3, <2>1 DEF Calm, TakenRight, Taking, Recorded, Starting
    <2>4. PreparedRight'
      BY <2>1 DEF PreparedRight
    <2>5. Busy("audio")' => Busy("audio")
      BY <1>2, AudioRests
    <2>6. Busy("audio")' /\ "codec" \notin disturbed' => Listening'
      BY <1>2, <1>3, <2>1, <2>2, <2>5 DEF Calm, Listening
    <2> QED BY <1>2, <2>3, <2>4, <2>6, CalmStep
  <1> QED BY <1>1, <1>4, <1>5, <1>6

\* While the executor sets the encoders up, nobody records.
LEMMA CalmExec ==
    ASSUME TypeOK, FutureInv, Phases, Calm, ExecStep, Next, ~Early'
    PROVE  Calm'
  <1> USE DEF TypeOK
  <1>1. /\ Busy("exec") /\ ~Busy("video") /\ pc["ui"] \notin Starting
        /\ tasks = << >> /\ pc["video"] = "idle"
    BY Busied DEF Phases, Busy, tasks
  <1>3. /\ pc'["ui"] = pc["ui"] /\ pc'["video"] = "idle" /\ tasks' = << >>
        /\ ~videoFails /\ ~audioCrashes /\ ~postEncoding
    BY <1>1, ExecKeeps, Moves
  <1>4. Busy("audio") => "codec" \in disturbed
    BY <1>1 DEF Calm, Listening
  <1> QED BY <1>1, <1>3, <1>4, CalmOff DEF Taking, Starting

\* videoEncode finds the encoder running and the muxer there.
LEMMA CalmVideo ==
    ASSUME TypeOK, FutureInv, Phases, Muxing, Calm, VideoStep, Next, ~Early'
    PROVE  Calm'
  <1> USE DEF TypeOK
  <1>1. /\ Busy("video") /\ pc["ui"] \notin Starting
        /\ pc'["ui"] = pc["ui"] /\ pc'["audio"] = pc["audio"] /\ ~postEncoding
             /\ ~audioCrashes
    BY Busied, VideoKeeps, Moves DEF Phases
  <1>2. (Busy("audio")' => Busy("audio"))
          /\ ("codec" \notin disturbed' => "codec" \notin disturbed)
    BY <1>1, AudioRests, DisturbedGrows
  <1>3. PreparedRight'
    BY <1>1 DEF PreparedRight, Starting
  <1>4. CASE pc["video"] \notin {"idle", "check", "dequeue"}
    <2>1. tasks = << >> /\ ~videoEncode /\ ~videoFails
      BY <1>4 DEF Phases, Busy, tasks, videoEncode, videoFails, Take, Move,
         Thread
    <2>2. tasks' = << >> /\ pc'["video"] \notin {"check", "dequeue"}
      BY <1>1, <1>4, <2>1, TasksStay, VideoLeft
    <2>3. Busy("audio") => "codec" \in disturbed
      BY <1>4, <2>1 DEF Calm, Listening
    <2> QED BY <1>1, <2>1, <2>2, <2>3, CalmOff DEF Taking, Starting
  <1>5. CASE pc["video"] \in {"idle", "check", "dequeue"}
    <2>1. Taking /\ codec["video"] = "running"
            /\ (mMuxer = "open" \/ (mMuxer = "started" /\ mMuxerStarted))
      BY <1>1, <1>5 DEF Taking, Calm, TakenRight, Busy, tasks
    <2>2. \A s \in Recorded : s \in format <=> s \in tracks
      BY <2>1 DEF Calm, TakenRight
    <2>3. CASE videoEncode \/ videoTryAgain \/ writeVideo
                 \/ (videoCheck /\ ~mEndOfVideoStreamSignal)
      <3>1. /\ pc'["video"] \in {"check", "dequeue"}
            /\ UNCHANGED <<mIsAudioEnabled, mAudioRecorder, tracks, codec,
                 format, inputEnded, mMuxer, mMuxerStarted>>
            /\ ~mEndOfVideoStreamSignal => ~mEndOfVideoStreamSignal'
        <4> USE DEF Move, Goto, PcTypeOK, Thread, stateVars, signals, flags,
           codecVars, muxVars
        <4>1. CASE videoEncode
          BY <4>1 DEF videoEncode, Take
        <4>2. CASE videoTryAgain
          BY <4>2 DEF videoTryAgain
        <4>3. CASE writeVideo
          BY <4>3 DEF writeVideo
        <4>4. CASE videoCheck /\ ~mEndOfVideoStreamSignal
          <5>1. inputEnded' = inputEnded
            BY <4>4 DEF videoCheck, MediaTypeOK
          <5> QED BY <4>4, <5>1 DEF videoCheck
        <4> QED BY <2>3, <4>1, <4>2, <4>3, <4>4
      <3>2. TakenRight'
        BY <2>1, <2>2, <3>1 DEF TakenRight, Recorded
      <3>3. Busy("audio")' /\ "codec" \notin disturbed' => Listening'
        BY <1>1, <1>2, <3>1 DEF Calm, Listening
      <3>4. ~videoFails
        BY <3>1, Moves
      <3> QED BY <1>1, <1>3, <3>2, <3>3, <3>4, CalmStep
    <2>4. CASE videoCheck /\ mEndOfVideoStreamSignal
      <3>1. /\ pc'["video"] = "dequeue" /\ ~videoFails
            /\ UNCHANGED <<mIsAudioEnabled, tracks, codec, format, mMuxer,
                 mMuxerStarted>>
        BY <2>4, Moves DEF videoCheck, Move, Goto, PcTypeOK, Thread, flags,
           muxVars
      <3>2. TakenRight'
        BY <2>1, <2>2, <3>1 DEF TakenRight, Recorded
      <3>3. Busy("audio")' => "codec" \in disturbed'
        BY <1>2, <2>4 DEF Calm, Listening
      <3> QED BY <1>1, <1>3, <3>1, <3>2, <3>3, CalmStep
    <2>5. CASE videoFormat
      <3>1. /\ pc["video"] = "dequeue" /\ pc'["video"] = "check"
                 /\ "video" \notin format /\ ~videoFails
            /\ format' = format \cup {"video"}
                 /\ tracks' = tracks \cup {"video"} /\ mMuxer = "open"
            /\ mMuxer' = IF Completes("video") THEN "started" ELSE "open"
            /\ mMuxerStarted' = (mMuxerStarted \/ Completes("video"))
            /\ UNCHANGED <<mIsAudioEnabled, mAudioRecorder, codec, inputEnded,
                 mEndOfVideoStreamSignal>>
        BY <2>5, Moves DEF videoFormat, addTrack, Move, Goto, PcTypeOK, Thread,
           flags, signals
      <3>2. mMuxer' = "open" \/ (mMuxer' = "started" /\ mMuxerStarted')
        BY <3>1
      <3>3. TakenRight'
        BY <2>1, <2>2, <3>1, <3>2 DEF TakenRight, Recorded
      <3>4. Busy("audio")' /\ "codec" \notin disturbed' => Listening'
        BY <1>1, <1>2, <3>1 DEF Calm, Listening
      <3> QED BY <1>1, <1>3, <3>1, <3>3, <3>4, CalmStep
    <2>6. CASE videoEos /\ ~videoFails
      <3>1. pc'["video"] = "stop" /\ inputEnded /\ tasks' = << >> /\ ~videoFails
        BY <2>6, TasksStay DEF videoEos, Move, Goto, PcTypeOK, Thread, Phases,
           tasks, videoEncode, postEncoding, Take
      <3>2. Busy("audio") => "codec" \in disturbed
        BY <3>1 DEF Calm, Listening
      <3> QED BY <1>1, <3>1, <3>2, CalmOff DEF Taking, Starting
    <2>7. CASE videoFails
      <3>1. codec["video"] # "null" /\ mMuxer # "null"
        BY <2>1
      <3>2. pc'["video"] = "stop" /\ pc["video"] \in {"check", "dequeue"}
              /\ pc' = [pc EXCEPT !["video"] = "stop"]
        BY <2>7, <3>1 DEF videoFails, Goto, PcTypeOK, Thread
      <3>3. tasks' = << >>
        <4>1. pc["video"] # "idle" /\ ~videoEncode
          BY <3>2 DEF videoEncode, Take, Move
        <4>2. tasks = << >>
          BY <4>1 DEF Phases, tasks, Thread
        <4> QED BY <1>1, <4>1, <4>2, TasksStay
      <3>4. "video" \notin format => "video" \notin tracks
        BY <2>2 DEF Recorded, Stream
      <3>5. \/ mEndOfVideoStreamSignal \/ "codec" \in disturbed'
            \/ "video" \notin format /\ mMuxer # "open"
        BY <2>1, <2>7 DEF videoFails, TrackThrows, Disturb
      <3>6. ~("video" \notin format /\ mMuxer # "open")
        BY <2>1, <3>4 DEF Muxing, Recorded, Stream
      <3>7. Busy("audio")' => "codec" \in disturbed'
        BY <1>2, <3>5, <3>6 DEF Calm, Listening
      <3>8. TakenRight'
        BY <1>1, <3>2, <3>3 DEF TakenRight, Taking, Starting
      <3>9. Crashed' => Crashed
        BY <3>2 DEF Crashed, Thread, PcTypeOK
      <3>10. NoCrash'
        BY <3>9, DisturbedGrows DEF Calm, NoCrash
      <3> QED BY <1>3, <3>7, <3>8, <3>10 DEF Calm
    <2> QED BY <1>5, <2>3, <2>4, <2>5, <2>6, <2>7 DEF VideoStep,
       stopVideoEncoder, stopMuxer, stopMuxerFails,
       removeRecordingResultIfNoVideoKeyFrameArrived, videoSignal,
       onVideoSaved, executeFuture, Move
  <1> QED BY <1>4, <1>5

\* audioEncode ends before the video thread drops what it uses.
LEMMA CalmAudio ==
    ASSUME TypeOK, FutureInv, Phases, Muxing, Calm, AudioStep, Next, ~Early'
    PROVE  Calm'
  <1> USE DEF TypeOK
  <1>1. /\ Busy("audio") /\ pc["ui"] \notin Starting /\ ~videoFails
             /\ ~postEncoding
        /\ pc'["ui"] = pc["ui"] /\ pc'["video"] = pc["video"] /\ tasks' = tasks
    BY Busied, AudioKeeps, Moves DEF Phases
  <1>2. (Busy("audio")' => Busy("audio"))
          /\ ("codec" \notin disturbed' => "codec" \notin disturbed)
    BY <1>1, AudioRests, DisturbedGrows
  <1>3. PreparedRight' /\ (Taking' => Taking)
    BY <1>1 DEF PreparedRight, Taking, Starting
  <1>4. UNCHANGED <<mIsAudioEnabled, inputEnded>>
          /\ codec'["video"] = codec["video"]
    BY AudioKeeps
  <1>5. TakenRight'
    <2>1. CASE audioFormat
      <3>1. /\ format' = format \cup {"audio"}
                 /\ tracks' = tracks \cup {"audio"} /\ mMuxer = "open"
            /\ mMuxer' = IF Completes("audio") THEN "started" ELSE "open"
            /\ mMuxerStarted' = (mMuxerStarted \/ Completes("audio"))
        BY <2>1 DEF audioFormat, addTrack
      <3>2. mMuxer' = "open" \/ (mMuxer' = "started" /\ mMuxerStarted')
        BY <3>1
      <3> QED BY <1>1, <1>3, <1>4, <3>1, <3>2 DEF Calm, TakenRight, Recorded,
         Starting
    <2>2. CASE ~audioFormat
      <3>1. UNCHANGED <<format, muxVars>>
        BY <2>2, FormatKept
      <3> QED BY <1>1, <1>3, <1>4, <3>1 DEF Calm, TakenRight, Recorded,
         Starting, muxVars
    <2> QED BY <2>1, <2>2
  <1>6. ASSUME "codec" \notin disturbed', Busy("audio")' PROVE Listening'
    <2>1. Listening
      BY <1>1, <1>2, <1>6 DEF Calm
    <2>2. mAudioRecorder' # "null"
      BY <2>1, RecorderKept, RecorderStops DEF Listening
    <2>3. ~audioSignal
      BY <1>6, AudioEnds DEF Phases
    <2>4. mEndOfVideoStreamSignal' = mEndOfVideoStreamSignal
      BY <2>3, EndKept
    <2>5. pc'["audio"] # "signal" => codec'["audio"] = "running"
      <3>1. CASE stopAudioEncoder
        BY <3>1 DEF stopAudioEncoder, Move, Goto, PcTypeOK, Thread
      <3>2. CASE ~stopAudioEncoder
        <4>1. pc["audio"] # "signal" \/ audioSignal
          BY <3>2, CodecKept
        <4> QED BY <2>1, <2>3, <3>2, <4>1, CodecKept DEF Listening
      <3> QED BY <3>1, <3>2
    <2> QED BY <1>1, <1>4, <2>1, <2>2, <2>4, <2>5 DEF Listening
  <1>7. CASE audioCrashes
    <2>1. disturbed' = disturbed
      BY <1>7 DEF audioCrashes, stateVars, resultVars
    <2>2. "codec" \in disturbed
      <3> SUFFICES ASSUME "codec" \notin disturbed PROVE FALSE
        OBVIOUS
      <3>1. Listening /\ Taking
        BY <1>1 DEF Calm, Listening, Taking
      <3>2. pc["audio"] # "signal" /\ "audio" \in Recorded
        BY <1>7, <3>1 DEF audioCrashes, Move, Listening, Recorded, Stream
      <3>3. pc["audio"] = "output" /\ "audio" \notin format /\ mMuxer # "open"
        BY <1>7, <3>1, <3>2 DEF audioCrashes, Move, Listening, TrackThrows
      <3>4. "audio" \notin tracks /\ mMuxer = "started" /\ mMuxerStarted
        BY <3>1, <3>2, <3>3 DEF Calm, TakenRight
      <3> QED BY <3>2, <3>4 DEF Muxing
    <2>3. NoCrash'
      BY <2>1, <2>2 DEF NoCrash
    <2> QED BY <1>3, <1>5, <1>6, <2>3 DEF Calm
  <1>8. CASE ~audioCrashes
    BY <1>1, <1>3, <1>5, <1>6, <1>8, CalmStep
  <1> QED BY <1>7, <1>8

\* The codecs run while a recording is taken, and no thread meets a null field.
LEMMA StepCalm ==
    ASSUME TypeOK, FutureInv, ReleasedInv, QuitInv, PhaseInv, MuxInv,
           TracksInv, CalmInv, Next
    PROVE  CalmInv'
  <1> SUFFICES ASSUME ~Early' PROVE Calm'
    BY DEF CalmInv
  <1>1. /\ ~Early /\ Phases /\ Muxing /\ Calm
        /\ pc["ui"] \in Starting \ {"check", "audio"} => tracks = {}
    BY DisturbedGrows DEF PhaseInv, MuxInv, TracksInv, CalmInv, Early
  <1> QED BY <1>1, CalmPrepared, CalmUi, CalmExec, CalmVideo, CalmAudio DEF Next

\* The invariants that take the phases apart.
QuietInv ==
    ReleasedInv /\ QuitInv /\ PhaseInv /\ SetupInv /\ MuxInv /\ TracksInv
      /\ CalmInv

\* The recording is reported after the signals were reset.
LEMMA VideoReports ==
    ASSUME PcTypeOK, TaskTypeOK, VideoStep
    PROVE  pc'["video"] \in {"report", "execute"} => videoSignal \/ onVideoSaved
  <1> USE DEF PcTypeOK, TaskTypeOK, Thread, signals, flags, muxVars,
     codecVars, taskVars, runVars, lifeVars, resultVars, stateVars, Move,
     Goto, Report, Disturb
  <1>1. CASE videoEncode
    BY <1>1 DEF videoEncode, Take
  <1>2. CASE videoCheck
    BY <1>2 DEF videoCheck
  <1>3. CASE videoFails
    BY <1>3 DEF videoFails
  <1>4. CASE videoTryAgain
    BY <1>4 DEF videoTryAgain
  <1>5. CASE videoFormat
    BY <1>5 DEF videoFormat
  <1>6. CASE writeVideo
    BY <1>6 DEF writeVideo
  <1>7. CASE videoEos
    BY <1>7 DEF videoEos
  <1>8. CASE stopVideoEncoder
    BY <1>8 DEF stopVideoEncoder
  <1>9. CASE stopMuxer
    BY <1>9 DEF stopMuxer
  <1>10. CASE stopMuxerFails
    BY <1>10 DEF stopMuxerFails
  <1>11. CASE removeRecordingResultIfNoVideoKeyFrameArrived
    BY <1>11 DEF removeRecordingResultIfNoVideoKeyFrameArrived,
       KeyFrameArrived
  <1>12. CASE videoSignal
    BY <1>12
  <1>13. CASE onVideoSaved
    BY <1>13
  <1>14. CASE executeFuture
    BY <1>14 DEF executeFuture
  <1> QED BY <1>1, <1>2, <1>3, <1>4, <1>5, <1>6, <1>7, <1>8, <1>9, <1>10,
       <1>11, <1>12, <1>13, <1>14 DEF VideoStep

LEMMA Longer ==
    ASSUME NEW S, NEW q \in Seq(S), NEW e \in S
    PROVE  Append(q, e) # << >>
  <1>1. Append(q, e) \in Seq(S) /\ Len(Append(q, e)) = Len(q) + 1
    OBVIOUS
  <1>2. Len(q) \in Nat
    OBVIOUS
  <1>3. Len(<< >>) = 0
    OBVIOUS
  <1> QED BY <1>1, <1>2, <1>3

\* The executor does not touch the signals of the end.
LEMMA ExecSteady ==
    ASSUME PcTypeOK, TaskTypeOK, ExecStep
    PROVE  UNCHANGED <<mEndOfAudioVideoSignal, mMuxerStarted>>
  <1> USE DEF PcTypeOK, TaskTypeOK, Thread, signals, flags, muxVars,
     codecVars, taskVars, runVars, lifeVars, resultVars, stateVars, Move,
     Goto, Report, Disturb
  <1>1. CASE runFuture \/ futureReleases \/ setupVideo
    BY <1>1 DEF runFuture, Take, futureReleases, setupVideo
  <1>2. CASE setupSurface \/ setupAudio \/ setupAudioFails
    BY <1>2 DEF setupSurface, setupAudio, setupAudioFails
  <1>3. CASE setupDone
    BY <1>3 DEF setupDone, TracksForgotten
  <1> QED BY <1>1, <1>2, <1>3 DEF ExecStep

\* What the other invariants say when only files failed.
LEMMA SaneStep ==
    ASSUME TypeOK, QuietInv, AudioInv, OnlyIo', Next
    PROVE  /\ OnlyIo /\ Phases /\ Calm /\ SetupInv /\ ReleasedInv
           /\ ~Early /\ ~Early' /\ released' = released
           /\ codec["video"] # "null" /\ "video" \notin quit
           /\ audioWanted => codec["audio"] # "null" /\ mAudioRecorder # "null"
           /\ mIsAudioEnabled => audioWanted
           /\ pc["ui"] \notin {"release", "releaseStop"}
                /\ pc["exec"] # "release"
           /\ "codec" \notin disturbed' /\ "mic" \notin disturbed'
                /\ "early" \notin disturbed'
  <1>1. ~release
    BY DEF release, OnlyIo
  <1>2. released' = released /\ disturbed \subseteq disturbed'
    BY <1>1, ReleasedStays, DisturbedGrows
  <1>3. OnlyIo /\ ~Early /\ ~Early'
    BY <1>2 DEF OnlyIo, Early
  <1>4. Phases /\ Calm /\ SetupInv /\ ReleasedInv
    BY <1>3 DEF QuietInv, PhaseInv, CalmInv
  <1>5. codec["video"] # "null" /\ "video" \notin quit
    BY <1>3 DEF QuietInv, QuitInv, OnlyIo
  <1>6. /\ audioWanted => codec["audio"] # "null" /\ mAudioRecorder # "null"
        /\ mIsAudioEnabled => audioWanted
    BY <1>3 DEF AudioInv, OnlyIo, TypeOK, MediaTypeOK
  <1>7. pc["ui"] \notin {"release", "releaseStop"} /\ pc["exec"] # "release"
    BY <1>3, <1>4 DEF ReleasedInv, OnlyIo
  <1> QED BY <1>2, <1>3, <1>4, <1>5, <1>6, <1>7 DEF OnlyIo

\* startRecording finds the encoders ready, and gives them to a task.
LEMMA ReadyStarting ==
    ASSUME TypeOK, FutureInv, QuietInv, AudioInv, Ready, OnlyIo',
           pc["ui"] \in Starting, Next
    PROVE  Ready'
  <1> USE DEF PcTypeOK, Thread, signals, flags, muxVars, codecVars, taskVars,
     runVars, lifeVars, resultVars, stateVars, Move, Goto, Report, Disturb
  <1>1. /\ ~Busy("exec") /\ ~Busy("video") /\ UiStep /\ PcTypeOK
             /\ MediaTypeOK /\ TaskTypeOK
        /\ pc["exec"] = "idle" /\ pc["video"] = "idle" /\ rec \notin executed
    BY SaneStep, Alone DEF Phases, Busy, TypeOK
  <1>2. /\ initFailed = {}
             /\ (pc["ui"] # "post" => mEndOfAudioVideoSignal /\ ~mMuxerStarted)
        /\ pc["ui"] \notin {"muxer", "begin", "post"} =>
              /\ codec["video"] = "configured" /\ ~mIsRecording
              /\ mIsAudioEnabled = audioWanted
              /\ audioWanted => codec["audio"] = "configured"
        /\ pc["ui"] \in {"check", "audio"} => AudioReady
    BY <1>1 DEF Ready, Resting, AudioReady
  <1>3. CASE startCheck
    <2>1. /\ pc'["ui"] = "audio" /\ pc'["exec"] = "idle"
               /\ pc'["video"] = "idle" /\ queue' = queue
          /\ UNCHANGED <<initFailed, mEndOfAudioVideoSignal, mMuxerStarted,
               codec, mIsRecording,
                         mIsAudioEnabled, audioWanted, mAudioRecorder>>
          /\ pc["ui"] = "check"
      BY <1>1, <1>2, <1>3 DEF startCheck, Refuses
    <2> QED BY <1>1, <1>2, <2>1 DEF Ready, Resting, AudioReady, Busy
  <1>4. CASE startAudio
    <2>1. /\ pc'["ui"] = "future" /\ pc'["exec"] = "idle"
               /\ pc'["video"] = "idle" /\ queue' = queue
          /\ UNCHANGED <<initFailed, mEndOfAudioVideoSignal, mMuxerStarted,
               codec, mIsRecording,
                         mIsAudioEnabled, audioWanted>>
          /\ pc["ui"] = "audio"
      BY <1>1, <1>2, <1>4, SaneStep DEF startAudio
    <2> QED BY <1>1, <1>2, <2>1 DEF Ready, Resting, AudioReady, Busy
  <1>5. CASE newFuture
    <2>1. /\ pc'["ui"] = "encoders" /\ pc'["exec"] = "idle"
               /\ pc'["video"] = "idle" /\ queue' = queue
          /\ UNCHANGED <<initFailed, mEndOfAudioVideoSignal, mMuxerStarted,
               codec, mIsRecording,
                         mIsAudioEnabled, audioWanted>>
          /\ pc["ui"] = "future"
      BY <1>1, <1>5 DEF newFuture
    <2> QED BY <1>1, <1>2, <2>1 DEF Ready, Resting, AudioReady, Busy
  <1>6. CASE startEncoders
    <2>1. /\ pc'["ui"] = "muxer" /\ pc'["exec"] = "idle"
               /\ pc'["video"] = "idle" /\ queue' = queue
          /\ UNCHANGED <<initFailed, mEndOfAudioVideoSignal, mMuxerStarted>>
          /\ pc["ui"] = "encoders"
      BY <1>1, <1>6 DEF startEncoders
    <2> QED BY <1>1, <1>2, <2>1 DEF Ready, Resting, AudioReady, Busy
  <1>7. ~encodersRefuse
    <2> SUFFICES ASSUME encodersRefuse PROVE FALSE
      OBVIOUS
    <2>1. pc["ui"] = "encoders"
            /\ (Startable # Recorded \/ "codec" \in disturbed')
      BY DEF encodersRefuse
    <2>2. Startable = Recorded
      BY <1>2, <2>1, SaneStep DEF Startable, Recorded, Stream
    <2> QED BY <2>1, <2>2, SaneStep
  <1>8. CASE initMediaMuxer
    <2>1. /\ pc'["exec"] = "idle" /\ pc'["video"] = "idle" /\ pc["ui"] = "muxer"
          /\ UNCHANGED <<initFailed, mEndOfAudioVideoSignal, mMuxerStarted>>
      BY <1>1, <1>8 DEF initMediaMuxer
    <2>2. pc'["ui"] # "begin" => Busy("exec")'
      <3>1. /\ mRecordingFuture # 0 /\ mRecordingFuture \notin executed
                 /\ "exec" \notin quit
            /\ mRecordingFuture \in Nat
        BY <1>1, <2>1 DEF FutureInv, TaskTypeOK, Stream, Starting
      <3>2. ASSUME Execute PROVE queue'["exec"] # << >>
        <4>1. queue'["exec"] = Append(queue["exec"], mRecordingFuture)
                /\ queue["exec"] \in Seq(Recording)
          BY <1>1, <3>1, <3>2, ExecuteDoes DEF TaskTypeOK
        <4>2. mRecordingFuture \in Recording
          BY <1>1, <3>1, RecordingAssumption DEF TaskTypeOK, Recording
        <4>3. Append(queue["exec"], mRecordingFuture) # << >>
          <5> HIDE DEF Thread
          <5> QED BY <4>1, <4>2, Longer, Zenon
        <4> QED BY <4>1, <4>3
      <3>3. pc'["ui"] = "begin" \/ Execute
        BY <1>1, <1>8 DEF initMediaMuxer
      <3> QED BY <3>2, <3>3 DEF Busy
    <2>3. ~Busy("video")'
      <3>1. tasks' = tasks
        <4>1. ~videoEncode
          BY <1>1, <2>1 DEF videoEncode, Take
        <4>2. ~postEncoding
          BY <1>1, <2>1 DEF postEncoding
        <4> QED BY <1>1, <4>1, <4>2, TasksStay
      <3> QED BY <1>1, <2>1, <3>1 DEF Busy, tasks
    <2> QED BY <1>1, <1>2, <2>1, <2>2, <2>3 DEF Ready, Resting
  <1>9. CASE beginRecording
    <2>1. /\ pc'["ui"] = "post" /\ pc'["exec"] = "idle"
               /\ pc'["video"] = "idle" /\ queue' = queue
          /\ UNCHANGED initFailed
      BY <1>1, <1>9 DEF beginRecording
    <2> QED BY <1>1, <1>2, <2>1 DEF Ready, Resting, Busy
  <1>10. CASE postEncoding
    <2>1. /\ pc'["exec"] = "idle" /\ pc'["video"] = "idle"
               /\ UNCHANGED initFailed
      BY <1>1, <1>10 DEF postEncoding
    <2>2. queue'["exec"] = queue["exec"] /\ queue'["video"] # << >>
      <3>1. rec # 0 /\ rec \in Recording /\ queue["video"] \in Seq(Recording)
        BY <1>1, RecordingAssumption DEF FutureInv, TaskTypeOK, Recording
      <3>2. queue'["exec"] = queue["exec"]
              /\ queue'["video"] = Append(queue["video"], rec)
        BY <1>1, <1>10, <3>1, PostDoes, SaneStep
      <3> QED BY <3>1, <3>2
    <2> QED BY <1>1, <1>2, <2>1, <2>2 DEF Ready, Resting, Busy
  <1> QED BY <1>1, <1>3, <1>4, <1>5, <1>6, <1>7, <1>8, <1>9, <1>10
      DEF UiStep, stopSignal, releaseLater, releaseNow, Starting

\* stopRecording and the beginning of startRecording change only signals.
LEMMA ReadyUi ==
    ASSUME TypeOK, QuietInv, AudioInv, Ready, OnlyIo',
           pc["ui"] \notin Starting, Calls \/ UiStep, Next
    PROVE  Ready'
  <1> USE DEF PcTypeOK, Thread, signals, flags, muxVars, codecVars, taskVars,
     runVars, lifeVars, resultVars, stateVars, Move, Goto, Report, Disturb
  <1>1. startRecording \/ stopRecording \/ stopSignal
    BY SaneStep DEF Calls, UiStep, Starting, startCheck, startAudio, newFuture,
       startEncoders, encodersRefuse, initMediaMuxer, beginRecording,
       postEncoding, release, releaseLater, releaseNow, OnlyIo
  <1>2. /\ UNCHANGED <<initFailed, mEndOfAudioVideoSignal, mMuxerStarted,
             codec, mIsRecording,
                       mIsAudioEnabled, audioWanted, mAudioRecorder, queue>>
        /\ \A t \in {"video", "audio", "exec"} : pc'[t] = pc[t]
        /\ pc'["ui"] \in {"check", "stop", "idle", "release"}
    BY <1>1 DEF startRecording, stopRecording, stopSignal, TypeOK
  <1>3. pc["ui"] \notin {"muxer", "begin", "post", "future", "encoders"}
    BY DEF Starting
  <1> QED BY <1>2, <1>3 DEF Ready, Resting, AudioReady, Busy

\* A recording ends by handing its future to the executor.
LEMMA ReadyVideo ==
    ASSUME TypeOK, FutureInv, QuietInv, AudioInv, Ready, OnlyIo', VideoStep,
           Next
    PROVE  Ready'
  <1> USE DEF PcTypeOK, Thread, signals, flags, muxVars, codecVars, taskVars,
     runVars, lifeVars, resultVars, stateVars, Move, Goto, Report, Disturb
  <1>1. Busy("video") /\ ~Busy("exec") /\ Phases /\ PcTypeOK /\ TaskTypeOK
          /\ Phases'
    BY Busied, SaneStep, StepPhase DEF Phases, TypeOK, QuietInv, PhaseInv
  <1>2. initFailed' = initFailed
    BY <1>1, InitFailedStays DEF VideoStep, videoEncode, videoCheck,
       videoFails, videoTryAgain, videoFormat, writeVideo, videoEos,
       stopVideoEncoder, stopMuxer, stopMuxerFails,
       removeRecordingResultIfNoVideoKeyFrameArrived, videoSignal,
       onVideoSaved, executeFuture, setupVideo, setupAudioFails, Busy
  <1>3. CASE executeFuture
    <2>1. Busy("exec")'
      BY <1>1, <1>3, ExecBegins
    <2>2. ~Busy("video")'
      BY <1>1, <2>1 DEF Phases
    <2>3. /\ pc["video"] = "execute" /\ pc'["exec"] = pc["exec"]
               /\ pc["exec"] = "idle"
          /\ UNCHANGED <<mEndOfAudioVideoSignal, mMuxerStarted>>
      BY <1>1, <1>3 DEF executeFuture, Busy
    <2> QED BY <1>2, <2>1, <2>3 DEF Ready, Resting
  <1>4. CASE ~executeFuture
    <2>1. Busy("video")'
      BY <1>1, <1>4, VideoStaysBusy
    <2>2. ~Busy("exec")' /\ pc'["exec"] = "idle"
      BY <1>1, <2>1 DEF Phases, Busy
    <2>3. pc'["video"] \in {"report", "execute"}
            => mEndOfAudioVideoSignal' /\ ~mMuxerStarted'
      <3>1. CASE videoSignal
        BY <3>1 DEF videoSignal
      <3>2. CASE onVideoSaved
        <4>1. pc["video"] = "report"
                /\ UNCHANGED <<mEndOfAudioVideoSignal, mMuxerStarted>>
          BY <3>2 DEF onVideoSaved
        <4> QED BY <4>1 DEF Ready
      <3>3. CASE ~videoSignal /\ ~onVideoSaved
        BY <1>1, <1>4, <3>3, VideoReports
      <3> QED BY <3>1, <3>2, <3>3
    <2> QED BY <1>2, <2>1, <2>2, <2>3 DEF Ready, Resting
  <1> QED BY <1>3, <1>4

\* audioEncode works only while the video thread does.
LEMMA ReadyAudio ==
    ASSUME TypeOK, QuietInv, AudioInv, Ready, OnlyIo', AudioStep, FutureInv,
           Next
    PROVE  Ready'
  <1> USE DEF PcTypeOK, Thread, signals, flags, muxVars, codecVars, taskVars,
     runVars, lifeVars, resultVars, stateVars, Move, Goto, Report, Disturb
  <1>1. /\ Busy("audio") /\ Listening /\ Phases /\ PcTypeOK /\ TaskTypeOK
             /\ MediaTypeOK /\ Phases'
    BY Busied, SaneStep, DisturbedGrows, StepPhase DEF Calm, TypeOK, QuietInv,
       PhaseInv
  <1>2. Busy("video") /\ pc["video"] \in {"idle", "check", "dequeue"}
    BY <1>1 DEF Listening, Busy, tasks, Phases
  <1>3. Busy("video")' /\ pc'["video"] = pc["video"]
    BY <1>1, <1>2, AudioKeeps DEF Busy, tasks
  <1>4. ~Busy("exec")' /\ pc'["exec"] = "idle"
    BY <1>1, <1>3 DEF Phases, Busy
  <1>5. initFailed' = initFailed
    BY <1>1, <1>2, InitFailedStays DEF setupVideo, setupAudioFails, Phases, Busy
  <1> QED BY <1>2, <1>3, <1>4, <1>5 DEF Ready, Resting

\* The executor leaves everything ready.
LEMMA ReadyExec ==
    ASSUME TypeOK, QuietInv, AudioInv, Ready, OnlyIo', ExecStep, Next
    PROVE  Ready'
  <1> USE DEF PcTypeOK, Thread, signals, flags, muxVars, codecVars, taskVars,
     runVars, lifeVars, resultVars, stateVars, Move, Goto, Report, Disturb
  <1>1. /\ Busy("exec") /\ Phases /\ PcTypeOK /\ TaskTypeOK /\ MediaTypeOK
        /\ pc["exec"] # "release" /\ audioWanted' = audioWanted
        /\ codec["video"] # "null" /\ (audioWanted => codec["audio"] # "null")
        /\ "codec" \notin disturbed' /\ "mic" \notin disturbed'
        /\ pc["exec"] = "surface" => codec["video"] = "configured"
    BY Busied, SaneStep, WantedStays DEF TypeOK, SetupInv
  <1>2. mEndOfAudioVideoSignal /\ ~mMuxerStarted /\ initFailed = {}
    BY <1>1 DEF Ready
  <1>3. UNCHANGED <<mEndOfAudioVideoSignal, mMuxerStarted>>
    BY <1>1, ExecSteady
  <1> HIDE DEF PcTypeOK
  <1>4. CASE runFuture
    <2>1. pc'["exec"] \in {"release", "video"} /\ initFailed' = initFailed
      BY <1>1, <1>4, TakeDoes DEF runFuture, PcTypeOK
    <2> QED BY <1>2, <1>3, <2>1 DEF Ready, Resting, Busy
  <1>5. CASE setupVideo
    <2>1. pc'["exec"] = "surface" /\ initFailed' = initFailed \ {"video"}
      BY <1>1, <1>5 DEF setupVideo, PcTypeOK
    <2> QED BY <1>2, <1>3, <2>1 DEF Ready, Resting, Busy
  <1>6. CASE setupSurface
    <2>1. pc'["exec"] = "audio" /\ initFailed' = initFailed /\ codec' = codec
            /\ codec["video"] = "configured"
      BY <1>1, <1>6 DEF setupSurface, PcTypeOK
    <2> QED BY <1>2, <1>3, <2>1 DEF Ready, Resting, Busy
  <1>7. CASE setupAudio
    <2>1. pc["exec"] = "audio" /\ pc'["exec"] = "done"
            /\ initFailed' = initFailed
      BY <1>1, <1>7 DEF setupAudio, PcTypeOK
    <2>2. codec'["video"] = codec["video"] /\ AudioReady'
      <3>1. audioWanted' = audioWanted /\ audioWanted \in BOOLEAN
        BY <1>1 DEF TypeOK, FlagsTypeOK
      <3>2. CASE audioWanted
        <4>1. /\ codec' = [codec EXCEPT !["audio"] = "configured"]
              /\ mAudioRecorder' = "ready" /\ mIsAudioEnabled' = TRUE
          BY <1>1, <1>7, <3>2 DEF setupAudio
        <4> QED BY <1>1, <3>1, <3>2, <4>1 DEF AudioReady, MediaTypeOK, Stream
      <3>3. CASE ~audioWanted
        <4>1. codec' = codec /\ mIsAudioEnabled' = FALSE
          BY <1>1, <1>7, <3>3 DEF setupAudio
        <4> QED BY <3>1, <3>3, <4>1 DEF AudioReady
      <3> QED BY <3>2, <3>3
    <2> QED BY <1>2, <1>3, <2>1, <2>2 DEF Ready, Resting, Busy
  <1>8. ~setupAudioFails /\ ~futureReleases
    BY <1>1 DEF setupAudioFails, futureReleases
  <1>9. CASE setupDone
    <2>1. /\ pc["exec"] = "done" /\ pc'["exec"] = "idle"
               /\ initFailed' = initFailed /\ ~mIsRecording'
          /\ UNCHANGED <<codec, mIsAudioEnabled, audioWanted, mAudioRecorder>>
      BY <1>1, <1>9 DEF setupDone, PcTypeOK
    <2> QED BY <1>2, <1>3, <2>1 DEF Ready, Resting, AudioReady
  <1> QED BY <1>4, <1>5, <1>6, <1>7, <1>8, <1>9 DEF ExecStep

\* After every recording the next can start as the first did.
LEMMA StepReady ==
    ASSUME TypeOK, FutureInv, QuietInv, AudioInv, ReadyInv, Next
    PROVE  ReadyInv'
  <1> SUFFICES ASSUME OnlyIo' PROVE Ready'
    BY DEF ReadyInv
  <1>1. Ready
    BY SaneStep DEF ReadyInv
  <1> QED BY <1>1, ReadyStarting, ReadyUi, ReadyVideo, ReadyAudio,
     ReadyExec DEF Next

(* The theorems. *)

\* TypeOK and FutureInv hold in every state.
LEMMA TypeAndFuture == Spec => [](TypeOK /\ FutureInv)
  <1>1. Init => TypeOK /\ FutureInv
    <2> SUFFICES ASSUME Init PROVE TypeOK /\ FutureInv
      OBVIOUS
    <2>1. queue \in [Thread \ {"ui"} -> Seq(Recording)]
      BY DEF Init
    <2>2. PcTypeOK /\ FlagsTypeOK
      BY DEF Init, PcTypeOK, FlagsTypeOK, UiPlaces, VideoPlaces, AudioPlaces,
         ExecPlaces, Thread
    <2>3. MediaTypeOK
      BY DEF Init, MediaTypeOK, Stream
    <2>4. TaskTypeOK
      BY <2>1, RecordingAssumption DEF Init, TaskTypeOK
    <2>5. ResultTypeOK
      BY DEF Init, ResultTypeOK
    <2>6. FutureInv
      BY DEF Init, FutureInv, Starting, tasks, Thread
    <2> QED BY <2>2, <2>3, <2>4, <2>5, <2>6 DEF TypeOK
  <1>2. TypeOK /\ FutureInv /\ [Next]_vars => (TypeOK /\ FutureInv)'
    <2> SUFFICES ASSUME TypeOK, FutureInv, [Next]_vars
                 PROVE  (TypeOK /\ FutureInv)'
      OBVIOUS
    <2>1. CASE Next
      BY <2>1, StepPc, StepFlags, StepMedia, StepTask, StepResult,
         StepFuture DEF TypeOK
    <2>2. CASE UNCHANGED vars
      <3> USE <2>2 DEF vars, stateVars, signals, flags, muxVars, codecVars,
         taskVars, runVars, lifeVars, resultVars
      <3>1. PcTypeOK' /\ FlagsTypeOK'
        BY DEF TypeOK, PcTypeOK, FlagsTypeOK
      <3>2. MediaTypeOK' /\ TaskTypeOK'
        BY DEF TypeOK, MediaTypeOK, TaskTypeOK
      <3>3. ResultTypeOK' /\ FutureInv'
        BY DEF TypeOK, ResultTypeOK, FutureInv, tasks
      <3> QED BY <3>1, <3>2, <3>3 DEF TypeOK
    <2> QED BY <2>1, <2>2
  <1> QED BY <1>1, <1>2, PTL DEF Spec

\* Every field keeps its type, there is no AudioRecord without its encoder,
\* and each thread is at a place of its own (fields of VideoCapture).
THEOREM TypeCorrect == Spec => []TypeOK
  BY TypeAndFuture, PTL

\* What is known of the callbacks.
OutcomeInv == OrderInv /\ PendingInv /\ KeyInv /\ VerdictInv

\* videoEncode: a recording is reported as saved only if its file has a key
\* frame, as too short only if it has none unless startRecording came too
\* early, and never as saved and as failed.
THEOREM VerdictsRight == Spec => []VerdictRight
  <1>1. Init => OutcomeInv
    <2> SUFFICES ASSUME Init PROVE OutcomeInv
      OBVIOUS
    <2>1. /\ tasks = << >> /\ job["video"] = 0 /\ rec = 0 /\ pc["ui"] = "idle"
          /\ pc["video"] = "idle" /\ keyFrames = {}
               /\ ~mIsFirstVideoKeyFrameWrite
          /\ \A r \in Recording : outcome[r] = {}
      BY DEF Init, tasks, Thread
    <2>2. Len(tasks) = 0
      BY <2>1
    <2>3. OrderInv /\ PendingInv
      BY <2>1, <2>2 DEF OrderInv, PendingInv, Pending, Starting, NotBegun,
         Encoding
    <2>4. KeyInv /\ VerdictInv
      BY <2>1 DEF KeyInv, VerdictInv
    <2> QED BY <2>3, <2>4 DEF OutcomeInv
  <1>2. TypeOK /\ FutureInv /\ OutcomeInv /\ [Next]_vars => OutcomeInv'
    <2> SUFFICES ASSUME TypeOK, FutureInv, OutcomeInv, [Next]_vars
                 PROVE  OutcomeInv'
      OBVIOUS
    <2>1. CASE Next
      BY <2>1, StepOrder, StepPending, StepKey, StepVerdict DEF OutcomeInv
    <2>2. CASE UNCHANGED vars
      <3> USE <2>2 DEF vars, stateVars, signals, flags, muxVars, codecVars,
         taskVars, runVars, lifeVars, resultVars
      <3>1. OrderInv' /\ KeyInv'
        BY DEF OutcomeInv, OrderInv, KeyInv, tasks
      <3>2. PendingInv' /\ VerdictInv'
        BY DEF OutcomeInv, PendingInv, Pending, VerdictInv, Clean, Past, Wound,
           tasks
      <3> QED BY <3>1, <3>2 DEF OutcomeInv
    <2> QED BY <2>1, <2>2
  <1>3. OutcomeInv => VerdictRight
    BY DEF OutcomeInv, VerdictInv, VerdictRight, Clean
  <1> QED BY <1>1, <1>2, <1>3, TypeAndFuture, PTL DEF Spec

\* startRecording: unless the microphone failed, every call is answered with
\* onStart or onError before it returns.
THEOREM StartsAnswered == Spec => []StartAnswered
  <1>1. Init => ReleasedInv /\ AnswerInv /\ OrderInv
    BY DEF Init, ReleasedInv, AnswerInv, Starting, NotBegun, OrderInv, tasks,
       Thread
  <1>2. TypeOK /\ FutureInv /\ ReleasedInv /\ AnswerInv /\ OrderInv
          /\ [Next]_vars
        => (ReleasedInv /\ AnswerInv /\ OrderInv)'
    <2> SUFFICES ASSUME TypeOK, FutureInv, ReleasedInv, AnswerInv, OrderInv,
                          [Next]_vars
                 PROVE  (ReleasedInv /\ AnswerInv /\ OrderInv)'
      OBVIOUS
    <2>1. CASE Next
      BY <2>1, StepReleased, StepAnswer, StepOrder
    <2>2. CASE UNCHANGED vars
      BY <2>2 DEF ReleasedInv, AnswerInv, OrderInv, tasks, vars, stateVars,
         signals, flags, muxVars, codecVars, taskVars, runVars, lifeVars,
         resultVars
    <2> QED BY <2>1, <2>2
  <1>3. AnswerInv => StartAnswered
    BY DEF AnswerInv, StartAnswered, EveryStartAnswered, NotBegun, Starting
  <1> QED BY <1>1, <1>2, <1>3, TypeAndFuture, PTL DEF Spec

\* The phases, the muxer and the codecs in every state.
LEMMA Quiet == Spec => []QuietInv
  <1>1. Init => QuietInv
    <2> SUFFICES ASSUME Init PROVE QuietInv
      OBVIOUS
    <2>1. /\ \A t \in Thread : pc[t] = "idle"
          /\ \A t \in Thread \ {"ui"} : queue[t] = << >>
          /\ codec["video"] = "configured" /\ mMuxer = "null" /\ ~mMuxerStarted
          /\ tracks = {} /\ quit = {} /\ ~released /\ ~mRecordingWaitRelease
      BY DEF Init, Thread, Stream
    <2>2. \A t \in Thread \ {"ui"} : ~Busy(t) /\ Len(queue[t]) \in {0, 1}
      BY <2>1 DEF Busy
    <2>3. ReleasedInv /\ QuitInv /\ SetupInv /\ TracksInv
      BY <2>1 DEF ReleasedInv, QuitInv, SetupInv, TracksInv, Thread, Starting
    <2>4. PhaseInv
      BY <2>1, <2>2 DEF PhaseInv, Phases, Thread, Starting
    <2>5. MuxInv
      BY <2>1 DEF MuxInv, Muxing, OpenVideo, Thread
    <2>6. ~Crashed /\ ~Busy("audio") /\ ~Taking
      BY <2>1, <2>2 DEF Crashed, Thread, Taking, tasks
    <2>7. CalmInv
      BY <2>1, <2>6 DEF CalmInv, Calm, TakenRight, PreparedRight, NoCrash,
         Thread
    <2> QED BY <2>3, <2>4, <2>5, <2>7 DEF QuietInv
  <1>2. TypeOK /\ FutureInv /\ QuietInv /\ [Next]_vars => QuietInv'
    <2> SUFFICES ASSUME TypeOK, FutureInv, QuietInv, [Next]_vars PROVE QuietInv'
      OBVIOUS
    <2>1. CASE Next
      BY <2>1, StepReleased, StepQuit, StepPhase, StepSetup, StepMux,
         StepTracks, StepCalm DEF QuietInv
    <2>2. CASE UNCHANGED vars
      <3> USE <2>2 DEF vars, stateVars, signals, flags, muxVars, codecVars,
         taskVars, runVars, lifeVars, resultVars
      <3>1. ReleasedInv' /\ QuitInv' /\ SetupInv'
        BY DEF QuietInv, ReleasedInv, QuitInv, SetupInv, Early
      <3>2. PhaseInv'
        BY DEF QuietInv, PhaseInv, Phases, Busy, Early
      <3>3. MuxInv' /\ TracksInv'
        BY DEF QuietInv, MuxInv, Muxing, TracksInv, NoAudio, Recorded, Busy,
           tasks, Early
      <3>4. CalmInv'
        BY DEF QuietInv, CalmInv, Calm, TakenRight, PreparedRight, Listening,
           Taking, NoCrash, Crashed, Recorded, Busy, tasks, Early
      <3> QED BY <3>1, <3>2, <3>3, <3>4 DEF QuietInv
    <2> QED BY <2>1, <2>2
  <1> QED BY <1>1, <1>2, TypeAndFuture, PTL DEF Spec

\* writeVideoEncodedBuffer and audioEncode: a started muxer has exactly the
\* tracks of its recording, unless startRecording came too early.
THEOREM MuxerGetsItsTracks == Spec => []MuxerComplete
  <1>1. QuietInv => MuxerComplete
    BY DEF QuietInv, MuxInv, Muxing, MuxerComplete, Early
  <1> QED BY <1>1, Quiet, PTL

\* videoEncode and audioEncode: unless a codec failed or startRecording came
\* too early, no exception ends the process.
THEOREM NoThreadCrashes == Spec => []NoCrash
  <1>1. QuietInv => NoCrash
    BY DEF QuietInv, CalmInv, Calm, NoCrash, Early
  <1> QED BY <1>1, Quiet, PTL

\* setupEncoder: when nothing is going on, and nothing but a file failed so
\* far, the encoders, the microphone and the signals are as they were after
\* the constructor.
THEOREM ReadyAfterwards == Spec => []ReadyWhenIdle
  <1>1. Init => AudioInv /\ ReadyInv
    BY DEF Init, AudioInv, ReadyInv, Ready, AudioReady, Thread, Stream
  <1>2. TypeOK /\ FutureInv /\ QuietInv /\ AudioInv /\ ReadyInv /\ [Next]_vars
        => (AudioInv /\ ReadyInv)'
    <2> SUFFICES ASSUME TypeOK, FutureInv, QuietInv, AudioInv, ReadyInv,
                          [Next]_vars
                 PROVE  (AudioInv /\ ReadyInv)'
      OBVIOUS
    <2>1. CASE Next
      BY <2>1, StepAudio, StepReady DEF QuietInv
    <2>2. CASE UNCHANGED vars
      BY <2>2 DEF AudioInv, ReadyInv, OnlyIo, Ready, AudioReady, Resting, Busy,
         vars, stateVars, signals, flags, muxVars, codecVars, taskVars,
         runVars, lifeVars, resultVars
    <2> QED BY <2>1, <2>2
  <1>3. TypeOK /\ QuietInv /\ AudioInv /\ ReadyInv => ReadyWhenIdle
    <2> SUFFICES ASSUME TypeOK, QuietInv, AudioInv, ReadyInv, Idle, ~released,
                          disturbed \subseteq {"io"}
                 PROVE  /\ codec["video"] = "configured" /\ ~mIsRecording
                        /\ mEndOfAudioVideoSignal /\ tracks = {}
                             /\ ~mMuxerStarted
                        /\ mIsAudioEnabled = audioWanted
                        /\ audioWanted
                             => codec["audio"] = "configured"
                               /\ mAudioRecorder = "ready"
      BY DEF ReadyWhenIdle
    <2>1. Ready /\ ~Early /\ ~Busy("video") /\ ~Busy("exec")
            /\ pc["ui"] = "idle"
      BY DEF ReadyInv, OnlyIo, Early, Idle, Busy, Thread
    <2>2. ~NoAudio /\ initFailed = {}
      BY <2>1 DEF AudioInv, NoAudio, Ready
    <2>3. tracks = {}
      BY <2>1, <2>2 DEF QuietInv, TracksInv
    <2> QED BY <2>1, <2>3 DEF Ready, Resting, AudioReady
  <1> QED BY <1>1, <1>2, <1>3, TypeAndFuture, Quiet, PTL DEF Spec

----------------------------------------------------------------------------
(* The promise to the caller. *)

\* A recording goes on; and may be on, so that a stop can still be meant for it.
Going == pc["ui"] = "post" \/ tasks # << >> \/ pc["video"] \in Encoding
Live == \/ pc["ui"] = "post" \/ tasks # << >>
        \/ pc["video"] \in {"check", "dequeue"}

\* One recording is worked on, the last; those before are over.
LastOnly ==
    /\ \A r \in Recording : r < rec => Over(r)
    /\ \A i \in 1 .. Len(tasks) : tasks[i] = rec
    /\ pc["video"] # "idle" => job["video"] = rec

\* The last is over unless it goes on, or waits for its answer.
LastOver ==
    /\ rec > 0 => Over(rec) \/ Going \/ pc["ui"] \in NotBegun
    /\ pc["video"] \in Encoding /\ errorOccurred =>
          Over(rec) /\ pc["video"] \notin {"check", "dequeue"}

\* While a recording goes on nothing on the way of the stop is set but by a
\* stop of this recording.
StopHeard == \/ mEndOfVideoStreamSignal \/ mEndOfAudioStreamSignal
             \/ inputEnded \/ ~mIsRecording
             \/ pc["audio"] \in {"stop", "stopEncoder", "signal"}
             \/ pc["ui"] \in {"stop", "releaseStop"}
StopMeant ==
    /\ Live /\ StopHeard => rec \in stopped
    /\ pc["video"] \in Encoding \ {"check", "dequeue"} => rec \in stopped

PromiseInv == ~Troubled => LastOnly /\ LastOver /\ StopMeant

\* Only a call of stopRecording or release makes a stop heard, or the executor
\* when it sets the encoders up again.
LEMMA HeardComes ==
    ASSUME TypeOK, Next, ~stopRecording, ~release, ~futureReleases, ~setupDone
    PROVE  StopHeard' => StopHeard
  <1> USE DEF StopHeard, TypeOK, PcTypeOK, FlagsTypeOK, Thread, signals, flags,
     muxVars, codecVars, taskVars, runVars, lifeVars, resultVars, stateVars,
     Move, Goto
  <1>1. CASE \/ startRecording \/ startCheck \/ startAudio \/ newFuture
    BY <1>1 DEF startRecording, startCheck, startAudio, newFuture
  <1>2. CASE startEncoders \/ encodersRefuse
    BY <1>2 DEF startEncoders, encodersRefuse, Started
  <1>3. CASE initMediaMuxer \/ beginRecording \/ postEncoding
    BY <1>3 DEF initMediaMuxer, beginRecording, SignalsCleared, postEncoding
  <1>4. CASE stopSignal \/ releaseLater \/ releaseNow
    BY <1>4 DEF stopSignal, StopSignal, releaseLater, releaseNow
  <1>5. CASE videoEncode \/ videoCheck \/ videoFails \/ videoTryAgain
    BY <1>5 DEF videoEncode, Take, videoCheck, videoFails, videoTryAgain
  <1>6. CASE videoFormat \/ writeVideo \/ videoEos \/ stopVideoEncoder
    BY <1>6 DEF videoFormat, writeVideo, videoEos, stopVideoEncoder
  <1>7. CASE \/ stopMuxer \/ stopMuxerFails
             \/ removeRecordingResultIfNoVideoKeyFrameArrived
    BY <1>7 DEF stopMuxer, stopMuxerFails,
       removeRecordingResultIfNoVideoKeyFrameArrived
  <1>8. CASE videoSignal \/ onVideoSaved \/ executeFuture
    BY <1>8 DEF videoSignal, onVideoSaved, executeFuture
  <1>9. CASE audioEncode \/ audioLoop \/ audioCheck \/ audioInput
    BY <1>9 DEF audioEncode, Take, audioLoop, audioCheck, audioInput
  <1>10. CASE audioOutput \/ audioFormat \/ audioCrashes
    BY <1>10 DEF audioOutput, audioFormat, audioCrashes
  <1>11. CASE stopAudioRecorder \/ stopAudioEncoder \/ audioSignal
    BY <1>11 DEF stopAudioRecorder, stopAudioEncoder, audioSignal
  <1>12. CASE runFuture \/ setupVideo \/ setupSurface
    BY <1>12 DEF runFuture, Take, setupVideo, setupSurface
  <1>13. CASE setupAudio \/ setupAudioFails
    BY <1>13 DEF setupAudio, setupAudioFails
  <1> QED BY <1>1, <1>2, <1>3, <1>4, <1>5, <1>6, <1>7, <1>8, <1>9, <1>10,
             <1>11, <1>12, <1>13, NextIs

\* Only stopRecording and release take note of a stop.
LEMMA StoppedStays ==
    ASSUME Next, ~stopRecording, ~release
    PROVE  stopped' = stopped
  <1> USE DEF signals, flags, muxVars, codecVars, taskVars, runVars, lifeVars,
     resultVars, stateVars
  <1>1. CASE \/ startRecording \/ startCheck \/ startAudio \/ newFuture
             \/ startEncoders \/ encodersRefuse
    BY <1>1 DEF startRecording, startCheck, startAudio, newFuture,
       startEncoders, encodersRefuse
  <1>2. CASE \/ initMediaMuxer \/ beginRecording \/ postEncoding
             \/ stopSignal \/ releaseLater \/ releaseNow
    BY <1>2 DEF initMediaMuxer, beginRecording, postEncoding, stopSignal,
       releaseLater, releaseNow
  <1>3. CASE \/ videoEncode \/ videoCheck \/ videoFails \/ videoTryAgain
             \/ videoFormat \/ writeVideo \/ videoEos
    BY <1>3 DEF videoEncode, videoCheck, videoFails, videoTryAgain,
       videoFormat, writeVideo, videoEos
  <1>4. CASE \/ stopVideoEncoder \/ stopMuxer \/ stopMuxerFails
             \/ removeRecordingResultIfNoVideoKeyFrameArrived
             \/ videoSignal \/ onVideoSaved \/ executeFuture
    BY <1>4 DEF stopVideoEncoder, stopMuxer, stopMuxerFails,
       removeRecordingResultIfNoVideoKeyFrameArrived, videoSignal,
       onVideoSaved, executeFuture
  <1>5. CASE \/ audioEncode \/ audioLoop \/ audioCheck \/ audioInput
             \/ audioOutput \/ audioFormat \/ audioCrashes
    BY <1>5 DEF audioEncode, audioLoop, audioCheck, audioInput, audioOutput,
       audioFormat, audioCrashes
  <1>6. CASE \/ stopAudioRecorder \/ stopAudioEncoder \/ audioSignal
             \/ runFuture \/ futureReleases \/ setupVideo \/ setupSurface
    BY <1>6 DEF stopAudioRecorder, stopAudioEncoder, audioSignal, runFuture,
       futureReleases, setupVideo, setupSurface
  <1>7. CASE setupAudio \/ setupAudioFails \/ setupDone
    BY <1>7 DEF setupAudio, setupAudioFails, setupDone
  <1> QED BY <1>1, <1>2, <1>3, <1>4, <1>5, <1>6, <1>7, NextIs

\* What can set errorOccurred.
LEMMA ErrorComes ==
    ASSUME Next, ~videoEncode, ~videoFails, ~stopVideoEncoder, ~stopMuxerFails,
           ~removeRecordingResultIfNoVideoKeyFrameArrived
    PROVE  errorOccurred' = errorOccurred
  <1> USE DEF signals, flags, muxVars, codecVars, taskVars, runVars, lifeVars,
     resultVars, stateVars
  <1>1. CASE \/ startRecording \/ startCheck \/ startAudio \/ newFuture
             \/ startEncoders \/ encodersRefuse
    BY <1>1 DEF startRecording, startCheck, startAudio, newFuture,
       startEncoders, encodersRefuse
  <1>2. CASE \/ initMediaMuxer \/ beginRecording \/ postEncoding
             \/ stopSignal \/ releaseLater \/ releaseNow
    BY <1>2 DEF initMediaMuxer, beginRecording, postEncoding, stopSignal,
       releaseLater, releaseNow
  <1>3. CASE \/ stopRecording \/ release \/ videoCheck \/ videoTryAgain
             \/ videoFormat \/ writeVideo \/ videoEos
    BY <1>3 DEF stopRecording, release, videoCheck, videoTryAgain,
       videoFormat, writeVideo, videoEos
  <1>4. CASE stopMuxer \/ videoSignal \/ onVideoSaved \/ executeFuture
    BY <1>4 DEF stopMuxer, videoSignal, onVideoSaved, executeFuture
  <1>5. CASE \/ audioEncode \/ audioLoop \/ audioCheck \/ audioInput
             \/ audioOutput \/ audioFormat \/ audioCrashes
    BY <1>5 DEF audioEncode, audioLoop, audioCheck, audioInput, audioOutput,
       audioFormat, audioCrashes
  <1>6. CASE \/ stopAudioRecorder \/ stopAudioEncoder \/ audioSignal
             \/ runFuture \/ futureReleases \/ setupVideo \/ setupSurface
    BY <1>6 DEF stopAudioRecorder, stopAudioEncoder, audioSignal, runFuture,
       futureReleases, setupVideo, setupSurface
  <1>7. CASE setupAudio \/ setupAudioFails \/ setupDone
    BY <1>7 DEF setupAudio, setupAudioFails, setupDone
  <1> QED BY <1>1, <1>2, <1>3, <1>4, <1>5, <1>6, <1>7, NextIs

\* What a callback said stays said.
LEMMA OverStays ==
    ASSUME TypeOK, FutureInv, Next, NEW r \in Recording, Over(r)
    PROVE  Over(r)'
  BY OutcomeChanges DEF Over, UiTells, VideoTells, TroubleTells

\* As long as nothing but a file failed startRecording is not called before all
\* of the recording before is over.
LEMMA StartsIdle ==
    ASSUME TypeOK, startRecording, ~Troubled'
    PROVE  /\ pc["ui"] = "idle" /\ ~Going /\ tasks = << >>
                /\ pc["video"] = "idle"
           /\ rec' = rec + 1 /\ UNCHANGED <<queue, outcome, stopped>>
           /\ pc'["ui"] = "check" /\ pc'["video"] = "idle"
  <1>1. Idle
    BY DEF startRecording, Disturb, Troubled
  <1> QED
    BY <1>1 DEF startRecording, Idle, Going, tasks, Encoding, Move, Goto,
       Thread, TypeOK, PcTypeOK, taskVars, resultVars, lifeVars

\* The recordings before the last are over.
LEMMA StepLastOnly ==
    ASSUME TypeOK, FutureInv, OrderInv, LastOnly, LastOver, ~Troubled', Next
    PROVE  LastOnly'
  <1> USE DEF TypeOK
  <1>1. rec \in Nat /\ rec' \in Nat
    BY StepTask, RecordingAssumption DEF TaskTypeOK
  <1>2. CASE startRecording
    <2>1. ASSUME NEW r \in Recording, r < rec' PROVE Over(r)'
      <3>1. r = rec \/ r < rec
        BY <1>1, <1>2, <2>1, StartsIdle DEF Recording
      <3>2. r = rec => Over(r)
        BY <1>2, StartsIdle DEF LastOver, NotBegun, Starting, Recording
      <3> QED BY <3>1, <3>2, OverStays DEF LastOnly
    <2>2. Len(tasks') = 0 /\ pc'["video"] = "idle"
      BY <1>2, StartsIdle DEF tasks
    <2> QED BY <2>1, <2>2 DEF LastOnly
  <1>3. CASE ~startRecording
    <2>1. rec' = rec
      BY <1>3, UiWorks
    <2>2. \A r \in Recording : r < rec' => Over(r)'
      BY <2>1, OverStays DEF LastOnly
    <2>3. \A i \in 1 .. Len(tasks') : tasks'[i] = rec'
      BY <2>1, TasksChange DEF LastOnly
    <2>4. pc'["video"] # "idle" => job'["video"] = rec'
      <3>1. CASE videoEncode
        BY <2>1, <3>1, TakeDoes, EncodingChanges DEF LastOnly, videoEncode,
           Encoding, Thread, PcTypeOK
      <3> QED BY <2>1, <3>1, VideoWorks DEF LastOnly
    <2> QED BY <2>2, <2>3, <2>4 DEF LastOnly
  <1> QED BY <1>2, <1>3

\* An error on the video thread is told.
LEMMA ErrorsTold ==
    ASSUME TypeOK, FutureInv, LastOnly, LastOver, Next, rec' = rec,
           pc'["video"] \in Encoding, errorOccurred'
    PROVE  Over(rec)' /\ pc'["video"] \notin {"check", "dequeue"}
  <1> USE DEF TypeOK, PcTypeOK, ResultTypeOK, Thread, Move, Goto, resultVars,
     runVars
  <1>1. ~videoEncode
    BY DEF videoEncode
  <1>2. rec \in Recording /\ outcome \in Outcomes
    <2>1. pc["video"] # "idle"
      BY <1>1, VideoWorks DEF Encoding
    <2>2. job["video"] = rec /\ rec # 0
      BY <2>1 DEF LastOnly, FutureInv
    <2> QED BY <2>2, RecordingAssumption DEF TaskTypeOK, Recording, Outcomes
  <1>3. ASSUME NEW what \in {"error", "short"}, Report(job["video"], what),
               pc["video"] # "idle"
        PROVE  Over(rec)'
    <2>1. job["video"] = rec
      BY <1>3 DEF LastOnly
    <2>2. what \in outcome'[rec]
      BY <1>2, <1>3, <2>1 DEF Report, Outcomes
    <2> QED BY <1>3, <2>2 DEF Over
  <1>4. CASE videoFails
    BY <1>3, <1>4 DEF videoFails, LastOver, Encoding
  <1>5. CASE stopVideoEncoder \/ stopMuxerFails
    BY <1>3, <1>5, <1>2, OverStays DEF stopVideoEncoder, stopMuxerFails,
       LastOver, Encoding
  <1>6. CASE removeRecordingResultIfNoVideoKeyFrameArrived
    BY <1>3, <1>6, <1>2, OverStays DEF Encoding, LastOver,
       removeRecordingResultIfNoVideoKeyFrameArrived
  <1>7. CASE ~videoFails /\ ~stopVideoEncoder /\ ~stopMuxerFails
               /\ ~removeRecordingResultIfNoVideoKeyFrameArrived
    <2>1. errorOccurred /\ pc["video"] \in Encoding
      BY <1>1, <1>7, ErrorComes, VideoEncodes
    <2> QED BY <1>2, <2>1, OverStays, VideoLeft DEF LastOver, Encoding
  <1> QED BY <1>4, <1>5, <1>6, <1>7

\* Nothing but a file failed before either.
LEMMA Untroubled ==
    ASSUME Next, ~Troubled', PendingInv, QuietInv
    PROVE  /\ ~Troubled /\ ~Early /\ ~Early' /\ Clean /\ Clean'
           /\ Pending /\ Phases /\ Muxing /\ Calm
           /\ \A d \in {"mic", "codec", "early"} :
                 d \notin disturbed /\ d \notin disturbed'
  BY DisturbedGrows DEF Troubled, Early, Clean, PendingInv, QuietInv, PhaseInv,
     MuxInv, CalmInv

\* A call of startRecording that returns was answered.
LEMMA StartsTold ==
    ASSUME TypeOK, FutureInv, OrderInv, PendingInv, QuietInv, AnswerInv',
           ~Troubled', Next, rec' = rec, pc["ui"] \in NotBegun
    PROVE  Over(rec)' \/ pc'["ui"] \in Starting
  <1> USE Untroubled
  <1>1. rec \in Recording /\ outcome[rec] = {} /\ pc["ui"] \in Starting
    BY RecordingAssumption DEF Pending, FutureInv, NotBegun, TypeOK, TaskTypeOK,
       Recording
  <1>2. job["video"] # rec
    BY <1>1 DEF OrderInv, TypeOK, TaskTypeOK, Thread
  <1>3. ASSUME pc'["ui"] \notin Starting PROVE Over(rec)'
    <2>1. outcome'[rec] # {}
      BY <1>1, <1>3 DEF AnswerInv, NotBegun, Recording
    <2>2. UiTells(rec)
      BY <1>1, <1>2, <2>1, OutcomeChanges DEF VideoTells, TroubleTells
    <2> QED BY <1>3, <2>2 DEF UiTells, Over, Starting
  <1> QED BY <1>3

\* videoEncode ends with a verdict.
LEMMA EndsTold ==
    ASSUME TypeOK, FutureInv, PendingInv, QuietInv, CalmInv', LastOnly,
           LastOver, ~Troubled', Next, rec' = rec, pc["video"] \in Encoding
    PROVE  Over(rec)' \/ pc'["video"] \in Encoding
  <1> USE Untroubled DEF TypeOK, PcTypeOK, Thread, Move, Goto
  <1>1. pc'["video"] # "crashed"
    BY DEF CalmInv, Calm, NoCrash, Crashed
  <1>2. rec \in Recording /\ outcome \in Outcomes /\ job["video"] = rec
    BY RecordingAssumption DEF LastOnly, FutureInv, TaskTypeOK, Recording,
       ResultTypeOK, Outcomes, Encoding
  <1>3. CASE onVideoSaved
    <2>1. CASE errorOccurred
      BY <1>2, <2>1, OverStays DEF LastOver
    <2>2. CASE ~errorOccurred
      <3>1. "saved" \in outcome'[rec]
        BY <1>2, <1>3, <2>2 DEF onVideoSaved, Report, Outcomes
      <3> QED BY <3>1 DEF Over
    <2> QED BY <2>1, <2>2
  <1>4. CASE ~onVideoSaved /\ VideoStep
    BY <1>1, <1>4 DEF VideoStep, videoEncode, Take, videoCheck, videoFails,
       videoTryAgain, videoFormat, writeVideo, videoEos, stopVideoEncoder,
       stopMuxer, stopMuxerFails, videoSignal, executeFuture, Encoding,
       removeRecordingResultIfNoVideoKeyFrameArrived
  <1>5. CASE ~VideoStep
    <2>1. pc'["video"] = pc["video"]
      BY <1>5, VideoStays, NextIs DEF VideoStep
    <2> QED BY <2>1
  <1> QED BY <1>3, <1>4, <1>5

\* A task that waits is taken; postEncoding hands one over.
LEMMA TaskTaken ==
    ASSUME TypeOK, FutureInv, QuietInv, Next,
           pc["ui"] = "post" \/ tasks # << >>
    PROVE  Going'
  <1> USE DEF TypeOK, PcTypeOK, Thread, Move, Goto, Going
  <1>1. tasks \in Seq(Recording)
    BY DEF TaskTypeOK, tasks
  <1>2. CASE postEncoding
    <2>1. pc["ui"] = "post" /\ rec \in Recording
      BY <1>2, RecordingAssumption DEF postEncoding, FutureInv, Starting,
         TaskTypeOK, Recording
    <2>2. "video" \notin quit
      BY <2>1 DEF QuietInv, ReleasedInv, QuitInv, Starting
    <2>3. tasks' = Append(tasks, rec)
      BY <1>2, <2>1, <2>2, PostDoes DEF tasks, Recording
    <2> QED BY <1>1, <2>1, <2>3, Longer
  <1>3. CASE videoEncode
    BY <1>3 DEF videoEncode, Take, Encoding
  <1>4. CASE ~postEncoding /\ ~videoEncode
    <2>1. tasks' = tasks
      BY <1>4, TasksStay
    <2>2. pc["ui"] = "post" => ~Calls /\ ~UiStep
      BY <1>4 DEF Calls, startRecording, stopRecording, release, UiStep,
         startCheck, startAudio, newFuture, startEncoders, encodersRefuse,
         initMediaMuxer, beginRecording, stopSignal, releaseLater, releaseNow
    <2>3. pc["ui"] = "post" => pc'["ui"] = "post"
      BY <2>2, UiStays
    <2> QED BY <2>1, <2>3
  <1> QED BY <1>2, <1>3, <1>4

\* The last recording is over, goes on, or its caller waits.
LEMMA StepLastOver ==
    ASSUME TypeOK, FutureInv, OrderInv, PendingInv, QuietInv, AnswerInv',
           CalmInv', LastOnly, LastOver, ~Troubled', Next
    PROVE  LastOver'
  <1> USE DEF TypeOK
  <1>1. CASE startRecording
    <2>1. pc'["ui"] \in NotBegun /\ pc'["video"] \notin Encoding
      BY <1>1, StartsIdle DEF NotBegun, Starting, Encoding
    <2> QED BY <2>1 DEF LastOver
  <1>2. CASE ~startRecording
    <2>1. rec' = rec /\ rec \in Nat
      BY <1>2, UiWorks, RecordingAssumption DEF TaskTypeOK
    <2>2. rec > 0 => Over(rec)' \/ Going' \/ pc'["ui"] \in NotBegun
      <3>1. CASE Over(rec) /\ rec > 0
        <4>1. rec \in Recording
          BY <3>1, <2>1, RecordingAssumption DEF TaskTypeOK, Recording
        <4> QED BY <2>1, <3>1, <4>1, OverStays
      <3>2. CASE pc["ui"] = "post" \/ tasks # << >>
        BY <3>2, TaskTaken
      <3>3. CASE pc["video"] \in Encoding
        BY <2>1, <3>3, EndsTold DEF Going
      <3>4. CASE pc["ui"] \in NotBegun
        BY <2>1, <3>4, StartsTold DEF Going, NotBegun
      <3> QED BY <3>1, <3>2, <3>3, <3>4 DEF LastOver, Going
    <2>3. pc'["video"] \in Encoding /\ errorOccurred' =>
             Over(rec)' /\ pc'["video"] \notin {"check", "dequeue"}
      BY <2>1, ErrorsTold
    <2> QED BY <2>1, <2>2, <2>3 DEF LastOver
  <1> QED BY <1>1, <1>2

\* A stop comes while a started recording goes on.
LEMMA LiveStarted ==
    ASSUME TypeOK, FutureInv, Pending, LastOnly, LastOver, Live
    PROVE  rec \in Recording /\ "start" \in outcome[rec]
  <1> USE DEF TypeOK
  <1>1. CASE pc["ui"] = "post"
    BY <1>1, RecordingAssumption DEF Pending, FutureInv, Starting, TaskTypeOK,
       Recording
  <1>2. CASE tasks # << >>
    <2>1. tasks \in Seq(Recording) /\ Len(tasks) # 0
      BY <1>2, EmptyQueue DEF TaskTypeOK, tasks, Thread
    <2>2. 1 \in 1 .. Len(tasks) /\ tasks[1] \in Recording
      BY <2>1
    <2> QED BY <2>2 DEF Pending, LastOnly
  <1>3. CASE pc["video"] \in {"check", "dequeue"}
    <2>1. ~errorOccurred /\ pc["video"] \in Encoding
      BY <1>3 DEF LastOver, Encoding
    <2>2. job["video"] = rec /\ rec # 0
      BY <1>3 DEF LastOnly, FutureInv
    <2>3. rec \in Recording
      BY <2>2, RecordingAssumption DEF TaskTypeOK, Recording
    <2> QED BY <2>1, <2>2, <2>3 DEF Pending
  <1> QED BY <1>1, <1>2, <1>3 DEF Live

\* Only beginRecording gives life to a recording, and no stop is meant for it.
LEMMA Lives ==
    ASSUME TypeOK, FutureInv, OrderInv, Phases, Calm, Next, ~Live, Live',
           ~startRecording
    PROVE  ~StopHeard'
  <1> USE DEF TypeOK, PcTypeOK, Thread, Move, Goto, Live
  <1>1. ~videoEncode /\ ~postEncoding
    BY DEF videoEncode, Take, tasks, postEncoding
  <1>2. tasks' = tasks
    BY <1>1, TasksStay
  <1>3. pc'["video"] \notin {"check", "dequeue"}
    BY <1>1, VideoLeft, VideoWorks
  <1>4. beginRecording
    BY <1>2, <1>3, PostFollows
  <1>5. ~inputEnded /\ pc["audio"] = "idle"
    BY <1>4 DEF beginRecording, Phases, Starting, Busy, Calm, PreparedRight
  <1> QED BY <1>4, <1>5 DEF beginRecording, SignalsCleared, StopHeard,
             codecVars

\* videoEncode winds a recording up only after a stop of it.
LEMMA StopFollows ==
    ASSUME TypeOK, FutureInv, PendingInv, QuietInv, StopMeant, ~Troubled',
           Next, pc'["video"] \in Encoding \ {"check", "dequeue"}
    PROVE  rec \in stopped
  <1> USE Untroubled DEF TypeOK, PcTypeOK, Thread, Move, Goto, Encoding
  <1>1. CASE videoFails
    <2>1. pc["video"] \in {"check", "dequeue"}
      BY <1>1 DEF videoFails
    <2>2. /\ codec["video"] = "running"
          /\ mMuxer = "open" \/ (mMuxer = "started" /\ mMuxerStarted)
          /\ "video" \in format <=> "video" \in tracks
      BY <2>1 DEF Calm, TakenRight, Taking, Recorded, Stream
    <2>3. mMuxer # "open" => "video" \in tracks
      BY <2>2 DEF Muxing, Recorded, Stream
    <2>4. mEndOfVideoStreamSignal
      BY <1>1, <2>2, <2>3 DEF videoFails, TrackThrows, Disturb
    <2> QED BY <2>1, <2>4 DEF StopMeant, Live, StopHeard
  <1>2. CASE videoEos
    BY <1>2 DEF videoEos, StopMeant, Live, StopHeard
  <1>3. CASE VideoStep /\ ~videoFails /\ ~videoEos
    <2>1. pc["video"] \in Encoding \ {"check", "dequeue"}
      BY <1>3 DEF VideoStep, videoEncode, Take, videoCheck, videoTryAgain,
         videoFormat, writeVideo, stopVideoEncoder, stopMuxer, stopMuxerFails,
         removeRecordingResultIfNoVideoKeyFrameArrived, videoSignal,
         onVideoSaved, executeFuture
    <2> QED BY <2>1 DEF StopMeant
  <1>4. CASE ~VideoStep
    BY <1>4, VideoStays DEF StopMeant
  <1> QED BY <1>1, <1>2, <1>3, <1>4

\* Whatever stops the recording was meant for it.
LEMMA StepStopMeant ==
    ASSUME TypeOK, FutureInv, OrderInv, PendingInv, QuietInv, LastOnly,
           LastOver, StopMeant, ~Troubled', Next
    PROVE  StopMeant'
  <1> USE Untroubled DEF TypeOK
  <1>1. CASE startRecording
    BY <1>1, StartsIdle DEF StopMeant, Live, Encoding, tasks
  <1>2. CASE stopRecording \/ release
    <2>1. /\ UNCHANGED <<rec, tasks, pc["video"]>> /\ stopped' = Stops
          /\ pc["ui"] = "idle" /\ pc'["ui"] # "post"
      BY <1>2 DEF stopRecording, release, Move, Goto, PcTypeOK, Thread, tasks,
         taskVars, lifeVars
    <2>2. Live' => rec \in stopped'
      BY <2>1, LiveStarted DEF Live, Stops, Recording
    <2> QED BY <2>1, <2>2 DEF StopMeant, Stops
  <1>3. CASE ~startRecording /\ ~stopRecording /\ ~release
    <2>1. rec' = rec /\ stopped' = stopped
      BY <1>3, UiWorks, StoppedStays
    <2>2. ASSUME Live', StopHeard' PROVE rec \in stopped
      <3>1. Live
        BY <1>3, <2>2, Lives
      <3>2. ~futureReleases /\ ~setupDone
        BY <3>1, Busied DEF ExecStep, Phases, Live, Busy, tasks, Starting
      <3> QED BY <1>3, <2>2, <3>1, <3>2, HeardComes DEF StopMeant
    <2> QED BY <2>1, <2>2, StopFollows DEF StopMeant
  <1> QED BY <1>1, <1>2, <1>3

LEMMA StepPromise ==
    ASSUME TypeOK, FutureInv, OutcomeInv, QuietInv, AnswerInv', CalmInv',
           PromiseInv, Next
    PROVE  PromiseInv'
  BY Untroubled, StepLastOnly, StepLastOver, StepStopMeant
     DEF PromiseInv, OutcomeInv

\* A step of VideoCapture is one of Recorder, or leaves it alone.
LEMMA Promised ==
    ASSUME TypeOK, FutureInv, OutcomeInv, QuietInv, PromiseInv, ~Troubled',
           Next
    PROVE  Caller!RecorderNext \/ UNCHANGED Caller!recorderVars
  <1> USE Untroubled DEF TypeOK, OutcomeInv, Caller!recorderVars, Caller!tell,
     Report, Caller!Failures
  <1>1. LastOnly /\ LastOver /\ StopMeant
    BY DEF PromiseInv
  <1>2. CASE startRecording
    <2>1. rec < MaxRecordings /\ rec \in Nat /\ MaxRecordings \in Nat
      BY <1>2, RecordingAssumption DEF startRecording, TaskTypeOK
    <2>2. \A r \in 1 .. rec : Caller!Over(r)
      <3> SUFFICES ASSUME NEW r \in 1 .. rec PROVE Over(r)
        BY DEF Over, Caller!Over
      <3>1. CASE r = rec
        BY <1>1, <1>2, <2>1, <3>1, StartsIdle DEF LastOver, NotBegun, Starting
      <3>2. CASE r < rec
        BY <1>1, <2>1, <3>2 DEF LastOnly, Recording
      <3> QED BY <2>1, <3>1, <3>2
    <2> QED BY <1>2, <2>1, <2>2, StartsIdle DEF Caller!RecorderNext, Caller!Call
  <1>3. CASE stopRecording \/ release
    <2>1. UNCHANGED <<rec, outcome>> /\ stopped' = Stops
      BY <1>3 DEF stopRecording, release, lifeVars, resultVars
    <2> QED BY <2>1 DEF Caller!RecorderNext, Caller!Stop, Stops
  <1>4. CASE ~startRecording /\ ~stopRecording /\ ~release
    <2>1. rec' = rec /\ stopped' = stopped
      BY <1>4, UiWorks, StoppedStays
    <2>2. ASSUME pc["ui"] \in NotBegun,
                 Report(rec, "start") \/ Report(rec, "error")
          PROVE  Caller!RecorderNext
      <3>1. rec > 0 /\ outcome[rec] = {}
        BY <2>2, RecordingAssumption DEF FutureInv, Pending, NotBegun,
           TaskTypeOK
      <3> QED BY <2>1, <2>2, <3>1 DEF Caller!RecorderNext, Caller!Answer
    <2>3. ASSUME pc["video"] \in Encoding, pc'["video"] \in Encoding,
                 pc'["video"] \notin {"check", "dequeue"},
                 \/ Report(job["video"], "error")
                 \/ Report(job["video"], "short")
          PROVE  Caller!RecorderNext
      <3>1. job["video"] = rec /\ rec \in Recording /\ rec \in stopped
        BY <1>1, <2>3, StopFollows, RecordingAssumption DEF LastOnly, Encoding,
           FutureInv, TaskTypeOK, Recording
      <3>2. "saved" \notin outcome[rec]
        BY <2>3, <3>1 DEF VerdictInv, Past, Encoding, Recording
      <3> QED BY <2>1, <2>3, <3>1, <3>2 DEF Caller!RecorderNext, Caller!Finish
    <2>4. ASSUME pc["video"] = "report", ~errorOccurred,
                 Report(job["video"], "saved")
          PROVE  Caller!RecorderNext
      <3>1. job["video"] = rec /\ rec \in stopped /\ outcome[rec] = {"start"}
        BY <1>1, <2>4 DEF LastOnly, StopMeant, Pending, Encoding
      <3> QED BY <2>1, <2>4, <3>1 DEF Caller!RecorderNext, Caller!Finish
    <2>5. CASE startCheck \/ encodersRefuse \/ initMediaMuxer \/ beginRecording
      BY <2>1, <2>2, <2>5 DEF startCheck, encodersRefuse, initMediaMuxer,
         beginRecording, Move, NotBegun, Starting
    <2>6. CASE videoFails \/ stopVideoEncoder \/ stopMuxerFails
      BY <2>1, <2>3, <2>6 DEF videoFails, stopVideoEncoder, stopMuxerFails,
         Move, Goto, Encoding, PcTypeOK, Thread
    <2>7. CASE removeRecordingResultIfNoVideoKeyFrameArrived
      BY <2>1, <2>3, <2>7 DEF removeRecordingResultIfNoVideoKeyFrameArrived,
         Move, Goto, Encoding, PcTypeOK, Thread
    <2>8. CASE onVideoSaved
      BY <2>1, <2>4, <2>8 DEF onVideoSaved, Move
    <2>9. CASE stopAudioRecorder \/ stopAudioEncoder
      BY <2>1, <2>9 DEF stopAudioRecorder, stopAudioEncoder, MayReport, Disturb
    <2> QED BY <2>1, <2>5, <2>6, <2>7, <2>8, <2>9, OutcomeStays
  <1> QED BY <1>2, <1>3, <1>4

\* startRecording, stopRecording and videoEncode keep the promise of Recorder:
\* as long as nothing but a file fails, and startRecording is not called too
\* early, every call is answered, what was started is not over before it was
\* stopped, and nothing is heard of a recording after onVideoSaved.
THEOREM PromiseKept == Spec => KeepsPromise
  <1>1. Init => OutcomeInv /\ AnswerInv /\ PromiseInv /\ Caller!RecorderInit
    <2> SUFFICES ASSUME Init
                 PROVE  /\ OutcomeInv /\ AnswerInv /\ PromiseInv
                        /\ Caller!RecorderInit
      OBVIOUS
    <2>1. /\ tasks = << >> /\ job["video"] = 0 /\ rec = 0 /\ pc["ui"] = "idle"
          /\ pc["video"] = "idle" /\ keyFrames = {}
               /\ ~mIsFirstVideoKeyFrameWrite
          /\ \A r \in Recording : outcome[r] = {}
      BY DEF Init, tasks, Thread
    <2>2. Len(tasks) = 0
      BY <2>1
    <2>3. OutcomeInv
      BY <2>1, <2>2 DEF OutcomeInv, OrderInv, PendingInv, Pending, KeyInv,
         VerdictInv, Starting, NotBegun, Encoding
    <2>4. AnswerInv
      BY DEF Init, AnswerInv, Starting, NotBegun, Thread
    <2>5. PromiseInv
      BY <2>1, <2>2 DEF PromiseInv, LastOnly, LastOver, StopMeant, Live,
         Encoding, Recording
    <2>6. Caller!RecorderInit
      BY DEF Init, Caller!RecorderInit, Recording
    <2> QED BY <2>3, <2>4, <2>5, <2>6
  <1>2. /\ TypeOK /\ FutureInv /\ OutcomeInv /\ QuietInv /\ AnswerInv
        /\ PromiseInv /\ QuietInv' /\ [Next]_vars
        => /\ OutcomeInv' /\ AnswerInv' /\ PromiseInv'
           /\ [Troubled' \/ Caller!RecorderNext]_(Caller!recorderVars)
    <2> SUFFICES ASSUME TypeOK, FutureInv, OutcomeInv, QuietInv, AnswerInv,
                        PromiseInv, QuietInv', [Next]_vars
                 PROVE  /\ OutcomeInv' /\ AnswerInv' /\ PromiseInv'
                        /\ \/ Troubled' \/ Caller!RecorderNext
                           \/ UNCHANGED Caller!recorderVars
      OBVIOUS
    <2>1. CASE Next
      <3>1. OutcomeInv' /\ AnswerInv'
        BY <2>1, StepOrder, StepPending, StepKey, StepVerdict, StepAnswer
           DEF OutcomeInv, QuietInv
      <3>2. PromiseInv'
        BY <2>1, <3>1, StepPromise DEF QuietInv
      <3> QED BY <2>1, <3>1, <3>2, Promised
    <2>2. CASE UNCHANGED vars
      <3> USE <2>2 DEF vars, stateVars, signals, flags, muxVars, codecVars,
         taskVars, runVars, lifeVars, resultVars
      <3>1. OutcomeInv'
        BY DEF OutcomeInv, OrderInv, KeyInv, PendingInv, Pending, VerdictInv,
           Clean, Past, Wound, tasks
      <3>2. AnswerInv' /\ UNCHANGED Caller!recorderVars
        BY DEF AnswerInv, Caller!recorderVars
      <3>3. PromiseInv'
        BY DEF PromiseInv, Troubled, LastOnly, LastOver, StopMeant, StopHeard,
           Live, Going, Over, tasks
      <3> QED BY <3>1, <3>2, <3>3
    <2> QED BY <2>1, <2>2
  <1> QED BY <1>1, <1>2, TypeAndFuture, Quiet, PTL DEF Spec, KeepsPromise

=============================================================================
