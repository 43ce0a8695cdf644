--------------------------- MODULE UvcDeviceProofs ---------------------------
(***************************************************************************)
(* For any callbacks, any number of descriptors and any bounds: the types   *)
(* of UvcDevice; that the event thread uses nothing freed; and that the     *)
(* descriptors are the camera's own.  The invariant says what each place of *)
(* the caller in open, close and destroy knows of the device, the callback  *)
(* object and the descriptor.                                              *)
(***************************************************************************)
EXTENDS UvcDevice, TLAPS

ObjectTypes ==
    /\ mNativePtr \in BOOLEAN /\ mContext \in BOOLEAN /\ mDeviceHandle \in BOOLEAN
    /\ status_cb \in BOOLEAN /\ status_user_ptr \in BOOLEAN
    /\ mStatusCallback \in BOOLEAN /\ kill_handler_thread \in BOOLEAN
    /\ busy \in BOOLEAN /\ raced \in BOOLEAN /\ stolen \in BOOLEAN

DataTypes ==
    /\ status_xfer \in {"none", "flying", "callback", "idle"}
    /\ mStatusCallbackObj \in Callbacks \cup {None}
    /\ status_mutex \in {"free", "event"}
    /\ passed \in Callbacks \cup {None} /\ calling \in Callbacks \cup {None}

NumberTypes ==
    /\ mFd \in 0 .. MaxFd /\ devFd \in 0 .. MaxFd /\ wrapped \in 0 .. MaxFd
    /\ opens \in 0 .. MaxOpens /\ others \in 0 .. MaxOthers

FdTypes == fds \in [1 .. MaxFd -> {"free", "camera", "other"}]

PcTypes == pc \in [caller : CallerPlaces, setter : {"idle", "lock"},
                   event : EventPlaces, destroying : BOOLEAN]

\* A device that is open has its context, and its thread runs only then;
\* which the caller knows of it at each place.
DeviceInv ==
    /\ mDeviceHandle => mContext
    /\ ~mDeviceHandle => pc.event = "none"
    /\ pc.caller \in {"thread", "callback", "pointer", "release", "kill",
                      "close", "join", "free"} => mDeviceHandle
    /\ pc.caller \in {"wrap", "delete", "forget"} => ~mDeviceHandle
    /\ pc.caller \in {"thread", "free"} => pc.event = "none"
    /\ pc.event \in InCallback => status_xfer = "callback"

\* As long as nobody has used a callback object that is gone, the event thread
\* is in a call only of the present one, with its mutex.
CallbackInv ==
    /\ ~mDeviceHandle => ~mStatusCallback
    /\ pc.caller \in {"thread", "callback", "kill", "close", "join", "free"}
       => ~mStatusCallback
    /\ calling # None => pc.event = "notify"
    /\ pc.event \in {"notify", "unlock"} /\ ~raced
       => mStatusCallback /\ status_mutex = "event"
    /\ calling # None /\ ~raced => calling = mStatusCallbackObj

\* The camera's descriptors are the one kept in mFd and the one connect has in
\* hand; the device reads one of them, unless open was called again.
FdInv ==
    /\ \A n \in 1 .. MaxFd :
          fds[n] = "camera"
          => n = mFd \/ (pc.caller \in {"thread", "callback"} /\ n = wrapped)
    /\ mFd # 0 => fds[mFd] = "camera"
    /\ pc.caller \in {"wrap", "thread", "callback", "forget"} => mFd = 0
    /\ pc.caller \in {"thread", "callback"}
       => wrapped # 0 /\ fds[wrapped] = "camera" /\ devFd = wrapped
    /\ mDeviceHandle /\ ~busy /\ pc.caller \notin {"thread", "callback"}
       => mFd # 0 /\ devFd = mFd
    /\ pc.caller = "connect" /\ mDeviceHandle => busy
    /\ ~stolen
    /\ ~mNativePtr => mFd = 0 /\ pc.caller = "idle"

IInv == TypeOK /\ DeviceInv /\ CallbackInv /\ FdInv

LEMMA TypeParts == TypeOK <=> ObjectTypes /\ DataTypes /\ NumberTypes /\ FdTypes /\ PcTypes
  BY DEF TypeOK, ObjectTypes, DataTypes, NumberTypes, FdTypes, PcTypes

LEMMA InitIInv == Init => IInv
  <1> SUFFICES ASSUME Init PROVE IInv OBVIOUS
  <1> USE DeviceAssumption DEF Init
  <1>1. ObjectTypes BY DEF ObjectTypes
  <1>2. DataTypes BY DEF DataTypes
  <1>3. NumberTypes BY DEF NumberTypes
  <1>4. FdTypes BY DEF FdTypes
  <1>5. PcTypes BY DEF PcTypes, CallerPlaces, EventPlaces, InCallback
  <1>6. DeviceInv BY DEF DeviceInv, InCallback
  <1>7. CallbackInv BY DEF CallbackInv
  <1>8. FdInv BY DEF FdInv
  <1> QED BY <1>1, <1>2, <1>3, <1>4, <1>5, <1>6, <1>7, <1>8, TypeParts DEF IInv

LEMMA StepObjects ==
    ASSUME TypeOK, Next
    PROVE  ObjectTypes'
  <1> USE TypeParts DEF ObjectTypes, closed, goto, fd, status, callback, object, counts
  <1>1. ASSUME otherOpens PROVE ObjectTypes'
    BY <1>1 DEF otherOpens
  <1>2. ASSUME open PROVE ObjectTypes'
    BY <1>2 DEF open
  <1>3. ASSUME close PROVE ObjectTypes'
    BY <1>3 DEF close, Close
  <1>4. ASSUME destroy PROVE ObjectTypes'
    BY <1>4 DEF destroy, Close
  <1>5. ASSUME connect PROVE ObjectTypes'
    BY <1>5 DEF connect
  <1>6. ASSUME initFails PROVE ObjectTypes'
    BY <1>6 DEF initFails
  <1>7. ASSUME wrapFails PROVE ObjectTypes'
    BY <1>7 DEF wrapFails
  <1>8. ASSUME wrap PROVE ObjectTypes'
    BY <1>8 DEF wrap
  <1>9. ASSUME startHandlerThread PROVE ObjectTypes'
    BY <1>9 DEF startHandlerThread
  <1>10. ASSUME newStatusCallback PROVE ObjectTypes'
    BY <1>10 DEF newStatusCallback
  <1>11. ASSUME setUserPtr PROVE ObjectTypes'
    BY <1>11 DEF setUserPtr
  <1>12. ASSUME deleteStatusCallback PROVE ObjectTypes'
    BY <1>12 DEF deleteStatusCallback
  <1>13. ASSUME killHandlerThread PROVE ObjectTypes'
    BY <1>13 DEF killHandlerThread
  <1>14. ASSUME libusbClose PROVE ObjectTypes'
    BY <1>14 DEF libusbClose
  <1>15. ASSUME joinHandlerThread PROVE ObjectTypes'
    BY <1>15 DEF joinHandlerThread
  <1>16. ASSUME freeDevice PROVE ObjectTypes'
    BY <1>16 DEF freeDevice
  <1>17. ASSUME deleteCamera PROVE ObjectTypes'
    BY <1>17 DEF deleteCamera
  <1>18. ASSUME forgetNative PROVE ObjectTypes'
    BY <1>18 DEF forgetNative
  <1>19. ASSUME setCallback PROVE ObjectTypes'
    BY <1>19 DEF setCallback
  <1>20. ASSUME handleEvents PROVE ObjectTypes'
    BY <1>20 DEF handleEvents
  <1>21. ASSUME handleEventsReturns PROVE ObjectTypes'
    BY <1>21 DEF handleEventsReturns
  <1>22. ASSUME statusCallback PROVE ObjectTypes'
    BY <1>22 DEF statusCallback
  <1>23. ASSUME processStatus PROVE ObjectTypes'
    BY <1>23 DEF processStatus
  <1>24. ASSUME notifyStatusCallback PROVE ObjectTypes'
    BY <1>24 DEF notifyStatusCallback
  <1>25. ASSUME onStatus PROVE ObjectTypes'
    BY <1>25 DEF onStatus
  <1>26. ASSUME unlock PROVE ObjectTypes'
    BY <1>26 DEF unlock
  <1>27. ASSUME resubmit PROVE ObjectTypes'
    BY <1>27 DEF resubmit
  <1>28. ASSUME NEW c \in Callbacks \cup {None}, setStatusCallback(c) PROVE ObjectTypes'
    BY <1>28 DEF setStatusCallback
  <1> QED
    BY <1>1, <1>2, <1>3, <1>4, <1>5, <1>6, <1>7, <1>8, <1>9,
       <1>10, <1>11, <1>12, <1>13, <1>14, <1>15, <1>16, <1>17, <1>18,
       <1>19, <1>20, <1>21, <1>22, <1>23, <1>24, <1>25, <1>26, <1>27,
       <1>28
       DEF Next, CallerStep, EventStep

LEMMA StepData ==
    ASSUME TypeOK, Next
    PROVE  DataTypes'
  <1> USE TypeParts DEF DataTypes, goto, fd, status, callback, object, counts
  <1>1. ASSUME otherOpens PROVE DataTypes'
    BY <1>1 DEF otherOpens
  <1>2. ASSUME open PROVE DataTypes'
    BY <1>2 DEF open
  <1>3. ASSUME close PROVE DataTypes'
    BY <1>3 DEF close, Close
  <1>4. ASSUME destroy PROVE DataTypes'
    BY <1>4 DEF destroy, Close
  <1>5. ASSUME connect PROVE DataTypes'
    BY <1>5 DEF connect
  <1>6. ASSUME initFails PROVE DataTypes'
    BY <1>6 DEF initFails
  <1>7. ASSUME wrapFails PROVE DataTypes'
    BY <1>7 DEF wrapFails
  <1>8. ASSUME wrap PROVE DataTypes'
    BY <1>8 DEF wrap
  <1>9. ASSUME startHandlerThread PROVE DataTypes'
    BY <1>9 DEF startHandlerThread
  <1>10. ASSUME newStatusCallback PROVE DataTypes'
    BY <1>10 DEF newStatusCallback
  <1>11. ASSUME setUserPtr PROVE DataTypes'
    BY <1>11 DEF setUserPtr
  <1>12. ASSUME deleteStatusCallback PROVE DataTypes'
    BY <1>12 DEF deleteStatusCallback
  <1>13. ASSUME killHandlerThread PROVE DataTypes'
    BY <1>13 DEF killHandlerThread
  <1>14. ASSUME libusbClose PROVE DataTypes'
    BY <1>14 DEF libusbClose
  <1>15. ASSUME joinHandlerThread PROVE DataTypes'
    BY <1>15 DEF joinHandlerThread
  <1>16. ASSUME freeDevice PROVE DataTypes'
    BY <1>16 DEF freeDevice
  <1>17. ASSUME deleteCamera PROVE DataTypes'
    BY <1>17 DEF deleteCamera
  <1>18. ASSUME forgetNative PROVE DataTypes'
    BY <1>18 DEF forgetNative
  <1>19. ASSUME setCallback PROVE DataTypes'
    BY <1>19 DEF setCallback
  <1>20. ASSUME handleEvents PROVE DataTypes'
    BY <1>20 DEF handleEvents
  <1>21. ASSUME handleEventsReturns PROVE DataTypes'
    BY <1>21 DEF handleEventsReturns
  <1>22. ASSUME statusCallback PROVE DataTypes'
    BY <1>22 DEF statusCallback
  <1>23. ASSUME processStatus PROVE DataTypes'
    BY <1>23 DEF processStatus
  <1>24. ASSUME notifyStatusCallback PROVE DataTypes'
    BY <1>24 DEF notifyStatusCallback
  <1>25. ASSUME onStatus PROVE DataTypes'
    BY <1>25 DEF onStatus
  <1>26. ASSUME unlock PROVE DataTypes'
    BY <1>26 DEF unlock
  <1>27. ASSUME resubmit PROVE DataTypes'
    BY <1>27 DEF resubmit
  <1>28. ASSUME NEW c \in Callbacks \cup {None}, setStatusCallback(c) PROVE DataTypes'
    BY <1>28 DEF setStatusCallback
  <1> QED
    BY <1>1, <1>2, <1>3, <1>4, <1>5, <1>6, <1>7, <1>8, <1>9,
       <1>10, <1>11, <1>12, <1>13, <1>14, <1>15, <1>16, <1>17, <1>18,
       <1>19, <1>20, <1>21, <1>22, <1>23, <1>24, <1>25, <1>26, <1>27,
       <1>28
       DEF Next, CallerStep, EventStep

LEMMA StepNumbers ==
    ASSUME TypeOK, Next
    PROVE  NumberTypes'
  <1> USE TypeParts, DeviceAssumption DEF NumberTypes, IsLowest, closed, goto, fd, status, callback, object, counts
  <1>1. ASSUME otherOpens PROVE NumberTypes'
    BY <1>1 DEF otherOpens
  <1>2. ASSUME open PROVE NumberTypes'
    BY <1>2 DEF open
  <1>3. ASSUME close PROVE NumberTypes'
    BY <1>3 DEF close, Close
  <1>4. ASSUME destroy PROVE NumberTypes'
    BY <1>4 DEF destroy, Close
  <1>5. ASSUME connect PROVE NumberTypes'
    BY <1>5 DEF connect
  <1>6. ASSUME initFails PROVE NumberTypes'
    BY <1>6 DEF initFails
  <1>7. ASSUME wrapFails PROVE NumberTypes'
    BY <1>7 DEF wrapFails
  <1>8. ASSUME wrap PROVE NumberTypes'
    BY <1>8 DEF wrap
  <1>9. ASSUME startHandlerThread PROVE NumberTypes'
    BY <1>9 DEF startHandlerThread
  <1>10. ASSUME newStatusCallback PROVE NumberTypes'
    BY <1>10 DEF newStatusCallback
  <1>11. ASSUME setUserPtr PROVE NumberTypes'
    BY <1>11 DEF setUserPtr
  <1>12. ASSUME deleteStatusCallback PROVE NumberTypes'
    BY <1>12 DEF deleteStatusCallback
  <1>13. ASSUME killHandlerThread PROVE NumberTypes'
    BY <1>13 DEF killHandlerThread
  <1>14. ASSUME libusbClose PROVE NumberTypes'
    BY <1>14 DEF libusbClose
  <1>15. ASSUME joinHandlerThread PROVE NumberTypes'
    BY <1>15 DEF joinHandlerThread
  <1>16. ASSUME freeDevice PROVE NumberTypes'
    BY <1>16 DEF freeDevice
  <1>17. ASSUME deleteCamera PROVE NumberTypes'
    BY <1>17 DEF deleteCamera
  <1>18. ASSUME forgetNative PROVE NumberTypes'
    BY <1>18 DEF forgetNative
  <1>19. ASSUME setCallback PROVE NumberTypes'
    BY <1>19 DEF setCallback
  <1>20. ASSUME handleEvents PROVE NumberTypes'
    BY <1>20 DEF handleEvents
  <1>21. ASSUME handleEventsReturns PROVE NumberTypes'
    BY <1>21 DEF handleEventsReturns
  <1>22. ASSUME statusCallback PROVE NumberTypes'
    BY <1>22 DEF statusCallback
  <1>23. ASSUME processStatus PROVE NumberTypes'
    BY <1>23 DEF processStatus
  <1>24. ASSUME notifyStatusCallback PROVE NumberTypes'
    BY <1>24 DEF notifyStatusCallback
  <1>25. ASSUME onStatus PROVE NumberTypes'
    BY <1>25 DEF onStatus
  <1>26. ASSUME unlock PROVE NumberTypes'
    BY <1>26 DEF unlock
  <1>27. ASSUME resubmit PROVE NumberTypes'
    BY <1>27 DEF resubmit
  <1>28. ASSUME NEW c \in Callbacks \cup {None}, setStatusCallback(c) PROVE NumberTypes'
    BY <1>28 DEF setStatusCallback
  <1> QED
    BY <1>1, <1>2, <1>3, <1>4, <1>5, <1>6, <1>7, <1>8, <1>9,
       <1>10, <1>11, <1>12, <1>13, <1>14, <1>15, <1>16, <1>17, <1>18,
       <1>19, <1>20, <1>21, <1>22, <1>23, <1>24, <1>25, <1>26, <1>27,
       <1>28
       DEF Next, CallerStep, EventStep

LEMMA StepFds ==
    ASSUME TypeOK, Next
    PROVE  FdTypes'
  <1> USE TypeParts DEF FdTypes, IsLowest, closed, goto, fd, status, callback, object, counts
  <1>1. ASSUME otherOpens PROVE FdTypes'
    BY <1>1 DEF otherOpens
  <1>2. ASSUME open PROVE FdTypes'
    BY <1>2 DEF open
  <1>3. ASSUME close PROVE FdTypes'
    BY <1>3 DEF close, Close
  <1>4. ASSUME destroy PROVE FdTypes'
    BY <1>4 DEF destroy, Close
  <1>5. ASSUME connect PROVE FdTypes'
    BY <1>5 DEF connect
  <1>6. ASSUME initFails PROVE FdTypes'
    BY <1>6 DEF initFails
  <1>7. ASSUME wrapFails PROVE FdTypes'
    BY <1>7 DEF wrapFails
  <1>8. ASSUME wrap PROVE FdTypes'
    BY <1>8 DEF wrap
  <1>9. ASSUME startHandlerThread PROVE FdTypes'
    BY <1>9 DEF startHandlerThread
  <1>10. ASSUME newStatusCallback PROVE FdTypes'
    BY <1>10 DEF newStatusCallback
  <1>11. ASSUME setUserPtr PROVE FdTypes'
    BY <1>11 DEF setUserPtr
  <1>12. ASSUME deleteStatusCallback PROVE FdTypes'
    BY <1>12 DEF deleteStatusCallback
  <1>13. ASSUME killHandlerThread PROVE FdTypes'
    BY <1>13 DEF killHandlerThread
  <1>14. ASSUME libusbClose PROVE FdTypes'
    BY <1>14 DEF libusbClose
  <1>15. ASSUME joinHandlerThread PROVE FdTypes'
    BY <1>15 DEF joinHandlerThread
  <1>16. ASSUME freeDevice PROVE FdTypes'
    BY <1>16 DEF freeDevice
  <1>17. ASSUME deleteCamera PROVE FdTypes'
    BY <1>17 DEF deleteCamera
  <1>18. ASSUME forgetNative PROVE FdTypes'
    BY <1>18 DEF forgetNative
  <1>19. ASSUME setCallback PROVE FdTypes'
    BY <1>19 DEF setCallback
  <1>20. ASSUME handleEvents PROVE FdTypes'
    BY <1>20 DEF handleEvents
  <1>21. ASSUME handleEventsReturns PROVE FdTypes'
    BY <1>21 DEF handleEventsReturns
  <1>22. ASSUME statusCallback PROVE FdTypes'
    BY <1>22 DEF statusCallback
  <1>23. ASSUME processStatus PROVE FdTypes'
    BY <1>23 DEF processStatus
  <1>24. ASSUME notifyStatusCallback PROVE FdTypes'
    BY <1>24 DEF notifyStatusCallback
  <1>25. ASSUME onStatus PROVE FdTypes'
    BY <1>25 DEF onStatus
  <1>26. ASSUME unlock PROVE FdTypes'
    BY <1>26 DEF unlock
  <1>27. ASSUME resubmit PROVE FdTypes'
    BY <1>27 DEF resubmit
  <1>28. ASSUME NEW c \in Callbacks \cup {None}, setStatusCallback(c) PROVE FdTypes'
    BY <1>28 DEF setStatusCallback
  <1> QED
    BY <1>1, <1>2, <1>3, <1>4, <1>5, <1>6, <1>7, <1>8, <1>9,
       <1>10, <1>11, <1>12, <1>13, <1>14, <1>15, <1>16, <1>17, <1>18,
       <1>19, <1>20, <1>21, <1>22, <1>23, <1>24, <1>25, <1>26, <1>27,
       <1>28
       DEF Next, CallerStep, EventStep

LEMMA StepPc ==
    ASSUME TypeOK, Next
    PROVE  PcTypes'
  <1> USE TypeParts DEF PcTypes, CallerPlaces, EventPlaces, InCallback, goto, fd, status, callback, object, counts
  <1>1. ASSUME otherOpens PROVE PcTypes'
    BY <1>1 DEF otherOpens
  <1>2. ASSUME open PROVE PcTypes'
    BY <1>2 DEF open
  <1>3. ASSUME close PROVE PcTypes'
    BY <1>3 DEF close, Close
  <1>4. ASSUME destroy PROVE PcTypes'
    BY <1>4 DEF destroy, Close
  <1>5. ASSUME connect PROVE PcTypes'
    BY <1>5 DEF connect
  <1>6. ASSUME initFails PROVE PcTypes'
    BY <1>6 DEF initFails
  <1>7. ASSUME wrapFails PROVE PcTypes'
    BY <1>7 DEF wrapFails
  <1>8. ASSUME wrap PROVE PcTypes'
    BY <1>8 DEF wrap
  <1>9. ASSUME startHandlerThread PROVE PcTypes'
    BY <1>9 DEF startHandlerThread
  <1>10. ASSUME newStatusCallback PROVE PcTypes'
    BY <1>10 DEF newStatusCallback
  <1>11. ASSUME setUserPtr PROVE PcTypes'
    BY <1>11 DEF setUserPtr
  <1>12. ASSUME deleteStatusCallback PROVE PcTypes'
    BY <1>12 DEF deleteStatusCallback
  <1>13. ASSUME killHandlerThread PROVE PcTypes'
    BY <1>13 DEF killHandlerThread
  <1>14. ASSUME libusbClose PROVE PcTypes'
    BY <1>14 DEF libusbClose
  <1>15. ASSUME joinHandlerThread PROVE PcTypes'
    BY <1>15 DEF joinHandlerThread
  <1>16. ASSUME freeDevice PROVE PcTypes'
    BY <1>16 DEF freeDevice
  <1>17. ASSUME deleteCamera PROVE PcTypes'
    BY <1>17 DEF deleteCamera
  <1>18. ASSUME forgetNative PROVE PcTypes'
    BY <1>18 DEF forgetNative
  <1>19. ASSUME setCallback PROVE PcTypes'
    BY <1>19 DEF setCallback
  <1>20. ASSUME handleEvents PROVE PcTypes'
    BY <1>20 DEF handleEvents
  <1>21. ASSUME handleEventsReturns PROVE PcTypes'
    BY <1>21 DEF handleEventsReturns
  <1>22. ASSUME statusCallback PROVE PcTypes'
    BY <1>22 DEF statusCallback
  <1>23. ASSUME processStatus PROVE PcTypes'
    BY <1>23 DEF processStatus
  <1>24. ASSUME notifyStatusCallback PROVE PcTypes'
    BY <1>24 DEF notifyStatusCallback
  <1>25. ASSUME onStatus PROVE PcTypes'
    BY <1>25 DEF onStatus
  <1>26. ASSUME unlock PROVE PcTypes'
    BY <1>26 DEF unlock
  <1>27. ASSUME resubmit PROVE PcTypes'
    BY <1>27 DEF resubmit
  <1>28. ASSUME NEW c \in Callbacks \cup {None}, setStatusCallback(c) PROVE PcTypes'
    BY <1>28 DEF setStatusCallback
  <1> QED
    BY <1>1, <1>2, <1>3, <1>4, <1>5, <1>6, <1>7, <1>8, <1>9,
       <1>10, <1>11, <1>12, <1>13, <1>14, <1>15, <1>16, <1>17, <1>18,
       <1>19, <1>20, <1>21, <1>22, <1>23, <1>24, <1>25, <1>26, <1>27,
       <1>28
       DEF Next, CallerStep, EventStep

LEMMA StepDevice ==
    ASSUME TypeOK, DeviceInv, Next
    PROVE  DeviceInv'
  <1> USE TypeParts DEF DeviceInv, PcTypes, CallerPlaces, EventPlaces, InCallback, goto, fd, status, callback, object, counts
  <1>1. ASSUME otherOpens PROVE DeviceInv'
    BY <1>1 DEF otherOpens
  <1>2. ASSUME open PROVE DeviceInv'
    BY <1>2 DEF open
  <1>3. ASSUME close PROVE DeviceInv'
    BY <1>3 DEF close, Close
  <1>4. ASSUME destroy PROVE DeviceInv'
    BY <1>4 DEF destroy, Close
  <1>5. ASSUME connect PROVE DeviceInv'
    BY <1>5 DEF connect
  <1>6. ASSUME initFails PROVE DeviceInv'
    BY <1>6 DEF initFails
  <1>7. ASSUME wrapFails PROVE DeviceInv'
    BY <1>7 DEF wrapFails
  <1>8. ASSUME wrap PROVE DeviceInv'
    BY <1>8 DEF wrap
  <1>9. ASSUME startHandlerThread PROVE DeviceInv'
    BY <1>9 DEF startHandlerThread
  <1>10. ASSUME newStatusCallback PROVE DeviceInv'
    BY <1>10 DEF newStatusCallback
  <1>11. ASSUME setUserPtr PROVE DeviceInv'
    BY <1>11 DEF setUserPtr
  <1>12. ASSUME deleteStatusCallback PROVE DeviceInv'
    BY <1>12 DEF deleteStatusCallback
  <1>13. ASSUME killHandlerThread PROVE DeviceInv'
    BY <1>13 DEF killHandlerThread
  <1>14. ASSUME libusbClose PROVE DeviceInv'
    BY <1>14 DEF libusbClose
  <1>15. ASSUME joinHandlerThread PROVE DeviceInv'
    BY <1>15 DEF joinHandlerThread
  <1>16. ASSUME freeDevice PROVE DeviceInv'
    BY <1>16 DEF freeDevice
  <1>17. ASSUME deleteCamera PROVE DeviceInv'
    BY <1>17 DEF deleteCamera
  <1>18. ASSUME forgetNative PROVE DeviceInv'
    BY <1>18 DEF forgetNative
  <1>19. ASSUME setCallback PROVE DeviceInv'
    BY <1>19 DEF setCallback
  <1>20. ASSUME handleEvents PROVE DeviceInv'
    BY <1>20 DEF handleEvents
  <1>21. ASSUME handleEventsReturns PROVE DeviceInv'
    BY <1>21 DEF handleEventsReturns
  <1>22. ASSUME statusCallback PROVE DeviceInv'
    BY <1>22 DEF statusCallback
  <1>23. ASSUME processStatus PROVE DeviceInv'
    BY <1>23 DEF processStatus
  <1>24. ASSUME notifyStatusCallback PROVE DeviceInv'
    BY <1>24 DEF notifyStatusCallback
  <1>25. ASSUME onStatus PROVE DeviceInv'
    BY <1>25 DEF onStatus
  <1>26. ASSUME unlock PROVE DeviceInv'
    BY <1>26 DEF unlock
  <1>27. ASSUME resubmit PROVE DeviceInv'
    BY <1>27 DEF resubmit
  <1>28. ASSUME NEW c \in Callbacks \cup {None}, setStatusCallback(c) PROVE DeviceInv'
    BY <1>28 DEF setStatusCallback
  <1> QED
    BY <1>1, <1>2, <1>3, <1>4, <1>5, <1>6, <1>7, <1>8, <1>9,
       <1>10, <1>11, <1>12, <1>13, <1>14, <1>15, <1>16, <1>17, <1>18,
       <1>19, <1>20, <1>21, <1>22, <1>23, <1>24, <1>25, <1>26, <1>27,
       <1>28
       DEF Next, CallerStep, EventStep

LEMMA StepCallback ==
    ASSUME TypeOK, DeviceInv, CallbackInv, Next
    PROVE  CallbackInv'
  <1> USE TypeParts DEF CallbackInv, DeviceInv, PcTypes, CallerPlaces, EventPlaces, InCallback, goto, fd, status, callback, object, counts
  <1>1. ASSUME otherOpens PROVE CallbackInv'
    BY <1>1 DEF otherOpens
  <1>2. ASSUME open PROVE CallbackInv'
    BY <1>2 DEF open
  <1>3. ASSUME close PROVE CallbackInv'
    BY <1>3 DEF close, Close
  <1>4. ASSUME destroy PROVE CallbackInv'
    BY <1>4 DEF destroy, Close
  <1>5. ASSUME connect PROVE CallbackInv'
    BY <1>5 DEF connect
  <1>6. ASSUME initFails PROVE CallbackInv'
    BY <1>6 DEF initFails
  <1>7. ASSUME wrapFails PROVE CallbackInv'
    BY <1>7 DEF wrapFails
  <1>8. ASSUME wrap PROVE CallbackInv'
    BY <1>8 DEF wrap
  <1>9. ASSUME startHandlerThread PROVE CallbackInv'
    BY <1>9 DEF startHandlerThread
  <1>10. ASSUME newStatusCallback PROVE CallbackInv'
    BY <1>10 DEF newStatusCallback
  <1>11. ASSUME setUserPtr PROVE CallbackInv'
    BY <1>11 DEF setUserPtr
  <1>12. ASSUME deleteStatusCallback PROVE CallbackInv'
    BY <1>12 DEF deleteStatusCallback
  <1>13. ASSUME killHandlerThread PROVE CallbackInv'
    BY <1>13 DEF killHandlerThread
  <1>14. ASSUME libusbClose PROVE CallbackInv'
    BY <1>14 DEF libusbClose
  <1>15. ASSUME joinHandlerThread PROVE CallbackInv'
    BY <1>15 DEF joinHandlerThread
  <1>16. ASSUME freeDevice PROVE CallbackInv'
    BY <1>16 DEF freeDevice
  <1>17. ASSUME deleteCamera PROVE CallbackInv'
    BY <1>17 DEF deleteCamera
  <1>18. ASSUME forgetNative PROVE CallbackInv'
    BY <1>18 DEF forgetNative
  <1>19. ASSUME setCallback PROVE CallbackInv'
    BY <1>19 DEF setCallback
  <1>20. ASSUME handleEvents PROVE CallbackInv'
    BY <1>20 DEF handleEvents
  <1>21. ASSUME handleEventsReturns PROVE CallbackInv'
    BY <1>21 DEF handleEventsReturns
  <1>22. ASSUME statusCallback PROVE CallbackInv'
    BY <1>22 DEF statusCallback
  <1>23. ASSUME processStatus PROVE CallbackInv'
    BY <1>23 DEF processStatus
  <1>24. ASSUME notifyStatusCallback PROVE CallbackInv'
    BY <1>24 DEF notifyStatusCallback
  <1>25. ASSUME onStatus PROVE CallbackInv'
    BY <1>25 DEF onStatus
  <1>26. ASSUME unlock PROVE CallbackInv'
    BY <1>26 DEF unlock
  <1>27. ASSUME resubmit PROVE CallbackInv'
    BY <1>27 DEF resubmit
  <1>28. ASSUME NEW c \in Callbacks \cup {None}, setStatusCallback(c) PROVE CallbackInv'
    BY <1>28 DEF setStatusCallback
  <1> QED
    BY <1>1, <1>2, <1>3, <1>4, <1>5, <1>6, <1>7, <1>8, <1>9,
       <1>10, <1>11, <1>12, <1>13, <1>14, <1>15, <1>16, <1>17, <1>18,
       <1>19, <1>20, <1>21, <1>22, <1>23, <1>24, <1>25, <1>26, <1>27,
       <1>28
       DEF Next, CallerStep, EventStep

LEMMA StepFdInv ==
    ASSUME TypeOK, DeviceInv, FdInv, Next
    PROVE  FdInv'
  <1> USE TypeParts DEF FdInv, DeviceInv, NumberTypes, FdTypes, PcTypes, CallerPlaces, IsLowest, closed, goto, fd, status, callback, object, counts
  <1>1. ASSUME otherOpens PROVE FdInv'
    BY <1>1 DEF otherOpens
  <1>2. ASSUME open PROVE FdInv'
    BY <1>2 DEF open
  <1>3. ASSUME close PROVE FdInv'
    BY <1>3 DEF close, Close
  <1>4. ASSUME destroy PROVE FdInv'
    BY <1>4 DEF destroy, Close
  <1>5. ASSUME connect PROVE FdInv'
    BY <1>5 DEF connect
  <1>6. ASSUME initFails PROVE FdInv'
    BY <1>6 DEF initFails
  <1>7. ASSUME wrapFails PROVE FdInv'
    BY <1>7 DEF wrapFails
  <1>8. ASSUME wrap PROVE FdInv'
    BY <1>8 DEF wrap
  <1>9. ASSUME startHandlerThread PROVE FdInv'
    BY <1>9 DEF startHandlerThread
  <1>10. ASSUME newStatusCallback PROVE FdInv'
    BY <1>10 DEF newStatusCallback
  <1>11. ASSUME setUserPtr PROVE FdInv'
    BY <1>11 DEF setUserPtr
  <1>12. ASSUME deleteStatusCallback PROVE FdInv'
    BY <1>12 DEF deleteStatusCallback
  <1>13. ASSUME killHandlerThread PROVE FdInv'
    BY <1>13 DEF killHandlerThread
  <1>14. ASSUME libusbClose PROVE FdInv'
    BY <1>14 DEF libusbClose
  <1>15. ASSUME joinHandlerThread PROVE FdInv'
    BY <1>15 DEF joinHandlerThread
  <1>16. ASSUME freeDevice PROVE FdInv'
    BY <1>16 DEF freeDevice
  <1>17. ASSUME deleteCamera PROVE FdInv'
    BY <1>17 DEF deleteCamera
  <1>18. ASSUME forgetNative PROVE FdInv'
    BY <1>18 DEF forgetNative
  <1>19. ASSUME setCallback PROVE FdInv'
    BY <1>19 DEF setCallback
  <1>20. ASSUME handleEvents PROVE FdInv'
    BY <1>20 DEF handleEvents
  <1>21. ASSUME handleEventsReturns PROVE FdInv'
    BY <1>21 DEF handleEventsReturns
  <1>22. ASSUME statusCallback PROVE FdInv'
    BY <1>22 DEF statusCallback
  <1>23. ASSUME processStatus PROVE FdInv'
    BY <1>23 DEF processStatus
  <1>24. ASSUME notifyStatusCallback PROVE FdInv'
    BY <1>24 DEF notifyStatusCallback
  <1>25. ASSUME onStatus PROVE FdInv'
    BY <1>25 DEF onStatus
  <1>26. ASSUME unlock PROVE FdInv'
    BY <1>26 DEF unlock
  <1>27. ASSUME resubmit PROVE FdInv'
    BY <1>27 DEF resubmit
  <1>28. ASSUME NEW c \in Callbacks \cup {None}, setStatusCallback(c) PROVE FdInv'
    BY <1>28 DEF setStatusCallback
  <1> QED
    BY <1>1, <1>2, <1>3, <1>4, <1>5, <1>6, <1>7, <1>8, <1>9,
       <1>10, <1>11, <1>12, <1>13, <1>14, <1>15, <1>16, <1>17, <1>18,
       <1>19, <1>20, <1>21, <1>22, <1>23, <1>24, <1>25, <1>26, <1>27,
       <1>28
       DEF Next, CallerStep, EventStep

LEMMA NextIInv == IInv /\ [Next]_vars => IInv'
  <1> SUFFICES ASSUME IInv, [Next]_vars PROVE IInv' OBVIOUS
  <1>1. CASE Next
    <2>1. TypeOK'
      BY <1>1, StepObjects, StepData, StepNumbers, StepFds, StepPc, TypeParts
         DEF IInv, TypeOK, ObjectTypes, DataTypes, NumberTypes, FdTypes, PcTypes
    <2> QED BY <1>1, <2>1, StepDevice, StepCallback, StepFdInv DEF IInv
  <1>2. CASE UNCHANGED vars
    BY <1>2 DEF vars, fd, status, callback, object, counts, IInv, TypeOK,
       DeviceInv, CallbackInv, FdInv
  <1> QED BY <1>1, <1>2

\* Every variable keeps its type (UVCCamera.h, libuvc_internal.h).
THEOREM TypeCorrect == Spec => []TypeOK
  <1>1. IInv => TypeOK BY DEF IInv
  <1> QED BY InitIInv, NextIInv, <1>1, PTL DEF Spec

\* Handle, context, transfer and the application's callback outlive their use
\* by the event thread, which uvc_close joins before it frees the device.
THEOREM EventThreadUsesNothingFreed == Spec => []NothingFreedInUse
  <1>1. IInv => NothingFreedInUse
    BY TypeParts DEF IInv, NothingFreedInUse, DeviceInv, CallbackInv, InCallback
  <1> QED BY InitIInv, NextIInv, <1>1, PTL DEF Spec

\* An open device has its descriptor unless open was called again, no other's
\* is closed, and a destroyed camera holds none.
THEOREM DescriptorsAreTheCameras == Spec => []DescriptorsHeld
  <1>1. IInv => DescriptorsHeld
    BY TypeParts DEF IInv, DescriptorsHeld, FdInv, NumberTypes, FdTypes
  <1> QED BY InitIInv, NextIInv, <1>1, PTL DEF Spec

=============================================================================
