-------------------------- MODULE UsbMonitorProofs --------------------------
(***************************************************************************)
(* For any set of devices and any bounds: the types of UsbMonitor, and that *)
(* the table holds open blocks only.  The second needs that a detach is on  *)
(* its way only for a device that is gone from the list (DetachIsLast), as  *)
(* a block is opened only for a device in the list.                        *)
(***************************************************************************)
EXTENDS UsbMonitor, TLAPS

LEMMA InitTypeOK == Init => TypeOK
  <1> SUFFICES ASSUME Init PROVE TypeOK OBVIOUS
  <1> USE MonitorAssumption DEF Init
  <1>1. FlagsTypeOK
    BY DEF FlagsTypeOK
  <1>2. SetsTypeOK
    BY DEF SetsTypeOK
  <1>3. TableTypeOK
    BY DEF TableTypeOK
  <1>4. QueueTypeOK
    BY DEF QueueTypeOK
  <1>5. PcTypeOK
    BY DEF PcTypeOK, NoDevice, AppPlaces, AsyncPlaces, InProcessOpen
  <1> QED BY <1>1, <1>2, <1>3, <1>4, <1>5 DEF TypeOK

LEMMA StepTypeOK ==
    ASSUME TypeOK, Next
    PROVE  TypeOK'
  <1> USE MonitorAssumption DEF TypeOK, FlagsTypeOK, SetsTypeOK,
        TableTypeOK, QueueTypeOK, PcTypeOK, goto, done, Unregister,
        updateDeviceKeys, processCancel, receive, needNotify, InList, system,
        keys, table, tasks, threads, told, flags, Kinds, InProcessOpen,
        AppPlaces, AsyncPlaces
  <1>0. NoDevice \in Devices
    BY DEF NoDevice
  <1>1. ASSUME NEW d \in Devices, attach(d) PROVE TypeOK'
    BY <1>1 DEF attach
  <1>2. ASSUME NEW d \in Devices, detach(d) PROVE TypeOK'
    BY <1>2 DEF detach
  <1>3. ASSUME NEW d \in Devices, answer(d) PROVE TypeOK'
    BY <1>3 DEF answer
  <1>4. ASSUME NEW d \in Devices, cloneOpen(d) PROVE TypeOK'
    BY <1>4 DEF cloneOpen
  <1>5. ASSUME NEW d \in Devices, cloneClose(d) PROVE TypeOK'
    BY <1>5 DEF cloneClose
  <1>6. ASSUME NEW d \in Devices, requestPermission(d) PROVE TypeOK'
    BY <1>6 DEF requestPermission
  <1>7. ASSUME NEW m \in broadcasts, onReceive(m) PROVE TypeOK'
    BY <1>7 DEF onReceive
  <1>8. ASSUME register PROVE TypeOK'
    BY <1>8 DEF register
  <1>9. ASSUME unregister PROVE TypeOK'
    BY <1>9 DEF unregister
  <1>10. ASSUME destroy PROVE TypeOK'
    BY <1>10 DEF destroy
  <1>11. ASSUME destroyMark PROVE TypeOK'
    BY <1>11 DEF destroyMark
  <1>12. ASSUME closeAll PROVE TypeOK'
    <2>1. FlagsTypeOK'
      BY <1>12 DEF closeAll
    <2>2. SetsTypeOK'
      BY <1>12 DEF closeAll
    <2>3. TableTypeOK'
      <3>1. mOpenedCtrlBlocks' \in [Devices -> 0 .. MaxBlocks]
        BY <1>12 DEF closeAll
      <3>2. opened' \subseteq opened
        BY <1>12 DEF closeAll
      <3>3. UNCHANGED <<blocks, registers, checks>>
        BY <1>12 DEF closeAll
      <3> QED BY <3>1, <3>2, <3>3
    <2>4. QueueTypeOK'
      BY <1>12 DEF closeAll
    <2>5. PcTypeOK'
      BY <1>12 DEF closeAll
    <2> QED BY <2>1, <2>2, <2>3, <2>4, <2>5 DEF TypeOK
  <1>13. ASSUME quitLooper PROVE TypeOK'
    BY <1>13 DEF quitLooper
  <1>14. ASSUME receivePermission PROVE TypeOK'
    <2>1. FlagsTypeOK'
      BY <1>14 DEF receivePermission
    <2>2. SetsTypeOK'
      BY <1>14 DEF receivePermission
    <2>3. TableTypeOK'
      BY <1>14 DEF receivePermission
    <2>4. QueueTypeOK'
      <3>1. queue # <<>> /\ queue' = Tail(queue) /\ UNCHANGED broadcasts
        BY <1>14 DEF receivePermission
      <3> QED BY <3>1
    <2>5. PcTypeOK'
      BY <1>14 DEF receivePermission
    <2> QED BY <2>1, <2>2, <2>3, <2>4, <2>5 DEF TypeOK
  <1>15. ASSUME receiveDetach PROVE TypeOK'
    <2>1. FlagsTypeOK'
      BY <1>15 DEF receiveDetach
    <2>2. SetsTypeOK'
      BY <1>15 DEF receiveDetach
    <2>3. TableTypeOK'
      <3>1. mOpenedCtrlBlocks' \in [Devices -> 0 .. MaxBlocks]
        BY <1>15 DEF receiveDetach
      <3>2. opened' \subseteq opened
        BY <1>15 DEF receiveDetach
      <3>3. UNCHANGED <<blocks, registers, checks>>
        BY <1>15 DEF receiveDetach
      <3> QED BY <3>1, <3>2, <3>3
    <2>4. QueueTypeOK'
      BY <1>15 DEF receiveDetach
    <2>5. PcTypeOK'
      BY <1>15 DEF receiveDetach
    <2> QED BY <2>1, <2>2, <2>3, <2>4, <2>5 DEF TypeOK
  <1>16. ASSUME processDetach PROVE TypeOK'
    <2>1. FlagsTypeOK'
      BY <1>16 DEF processDetach
    <2>2. SetsTypeOK'
      BY <1>16 DEF processDetach
    <2>3. TableTypeOK'
      BY <1>16 DEF processDetach
    <2>4. QueueTypeOK'
      BY <1>16 DEF processDetach
    <2>5. PcTypeOK'
      BY <1>0, <1>16 DEF processDetach
    <2> QED BY <2>1, <2>2, <2>3, <2>4, <2>5 DEF TypeOK
  <1>17. ASSUME deviceCheck PROVE TypeOK'
    BY <1>17 DEF deviceCheck
  <1>18. ASSUME notifyNew PROVE TypeOK'
    BY <1>18 DEF notifyNew
  <1>19. ASSUME NEW t \in {"app", "async"}, processOpenDevice(t) PROVE TypeOK'
    <2>1. FlagsTypeOK'
      BY <1>19 DEF processOpenDevice
    <2>2. SetsTypeOK'
      BY <1>19 DEF processOpenDevice
    <2>3. TableTypeOK'
      BY <1>19 DEF processOpenDevice
    <2>4. QueueTypeOK'
      BY <1>19 DEF processOpenDevice
    <2>5. PcTypeOK'
      BY <1>0, <1>19 DEF processOpenDevice
    <2> QED BY <2>1, <2>2, <2>3, <2>4, <2>5 DEF TypeOK
  <1>20. ASSUME NEW t \in {"app", "async"}, openOrReuse(t) PROVE TypeOK'
    <2>1. FlagsTypeOK'
      BY <1>20 DEF openOrReuse
    <2>2. SetsTypeOK'
      BY <1>20 DEF openOrReuse
    <2>3. TableTypeOK'
      <3>1. CASE UNCHANGED table
        BY <1>20, <3>1 DEF openOrReuse
      <3>2. CASE ~UNCHANGED table
        <4>1. blocks' = blocks + 1 /\ blocks' <= MaxBlocks
          BY <1>20, <3>2 DEF openOrReuse
        <4>2. opened' = opened \cup {blocks'}
          BY <1>20, <3>2 DEF openOrReuse
        <4>3. mOpenedCtrlBlocks' = [mOpenedCtrlBlocks EXCEPT ![dev[t]] =
              blocks']
          BY <1>20, <3>2 DEF openOrReuse
        <4>4. UNCHANGED <<registers, checks>>
          BY <1>20 DEF openOrReuse
        <4> QED BY <4>1, <4>2, <4>3, <4>4
      <3> QED BY <3>1, <3>2
    <2>4. QueueTypeOK'
      BY <1>20 DEF openOrReuse
    <2>5. PcTypeOK'
      BY <1>20 DEF openOrReuse
    <2> QED BY <2>1, <2>2, <2>3, <2>4, <2>5 DEF TypeOK
  <1>21. ASSUME NEW t \in {"app", "async"}, postOpen(t) PROVE TypeOK'
    <2>1. FlagsTypeOK'
      BY <1>21 DEF postOpen
    <2>2. SetsTypeOK'
      BY <1>21 DEF postOpen
    <2>3. TableTypeOK'
      BY <1>21 DEF postOpen
    <2>4. QueueTypeOK'
      BY <1>21 DEF postOpen
    <2>5. PcTypeOK'
      BY <1>0, <1>21 DEF postOpen
    <2> QED BY <2>1, <2>2, <2>3, <2>4, <2>5 DEF TypeOK
  <1> QED BY <1>1, <1>2, <1>3, <1>4, <1>5, <1>6, <1>7, <1>8, <1>9,
        <1>10, <1>11, <1>12, <1>13, <1>14, <1>15, <1>16, <1>17, <1>18, <1>19,
        <1>20, <1>21 DEF Next, AppStep, AsyncStep

queued == {queue[i] : i \in DOMAIN queue}

\* A broadcast of the detach, sent or posted or told, is of a device that has
\* left the list; between the receipt and onDetach it has no block.
DetachIsLast ==
    /\ \A d \in Devices :
          <<"detached", d>> \in broadcasts \cup queued =>
              phase[d] = "gone"
    /\ \A d \in detachTold : phase[d] = "gone"
    /\ pc["async"] = "detach" =>
          /\ phase[dev["async"]] = "gone"
          /\ mOpenedCtrlBlocks[dev["async"]] = 0

IInv == TypeOK /\ TableLive /\ DetachIsLast

LEMMA StepTable ==
    ASSUME IInv, Next
    PROVE  TableLive' /\ DetachIsLast'
  <1> USE DEF IInv, TableLive, DetachIsLast, queued, TypeOK,
        FlagsTypeOK, SetsTypeOK, TableTypeOK, QueueTypeOK, PcTypeOK, goto,
        done, Unregister, updateDeviceKeys, processCancel, receive, InList,
        system, keys, table, tasks, threads, told, flags
  <1>1. ASSUME NEW d \in Devices, attach(d) PROVE TableLive' /\ DetachIsLast'
    BY <1>1 DEF attach
  <1>2. ASSUME NEW d \in Devices, detach(d) PROVE TableLive' /\ DetachIsLast'
    BY <1>2 DEF detach
  <1>3. ASSUME NEW d \in Devices, answer(d) PROVE TableLive' /\ DetachIsLast'
    BY <1>3 DEF answer
  <1>4. ASSUME NEW d \in Devices, cloneOpen(d)
        PROVE TableLive' /\ DetachIsLast'
    BY <1>4 DEF cloneOpen
  <1>5. ASSUME NEW d \in Devices, cloneClose(d)
        PROVE TableLive' /\ DetachIsLast'
    BY <1>5 DEF cloneClose
  <1>6. ASSUME NEW d \in Devices, requestPermission(d)
        PROVE TableLive' /\ DetachIsLast'
    BY <1>6 DEF requestPermission
  <1>7. ASSUME NEW m \in broadcasts, onReceive(m)
        PROVE TableLive' /\ DetachIsLast'
    BY <1>7 DEF onReceive
  <1>8. ASSUME register PROVE TableLive' /\ DetachIsLast'
    BY <1>8 DEF register
  <1>9. ASSUME unregister PROVE TableLive' /\ DetachIsLast'
    BY <1>9 DEF unregister
  <1>10. ASSUME destroy PROVE TableLive' /\ DetachIsLast'
    BY <1>10 DEF destroy
  <1>11. ASSUME destroyMark PROVE TableLive' /\ DetachIsLast'
    BY <1>11 DEF destroyMark
  <1>12. ASSUME closeAll PROVE TableLive' /\ DetachIsLast'
    <2>1. TableLive'
      BY <1>12 DEF closeAll
    <2>2. DetachIsLast'
      BY <1>12 DEF closeAll
    <2> QED BY <2>1, <2>2
  <1>13. ASSUME quitLooper PROVE TableLive' /\ DetachIsLast'
    BY <1>13 DEF quitLooper
  <1>14. ASSUME receivePermission PROVE TableLive' /\ DetachIsLast'
    <2>1. TableLive'
      BY <1>14 DEF receivePermission
    <2>2. DetachIsLast'
      <3>1. queue # <<>> /\ queue' = Tail(queue)
        BY <1>14 DEF receivePermission
      <3>2. queued' \subseteq queued
        BY <3>1
      <3>3. UNCHANGED <<broadcasts, phase, detachTold, table>>
        BY <1>14 DEF receivePermission
      <3>4. pc["async"]' # "detach"
        BY <1>14 DEF receivePermission
      <3> QED BY <3>2, <3>3, <3>4
    <2> QED BY <2>1, <2>2
  <1>15. ASSUME receiveDetach PROVE TableLive' /\ DetachIsLast'
    <2>1. TableLive'
      <3>1. CASE UNCHANGED <<mOpenedCtrlBlocks, opened>>
        BY <1>15, <3>1 DEF receiveDetach
      <3>2. ASSUME NEW d \in Devices,
                   opened' = opened \ {mOpenedCtrlBlocks[d]},
                   mOpenedCtrlBlocks' = [mOpenedCtrlBlocks EXCEPT ![d] = 0]
            PROVE  TableLive'
        BY <1>15, <3>2 DEF receiveDetach
      <3> QED BY <1>15, <3>1, <3>2 DEF receiveDetach
    <2>2. DetachIsLast'
      <3>1. PICK d \in Devices : receive("detached", d)
        BY <1>15 DEF receiveDetach
      <3>2. queue # <<>> /\ queue' = Tail(queue) /\ Head(queue) =
            <<"detached", d>>
        BY <3>1
      <3>3. queued' \subseteq queued /\ <<"detached", d>> \in queued
        BY <3>2
      <3>4. UNCHANGED <<broadcasts, phase, detachTold>>
        BY <1>15 DEF receiveDetach
      <3>5. pc["async"]' = "detach" =>
               dev'["async"] = d /\ mOpenedCtrlBlocks'[d] = 0
        BY <1>15, <3>2 DEF receiveDetach
      <3>6. phase[d] = "gone"
        BY <3>3
      <3>7. /\ \A e \in Devices :
                  <<"detached", e>> \in broadcasts' \cup queued'
                  => phase'[e] = "gone"
            /\ \A e \in detachTold' : phase'[e] = "gone"
        BY <3>3, <3>4
      <3>8. pc'["async"] = "detach" =>
              /\ phase'[dev'["async"]] = "gone"
              /\ mOpenedCtrlBlocks'[dev'["async"]] = 0
        BY <3>4, <3>5, <3>6
      <3> QED BY <3>7, <3>8
    <2> QED BY <2>1, <2>2
  <1>16. ASSUME processDetach PROVE TableLive' /\ DetachIsLast'
    BY <1>16 DEF processDetach
  <1>17. ASSUME deviceCheck PROVE TableLive' /\ DetachIsLast'
    BY <1>17 DEF deviceCheck
  <1>18. ASSUME notifyNew PROVE TableLive' /\ DetachIsLast'
    BY <1>18 DEF notifyNew
  <1>19. ASSUME NEW t \in {"app", "async"}, processOpenDevice(t)
         PROVE TableLive' /\ DetachIsLast'
    BY <1>19 DEF processOpenDevice
  <1>20. ASSUME NEW t \in {"app", "async"}, openOrReuse(t)
         PROVE TableLive' /\ DetachIsLast'
    <2>1. TableLive'
      BY <1>20 DEF openOrReuse
    <2>2. DetachIsLast'
      BY <1>20 DEF openOrReuse
    <2> QED BY <2>1, <2>2
  <1>21. ASSUME NEW t \in {"app", "async"}, postOpen(t)
         PROVE TableLive' /\ DetachIsLast'
    BY <1>21 DEF postOpen
  <1> QED BY <1>1, <1>2, <1>3, <1>4, <1>5, <1>6, <1>7, <1>8, <1>9,
        <1>10, <1>11, <1>12, <1>13, <1>14, <1>15, <1>16, <1>17, <1>18, <1>19,
        <1>20, <1>21 DEF Next, AppStep, AsyncStep

LEMMA InitIInv == Init => IInv
  <1> SUFFICES ASSUME Init PROVE TableLive /\ DetachIsLast
    BY InitTypeOK DEF IInv
  <1> QED BY DEF Init, TableLive, DetachIsLast, queued

LEMMA NextIInv == IInv /\ [Next]_vars => IInv'
  <1> SUFFICES ASSUME IInv, [Next]_vars PROVE IInv' OBVIOUS
  <1>1. CASE Next
    BY <1>1, StepTypeOK, StepTable DEF IInv
  <1>2. CASE UNCHANGED vars
    BY <1>2 DEF vars, system, keys, table, tasks, threads, told, flags, IInv,
       TypeOK, FlagsTypeOK, SetsTypeOK, TableTypeOK, QueueTypeOK, PcTypeOK,
       TableLive, DetachIsLast, queued
  <1> QED BY <1>1, <1>2

\* Every variable of the monitor keeps its type (USBMonitor.java:76-105).
THEOREM TypeCorrect == Spec => []TypeOK
  <1>1. IInv => TypeOK BY DEF IInv
  <1> QED BY InitIInv, NextIInv, <1>1, PTL DEF Spec

\* A block in the table is open and of its device alone, and a device whose
\* detach was told has none: opening a block cannot race with the detach.
THEOREM TableHoldsOpenBlocks == Spec => []TableLive
  <1>1. IInv => TableLive BY DEF IInv
  <1> QED BY InitIInv, NextIInv, <1>1, PTL DEF Spec

=============================================================================
