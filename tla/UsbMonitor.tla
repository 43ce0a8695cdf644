----------------------------- MODULE UsbMonitor -----------------------------
(***************************************************************************)
(* The monitor of USB devices: serenegiant/usb/USBMonitor.java.  Threads:   *)
(*                                                                         *)
(*   app    calls requestPermission and destroy (CameraHelper's thread);    *)
(*          register, unregister and the camera's use of a control block    *)
(*          may come from any thread and are one step each;                *)
(*   async  mAsyncHandler: broadcasts received and the device check.        *)
(*                                                                         *)
(* Android is external: it keeps the list of devices, asks the user for the *)
(* permission, and broadcasts a detach after the list has changed; a        *)
(* broadcast reaches a receiver registered at that time or nobody.  A       *)
(* section under mOpenedCtrlBlocks is one step.  The monitor's own lock is  *)
(* held over several steps only by the handler of a permission result; the  *)
(* device check locks itself instead.  The notices are posted to one        *)
(* listener thread, so that their order is that of the posts.  A device     *)
(* attaches and detaches once: another attach has another name.  Device     *)
(* filters, device information and interfaces are left out.                *)
(***************************************************************************)
EXTENDS Naturals, Sequences, FiniteSets

CONSTANTS
    Devices,
    MaxBlocks,      \* bound on the control blocks created
    MaxRegisters    \* bound on the calls of register

ASSUME MonitorAssumption == 
    Devices # {} /\ MaxBlocks \in Nat /\ MaxRegisters \in Nat

VARIABLES
    phase,          \* of each device: not yet attached, in the list, gone
    permitted,      \* devices the user gave permission for
    dialog,         \* devices the user is being asked for
    broadcasts,     \* sent by Android and not delivered
    registered,     \* mPermissionIntent # null and the receiver registered
    registers,      \* calls of register so far
    mDestroyed,
    quit,           \* the looper of mAsyncHandler was told to quit
    mDetectedDeviceKeys, mHasPermissionDeviceKeys,
    mOpenedCtrlBlocks,  \* of each device the block in the table, 0 for none
    blocks,         \* blocks created so far; they are numbered
    opened,         \* blocks whose mConnection is not null
    clones,         \* devices that UVCCamera holds a clone's connection of
    queue,          \* broadcasts posted to mAsyncHandler
    checks,         \* posts of mDeviceCheckRunnable that are due
    pc, dev,        \* of each thread: place and device in hand
    devices,        \* the list the device check has read
    attachTold, detachTold, \* devices onAttach, onDetach was posted for
    unanswered      \* devices requested since register, nothing told yet

NoDevice == CHOOSE d \in Devices : TRUE  \* of an idle thread

system  == <<phase, permitted, dialog, broadcasts>>
keys    == <<mDetectedDeviceKeys, mHasPermissionDeviceKeys>>
table   == <<mOpenedCtrlBlocks, blocks, opened>>
tasks   == <<queue, checks>>
threads == <<pc, dev, devices>>
told    == <<attachTold, detachTold, unanswered>>
flags   == <<registered, registers, mDestroyed, quit>>
vars    == <<system, keys, table, clones, tasks, threads, told, flags>>

Kinds == {"granted", "denied", "detached"}

InProcessOpen == {"process", "table", "post"}
AppPlaces == InProcessOpen \cup {"idle", "destroy", "close", "quit"}
AsyncPlaces == InProcessOpen \cup {"idle", "detach", "scan"}

FlagsTypeOK ==
    /\ phase \in [Devices -> {"out", "in", "gone"}]
    /\ registered \in BOOLEAN /\ mDestroyed \in BOOLEAN /\ quit \in BOOLEAN

SetsTypeOK ==
    /\ permitted \subseteq Devices /\ dialog \subseteq Devices
    /\ mDetectedDeviceKeys \subseteq Devices
    /\ mHasPermissionDeviceKeys \subseteq Devices
    /\ clones \subseteq Devices /\ devices \subseteq Devices
    /\ attachTold \subseteq Devices /\ detachTold \subseteq Devices
    /\ unanswered \subseteq Devices

TableTypeOK ==
    /\ mOpenedCtrlBlocks \in [Devices -> 0 .. MaxBlocks]
    /\ blocks \in 0 .. MaxBlocks /\ opened \subseteq 1 .. blocks
    /\ registers \in 0 .. MaxRegisters /\ checks \in Nat

QueueTypeOK ==
    /\ broadcasts \subseteq Kinds \X Devices
    /\ queue \in Seq(Kinds \X Devices)

PcTypeOK ==
    /\ pc \in [{"app", "async"} -> AppPlaces \cup AsyncPlaces]
    /\ pc["app"] \in AppPlaces /\ pc["async"] \in AsyncPlaces
    /\ dev \in [{"app", "async"} -> Devices]

TypeOK == FlagsTypeOK /\ SetsTypeOK /\ TableTypeOK /\ QueueTypeOK /\ PcTypeOK

Init ==
    /\ phase \in [Devices -> {"out", "in"}]
    /\ permitted \in SUBSET {d \in Devices : phase[d] = "in"}
    /\ dialog = {} /\ broadcasts = {}
    /\ registered = FALSE /\ registers = 0
    /\ mDestroyed = FALSE /\ quit = FALSE
    /\ mDetectedDeviceKeys = {} /\ mHasPermissionDeviceKeys = {}
    /\ mOpenedCtrlBlocks = [d \in Devices |-> 0]
    /\ blocks = 0 /\ opened = {} /\ clones = {}
    /\ queue = <<>> /\ checks = 0
    /\ pc = [t \in {"app", "async"} |-> "idle"]
    /\ dev = [t \in {"app", "async"} |-> NoDevice]
    /\ devices = {} /\ attachTold = {} /\ detachTold = {} /\ unanswered = {}

goto(t, place) == pc' = [pc EXCEPT ![t] = place]

done(t) == goto(t, "idle") /\ dev' = [dev EXCEPT ![t] = NoDevice]

InList == {d \in Devices : phase[d] = "in"}

\* The monitor's lock is free for thread t: async holds it from the receipt of
\* a permission to the end of processOpenDevice.
MonitorFree(t) == t = "async" \/ pc["async"] \notin InProcessOpen

----------------------------------------------------------------------------
(* Android, external. *)

attach(d) ==
    /\ phase[d] = "out"
    /\ phase' = [phase EXCEPT ![d] = "in"]
    /\ permitted' \in {permitted, permitted \cup {d}}
    /\ UNCHANGED <<dialog, broadcasts, keys, table, clones, tasks, threads,
                   told, flags>>

\* A dialog that is open for the device is closed and answers "denied".
detach(d) ==
    /\ phase[d] = "in"
    /\ phase' = [phase EXCEPT ![d] = "gone"]
    /\ permitted' = permitted \ {d}
    /\ dialog' = dialog \ {d}
    /\ broadcasts' = broadcasts \cup {<<"detached", d>>}
            \cup {<<"denied", e>> : e \in dialog \cap {d}}
    /\ UNCHANGED <<keys, table, clones, tasks, threads, told, flags>>

answer(d) ==
    /\ d \in dialog
    /\ dialog' = dialog \ {d}
    /\ \/ /\ permitted' = permitted \cup {d}
          /\ broadcasts' = broadcasts \cup {<<"granted", d>>}
       \/ /\ permitted' = permitted
          /\ broadcasts' = broadcasts \cup {<<"denied", d>>}
    /\ UNCHANGED <<phase, keys, table, clones, tasks, threads, told, flags>>

\* onReceive posts to mAsyncHandler, whose looper drops it once it has quit.
onReceive(m) ==
    /\ m \in broadcasts
    /\ broadcasts' = broadcasts \ {m}
    /\ queue' = IF registered /\ ~quit THEN Append(queue, m) ELSE queue
    /\ UNCHANGED <<phase, permitted, dialog, keys, table, clones, checks,
                   threads, told, flags>>

----------------------------------------------------------------------------
(* Calls of any thread. *)

register ==
    /\ MonitorFree("app") /\ registers < MaxRegisters
    /\ ~mDestroyed /\ ~registered
    /\ registered' = TRUE /\ registers' = registers + 1
    /\ mDetectedDeviceKeys' = {}
    /\ checks' = checks + 1
    /\ UNCHANGED <<system, mHasPermissionDeviceKeys, table, clones, queue,
                   threads, told, mDestroyed, quit>>

\* Broadcasts already posted to mAsyncHandler stay there, and so does a device
\* check that is running.
Unregister ==
    /\ MonitorFree("app")
    /\ mDetectedDeviceKeys' = {}
    /\ checks' = IF mDestroyed THEN checks ELSE 0
    /\ registered' = FALSE
    /\ unanswered' = {}
    /\ UNCHANGED <<system, mHasPermissionDeviceKeys, table, clones, queue, dev,
                   devices, attachTold, detachTold, registers, mDestroyed, quit>>

unregister == registered /\ Unregister /\ UNCHANGED pc

\* UVCCamera.open clones a block it was given with onDeviceOpen and opens a
\* connection of its own; this needs the device and the permission.
cloneOpen(d) ==
    /\ d \notin clones /\ d \in InList \cap permitted
    /\ mOpenedCtrlBlocks[d] \in opened
    /\ clones' = clones \cup {d}
    /\ UNCHANGED <<system, keys, table, tasks, threads, told, flags>>

\* UVCCamera.close closes the clone, which takes the device's block out of the
\* table without closing it.  (What it posts is onDeviceClose of the clone.)
cloneClose(d) ==
    /\ d \in clones
    /\ clones' = clones \ {d}
    /\ mOpenedCtrlBlocks' = [mOpenedCtrlBlocks EXCEPT ![d] = 0]
    /\ UNCHANGED <<system, keys, blocks, opened, tasks, threads, told, flags>>

----------------------------------------------------------------------------
(* processOpenDevice and processCancel, of either thread. *)

updateDeviceKeys(d, hasPermission) ==
    /\ mDetectedDeviceKeys' = mDetectedDeviceKeys \cup {d}
    /\ mHasPermissionDeviceKeys' = IF hasPermission
                                   THEN mHasPermissionDeviceKeys \cup {d}
                                   ELSE mHasPermissionDeviceKeys \ {d}

processOpenDevice(t) ==
    /\ pc[t] = "process" /\ MonitorFree(t)
    /\ IF mDestroyed THEN done(t) /\ UNCHANGED keys
       ELSE goto(t, "table") /\ updateDeviceKeys(dev[t], TRUE) /\ UNCHANGED dev
    /\ UNCHANGED <<system, table, clones, tasks, devices, told, flags>>

\* The section under mOpenedCtrlBlocks: a block that is in the table is used
\* again; otherwise one is opened, which needs the device and the permission
\* and may fail nevertheless.
openOrReuse(t) ==
    /\ pc[t] = "table"
    /\ goto(t, "post")
    /\ LET d == dev[t]
           b == blocks + 1
       IN \/ UNCHANGED table
          \/ /\ mOpenedCtrlBlocks[d] = 0 /\ b <= MaxBlocks
             /\ d \in InList \cap permitted
             /\ blocks' = b /\ opened' = opened \cup {b}
             /\ mOpenedCtrlBlocks' = [mOpenedCtrlBlocks EXCEPT ![d] = b]
    /\ UNCHANGED <<system, keys, clones, tasks, dev, devices, told, flags>>

\* onDeviceOpen, or onError after a failure.
postOpen(t) ==
    /\ pc[t] = "post"
    /\ done(t)
    /\ unanswered' = unanswered \ {dev[t]}
    /\ UNCHANGED <<system, keys, table, clones, tasks, devices, attachTold,
                   detachTold, flags>>

\* Mutant: the caller is not told that the request was cancelled.
processCancelSilent(d) ==
    /\ IF mDestroyed THEN UNCHANGED keys ELSE updateDeviceKeys(d, FALSE)
    /\ UNCHANGED unanswered

processCancel(d) ==
    IF mDestroyed THEN UNCHANGED <<keys, unanswered>>
    ELSE /\ updateDeviceKeys(d, FALSE)
         /\ unanswered' = unanswered \ {d}

----------------------------------------------------------------------------
(* The caller. *)

\* The permission of a device already requested is not requested again before
\* the answer; mUsbManager.requestPermission throws if the device is gone, and
\* may throw if not.
requestPermission(d) ==
    /\ pc["app"] = "idle" /\ phase[d] # "out" /\ d \notin unanswered
    /\ MonitorFree("app")
    /\ \/ /\ registered /\ ~mDestroyed /\ d \in permitted
          /\ dev' = [dev EXCEPT !["app"] = d]
          /\ goto("app", "process")
          /\ unanswered' = unanswered \cup {d}
          /\ UNCHANGED <<dialog, keys>>
       \/ /\ registered /\ ~mDestroyed /\ d \in InList \ permitted
          /\ dialog' = dialog \cup {d}
          /\ unanswered' = unanswered \cup {d}
          /\ UNCHANGED <<pc, dev, keys>>
       \/ /\ d \notin permitted \/ ~registered
          /\ processCancel(d)
          /\ UNCHANGED <<dialog, pc, dev>>
    /\ UNCHANGED <<phase, permitted, broadcasts, table, clones, tasks, devices,
                   attachTold, detachTold, flags>>

destroy ==
    /\ pc["app"] = "idle" /\ Unregister /\ goto("app", "destroy")

destroyMark ==
    /\ pc["app"] = "destroy"
    /\ goto("app", IF mDestroyed THEN "idle" ELSE "close")
    /\ mDestroyed' = TRUE
    /\ UNCHANGED <<system, keys, table, clones, tasks, dev, devices,
                   told, registered, registers, quit>>

\* The loop takes a key out of the map it walks: with a second key the walk
\* ends with an exception after the first block, and the rest is cleared.
closeAll ==
    /\ pc["app"] = "close"
    /\ goto("app", "quit")
    /\ LET inTable == {mOpenedCtrlBlocks[d] : d \in Devices} \ {0}
       IN IF inTable = {} THEN opened' = opened
          ELSE \E b \in inTable : opened' = opened \ {b}
    /\ mOpenedCtrlBlocks' = [d \in Devices |-> 0]
    /\ UNCHANGED <<system, keys, blocks, clones, tasks, dev, devices,
                   told, flags>>

\* A message that is being handled goes on.
quitLooper ==
    /\ pc["app"] = "quit"
    /\ goto("app", "idle")
    /\ quit' = TRUE /\ queue' = <<>> /\ checks' = 0
    /\ UNCHANGED <<system, keys, table, clones, dev, devices, told,
                   registered, registers, mDestroyed>>

AppStep ==
    \/ processOpenDevice("app") \/ openOrReuse("app") \/ postOpen("app")
    \/ destroyMark \/ closeAll \/ quitLooper

----------------------------------------------------------------------------
(* mAsyncHandler. *)

receive(kind, d) ==
    /\ pc["async"] = "idle" /\ queue # <<>> /\ Head(queue) = <<kind, d>>
    /\ queue' = Tail(queue)

receivePermission ==
    /\ \E d \in Devices :
          \/ /\ receive("granted", d) /\ ~mDestroyed
             /\ goto("async", "process") /\ dev' = [dev EXCEPT !["async"] = d]
             /\ UNCHANGED <<keys, unanswered>>
          \/ /\ receive("granted", d) /\ mDestroyed
             /\ UNCHANGED <<pc, dev, keys, unanswered>>
          \/ receive("denied", d) /\ processCancel(d) /\ UNCHANGED <<pc, dev>>
    /\ UNCHANGED <<system, table, clones, checks, devices, attachTold,
                   detachTold, flags>>

\* Mutant: the block is closed and stays in the table.
receiveDetachKeeps ==
    /\ \E d \in Devices :
          /\ receive("detached", d)
          /\ IF mDestroyed THEN UNCHANGED <<pc, dev, opened>>
             ELSE /\ goto("async", "detach")
                  /\ dev' = [dev EXCEPT !["async"] = d]
                  /\ opened' = opened \ {mOpenedCtrlBlocks[d]}
    /\ UNCHANGED <<system, keys, mOpenedCtrlBlocks, blocks, clones, checks,
                   devices, told, flags>>

\* The device's block is removed and closed; onDetach follows in a step of its
\* own, after mOpenedCtrlBlocks was let go.
receiveDetach ==
    /\ \E d \in Devices :
          /\ receive("detached", d)
          /\ IF mDestroyed THEN UNCHANGED <<pc, dev, mOpenedCtrlBlocks, opened>>
             ELSE /\ goto("async", "detach")
                  /\ dev' = [dev EXCEPT !["async"] = d]
                  /\ opened' = opened \ {mOpenedCtrlBlocks[d]}
                  /\ mOpenedCtrlBlocks' = [mOpenedCtrlBlocks EXCEPT ![d] = 0]
    /\ UNCHANGED <<system, keys, blocks, clones, checks, devices, told, flags>>

processDetach ==
    /\ pc["async"] = "detach"
    /\ done("async")
    /\ detachTold' = IF mDestroyed THEN detachTold
                     ELSE detachTold \cup {dev["async"]}
    /\ UNCHANGED <<system, keys, table, clones, tasks, devices, attachTold,
                   unanswered, flags>>

\* mDeviceCheckRunnable reads the list of devices ...
deviceCheck ==
    /\ pc["async"] = "idle" /\ checks > 0
    /\ checks' = checks - 1
    /\ IF mDestroyed THEN UNCHANGED <<pc, devices>>
       ELSE goto("async", "scan") /\ devices' = InList
    /\ UNCHANGED <<system, keys, table, clones, queue, dev, told, flags>>

\* ... then exchanges the sets of keys, tells of devices that are new or newly
\* permitted, and posts itself again whatever unregister did in between.
needNotify ==
    {d \in devices : \/ d \notin mDetectedDeviceKeys
                     \/ d \in permitted \ mHasPermissionDeviceKeys}

\* Mutant: the check posts itself again only when there was something to tell.
notifyNewOnce ==
    /\ pc["async"] = "scan"
    /\ goto("async", "idle")
    /\ mDetectedDeviceKeys' = devices
    /\ mHasPermissionDeviceKeys' = devices \cap permitted
    /\ attachTold' = attachTold \cup needNotify
    /\ checks' = IF quit \/ needNotify = {} THEN checks ELSE checks + 1
    /\ devices' = {}
    /\ UNCHANGED <<system, table, clones, queue, dev, detachTold,
                   unanswered, flags>>

notifyNew ==
    /\ pc["async"] = "scan"
    /\ goto("async", "idle")
    /\ mDetectedDeviceKeys' = devices
    /\ mHasPermissionDeviceKeys' = devices \cap permitted
    /\ attachTold' = attachTold \cup needNotify
    /\ checks' = IF quit THEN checks ELSE checks + 1
    /\ devices' = {}
    /\ UNCHANGED <<system, table, clones, queue, dev, detachTold,
                   unanswered, flags>>

AsyncStep ==
    \/ receivePermission \/ receiveDetach \/ processDetach
    \/ deviceCheck \/ notifyNew
    \/ processOpenDevice("async") \/ openOrReuse("async") \/ postOpen("async")

----------------------------------------------------------------------------
Next ==
    \/ \E d \in Devices : \/ attach(d) \/ detach(d) \/ answer(d)
                          \/ cloneOpen(d) \/ cloneClose(d)
                          \/ requestPermission(d)
    \/ \E m \in broadcasts : onReceive(m)
    \/ register \/ unregister \/ destroy
    \/ AppStep \/ AsyncStep

Spec == Init /\ [][Next]_vars

\* A looper hands out its messages in the order they are due, so that neither
\* the device check nor the broadcasts keep the other waiting for ever.
Fairness ==
    /\ WF_vars(AppStep) /\ WF_vars(AsyncStep)
    /\ SF_vars(receivePermission \/ receiveDetach) /\ SF_vars(deviceCheck)
    /\ \A d \in Devices : WF_vars(answer(d))
    /\ \A m \in Kinds \X Devices : WF_vars(onReceive(m))

FairSpec == Spec /\ Fairness

----------------------------------------------------------------------------
(* A block in the table is one whose connection is open, of that device     *)
(* alone, and no device is in the table once its detach was told: so that   *)
(* onDeviceOpen with createNew = false never hands out a closed block, and  *)
(* an open that races with the detach leaves nothing behind.               *)
TableLive ==
    \A d \in Devices : mOpenedCtrlBlocks[d] # 0 =>
        /\ mOpenedCtrlBlocks[d] \in opened
        /\ d \notin detachTold
        /\ \A e \in Devices \ {d} : mOpenedCtrlBlocks[e] # mOpenedCtrlBlocks[d]

(* Who asked for a device is told of an open, a cancel or an error, unless  *)
(* the monitor is unregistered meanwhile: an answer of the user that comes  *)
(* then is lost (and CameraConnectionService waits for it).                *)
RequestAnswered == \A d \in Devices : d \in unanswered ~> d \notin unanswered

(* While the monitor is registered the device check keeps running, so that  *)
(* a device that attaches is told, or has been asked for in between, or     *)
(* goes again.                                                             *)
AttachTold ==
    \A d \in Devices :
        /\ registered /\ phase[d] = "in"
        /\ d \notin attachTold \cup mDetectedDeviceKeys
        ~> \/ d \in attachTold \cup mDetectedDeviceKeys
           \/ phase[d] = "gone" \/ ~registered \/ mDestroyed

=============================================================================
