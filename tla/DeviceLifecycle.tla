---------------------------- MODULE DeviceLifecycle ---------------------------
(***************************************************************************)
(* The life of one device: netana_registerdevice, netana_tkit_deviceadd,   *)
(* netana_tkit_deviceremove, netana_restart_device and                     *)
(* netana_unregisterdevice, with open and release, beside the hard         *)
(* interrupt, the DSR thread and the firmware.                             *)
(*                                                                         *)
(* The device is one that is reset and gets its firmware downloaded        *)
(* (ulFlashBased = 0).  The callers are one thread: an identity update     *)
(* restarts the device through an open handle, and an open file keeps the  *)
(* module loaded.  A capture is not active at a restart.                   *)
(*                                                                         *)
(* Of the handshake bits two are kept: CLKOFF, a command, and STATUS, the  *)
(* indication NEWSTATUS.  The interrupt masking and the handshake copies   *)
(* are those of module Capture; the snapshot buffer that is not in turn is *)
(* never valid and is left out.                                            *)
(***************************************************************************)
EXTENDS Naturals

CONSTANTS
    MaxCalls,    \* bound: calls
    MaxInd,      \* bound: indications of the firmware
    Failures     \* what may go wrong

(* "thread": kthread_run fails, "create": no lock or event, "download":    *)
(* reset, boot loader or firmware, "irq": request_irq, "sysfs": the        *)
(* attributes, "noAck": the acknowledge of CLKOFF.                         *)
ASSUME LifecycleAssumption ==
    /\ {MaxCalls, MaxInd} \subseteq Nat
    /\ Failures \subseteq {"thread", "create", "download", "irq", "sysfs", "noAck"}

VARIABLES
    \* firmware, netX and host halves of the handshake cell, interrupt
    firmware, usNetxFlags, ulHostFlags, irqPending, indicated,
    \* IRQEnable_0, the handler of request_irq
    irqEnabled, handler,
    \* DSR thread and netana_info: step, dsr_sig, kthread_stop, snapshot
    dsrPc, dsr_sig, shouldStop, fValid, snap, ulNetxFlags,
    \* NETANA_DEVINSTANCE_T: events, pvLock; in g_tCardList
    events, lock, listed,
    \* netana_tk_device
    \* and the file open on it
    registered, addsucceded, hdevice, ulOpenCnt, file,
    \* the caller: step, function, lRet of the remove, result, calls
    pc, op, lRet, ret, calls

fwVars     == <<firmware, usNetxFlags, ulHostFlags, irqPending, indicated>>
irqVars    == <<irqEnabled, handler>>
dsrVars    == <<dsrPc, dsr_sig, shouldStop, fValid, snap, ulNetxFlags>>
devVars    == <<events, lock, listed>>
handleVars == <<registered, addsucceded, hdevice, ulOpenCnt, file>>
callVars   == <<pc, op, lRet, ret, calls>>
vars == <<fwVars, irqVars, dsrVars, devVars, handleVars, callVars>>

Toggle(S, b) == IF b \in S THEN S \ {b} ELSE S \cup {b}
Xor(S, T)    == (S \ T) \cup (T \ S)

-----------------------------------------------------------------------------
Init ==
    /\ firmware = "off" /\ usNetxFlags = {} /\ ulHostFlags = {}
    /\ irqPending = FALSE /\ indicated = 0
    /\ irqEnabled = FALSE /\ handler = FALSE
    /\ dsrPc = "none" /\ dsr_sig = FALSE /\ shouldStop = FALSE
    /\ fValid = FALSE /\ snap = {} /\ ulNetxFlags = {}
    /\ events = FALSE /\ lock = FALSE /\ listed = FALSE
    /\ registered = FALSE /\ addsucceded = FALSE
    /\ hdevice = FALSE /\ ulOpenCnt = 0 /\ file = FALSE
    /\ pc = "idle" /\ op = "none" /\ lRet = "OK" /\ ret = "none" /\ calls = 0

-----------------------------------------------------------------------------
(* The firmware (external). *)

notFirmware == <<ulHostFlags, irqVars, dsrVars, devVars, handleVars, callVars>>

(* NEWSTATUS, when the host has acknowledged the previous one.             *)
FwStatus ==
    /\ firmware = "running" /\ indicated < MaxInd
    /\ "STATUS" \notin Xor(usNetxFlags, ulHostFlags)
    /\ usNetxFlags' = Toggle(usNetxFlags, "STATUS")
    /\ irqPending' = TRUE /\ indicated' = indicated + 1
    /\ UNCHANGED <<firmware, notFirmware>>

(* The clock-off command: acknowledged, and only a download gets the       *)
(* firmware out of its safe state.                                         *)
FwClockOff ==
    /\ firmware = "running"
    /\ "CLKOFF" \in Xor(usNetxFlags, ulHostFlags)
    /\ firmware' = "safe"
    /\ usNetxFlags' = Toggle(usNetxFlags, "CLKOFF")
    /\ irqPending' = TRUE
    /\ UNCHANGED <<indicated, notFirmware>>

Firmware == FwStatus \/ FwClockOff

-----------------------------------------------------------------------------
(* netana_isr and the DSR thread. *)

(* netana_tkit_isr_handler: the snapshot confirms the interrupt.           *)
Snapshot == fValid' = TRUE /\ snap' = usNetxFlags /\ irqPending' = FALSE

\* Mutant: the signal is set, the thread not woken.
NoWakeUp == UNCHANGED dsrPc

\* A sleeping thread tests its condition again when it is woken.
WakeUp == dsrPc' = IF dsrPc = "sleep" THEN "test" ELSE dsrPc

Isr ==
    /\ handler /\ irqEnabled /\ irqPending
    /\ Snapshot
    /\ irqEnabled' = FALSE
    /\ dsr_sig' = TRUE /\ WakeUp
    /\ UNCHANGED <<firmware, usNetxFlags, ulHostFlags, indicated, handler,
                   shouldStop, ulNetxFlags, devVars, handleVars, callVars>>

notDsr == <<firmware, usNetxFlags, irqPending, indicated, handler, devVars,
            handleVars, callVars>>

(* wait_event_interruptible(dsr_sig)                                       *)
DsrTest ==
    /\ dsrPc = "test"
    /\ dsrPc' = IF dsr_sig THEN "clear" ELSE "sleep"
    /\ UNCHANGED <<ulHostFlags, irqEnabled, dsr_sig, shouldStop, fValid, snap,
                   ulNetxFlags, notDsr>>

DsrClear ==
    /\ dsrPc = "clear"
    /\ dsr_sig' = FALSE
    /\ dsrPc' = "check"
    /\ UNCHANGED <<ulHostFlags, irqEnabled, shouldStop, fValid, snap,
                   ulNetxFlags, notDsr>>

\* kthread_should_stop()
DsrCheck ==
    /\ dsrPc = "check"
    /\ dsrPc' = IF shouldStop THEN "ended" ELSE "handler"
    /\ UNCHANGED <<ulHostFlags, irqEnabled, dsr_sig, shouldStop, fValid, snap,
                   ulNetxFlags, notDsr>>

(* netana_tkit_dsr_handler: nothing without a valid snapshot; with one the *)
(* copy of the netX flags is brought up to date and waiters are signalled. *)
DsrHandler ==
    /\ dsrPc = "handler"
    /\ \/ /\ ~fValid
          /\ dsrPc' = "unmask"
          /\ UNCHANGED <<fValid, snap, ulNetxFlags>>
       \/ /\ fValid
          /\ fValid' = FALSE /\ snap' = {}
          /\ ulNetxFlags' = snap
          /\ dsrPc' = IF "STATUS" \in Xor(ulNetxFlags, snap) THEN "process"
                                                             ELSE "unmask"
    /\ UNCHANGED <<ulHostFlags, irqEnabled, dsr_sig, shouldStop, notDsr>>

(* netana_tkit_process: the status is acknowledged under pvLock.           *)
DsrProcess ==
    /\ dsrPc = "process"
    /\ ulHostFlags' = IF "STATUS" \in Xor(ulNetxFlags, ulHostFlags)
                      THEN Toggle(ulHostFlags, "STATUS") ELSE ulHostFlags
    /\ dsrPc' = "unmask"
    /\ UNCHANGED <<irqEnabled, dsr_sig, shouldStop, fValid, snap, ulNetxFlags,
                   notDsr>>

DsrUnmask ==
    /\ dsrPc = "unmask"
    /\ irqEnabled' = TRUE
    /\ dsrPc' = "test"
    /\ UNCHANGED <<ulHostFlags, dsr_sig, shouldStop, fValid, snap, ulNetxFlags,
                   notDsr>>

Dsr ==
    \/ DsrTest \/ DsrClear \/ DsrCheck \/ DsrHandler \/ DsrProcess
    \/ DsrUnmask

-----------------------------------------------------------------------------
(* netana_open and netana_release, each one step. *)

notCaller == <<fwVars, irqVars, dsrVars, devVars>>

Call == pc = "idle" /\ calls < MaxCalls /\ calls' = calls + 1

Open ==
    /\ Call /\ ~file
    /\ registered /\ addsucceded /\ ~hdevice
    /\ IF listed /\ ulOpenCnt = 0
       THEN /\ ulOpenCnt' = 1 /\ hdevice' = TRUE /\ file' = TRUE
            /\ ret' = "OK"
       ELSE ret' = "EIO" /\ UNCHANGED <<ulOpenCnt, hdevice, file>>
    /\ UNCHANGED <<registered, addsucceded, pc, op, lRet, notCaller>>

\* netana_close_device
CloseHandle ==
    /\ ulOpenCnt' = IF hdevice /\ ulOpenCnt > 0 THEN ulOpenCnt - 1 ELSE ulOpenCnt
    /\ hdevice' = FALSE

Release ==
    /\ pc = "idle" /\ file
    /\ CloseHandle
    /\ file' = FALSE
    /\ UNCHANGED <<registered, addsucceded, callVars, notCaller>>

-----------------------------------------------------------------------------
(* The functions that add and remove the device. *)

Goto(step) == pc' = step
Done(value) == pc' = "idle" /\ ret' = value

(* netana_registerdevice up to netana_tkit_deviceadd.  kthread_run answers *)
(* a failure with an error pointer, which is compared with NULL: dsrthread *)
(* is the error, and the device is added as if there were a thread.        *)
Register ==
    /\ Call /\ ~registered
    /\ op' = "register"
    /\ \/ dsrPc' = "test"
       \/ "thread" \in Failures /\ dsrPc' = "error"
    /\ Goto("create")
    /\ UNCHANGED <<fwVars, irqVars, dsr_sig, shouldStop, fValid, snap,
                   ulNetxFlags, devVars, handleVars, lRet, ret>>

(* netana_ident_update restarts the device of the open handle.             *)
Restart ==
    /\ Call /\ hdevice
    /\ op' = "restart"
    /\ Goto("clockOff")
    /\ UNCHANGED <<handleVars, lRet, ret, notCaller>>

(* netana_unregisterdevice; an open file keeps the module loaded.          *)
Unregister ==
    /\ Call /\ registered /\ ~file
    /\ op' = "unregister"
    /\ Goto(IF addsucceded THEN "clockOff" ELSE "stopSig")
    /\ UNCHANGED <<handleVars, lRet, ret, notCaller>>

-----------------------------------------------------------------------------
(* netana_tkit_deviceadd. *)

notAdd == <<handleVars, op, lRet, ret, calls>>

AddCreate ==
    /\ pc = "create"
    /\ \/ /\ "create" \in Failures
          /\ Goto("addFailed")
          /\ UNCHANGED <<events, lock, irqEnabled>>
       \/ /\ events' = TRUE /\ lock' = TRUE
          /\ irqEnabled' = FALSE
          /\ Goto("download")
    /\ UNCHANGED <<fwVars, handler, dsrVars, listed, notAdd>>

(* netx_reset, the boot loader and the firmware: all bits are 0 again.     *)
AddDownload ==
    /\ pc = "download"
    /\ usNetxFlags' = {} /\ ulHostFlags' = {} /\ irqPending' = FALSE
    /\ \/ "download" \in Failures /\ firmware' = "off" /\ Goto("addFailed")
       \/ firmware' = "running" /\ Goto("flags")
    /\ UNCHANGED <<indicated, irqVars, dsrVars, devVars, notAdd>>

\* Mutant: the copy of the netX flags is the one of before the reset.
AddFlagsNotRead ==
    /\ pc = "flags" /\ Goto("list")
    /\ UNCHANGED <<fwVars, irqVars, dsrVars, devVars, notAdd>>

(* The handshake flags are read; a status indicated by now is acknowledged. *)
AddFlags ==
    /\ pc = "flags"
    /\ ulNetxFlags' = usNetxFlags
    /\ ulHostFlags' = IF "STATUS" \in Xor(usNetxFlags, ulHostFlags)
                      THEN Toggle(ulHostFlags, "STATUS") ELSE ulHostFlags
    /\ Goto("list")
    /\ UNCHANGED <<firmware, usNetxFlags, irqPending, indicated, irqVars,
                   dsrPc, dsr_sig, shouldStop, fValid, snap, devVars, notAdd>>

AddList ==
    /\ pc = "list"
    /\ listed' = TRUE
    /\ Goto("snapshot")
    /\ UNCHANGED <<fwVars, irqVars, dsrVars, events, lock, notAdd>>

(* netana_tkit_isr_handler answers OTHERDEVICE or DSR_REQUESTED, never the *)
(* value it is compared with: netana_tkit_dsr_handler is not called.       *)
AddSnapshot ==
    /\ pc = "snapshot"
    /\ IF irqPending THEN Snapshot ELSE UNCHANGED <<fValid, snap, irqPending>>
    /\ Goto("requestIrq")
    /\ UNCHANGED <<firmware, usNetxFlags, ulHostFlags, indicated, irqVars,
                   dsrPc, dsr_sig, shouldStop, ulNetxFlags, devVars, notAdd>>

(* OS_EnableDeviceInterrupts; a failed request_irq is only printed.        *)
AddIrq ==
    /\ pc = "requestIrq"
    /\ \/ handler' = TRUE /\ irqEnabled' = TRUE
       \/ "irq" \in Failures /\ UNCHANGED irqVars
    /\ Goto("added")
    /\ UNCHANGED <<fwVars, dsrVars, devVars, notAdd>>

\* Mutant: the events and the lock stay.
KeepEvents == UNCHANGED <<events, lock>>

\* DeleteIrqEvents and OS_DeleteLock at the end of a failed add.
DropEvents == events' = FALSE /\ lock' = FALSE

(* The add failed: netana_registerdevice gives up, netana_restart_device   *)
(* closes the handle.                                                      *)
AddFailed ==
    /\ pc = "addFailed"
    /\ DropEvents
    /\ Goto(IF op = "restart" THEN "restartFailed" ELSE "stopSig")
    /\ UNCHANGED <<fwVars, irqVars, dsrVars, listed, notAdd>>

AddDone ==
    /\ pc = "added"
    /\ \/ /\ op = "restart"
          /\ Done("OK") /\ UNCHANGED <<op, registered, addsucceded>>
       \/ /\ op = "register"
          /\ registered' = TRUE /\ addsucceded' = TRUE
          /\ Done("OK") /\ UNCHANGED op
       \/ /\ op = "register" /\ "sysfs" \in Failures
          /\ op' = "undo" /\ Goto("clockOff")
          /\ UNCHANGED <<ret, registered, addsucceded>>
    /\ UNCHANGED <<hdevice, ulOpenCnt, file, lRet, calls, notCaller>>

(* netana_restart_device and netana_ident_update after a failure.          *)
RestartFailed ==
    /\ pc = "restartFailed"
    /\ CloseHandle
    /\ addsucceded' = FALSE
    /\ Done("HWRESET_ERROR")
    /\ UNCHANGED <<registered, file, op, lRet, calls, notCaller>>

-----------------------------------------------------------------------------
(* netana_tkit_deviceremove. *)

notRemove == <<handleVars, op, ret, calls>>

ClockOff ==
    /\ pc = "clockOff"
    /\ ulHostFlags' = Toggle(ulHostFlags, "CLKOFF")
    /\ Goto("ackWait")
    /\ UNCHANGED <<firmware, usNetxFlags, irqPending, indicated, irqVars,
                   dsrVars, devVars, lRet, notRemove>>

(* netana_tkit_WaitForBitState: the DSR must bring the acknowledge; without *)
(* an interrupt handler or a DSR thread, and if "noAck", the wait runs out. *)
AckWait ==
    /\ pc = "ackWait"
    /\ \/ "CLKOFF" \notin Xor(ulHostFlags, ulNetxFlags) /\ lRet' = "OK"
       \/ ("noAck" \in Failures \/ ~handler \/ dsrPc = "error") /\ lRet' = "FAILED"
    /\ Goto("mask")
    /\ UNCHANGED <<notCaller, notRemove>>

\* Mutant: the handler is not freed.
MaskOnly ==
    /\ pc = "mask"
    /\ irqEnabled' = FALSE
    /\ Goto("deleteEvents")
    /\ UNCHANGED <<fwVars, handler, dsrVars, devVars, lRet, notRemove>>

\* IRQEnable_0 = 0, here and first thing in OS_DisableDeviceInterrupts.
Mask ==
    /\ pc = "mask"
    /\ irqEnabled' = FALSE
    /\ Goto("freeIrq")
    /\ UNCHANGED <<fwVars, handler, dsrVars, devVars, lRet, notRemove>>

(* free_irq waits for a handler that runs.                                 *)
FreeIrq ==
    /\ pc = "freeIrq"
    /\ handler' = FALSE
    /\ Goto("deleteEvents")
    /\ UNCHANGED <<fwVars, irqEnabled, dsrVars, devVars, lRet, notRemove>>

DeleteEvents ==
    /\ pc = "deleteEvents"
    /\ events' = FALSE
    /\ Goto("deleteLock")
    /\ UNCHANGED <<fwVars, irqVars, dsrVars, lock, listed, lRet, notRemove>>

DeleteLock ==
    /\ pc = "deleteLock"
    /\ lock' = FALSE
    /\ Goto("unlist")
    /\ UNCHANGED <<fwVars, irqVars, dsrVars, events, listed, lRet, notRemove>>

\* Mutant: a device whose remove fails stays in the list.
UnlistIfOk ==
    /\ pc = "unlist"
    /\ listed' = (lRet # "OK")
    /\ Goto(IF op # "restart" THEN "stopSig"
            ELSE IF lRet = "OK" THEN "create" ELSE "restartFailed")
    /\ UNCHANGED <<fwVars, irqVars, dsrVars, events, lock, lRet, notRemove>>

(* The device leaves the list also when the remove fails.                  *)
Unlist ==
    /\ pc = "unlist"
    /\ listed' = FALSE
    /\ Goto(IF op # "restart" THEN "stopSig"
            ELSE IF lRet = "OK" THEN "create" ELSE "restartFailed")
    /\ UNCHANGED <<fwVars, irqVars, dsrVars, events, lock, lRet, notRemove>>

-----------------------------------------------------------------------------
(* stop_dsr_thread, and the rest of the clean-up. *)

\* dsr_sig is set without a wake-up.
StopSig ==
    /\ pc = "stopSig"
    /\ dsr_sig' = TRUE
    /\ Goto("stopFlag")
    /\ UNCHANGED <<fwVars, irqVars, dsrPc, shouldStop, fValid, snap,
                   ulNetxFlags, devVars, lRet, notRemove>>

\* kthread_stop: the flag, the wake-up, then the wait for the thread.
StopFlag ==
    /\ pc = "stopFlag" /\ dsrPc # "error"
    /\ shouldStop' = TRUE /\ WakeUp
    /\ Goto("stopJoin")
    /\ UNCHANGED <<fwVars, irqVars, dsr_sig, fValid, snap, ulNetxFlags,
                   devVars, lRet, notRemove>>

(* kthread_stop of the error pointer: the call never gets on, and nothing  *)
(* is said of the system any more.                                         *)
StopOops ==
    /\ pc = "stopFlag" /\ dsrPc = "error"
    /\ Goto("oops")
    /\ UNCHANGED <<lRet, notRemove, notCaller>>

(* The instance is freed; a later one starts from zero.                    *)
StopJoin ==
    /\ pc = "stopJoin" /\ dsrPc = "ended"
    /\ dsrPc' = "none" /\ dsr_sig' = FALSE /\ shouldStop' = FALSE
    /\ fValid' = FALSE /\ snap' = {} /\ ulNetxFlags' = {}
    /\ registered' = FALSE /\ addsucceded' = FALSE
    /\ Done(IF op = "unregister" THEN "OK" ELSE "FAILED")
    /\ UNCHANGED <<fwVars, irqVars, devVars, hdevice, ulOpenCnt, file, op,
                   lRet, calls>>

Continue ==
    \/ AddCreate \/ AddDownload \/ AddFlags \/ AddList \/ AddSnapshot
    \/ AddIrq \/ AddFailed \/ AddDone \/ RestartFailed
    \/ ClockOff \/ AckWait \/ Mask \/ FreeIrq \/ DeleteEvents
    \/ DeleteLock \/ Unlist \/ StopSig \/ StopFlag \/ StopOops
    \/ StopJoin

-----------------------------------------------------------------------------
Next ==
    \/ Firmware \/ Isr \/ Dsr
    \/ Register \/ Open \/ Release \/ Restart \/ Unregister \/ Continue

Spec == Init /\ [][Next]_vars

(* A running firmware answers the clock-off, a raised interrupt is taken,  *)
(* and threads that can run do.  Nobody need call.                         *)
LiveSpec ==
    Spec /\ WF_vars(FwClockOff) /\ WF_vars(Isr) /\ WF_vars(Dsr) /\ WF_vars(Continue)

-----------------------------------------------------------------------------
(* Properties. *)

TypeOK ==
    /\ firmware \in {"off", "running", "safe"}
    /\ {usNetxFlags, ulHostFlags, ulNetxFlags, snap} \subseteq SUBSET {"CLKOFF", "STATUS"}
    /\ {irqPending, irqEnabled, handler, dsr_sig, shouldStop, fValid, events,
        lock, listed, registered, addsucceded, hdevice, file} \subseteq BOOLEAN
    /\ dsrPc \in {"none", "error", "test", "sleep", "clear", "check", "handler",
                  "process", "unmask", "ended"}
    /\ ulOpenCnt \in {0, 1}
    /\ indicated \in 0 .. MaxInd /\ calls \in 0 .. MaxCalls
    /\ lRet \in {"OK", "FAILED"}

(* Whatever a call of netana_registerdevice, netana_restart_device or      *)
(* netana_unregisterdevice ends with, no pieces are left: a device is in   *)
(* the card list exactly if it is added, with its events and its lock, the *)
(* interrupt is only requested for such a device, the DSR thread lives as  *)
(* long as the device is registered (or, if kthread_run failed, is missing *)
(* as long, its error pointer kept), and a handle is open on a listed      *)
(* device and counted.                                                     *)
NoPiecesLeft ==
    pc = "idle" =>
        /\ listed = addsucceded /\ events = listed /\ lock = listed
        /\ handler => listed
        /\ registered = (dsrPc # "none") /\ (dsrPc = "ended" => ~registered)
        /\ hdevice => listed /\ file
        /\ ulOpenCnt = IF hdevice THEN 1 ELSE 0

(* While the interrupt is requested its device is there: OS_EnableDevice-  *)
(* Interrupts comes after, OS_DisableDeviceInterrupts before the list, the *)
(* events and the thread that netana_isr relies on.  No more than that is  *)
(* said of a thread that kthread_run did not create (netana.c:799): it is  *)
(* missing from the start, not taken away under the handler.               *)
HandlerHasDevice ==
    handler => listed /\ events /\ lock /\ dsrPc \notin {"none", "ended"}

AddSteps == {"create", "download", "flags", "list", "snapshot", "requestIrq", "added",
             "addFailed"}
RemoveSteps == {"clockOff", "ackWait", "mask", "freeIrq", "deleteEvents",
                "deleteLock", "unlist"}
StopSteps == {"stopSig", "stopFlag", "stopJoin", "oops"}

\* The steps with the device in the list, with events, with a lock, and
\* those at which the interrupt may be requested.
ListSteps == {"snapshot", "requestIrq", "added"} \cup RemoveSteps
EventSteps == (ListSteps \cup {"download", "flags", "list"}) \ {"deleteLock", "unlist"}
LockSteps == EventSteps \cup {"deleteLock"}
IrqSteps == {"added", "clockOff", "ackWait", "mask", "freeIrq"}

\* Which function is at which step.
FunctionSteps ==
    /\ pc \in {"idle", "restartFailed"} \cup AddSteps \cup RemoveSteps \cup StopSteps
    /\ pc \in AddSteps => op \in {"register", "restart"}
    /\ pc \in RemoveSteps => op \in {"restart", "unregister", "undo"}
    /\ pc \in StopSteps => op \in {"register", "unregister", "undo"}
    /\ pc = "restartFailed" => op = "restart"

\* What there is of the device at which step.
DevicePieces ==
    /\ listed <=> IF pc = "idle" THEN addsucceded ELSE pc \in ListSteps
    /\ pc # "addFailed" =>
          /\ events <=> IF pc = "idle" THEN addsucceded ELSE pc \in EventSteps
          /\ lock <=> IF pc = "idle" THEN addsucceded ELSE pc \in LockSteps
    /\ handler => IF pc = "idle" THEN addsucceded ELSE pc \in IrqSteps

\* Registration, handle and file: netana_restart_device works on an open
\* handle, the other functions on a device that is not open.
Handles ==
    /\ addsucceded => registered
    /\ file => registered
    /\ hdevice => file /\ addsucceded
    /\ ulOpenCnt = IF hdevice THEN 1 ELSE 0
    /\ pc # "idle" => /\ (registered <=> op \in {"restart", "unregister"})
                      /\ op = "restart" => hdevice
                      /\ op # "restart" => ~file

\* The DSR thread, or the error pointer in its place: kthread_stop gets it.
Thread ==
    /\ pc = "idle" => (registered <=> dsrPc # "none")
    /\ pc # "idle" => dsrPc # "none"
    /\ shouldStop <=> pc = "stopJoin"
    /\ dsrPc = "ended" => shouldStop
    /\ pc = "stopJoin" => dsrPc # "error"
    /\ pc = "oops" => dsrPc = "error"

(* The order of the steps of netana_tkit_deviceadd, netana_tkit_device-    *)
(* remove and their callers says what there is of the device: the inductive *)
(* invariant behind NoPiecesLeft and HandlerHasDevice.                     *)
LifeInv == FunctionSteps /\ DevicePieces /\ Handles /\ Thread

(* A status indicated to a requested interrupt is acknowledged, across     *)
(* restarts and whatever was left of the previous life of the device, if   *)
(* the device is not removed and has the DSR thread that acknowledges.     *)
StatusAcknowledged ==
    handler /\ irqPending /\ dsrPc # "error" ~> "STATUS" \notin Xor(usNetxFlags, ulHostFlags) \/ ~handler

(* Every function gets to its end, at the latest to the join of the DSR    *)
(* thread: the wait for the clock-off is over when the DSR has brought the *)
(* acknowledge, whatever else the DSR was signalled for, and runs out      *)
(* without a DSR thread.                                                   *)
CallsProceed ==
    pc # "idle" ~> pc \in {"idle", "stopJoin"} \/ (pc = "oops" /\ dsrPc = "error")

(* "stop dsr thread": kthread_stop returns.                                *)
DsrThreadStops == pc = "stopJoin" ~> pc = "idle"

=============================================================================
