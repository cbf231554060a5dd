------------------------------- MODULE Capture -------------------------------
(***************************************************************************)
(* The capture path of the netANALYZER toolkit: the firmware fills DMA     *)
(* buffers and raises handshake interrupts, netana_isr snapshots the       *)
(* handshake cell, the DSR thread turns the snapshot into events and runs  *)
(* netana_tkit_process, and one user thread calls netana_start_capture and *)
(* netana_stop_capture, which talk to the firmware through the STARTSTOP   *)
(* handshake bit.                                                          *)
(*                                                                         *)
(* Four processes interleave: the firmware (external, its protocol is the  *)
(* one the driver relies on), the hard interrupt, the DSR thread and the   *)
(* caller.  The interrupt is masked by the ISR and unmasked at the end of  *)
(* the DSR loop, so the DSR handler itself is one step; no other device is *)
(* on the interrupt line.  Files are left out: in the kernel build no file *)
(* can be opened for writing (OS_FileOpen), so fWriteToFile is 0 here.     *)
(***************************************************************************)
EXTENDS Integers, FiniteSets, Sequences

CONSTANTS
    NumBuffers,  \* ulDMABufferCount
    MaxFill,     \* bound: buffers the firmware fills in one behaviour
    MaxCalls,    \* bound: calls that get past their state check
    Timeouts,    \* TRUE: a wait of the caller may run into its time limit
    SelfStop,    \* TRUE: the firmware may stop a capture on its own
    Oversize     \* the fills whose reported size exceeds the buffer

ASSUME CaptureAssumption ==
    /\ NumBuffers \in Nat \ {0}
    /\ {MaxFill, MaxCalls} \subseteq Nat
    /\ {Timeouts, SelfStop} \subseteq BOOLEAN
    /\ Oversize \subseteq Nat

Buffers == 0 .. NumBuffers - 1

\* Handshake bits of cell 0 that the capture path uses.
Bits == {"NEWDATA", "NEWSTATUS", "STARTSTOP", "DRV_ERROR"}

VARIABLES
    \* dual-port memory, shared by driver and firmware
    usNetxFlags,       \* netX half of handshake cell 0: the bits that are 1
    netxBufferFlags,   \* tNetxStatusBlock.ulBufferFlags
    hostBufferFlags,   \* tHostControlBlock.ulBufferFlags
    ulCaptureState,    \* tNetxStatusBlock.ulCaptureState, OFF or not
    buf,               \* DMA buffer contents: the number of the fill
    \* firmware
    fwNext, fwInd, fwStatus, fwStop,
    \* interrupt line and NETANA_IRQ2DSR_BUFFER_T
    irqPending, irqEnabled, fValid, snap, iIrq2DsrBuffer, dsr_sig,
    \* driver
    ulHostFlags,       \* also the host half of cell 0: one lock covers both
    ulNetxFlags,       \* the DSR's copy of usNetxFlags
    ulCurrentBuffer, pfnData, pfnStatus, events, hStopComplete,
    dsrPc, unequal, used, state,
    appPc, appSleep,
    \* history
    filled, freed, delivered, dropped, lastRet, calls

fwVars   == <<fwNext, fwInd, fwStatus, fwStop>>
dmaVars  == <<netxBufferFlags, buf, filled>>
irqVars  == <<irqPending, irqEnabled, fValid, snap, iIrq2DsrBuffer, dsr_sig>>
dsrVars  == <<ulNetxFlags, dsrPc, unequal, used, state>>
ringVars == <<hostBufferFlags, ulCurrentBuffer, freed>>
outVars  == <<delivered, dropped>>
appVars  == <<appPc, appSleep, lastRet, calls, pfnData, pfnStatus>>
evVars   == <<events, hStopComplete>>
vars == <<usNetxFlags, ulCaptureState, ulHostFlags, fwVars, dmaVars, irqVars,
          dsrVars, ringVars, outVars, appVars, evVars>>

-----------------------------------------------------------------------------
(* Bit arithmetic: x ^ y and x ^= (1 << b) on sets of bits. *)

Xor(S, T) == (S \ T) \cup (T \ S)

Toggle(S, b) == IF b \in S THEN S \ {b} ELSE S \cup {b}

(* GetHskBitState(..., NETANA_BITSTATE_EQUAL), as the driver sees it: it   *)
(* compares its own copies, not the dual-port memory.                      *)
BitEqual(b) == b \notin Xor(ulHostFlags, ulNetxFlags)

(* The same bit compared in the dual-port memory, as the firmware sees it. *)
FwEqual(b) == b \notin Xor(ulHostFlags, usNetxFlags)

\* Positions in the ring are counted modulo the number of buffers.
Wrap(i) == IF i >= NumBuffers THEN i - NumBuffers ELSE i

UsedBuffers == Xor(hostBufferFlags, netxBufferFlags)

(* ++ulCurrentBuffer >= ulDMABufferCount *)
NextBufferPastEnd(i) == IF i + 1 > NumBuffers THEN 0 ELSE i + 1

NextBuffer(i) == IF i + 1 >= NumBuffers THEN 0 ELSE i + 1

-----------------------------------------------------------------------------
Init ==
    /\ usNetxFlags = {} /\ ulHostFlags = {} /\ ulNetxFlags = {}
    /\ netxBufferFlags = {} /\ hostBufferFlags = {}
    /\ ulCaptureState = "OFF"
    /\ buf = [i \in Buffers |-> 0]
    /\ fwNext = 0 /\ fwInd = FALSE /\ fwStatus = FALSE /\ fwStop = {}
    /\ irqPending = FALSE /\ irqEnabled = TRUE /\ dsr_sig = FALSE
    /\ fValid = [j \in 0..1 |-> FALSE] /\ snap = [j \in 0..1 |-> {}]
    /\ iIrq2DsrBuffer = 0
    /\ ulCurrentBuffer = 0 /\ pfnData = FALSE /\ pfnStatus = FALSE
    /\ events = {} /\ hStopComplete = FALSE
    /\ dsrPc = "wait" /\ unequal = {} /\ used = {} /\ state = "OFF"
    /\ appPc = "idle" /\ appSleep = FALSE /\ lastRet = "none" /\ calls = 0
    /\ filled = 0 /\ freed = 0 /\ delivered = <<>> /\ dropped = {}

-----------------------------------------------------------------------------
(***************************************************************************)
(* The firmware (external).  It owns buffer i while the two flags of i are *)
(* equal, toggles an indication only when host and netX bit are equal, and *)
(* holds ulCaptureState until the previous NEWSTATUS was acknowledged.     *)
(* STARTSTOP has no argument: the firmware starts when it is off, and      *)
(* otherwise stops.                                                        *)
(***************************************************************************)
FwToggle(b) ==
    /\ usNetxFlags' = Toggle(usNetxFlags, b)
    /\ irqPending' = TRUE

(* The DMA of one buffer completes: contents and size are written and the  *)
(* flag is toggled, which passes the buffer to the driver.                 *)
FwFill ==
    /\ ulCaptureState = "RUNNING"
    /\ "off" \notin fwStop \/ "ack" \in fwStop
    /\ filled < MaxFill
    /\ fwNext \notin UsedBuffers
    /\ filled' = filled + 1
    /\ buf' = [buf EXCEPT ![fwNext] = filled + 1]
    /\ netxBufferFlags' = Toggle(netxBufferFlags, fwNext)
    /\ fwNext' = Wrap(fwNext + 1)
    /\ fwInd' = TRUE
    /\ UNCHANGED <<usNetxFlags, ulCaptureState, ulHostFlags, fwStatus, fwStop,
                   irqVars, dsrVars, ringVars, outVars, appVars, evVars>>

(* NEWDATA: an indication that is still unacknowledged covers this fill.   *)
FwIndicateData ==
    /\ fwInd
    /\ fwInd' = FALSE
    /\ IF FwEqual("NEWDATA") THEN FwToggle("NEWDATA")
                             ELSE UNCHANGED <<usNetxFlags, irqPending>>
    /\ UNCHANGED <<ulCaptureState, ulHostFlags, fwNext, fwStatus, fwStop,
                   dmaVars, irqEnabled, fValid, snap, iIrq2DsrBuffer, dsr_sig,
                   dsrVars, ringVars, outVars, appVars, evVars>>

(* NEWSTATUS: deferred until the host has acknowledged the previous one.   *)
FwIndicateStatus ==
    /\ fwStatus
    /\ FwEqual("NEWSTATUS")
    /\ fwStatus' = FALSE
    /\ FwToggle("NEWSTATUS")
    /\ UNCHANGED <<ulCaptureState, ulHostFlags, fwNext, fwInd, fwStop,
                   dmaVars, irqEnabled, fValid, snap, iIrq2DsrBuffer, dsr_sig,
                   dsrVars, ringVars, outVars, appVars, evVars>>

(* A STARTSTOP command seen while off starts a capture with all buffers in *)
(* the firmware's hands, and is acknowledged.                              *)
FwStart ==
    /\ ulCaptureState = "OFF"
    /\ fwStop = {}
    /\ ~fwStatus
    /\ ~FwEqual("STARTSTOP")
    /\ ulCaptureState' = "RUNNING"
    /\ netxBufferFlags' = {}
    /\ fwNext' = 0
    /\ fwStatus' = TRUE
    /\ FwToggle("STARTSTOP")
    /\ UNCHANGED <<ulHostFlags, fwInd, fwStop, buf, filled,
                   irqEnabled, fValid, snap, iIrq2DsrBuffer, dsr_sig,
                   dsrVars, ringVars, outVars, appVars, evVars>>

(* A STARTSTOP command seen while running asks for the stop.               *)
FwStopCommand ==
    /\ ulCaptureState = "RUNNING"
    /\ fwStop = {}
    /\ ~FwEqual("STARTSTOP")
    /\ fwStop' = {"ack", "off"}
    /\ UNCHANGED <<usNetxFlags, ulCaptureState, ulHostFlags, fwNext, fwInd,
                   fwStatus, dmaVars, irqVars, dsrVars, ringVars, outVars,
                   appVars, evVars>>

(* The acknowledge of a stop: the last DMA has finished.                   *)
FwStopAck ==
    /\ "ack" \in fwStop
    /\ ~fwInd
    /\ fwStop' = fwStop \ {"ack"}
    /\ FwToggle("STARTSTOP")
    /\ UNCHANGED <<ulCaptureState, ulHostFlags, fwNext, fwInd, fwStatus,
                   dmaVars, irqEnabled, fValid, snap, iIrq2DsrBuffer, dsr_sig,
                   dsrVars, ringVars, outVars, appVars, evVars>>

(* The capture goes off: commanded, or on its own (trigger, error).        *)
FwOff ==
    /\ ulCaptureState = "RUNNING"
    /\ "off" \in fwStop \/ SelfStop
    /\ ~fwInd /\ ~fwStatus /\ FwEqual("NEWSTATUS")
    /\ ulCaptureState' = "OFF"
    /\ fwStop' = fwStop \ {"off"}
    /\ fwStatus' = TRUE
    /\ UNCHANGED <<usNetxFlags, ulHostFlags, fwNext, fwInd, dmaVars, irqVars,
                   dsrVars, ringVars, outVars, appVars, evVars>>

(* The driver error is acknowledged; what the firmware does about it is a  *)
(* stop of its own (SelfStop).                                             *)
FwDriverError ==
    /\ ~FwEqual("DRV_ERROR")
    /\ FwToggle("DRV_ERROR")
    /\ UNCHANGED <<ulCaptureState, ulHostFlags, fwVars, dmaVars, irqEnabled,
                   fValid, snap, iIrq2DsrBuffer, dsr_sig, dsrVars, ringVars,
                   outVars, appVars, evVars>>

Firmware ==
    \/ FwFill \/ FwIndicateData \/ FwIndicateStatus \/ FwStart
    \/ FwStopCommand \/ FwStopAck \/ FwOff \/ FwDriverError

-----------------------------------------------------------------------------
(***************************************************************************)
(* netana_isr: netana_tkit_isr_handler copies the handshake cell, which    *)
(* also confirms the interrupt, then the interrupt is masked and the DSR   *)
(* thread signalled.                                                       *)
(***************************************************************************)
SnapshotOther ==
    /\ fValid' = [fValid EXCEPT ![1 - iIrq2DsrBuffer] = TRUE]
    /\ snap' = [snap EXCEPT ![1 - iIrq2DsrBuffer] = usNetxFlags]
    /\ irqPending' = FALSE

Snapshot ==
    /\ fValid' = [fValid EXCEPT ![iIrq2DsrBuffer] = TRUE]
    /\ snap' = [snap EXCEPT ![iIrq2DsrBuffer] = usNetxFlags]
    /\ irqPending' = FALSE

Isr ==
    /\ irqEnabled /\ irqPending
    /\ Snapshot
    /\ irqEnabled' = FALSE
    /\ dsr_sig' = TRUE
    /\ UNCHANGED <<usNetxFlags, ulCaptureState, ulHostFlags, iIrq2DsrBuffer,
                   fwVars, dmaVars, dsrVars, ringVars, outVars, appVars,
                   evVars>>

-----------------------------------------------------------------------------
(* The DSR thread: netana_dsrhandler and, inlined, the toolkit functions.  *)

(* wait_event_interruptible(dsr_sig); dsr_sig = 0                          *)
DsrWake ==
    /\ dsrPc = "wait" /\ dsr_sig
    /\ dsr_sig' = FALSE
    /\ dsrPc' = "handler"
    /\ UNCHANGED <<usNetxFlags, ulCaptureState, ulHostFlags, fwVars, dmaVars,
                   irqPending, irqEnabled, fValid, snap, iIrq2DsrBuffer,
                   ulNetxFlags, unequal, used, state, ringVars, outVars,
                   appVars, evVars>>

(* netana_tkit_dsr_handler on a valid buffer: take it, update the copy of  *)
(* the netX flags, set the event of every changed bit (only the bits       *)
(* somebody waits for are kept), and ask for processing on new data or     *)
(* status.  What an invalid buffer holds is never read: it is {} here.     *)
DsrHandler ==
    LET j       == iIrq2DsrBuffer
        changed == Xor(ulNetxFlags, snap[j])
    IN  /\ dsrPc = "handler"
        /\ fValid[j]
        /\ iIrq2DsrBuffer' = 1 - j
        /\ fValid' = [fValid EXCEPT ![j] = FALSE]
        /\ snap' = [snap EXCEPT ![j] = {}]
        /\ ulNetxFlags' = snap[j]
        /\ events' = events \cup (changed \cap {"STARTSTOP", "DRV_ERROR"})
        /\ dsrPc' = IF changed \cap {"NEWDATA", "NEWSTATUS"} # {}
                    THEN "process" ELSE "enable"
        /\ UNCHANGED <<usNetxFlags, ulCaptureState, ulHostFlags, fwVars,
                       dmaVars, irqPending, irqEnabled, dsr_sig, unequal,
                       used, state, ringVars, outVars, appVars, hStopComplete>>

(* netana_tkit_process: the flags are compared once, on entry, and the     *)
(* NEWDATA indication is given back before the buffer flags are read.      *)
DsrProcess ==
    /\ dsrPc = "process"
    /\ unequal' = Xor(ulNetxFlags, ulHostFlags)
    /\ IF "NEWDATA" \in unequal'
       THEN /\ ulHostFlags' = Toggle(ulHostFlags, "NEWDATA")
            /\ dsrPc' = "flags"
       ELSE /\ UNCHANGED ulHostFlags
            /\ dsrPc' = "status"
    /\ UNCHANGED <<usNetxFlags, ulCaptureState, fwVars, dmaVars, irqVars,
                   ulNetxFlags, used, state, ringVars, outVars, appVars,
                   evVars>>

ReadFlagsNetxOnly == used' = netxBufferFlags

ReadFlags == used' = UsedBuffers

DsrReadFlags ==
    /\ dsrPc = "flags"
    /\ ReadFlags
    /\ dsrPc' = "buffer"
    /\ UNCHANGED <<usNetxFlags, ulCaptureState, ulHostFlags, fwVars, dmaVars,
                   irqVars, ulNetxFlags, unequal, state, ringVars, outVars,
                   appVars, evVars>>

(* The head of the while loop and the size check.                          *)
DsrBuffer ==
    /\ dsrPc = "buffer"
    /\ dsrPc' = IF ulCurrentBuffer \notin used THEN "status"
                ELSE IF buf[ulCurrentBuffer] \in Oversize THEN "error"
                ELSE "data"
    /\ UNCHANGED <<usNetxFlags, ulCaptureState, ulHostFlags, fwVars, dmaVars,
                   irqVars, ulNetxFlags, unequal, used, state, ringVars,
                   outVars, appVars, evVars>>

(* if(pfnData): a buffer nobody asks for is freed unread.                  *)
DsrCheckData ==
    /\ dsrPc = "data"
    /\ IF pfnData
       THEN /\ dsrPc' = "dataCall"
            /\ UNCHANGED dropped
       ELSE /\ dsrPc' = "free"
            /\ dropped' = dropped \cup {buf[ulCurrentBuffer]}
    /\ UNCHANGED <<usNetxFlags, ulCaptureState, ulHostFlags, fwVars, dmaVars,
                   irqVars, ulNetxFlags, unequal, used, state, ringVars,
                   delivered, appVars, evVars>>

DsrDataCall ==
    /\ dsrPc = "dataCall"
    /\ delivered' = Append(delivered, buf[ulCurrentBuffer])
    /\ dsrPc' = "free"
    /\ UNCHANGED <<usNetxFlags, ulCaptureState, ulHostFlags, fwVars, dmaVars,
                   irqVars, ulNetxFlags, unequal, used, state, ringVars,
                   dropped, appVars, evVars>>

(* netana_signal_driver_error: the bit must be equal.  When it is not, the *)
(* DSR sleeps on an event that only the DSR itself could set.              *)
DsrError ==
    /\ dsrPc = "error"
    /\ dropped' = dropped \cup {buf[ulCurrentBuffer]}
    /\ IF BitEqual("DRV_ERROR")
       THEN /\ ulHostFlags' = Toggle(ulHostFlags, "DRV_ERROR")
            /\ dsrPc' = "free"
       ELSE /\ UNCHANGED ulHostFlags
            /\ dsrPc' = "errorWait"
    /\ UNCHANGED <<usNetxFlags, ulCaptureState, fwVars, dmaVars, irqVars,
                   ulNetxFlags, unequal, used, state, ringVars, delivered,
                   appVars, evVars>>

DsrErrorEvent ==
    /\ dsrPc = "errorWait"
    /\ "DRV_ERROR" \in events
    /\ events' = events \ {"DRV_ERROR"}
    /\ IF BitEqual("DRV_ERROR")
       THEN /\ ulHostFlags' = Toggle(ulHostFlags, "DRV_ERROR")
            /\ dsrPc' = "free"
       ELSE UNCHANGED <<ulHostFlags, dsrPc>>
    /\ UNCHANGED <<usNetxFlags, ulCaptureState, fwVars, dmaVars, irqVars,
                   ulNetxFlags, unequal, used, state, ringVars, outVars,
                   appVars, hStopComplete>>

DsrErrorTimeout ==
    /\ dsrPc = "errorWait"
    /\ dsrPc' = "free"
    /\ UNCHANGED <<usNetxFlags, ulCaptureState, ulHostFlags, fwVars, dmaVars,
                   irqVars, ulNetxFlags, unequal, used, state, ringVars,
                   outVars, appVars, evVars>>

(* The buffer goes back to the firmware and the driver moves on.           *)
FreeBufferOnce ==
    /\ hostBufferFlags' = Toggle(hostBufferFlags, ulCurrentBuffer)
    /\ used' = {}
    /\ ulCurrentBuffer' = NextBuffer(ulCurrentBuffer)

FreeBufferKept ==
    /\ hostBufferFlags' = hostBufferFlags
    /\ used' = used \ {ulCurrentBuffer}
    /\ ulCurrentBuffer' = NextBuffer(ulCurrentBuffer)

FreeBuffer ==
    /\ hostBufferFlags' = Toggle(hostBufferFlags, ulCurrentBuffer)
    /\ used' = used \ {ulCurrentBuffer}
    /\ ulCurrentBuffer' = NextBuffer(ulCurrentBuffer)

DsrFree ==
    /\ dsrPc = "free"
    /\ FreeBuffer
    /\ freed' = freed + 1
    /\ dsrPc' = "buffer"
    /\ UNCHANGED <<usNetxFlags, ulCaptureState, ulHostFlags, fwVars, dmaVars,
                   irqVars, ulNetxFlags, unequal, state, outVars, appVars,
                   evVars>>

(* NEWSTATUS as of the entry of netana_tkit_process; the state is read     *)
(* before the callback and before the acknowledge.                         *)
DsrStatus ==
    /\ dsrPc = "status"
    /\ IF "NEWSTATUS" \in unequal
       THEN /\ state' = ulCaptureState
            /\ dsrPc' = IF pfnStatus THEN "statusCall" ELSE "statusAck"
       ELSE /\ UNCHANGED state
            /\ dsrPc' = "enable"
    /\ UNCHANGED <<usNetxFlags, ulCaptureState, ulHostFlags, fwVars, dmaVars,
                   irqVars, ulNetxFlags, unequal, used, ringVars, outVars,
                   appVars, evVars>>

DsrStatusCall ==
    /\ dsrPc = "statusCall"
    /\ dsrPc' = "statusAck"
    /\ UNCHANGED <<usNetxFlags, ulCaptureState, ulHostFlags, fwVars, dmaVars,
                   irqVars, ulNetxFlags, unequal, used, state, ringVars,
                   outVars, appVars, evVars>>

DsrStatusAck ==
    /\ dsrPc = "statusAck"
    /\ ulHostFlags' = Toggle(ulHostFlags, "NEWSTATUS")
    /\ dsrPc' = "stopEvent"
    /\ UNCHANGED <<usNetxFlags, ulCaptureState, fwVars, dmaVars, irqVars,
                   ulNetxFlags, unequal, used, state, ringVars, outVars,
                   appVars, evVars>>

StopEventUnlatched == hStopComplete' = (state = "OFF" /\ appPc = "stopComplete")

StopEvent == hStopComplete' = (hStopComplete \/ state = "OFF")

DsrStopEvent ==
    /\ dsrPc = "stopEvent"
    /\ StopEvent
    /\ dsrPc' = "enable"
    /\ UNCHANGED <<usNetxFlags, ulCaptureState, ulHostFlags, fwVars, dmaVars,
                   irqVars, ulNetxFlags, unequal, used, state, ringVars,
                   outVars, appVars, events>>

(* netana_tkit_enable_hwinterrupts, then back to the top of the loop; the  *)
(* locals of netana_tkit_process are gone.                                 *)
UnmaskIfAllEqual == irqEnabled' = (ulNetxFlags = ulHostFlags)

Unmask == irqEnabled' = TRUE

DsrEnable ==
    /\ dsrPc = "enable"
    /\ Unmask
    /\ dsrPc' = "wait"
    /\ unequal' = {} /\ used' = {} /\ state' = "OFF"
    /\ UNCHANGED <<usNetxFlags, ulCaptureState, ulHostFlags, fwVars, dmaVars,
                   irqPending, fValid, snap, iIrq2DsrBuffer, dsr_sig,
                   ulNetxFlags, ringVars, outVars, appVars, evVars>>

Dsr ==
    \/ DsrWake \/ DsrHandler \/ DsrProcess \/ DsrReadFlags \/ DsrBuffer
    \/ DsrCheckData \/ DsrDataCall \/ DsrError \/ DsrErrorEvent
    \/ DsrErrorTimeout \/ DsrFree \/ DsrStatus \/ DsrStatusCall
    \/ DsrStatusAck \/ DsrStopEvent \/ DsrEnable

-----------------------------------------------------------------------------
(***************************************************************************)
(* The caller: netana_start_capture and netana_stop_capture, one call at a *)
(* time (the sysfs store that makes them is serialised by its attribute).  *)
(***************************************************************************)
othersOfApp == <<usNetxFlags, ulCaptureState, fwVars, dmaVars, irqVars,
                 dsrVars, freed, outVars>>

AppReturn(r) == appPc' = "idle" /\ lastRet' = r

AppStart ==
    /\ appPc = "idle"
    /\ IF ulCaptureState # "OFF"
       THEN /\ AppReturn("CAPTURE_ACTIVE")
            /\ UNCHANGED <<pfnData, pfnStatus, calls>>
       ELSE /\ calls < MaxCalls /\ calls' = calls + 1
            /\ pfnData' = TRUE /\ pfnStatus' = TRUE
            /\ appPc' = "startSetup"
            /\ UNCHANGED lastRet
    /\ UNCHANGED <<othersOfApp, ulHostFlags, hostBufferFlags, ulCurrentBuffer,
                   appSleep, evVars>>

ResetRingFlagsOnly == hostBufferFlags' = {} /\ UNCHANGED ulCurrentBuffer

ResetRing == hostBufferFlags' = {} /\ ulCurrentBuffer' = 0

AppStartSetup ==
    /\ appPc = "startSetup"
    /\ ResetRing
    /\ appPc' = "startWait"
    /\ UNCHANGED <<othersOfApp, ulHostFlags, appSleep, lastRet, calls,
                   pfnData, pfnStatus, evVars>>

(* netana_tkit_WaitForBitState(STARTSTOP, EQUAL): a first look at the bit, *)
(* then a look after each event, until the bit is equal or time is up.     *)
AfterWait == [startWait |-> "startToggle", startAck |-> "idle",
              stopWait  |-> "stopToggle",  stopAck  |-> "stopComplete"]

AppWaitDone ==
    /\ appSleep' = FALSE
    /\ appPc' = AfterWait[appPc]
    /\ lastRet' = IF appPc = "startAck" THEN "started" ELSE lastRet

AppWaitCheck ==
    /\ appPc \in DOMAIN AfterWait /\ ~appSleep
    /\ IF BitEqual("STARTSTOP")
       THEN AppWaitDone
       ELSE appSleep' = TRUE /\ UNCHANGED <<appPc, lastRet>>
    /\ UNCHANGED <<othersOfApp, ulHostFlags, hostBufferFlags, ulCurrentBuffer,
                   calls, pfnData, pfnStatus, evVars>>

AppWaitEvent ==
    /\ appPc \in DOMAIN AfterWait /\ appSleep
    /\ "STARTSTOP" \in events
    /\ events' = events \ {"STARTSTOP"}
    /\ IF BitEqual("STARTSTOP")
       THEN AppWaitDone
       ELSE UNCHANGED <<appPc, appSleep, lastRet>>
    /\ UNCHANGED <<othersOfApp, ulHostFlags, hostBufferFlags, ulCurrentBuffer,
                   calls, pfnData, pfnStatus, hStopComplete>>

AppWaitTimeout ==
    /\ Timeouts
    /\ appPc \in DOMAIN AfterWait /\ appSleep
    /\ IF BitEqual("STARTSTOP")
       THEN AppWaitDone
       ELSE appSleep' = FALSE /\ AppReturn("FUNCTION_FAILED")
    /\ UNCHANGED <<othersOfApp, ulHostFlags, hostBufferFlags, ulCurrentBuffer,
                   calls, pfnData, pfnStatus, evVars>>

AppStartToggle ==
    /\ appPc = "startToggle"
    /\ ulHostFlags' = Toggle(ulHostFlags, "STARTSTOP")
    /\ appPc' = "startAck"
    /\ UNCHANGED <<othersOfApp, hostBufferFlags, ulCurrentBuffer, appSleep,
                   lastRet, calls, pfnData, pfnStatus, evVars>>

AppStop ==
    /\ appPc = "idle"
    /\ IF ulCaptureState = "OFF"
       THEN AppReturn("CAPTURE_NOT_ACTIVE") /\ UNCHANGED calls
       ELSE /\ calls < MaxCalls /\ calls' = calls + 1
            /\ appPc' = "stopWait"
            /\ UNCHANGED lastRet
    /\ UNCHANGED <<othersOfApp, ulHostFlags, hostBufferFlags, ulCurrentBuffer,
                   appSleep, pfnData, pfnStatus, evVars>>

(* OS_ResetEvent(hStopComplete), then the command.                         *)
AppStopToggle ==
    /\ appPc = "stopToggle"
    /\ hStopComplete' = FALSE
    /\ ulHostFlags' = Toggle(ulHostFlags, "STARTSTOP")
    /\ appPc' = "stopAck"
    /\ UNCHANGED <<othersOfApp, hostBufferFlags, ulCurrentBuffer, appSleep,
                   lastRet, calls, pfnData, pfnStatus, events>>

(* Up to 50 waits of 100 ms for hStopComplete; then the call goes on       *)
(* whether or not the event came.                                          *)
NoWaitForStop == TRUE

WaitForStopOnly == hStopComplete

StopWaitOver == hStopComplete \/ Timeouts

AppStopComplete ==
    /\ appPc = "stopComplete"
    /\ StopWaitOver
    /\ hStopComplete' = FALSE
    /\ appPc' = "stopClear"
    /\ UNCHANGED <<othersOfApp, ulHostFlags, hostBufferFlags, ulCurrentBuffer,
                   appSleep, lastRet, calls, pfnData, pfnStatus, events>>

AppStopClear ==
    /\ appPc = "stopClear"
    /\ pfnStatus' = FALSE /\ pfnData' = FALSE
    /\ AppReturn("stopped")
    /\ UNCHANGED <<othersOfApp, ulHostFlags, hostBufferFlags, ulCurrentBuffer,
                   appSleep, calls, evVars>>

AppWait == AppWaitCheck \/ AppWaitEvent \/ AppWaitTimeout

\* The steps of a call that has been made.
AppContinue ==
    \/ AppStartSetup \/ AppWait \/ AppStartToggle
    \/ AppStopToggle \/ AppStopComplete \/ AppStopClear

-----------------------------------------------------------------------------
Next == Firmware \/ Isr \/ Dsr \/ AppStart \/ AppStop \/ AppContinue

Spec == Init /\ [][Next]_vars

(***************************************************************************)
(* Fairness.  The DSR is a kernel thread, the caller a thread in a system  *)
(* call and the interrupt a hardware line: none is held up for ever, so    *)
(* each is weakly fair.  Nobody has to make a call, or to fill a buffer.   *)
(***************************************************************************)
DriverFairness == WF_vars(Isr) /\ WF_vars(Dsr) /\ WF_vars(AppContinue)

(* The firmware answers: it never leaves an indication or a command        *)
(* unserved.  It goes off only when told to.                               *)
FirmwareFairness ==
    /\ WF_vars(FwIndicateData) /\ WF_vars(FwIndicateStatus)
    /\ WF_vars(FwStart) /\ WF_vars(FwStopCommand) /\ SF_vars(FwStopAck)
    /\ SF_vars("off" \in fwStop /\ FwOff) /\ WF_vars(FwDriverError)

LiveSpec == Spec /\ DriverFairness /\ FirmwareFairness

(* A firmware that need not answer at all.                                 *)
DriverOnlySpec == Spec /\ DriverFairness

-----------------------------------------------------------------------------
(* Properties. *)

AppPcs == {"idle", "startSetup", "startWait", "startToggle", "startAck",
           "stopWait", "stopToggle", "stopAck", "stopComplete", "stopClear"}

DsrPcs == {"wait", "handler", "process", "flags", "buffer", "data",
           "dataCall", "error", "errorWait", "free", "status", "statusCall",
           "statusAck", "stopEvent", "enable"}

\* The dual-port memory, the firmware and the interrupt.
SharedTypeOK ==
    /\ usNetxFlags \subseteq Bits
    /\ netxBufferFlags \subseteq Buffers
    /\ ulCaptureState \in {"OFF", "RUNNING"}
    /\ buf \in [Buffers -> Nat] /\ filled \in Nat
    /\ fwNext \in Buffers /\ fwInd \in BOOLEAN /\ fwStatus \in BOOLEAN
    /\ fwStop \subseteq {"ack", "off"}
    /\ irqPending \in BOOLEAN /\ irqEnabled \in BOOLEAN /\ dsr_sig \in BOOLEAN
    /\ fValid \in [0..1 -> BOOLEAN] /\ snap \in [0..1 -> SUBSET Bits]
    /\ iIrq2DsrBuffer \in 0..1

\* The DSR and what it shares with the caller.
DsrTypeOK ==
    /\ ulHostFlags \subseteq Bits /\ ulNetxFlags \subseteq Bits
    /\ hostBufferFlags \subseteq Buffers /\ ulCurrentBuffer \in Buffers
    /\ events \subseteq Bits /\ hStopComplete \in BOOLEAN
    /\ dsrPc \in DsrPcs /\ unequal \subseteq Bits /\ used \subseteq Buffers
    /\ state \in {"OFF", "RUNNING"}
    /\ freed \in Nat /\ delivered \in Seq(Nat) /\ dropped \subseteq Nat

AppTypeOK ==
    /\ pfnData \in BOOLEAN /\ pfnStatus \in BOOLEAN
    /\ appPc \in AppPcs /\ appSleep \in BOOLEAN /\ calls \in Nat
    /\ lastRet \in {"none", "CAPTURE_ACTIVE", "CAPTURE_NOT_ACTIVE",
                    "started", "stopped", "FUNCTION_FAILED"}

TypeOK == SharedTypeOK /\ DsrTypeOK /\ AppTypeOK

(***************************************************************************)
(* The buffer flags describe a window of the ring: the outstanding fills   *)
(* are the buffers from ulCurrentBuffer on, in the order of their fills,   *)
(* and firmware and driver agree on where the window ends.  Between the    *)
(* reset of the ring by netana_start_capture and the firmware's start the  *)
(* two halves of the flags belong to different captures.                   *)
(***************************************************************************)
RingIdle == ulCaptureState = "OFF"
            /\ appPc \in {"startWait", "startToggle", "startAck"}

Distance(i) == IF i >= ulCurrentBuffer THEN i - ulCurrentBuffer
                                       ELSE i - ulCurrentBuffer + NumBuffers

RingWindow ==
    RingIdle \/
    /\ filled - freed \in 0..NumBuffers
    /\ UsedBuffers = {i \in Buffers : Distance(i) < filled - freed}
    /\ \A i \in UsedBuffers : buf[i] = freed + Distance(i) + 1
    /\ fwNext = Wrap(ulCurrentBuffer + (filled - freed))
    /\ dsrPc \in {"buffer", "data", "dataCall", "free"} => used \subseteq UsedBuffers

(* Every fill reaches the data callback once, and in order: at any time    *)
(* the callback got the freed buffers, and the current one when it is      *)
(* about to be freed.  (No capture stops on its own, no buffer is          *)
(* rejected, no wait of the caller times out.)                             *)
InOrder ==
    /\ delivered = [k \in 1..Len(delivered) |-> k]
    /\ Len(delivered) = IF dsrPc = "free" THEN freed + 1 ELSE freed
    /\ dropped = {}

(* A session lasts from the firmware's start until netana_stop_capture has *)
(* cleared the callbacks.                                                  *)
InSession == \/ ulCaptureState = "RUNNING"
             \/ appPc \in {"stopAck", "stopComplete", "stopClear"}

Fifo == INSTANCE CaptureFifo
        WITH Capacity <- NumBuffers, MaxPut <- MaxFill,
             on <- InSession, put <- filled, got <- delivered

(* To the consumer the whole path -- ring, indications, interrupt, DSR and *)
(* the two calls -- is a bounded FIFO that a stop drains.                  *)
ImplementsFifo == Fifo!Spec

(* What a return code says is so: after a start (or when told that one is  *)
(* active) the capture runs, after a stop (or when told that none is       *)
(* active) it is off and every buffer it filled was delivered and freed.   *)
ReturnMeansState ==
    appPc = "idle" =>
        /\ lastRet \in {"started", "CAPTURE_ACTIVE"} => ulCaptureState = "RUNNING"
        /\ lastRet \in {"stopped", "CAPTURE_NOT_ACTIVE"} =>
               /\ ulCaptureState = "OFF"
               /\ filled = freed /\ Len(delivered) = filled
               /\ ~fwInd

(* netana_stop_capture clears the callbacks only when the DSR is not       *)
(* between its test of the pointer and the call through it.                *)
CallbackValid ==
    /\ dsrPc = "dataCall" => pfnData
    /\ dsrPc = "statusCall" => pfnStatus

(* No toggle of the firmware is lost on the way to the DSR: unless an      *)
(* interrupt is outstanding, the newest copy of the netX flags the driver  *)
(* has is the dual-port memory's.  Only the buffer the DSR will look into  *)
(* is ever valid, and a valid buffer means that the DSR will look.         *)
NewestCopy == IF fValid[iIrq2DsrBuffer] THEN snap[iIrq2DsrBuffer] ELSE ulNetxFlags

NoLostIndication ==
    /\ irqPending \/ NewestCopy = usNetxFlags
    /\ ~fValid[1 - iIrq2DsrBuffer]
    /\ fValid[iIrq2DsrBuffer] <=> dsr_sig \/ dsrPc = "handler"

(* The interrupt is never masked with the DSR asleep and nothing to wake   *)
(* it: netana_isr masks only after it has signalled, and the DSR unmasks   *)
(* on every way round its loop.                                            *)
NeverMaskedForGood == ~irqEnabled <=> dsr_sig \/ dsrPc # "wait"

(* A buffer the firmware has filled is given back, however fills,          *)
(* indications and their acknowledges overtake each other.                 *)
EveryBufferFreed == \A k \in 1..MaxFill : filled >= k ~> freed >= k

(* netana_start_capture and netana_stop_capture return.                    *)
CallReturns == appPc # "idle" ~> appPc = "idle"

(* The DSR gets back to unmasking the interrupt, also when it waits for a  *)
(* driver-error acknowledge that only it could have reported.              *)
UnmaskedAgain == ~irqEnabled ~> irqEnabled

=============================================================================
