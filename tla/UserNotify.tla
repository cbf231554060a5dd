----------------------------- MODULE UserNotify ------------------------------
(***************************************************************************)
(* The hand-over of buffers and state changes to user space: the DSR stops *)
(* in netana_notify_data until netana_read has copied the buffer, and in   *)
(* netana_notify_state until devstate_show_poll has reported the state.    *)
(*                                                                         *)
(* Five processes: the firmware (external), the DSR thread, the thread     *)
(* that opens the device, starts and stops captures and closes the device, *)
(* a reader of the device file and a reader of the sysfs state file.  The  *)
(* file system (external) calls netana_release after the last read of the  *)
(* file has returned; nothing orders it with the sysfs file.               *)
(*                                                                         *)
(* The toolkit below is the one of module Capture, reduced to what the     *)
(* hand-over sees: a call waits for the DSR to show it the firmware's      *)
(* answer and the end of the capture, and a wait reaches its time limit    *)
(* only while the DSR stands in a notification or no answer will come.     *)
(***************************************************************************)
EXTENDS Naturals, Sequences

CONSTANTS
    NumBuffers,   \* ulDMABufferCount
    MaxFill,      \* bound: buffers the firmware fills in one behaviour
    MaxCalls,     \* bound: captures started and stopped by config_control
    MaxOpens      \* bound: times the device file is opened

ASSUME NotifyAssumption ==
    /\ {NumBuffers, MaxFill, MaxCalls, MaxOpens} \subseteq Nat
    /\ NumBuffers > 0

VARIABLES
    \* toolkit and firmware
    ulCaptureState,
    cmd,             \* STARTSTOP: "equal", "sent", "answered" (DSR has not seen it)
    newStatus,       \* NEWSTATUS is not acknowledged
    filled, freed,   \* buffers filled, and given back
    pfnData, pfnStatus, hStopComplete,
    \* DSR thread: the buffers and the status of this round, the state read
    dsrPc, todo, stat, state,
    \* struct netana_info
    captureactive, notify_interrupts,
    data,            \* cur_dma_buf.data: the number of the buffer, 0 is NULL
    data_event, data_read, data_read_sig,
    status_event, status_read, status_read_sig,
    hdevice,
    \* control thread; inRelease: netana_stop_capture was called by the close
    ctl, inRelease, opens, calls,
    \* readers
    rd, sh,
    \* history: what was copied to the user, and whether the device was
    \* closed since the DSR decided to publish its buffer
    got, closedSince

tkVars   == <<ulCaptureState, cmd, newStatus, filled, freed>>
pfnVars  == <<pfnData, pfnStatus>>
dsrVars  == <<dsrPc, todo, stat, state>>
flagVars == <<captureactive, notify_interrupts, hdevice>>
dataVars == <<data, data_event, data_read, data_read_sig>>
statVars == <<status_event, status_read, status_read_sig>>
ctlVars  == <<ctl, inRelease, opens, calls>>
rdVars   == <<rd, sh, got>>
vars == <<tkVars, pfnVars, hStopComplete, dsrVars, flagVars, dataVars, statVars,
          ctlVars, rdVars, closedSince>>

-----------------------------------------------------------------------------
Init ==
    /\ ulCaptureState = "OFF" /\ cmd = "equal" /\ newStatus = FALSE
    /\ filled = 0 /\ freed = 0
    /\ pfnData = FALSE /\ pfnStatus = FALSE /\ hStopComplete = FALSE
    /\ dsrPc = "wait" /\ todo = 0 /\ stat = FALSE /\ state = "OFF"
    /\ captureactive = FALSE /\ notify_interrupts = FALSE /\ hdevice = FALSE
    /\ data = 0 /\ data_event = 0 /\ data_read = 0 /\ data_read_sig = FALSE
    /\ status_event = 0 /\ status_read = 0 /\ status_read_sig = FALSE
    /\ ctl = "closed" /\ inRelease = FALSE /\ opens = 0 /\ calls = 0
    /\ rd = "idle" /\ sh = "idle" /\ got = <<>> /\ closedSince = FALSE

-----------------------------------------------------------------------------
(* The firmware (external), as in module Capture. *)

FwFill ==
    /\ ulCaptureState = "RUNNING"
    /\ filled < MaxFill /\ filled - freed < NumBuffers
    /\ filled' = filled + 1
    /\ UNCHANGED <<ulCaptureState, cmd, newStatus, freed, pfnVars, hStopComplete,
                   dsrVars, flagVars, dataVars, statVars, ctlVars, rdVars,
                   closedSince>>

FwAnswer ==
    /\ cmd = "sent" /\ ~newStatus
    /\ ulCaptureState' = IF ulCaptureState = "OFF" THEN "RUNNING" ELSE "OFF"
    /\ cmd' = "answered" /\ newStatus' = TRUE
    /\ UNCHANGED <<filled, freed, pfnVars, hStopComplete, dsrVars, flagVars,
                   dataVars, statVars, ctlVars, rdVars, closedSince>>

-----------------------------------------------------------------------------
(* The DSR thread. *)

\* Mutant: the last flag is read wrong.
RoundBuffersOneMore == filled + 1

\* The buffers the handshake flags show to be filled when the round begins.
RoundBuffers == filled

(* netana_tkit_dsr_handler and the entry of netana_tkit_process.           *)
DsrTake ==
    /\ dsrPc = "wait"
    /\ cmd = "answered" \/ newStatus \/ filled # freed
    /\ cmd' = IF cmd = "answered" THEN "equal" ELSE cmd
    /\ todo' = RoundBuffers /\ stat' = newStatus
    /\ dsrPc' = "loop"
    /\ UNCHANGED <<ulCaptureState, newStatus, filled, freed, pfnVars,
                   hStopComplete, state, flagVars, dataVars, statVars, ctlVars,
                   rdVars, closedSince>>

\* Mutant: the flag is not toggled; the next round meets the buffer again.
KeepBuffer == freed' = freed

\* netana_tkit_process frees the buffer when the callback has returned.
FreeBuffer == freed' = freed + 1

(* The next buffer of the round: netana_notify_data looks at captureactive *)
(* and notify_interrupts; a buffer it does not publish is freed.           *)
DsrBuffer ==
    /\ dsrPc = "loop" /\ freed < todo
    /\ IF pfnData /\ captureactive /\ notify_interrupts
       THEN dsrPc' = "publish" /\ closedSince' = FALSE /\ UNCHANGED freed
       ELSE FreeBuffer /\ UNCHANGED <<dsrPc, closedSince>>
    /\ UNCHANGED <<ulCaptureState, cmd, newStatus, filled, pfnVars,
                   hStopComplete, todo, stat, state, flagVars, dataVars,
                   statVars, ctlVars, rdVars>>

(* The buffer is published, then counted and the poll woken.               *)
DsrPublish ==
    /\ dsrPc = "publish"
    /\ data' = freed + 1
    /\ dsrPc' = "count"
    /\ UNCHANGED <<tkVars, pfnVars, hStopComplete, todo, stat, state, flagVars,
                   data_event, data_read, data_read_sig, statVars, ctlVars,
                   rdVars, closedSince>>

DsrCount ==
    /\ dsrPc = "count"
    /\ data_event' = data_event + 1
    /\ dsrPc' = "dataWait"
    /\ UNCHANGED <<tkVars, pfnVars, hStopComplete, todo, stat, state, flagVars,
                   data, data_read, data_read_sig, statVars, ctlVars, rdVars,
                   closedSince>>

\* Mutant: the signal of the previous read is not consumed.
DataWaitKeepsSig == data_read_sig /\ UNCHANGED data_read_sig

(* wait_event_interruptible(data_read_sig); data_read_sig = 0              *)
DataWaitOver == data_read_sig /\ data_read_sig' = FALSE

DsrDataRead ==
    /\ dsrPc = "dataWait"
    /\ DataWaitOver
    /\ FreeBuffer
    /\ dsrPc' = "loop"
    /\ UNCHANGED <<ulCaptureState, cmd, newStatus, filled, pfnVars,
                   hStopComplete, todo, stat, state, flagVars, data, data_event,
                   data_read, statVars, ctlVars, rdVars, closedSince>>

(* The status part of netana_tkit_process.                                 *)
DsrStatus ==
    /\ dsrPc = "loop" /\ freed = todo
    /\ IF stat
       THEN /\ state' = ulCaptureState
            /\ dsrPc' = IF pfnStatus THEN "notifyState" ELSE "statusAck"
       ELSE dsrPc' = "wait" /\ UNCHANGED state
    /\ UNCHANGED <<tkVars, pfnVars, hStopComplete, todo, stat, flagVars,
                   dataVars, statVars, ctlVars, rdVars, closedSince>>

(* netana_notify_state; it does not look at captureactive.                 *)
DsrNotifyState ==
    /\ dsrPc = "notifyState"
    /\ IF notify_interrupts
       THEN status_event' = status_event + 1 /\ dsrPc' = "statusWait"
       ELSE UNCHANGED status_event /\ dsrPc' = "statusAck"
    /\ UNCHANGED <<tkVars, pfnVars, hStopComplete, todo, stat, state, flagVars,
                   dataVars, status_read, status_read_sig, ctlVars, rdVars,
                   closedSince>>

StatusWaitOver == status_read_sig /\ status_read_sig' = FALSE

DsrStatusRead ==
    /\ dsrPc = "statusWait"
    /\ StatusWaitOver
    /\ dsrPc' = "statusAck"
    /\ UNCHANGED <<tkVars, pfnVars, hStopComplete, todo, stat, state, flagVars,
                   dataVars, status_event, status_read, ctlVars, rdVars,
                   closedSince>>

DsrStatusAck ==
    /\ dsrPc = "statusAck"
    /\ newStatus' = FALSE
    /\ hStopComplete' = (hStopComplete \/ state = "OFF")
    /\ dsrPc' = "wait"
    /\ UNCHANGED <<ulCaptureState, cmd, filled, freed, pfnVars, todo, stat,
                   state, flagVars, dataVars, statVars, ctlVars, rdVars,
                   closedSince>>

Dsr ==
    \/ DsrTake \/ DsrBuffer \/ DsrPublish \/ DsrCount \/ DsrDataRead
    \/ DsrStatus \/ DsrNotifyState \/ DsrStatusRead \/ DsrStatusAck

-----------------------------------------------------------------------------
(* The control thread. *)

notCtl == <<dsrVars, rdVars>>

(* netana_open: notifications are enabled before the counters are reset.   *)
Open ==
    /\ ctl = "closed" /\ ~hdevice /\ opens < MaxOpens
    /\ opens' = opens + 1
    /\ hdevice' = TRUE /\ notify_interrupts' = TRUE
    /\ ctl' = "opening"
    /\ UNCHANGED <<notCtl, tkVars, pfnVars, hStopComplete, captureactive,
                   dataVars, statVars, inRelease, calls, closedSince>>

\* Mutant: the signal of the last close is not taken back.
OpenKeepsSig ==
    /\ ctl = "opening"
    /\ data_read' = 0 /\ data_event' = 0
    /\ status_read_sig' = FALSE /\ status_read' = 0 /\ status_event' = 0
    /\ ctl' = "open"
    /\ UNCHANGED <<notCtl, tkVars, pfnVars, hStopComplete, flagVars, data,
                   data_read_sig, inRelease, opens, calls, closedSince>>

(* netana_reset_event_counter                                              *)
OpenReset ==
    /\ ctl = "opening"
    /\ data_read_sig' = FALSE /\ data_read' = 0 /\ data_event' = 0
    /\ status_read_sig' = FALSE /\ status_read' = 0 /\ status_event' = 0
    /\ ctl' = "open"
    /\ UNCHANGED <<notCtl, tkVars, pfnVars, hStopComplete, flagVars, data,
                   inRelease, opens, calls, closedSince>>

(* netana_config_control, a start: with or without the status callback.    *)
Start ==
    /\ ctl = "open" /\ ulCaptureState = "OFF" /\ calls < MaxCalls
    /\ calls' = calls + 1
    /\ pfnData' = TRUE /\ pfnStatus' \in BOOLEAN
    /\ ctl' = "startWait"
    /\ UNCHANGED <<notCtl, tkVars, hStopComplete, flagVars, dataVars, statVars,
                   inRelease, opens, closedSince>>

StartCommand ==
    /\ ctl = "startWait" /\ cmd = "equal"
    /\ cmd' = "sent"
    /\ ctl' = "startAck"
    /\ UNCHANGED <<notCtl, ulCaptureState, newStatus, filled, freed, pfnVars,
                   hStopComplete, flagVars, dataVars, statVars, inRelease,
                   opens, calls, closedSince>>

StartAck ==
    /\ ctl = "startAck" /\ cmd = "equal"
    /\ ctl' = "started"
    /\ UNCHANGED <<notCtl, tkVars, pfnVars, hStopComplete, flagVars, dataVars,
                   statVars, inRelease, opens, calls, closedSince>>

(* captureactive is set when netana_start_capture has returned.            *)
StartActive ==
    /\ ctl = "started"
    /\ captureactive' = TRUE
    /\ ctl' = "open"
    /\ UNCHANGED <<notCtl, tkVars, pfnVars, hStopComplete, notify_interrupts,
                   hdevice, dataVars, statVars, inRelease, opens, calls,
                   closedSince>>

\* netana_stop_capture returns to its caller.
StopReturns(ok) ==
    /\ ctl' = IF inRelease THEN "relFlags" ELSE "open"
    /\ captureactive' = (captureactive /\ (inRelease \/ ~ok))

(* The call, from netana_config_control or from netana_release.            *)
StopCall ==
    IF ulCaptureState = "OFF"
    THEN ctl' = IF inRelease' THEN "relFlags" ELSE "open"
    ELSE ctl' = "stopWait"

Stop ==
    /\ ctl = "open" /\ calls < MaxCalls
    /\ calls' = calls + 1
    /\ inRelease' = FALSE
    /\ StopCall
    /\ UNCHANGED <<notCtl, tkVars, pfnVars, hStopComplete, flagVars, dataVars,
                   statVars, opens, closedSince>>

StopCommand ==
    /\ ctl = "stopWait" /\ cmd = "equal"
    /\ hStopComplete' = FALSE
    /\ cmd' = "sent"
    /\ ctl' = "stopAck"
    /\ UNCHANGED <<notCtl, ulCaptureState, newStatus, filled, freed, pfnVars,
                   flagVars, dataVars, statVars, inRelease, opens, calls,
                   closedSince>>

StopAck ==
    /\ ctl = "stopAck" /\ cmd = "equal"
    /\ ctl' = "stopComplete"
    /\ UNCHANGED <<notCtl, tkVars, pfnVars, hStopComplete, flagVars, dataVars,
                   statVars, inRelease, opens, calls, closedSince>>

\* Mutant: a wait without a time limit.
DsrHeldNever == FALSE

\* A wait of the control thread may run into its time limit.
DsrHeld == dsrPc \in {"dataWait", "statusWait"}

\* No answer is on its way: a stop that found the previous one, given up but
\* not withdrawn, just served has started a capture, and waits in vain.
NothingComes == cmd = "equal" /\ ~newStatus

StopComplete ==
    /\ ctl = "stopComplete"
    /\ hStopComplete \/ DsrHeld \/ NothingComes
    /\ hStopComplete' = FALSE
    /\ pfnData' = FALSE /\ pfnStatus' = FALSE
    /\ StopReturns(TRUE)
    /\ UNCHANGED <<notCtl, tkVars, notify_interrupts, hdevice, dataVars,
                   statVars, inRelease, opens, calls, closedSince>>

(* netana_tkit_WaitForBitState gives up: the call fails, and what it did   *)
(* to callbacks and command stays.                                         *)
BitWaitTimeout ==
    /\ ctl \in {"startWait", "startAck", "stopWait", "stopAck"}
    /\ DsrHeld /\ cmd # "equal"
    /\ IF ctl \in {"startWait", "startAck"}
       THEN ctl' = "open" /\ UNCHANGED captureactive
       ELSE StopReturns(FALSE)
    /\ UNCHANGED <<notCtl, tkVars, pfnVars, hStopComplete, notify_interrupts,
                   hdevice, dataVars, statVars, inRelease, opens, calls,
                   closedSince>>

(* netana_release, called when nobody reads the file any more.             *)
Release ==
    /\ ctl = "open" /\ rd = "idle"
    /\ inRelease' = TRUE
    /\ StopCall
    /\ UNCHANGED <<notCtl, tkVars, pfnVars, hStopComplete, flagVars, dataVars,
                   statVars, opens, calls, closedSince>>

\* Mutant: notifications stay enabled on close.
ReleaseKeepsNotify == captureactive' = FALSE /\ UNCHANGED notify_interrupts

ReleaseDisables == captureactive' = FALSE /\ notify_interrupts' = FALSE

ReleaseFlags ==
    /\ ctl = "relFlags"
    /\ ReleaseDisables
    /\ ctl' = "relData"
    /\ UNCHANGED <<notCtl, tkVars, pfnVars, hStopComplete, hdevice, dataVars,
                   statVars, inRelease, opens, calls, closedSince>>

ReleaseData ==
    /\ ctl = "relData"
    /\ data_read_sig' = TRUE
    /\ closedSince' = TRUE
    /\ ctl' = "relStatus"
    /\ UNCHANGED <<notCtl, tkVars, pfnVars, hStopComplete, flagVars, data,
                   data_event, data_read, statVars, inRelease, opens, calls>>

ReleaseStatus ==
    /\ ctl = "relStatus"
    /\ status_read_sig' = TRUE
    /\ ctl' = "relClose"
    /\ UNCHANGED <<notCtl, tkVars, pfnVars, hStopComplete, flagVars, dataVars,
                   status_event, status_read, inRelease, opens, calls,
                   closedSince>>

ReleaseClose ==
    /\ ctl = "relClose"
    /\ hdevice' = FALSE
    /\ ctl' = "closed" /\ inRelease' = FALSE
    /\ UNCHANGED <<notCtl, tkVars, pfnVars, hStopComplete, captureactive,
                   notify_interrupts, dataVars, statVars, opens, calls,
                   closedSince>>

CtlContinue ==
    \/ OpenReset \/ StartCommand \/ StartAck \/ StartActive \/ StopCommand
    \/ StopAck \/ StopComplete \/ BitWaitTimeout \/ ReleaseFlags
    \/ ReleaseData \/ ReleaseStatus \/ ReleaseClose

-----------------------------------------------------------------------------
(* The readers. *)

notReader == <<tkVars, pfnVars, hStopComplete, dsrVars, flagVars, ctlVars,
               closedSince>>

\* The file is open, and is not being closed.
FileOpen == ~inRelease /\ ctl \notin {"closed", "opening"}

(* netana_read: the event is taken before it is known whether there is a   *)
(* buffer (-EAGAIN if not).                                                *)
ReadTake ==
    /\ FileOpen /\ rd = "idle"
    /\ data_read # data_event
    /\ data_read' = data_event
    /\ rd' = "look"
    /\ UNCHANGED <<notReader, data, data_event, data_read_sig, statVars, sh, got>>

ReadLook ==
    /\ rd = "look"
    /\ rd' = IF data = 0 THEN "idle" ELSE "copy"
    /\ UNCHANGED <<notReader, dataVars, statVars, sh, got>>

ReadCopy ==
    /\ rd = "copy"
    /\ got' = Append(got, data)
    /\ data' = 0
    /\ rd' = "signal"
    /\ UNCHANGED <<notReader, data_event, data_read, data_read_sig, statVars, sh>>

ReadSignal ==
    /\ rd = "signal"
    /\ data_read_sig' = TRUE
    /\ rd' = "idle"
    /\ UNCHANGED <<notReader, data, data_event, data_read, statVars, sh, got>>

(* devstate_show_poll: the device is checked first.                        *)
ShowCheck ==
    /\ sh = "idle" /\ hdevice
    /\ sh' = "show"
    /\ UNCHANGED <<notReader, dataVars, statVars, rd, got>>

ShowSignal ==
    /\ sh = "show"
    /\ sh' = "idle"
    /\ IF status_read # status_event
       THEN status_read' = status_event /\ status_read_sig' = TRUE
       ELSE UNCHANGED <<status_read, status_read_sig>>
    /\ UNCHANGED <<notReader, dataVars, status_event, rd, got>>

ReadContinue == ReadLook \/ ReadCopy \/ ReadSignal

-----------------------------------------------------------------------------
Next ==
    \/ FwFill \/ FwAnswer \/ Dsr
    \/ Open \/ Start \/ Stop \/ Release \/ CtlContinue
    \/ ReadTake \/ ReadContinue \/ ShowCheck \/ ShowSignal

Spec == Init /\ [][Next]_vars

(* Threads in a system call and the DSR thread go on; the firmware answers *)
(* commands.  Nobody has to open, start, stop, close, read or look.        *)
LiveSpec ==
    /\ Spec
    /\ WF_vars(Dsr) /\ WF_vars(CtlContinue) /\ WF_vars(FwAnswer)
    /\ WF_vars(ReadContinue) /\ WF_vars(ShowSignal)

-----------------------------------------------------------------------------
(* Properties. *)

TypeOK ==
    /\ ulCaptureState \in {"OFF", "RUNNING"} /\ state \in {"OFF", "RUNNING"}
    /\ cmd \in {"equal", "sent", "answered"}
    /\ {newStatus, pfnData, pfnStatus, hStopComplete, stat, captureactive,
        notify_interrupts, hdevice, data_read_sig, status_read_sig, inRelease,
        closedSince} \subseteq BOOLEAN
    /\ filled \in Nat /\ freed \in Nat /\ todo \in Nat /\ data \in Nat
    /\ data_event \in Nat /\ data_read \in Nat
    /\ status_event \in Nat /\ status_read \in Nat
    /\ opens \in Nat /\ calls \in Nat
    /\ freed <= filled /\ filled - freed <= NumBuffers
    /\ dsrPc \in {"wait", "loop", "publish", "count", "dataWait",
                  "notifyState", "statusWait", "statusAck"}
    /\ ctl \in {"closed", "opening", "open", "startWait", "startAck", "started",
                "stopWait", "stopAck", "stopComplete", "relFlags", "relData",
                "relStatus", "relClose"}
    /\ rd \in {"idle", "look", "copy", "signal"} /\ sh \in {"idle", "show"}
    /\ got \in Seq(Nat)

(* netana_read copies from a buffer the DSR still holds for it: the DSR    *)
(* has not given the buffer back to the firmware.                          *)
ReadIsHeld == rd = "copy" => dsrPc = "dataWait" /\ data = freed + 1

(* The user never gets a buffer twice or an older one after a newer one,   *)
(* whatever calls time out and however often the device is reopened.       *)
ReadsAdvance == \A i \in 1 .. Len(got) - 1 : got[i] < got[i + 1]

Handover == INSTANCE BufferHandover
            WITH Capacity <- NumBuffers, MaxPut <- MaxFill,
                 put <- filled, back <- freed, closed <- closedSince,
                 held <- dsrPc \in {"publish", "count", "dataWait"}

(* To the user the notifications, the signals and the calls that cross     *)
(* them are a hand-over of buffers: whoever times out, closes or reopens,  *)
(* every step of netana_notify_data, netana_read and netana_release is a   *)
(* step of it or invisible.                                                *)
ImplementsHandover == Handover!Spec

(* Closing the device lets the DSR go, though nobody reads any more: it    *)
(* does not stand in a notification for as long as the device is closed.   *)
CloseLetsDsrGo == ctl = "closed" /\ DsrHeld ~> ~DsrHeld \/ ctl # "closed"

(* Start, stop and release come to an end, also when the DSR stands in a   *)
(* notification that the same thread would have to answer.                 *)
CallsEnd == ctl \notin {"open", "closed"} ~> ctl \in {"open", "closed"}

=============================================================================
