----------------------------- MODULE CaptureInv ------------------------------
(***************************************************************************)
(* Why the ring stays consistent from one capture to the next: the         *)
(* inductive strengthening of RingWindow for a firmware that stops only on *)
(* command and a caller whose waits do not run out (~SelfStop, ~Timeouts). *)
(*                                                                         *)
(* Every handshake bit is seen at four places: ulHostFlags, the dual-port  *)
(* memory (usNetxFlags), the newest snapshot, and the DSR's ulNetxFlags.   *)
(***************************************************************************)
EXTENDS Capture

\* The netX side differs from the host's bit in the dual-port memory, in the
\* newest copy the driver has, and in the copy it decides by.
OpenInDpm(b)  == b \in Xor(ulHostFlags, usNetxFlags)
OpenInCopy(b) == b \in Xor(ulHostFlags, NewestCopy)
OpenInDsr(b)  == b \in Xor(ulHostFlags, ulNetxFlags)

(* The firmware raises an indication and the host acknowledges it, so news *)
(* of it travels towards the DSR; a command travels the other way.         *)
IndicationChain ==
    \A b \in {"NEWDATA", "NEWSTATUS"} :
        /\ OpenInDsr(b) => OpenInCopy(b)
        /\ OpenInCopy(b) => OpenInDpm(b)

CommandChain ==
    /\ OpenInDpm("STARTSTOP") => OpenInCopy("STARTSTOP")
    /\ OpenInCopy("STARTSTOP") => OpenInDsr("STARTSTOP")

LoopPcs == {"buffer", "data", "dataCall", "error", "errorWait", "free"}

(* Where in netana_tkit_process an indication is still to be acknowledged. *)
AckPoints ==
    /\ dsrPc # "process" => ~OpenInDsr("NEWDATA")
    /\ dsrPc \in {"wait", "handler", "stopEvent", "enable"} =>
           ~OpenInDsr("NEWSTATUS")
    /\ dsrPc \in {"flags", "status"} \cup LoopPcs =>
           ("NEWSTATUS" \in unequal <=> OpenInDsr("NEWSTATUS"))
    /\ dsrPc \in {"statusCall", "statusAck"} =>
           /\ OpenInDsr("NEWSTATUS")
           /\ state = ulCaptureState
    /\ dsrPc = "process" => OpenInDsr("NEWDATA") \/ OpenInDsr("NEWSTATUS")

(* A buffer in the driver's hands is announced, or the DSR is about to     *)
(* read the buffer flags, or has it in the flags it works through.         *)
Covered ==
    filled # freed =>
        \/ fwInd
        \/ OpenInDpm("NEWDATA")
        \/ dsrPc = "flags"
        \/ dsrPc \in LoopPcs /\ UsedBuffers \subseteq used

LoopInWindow ==
    /\ dsrPc \in LoopPcs => used \subseteq UsedBuffers
    /\ dsrPc \in LoopPcs \ {"buffer"} => ulCurrentBuffer \in used

(* The news that the capture is off never overtakes the data: a copy that  *)
(* has the NEWSTATUS of the end has the last NEWDATA too.                  *)
StatusAfterData ==
    ulCaptureState = "OFF" =>
        /\ ~fwInd
        /\ OpenInDpm("NEWSTATUS") => ~fwStatus
        /\ OpenInCopy("NEWSTATUS") /\ OpenInDpm("NEWDATA") => OpenInCopy("NEWDATA")
        /\ OpenInDsr("NEWSTATUS") /\ OpenInDpm("NEWDATA") => OpenInDsr("NEWDATA")

(* Nothing of a capture is left to do.                                     *)
Quiet ==
    /\ ulCaptureState = "OFF"
    /\ ~fwInd /\ ~fwStatus
    /\ ~OpenInDpm("NEWDATA") /\ ~OpenInDpm("NEWSTATUS")
    /\ filled = freed
    /\ dsrPc \in {"wait", "handler", "enable"}

RingReset == hostBufferFlags = {} /\ ulCurrentBuffer = 0

CallPhase ==
    /\ appPc \in {"idle", "startSetup", "startWait", "startToggle", "stopWait",
                  "stopToggle", "stopComplete", "stopClear"} =>
           /\ ~OpenInDpm("STARTSTOP") /\ ~OpenInDsr("STARTSTOP")
           /\ "ack" \notin fwStop
    /\ appPc # "stopAck" /\ appPc # "stopComplete" => fwStop = {}
    /\ appPc = "idle" /\ ulCaptureState = "OFF" => Quiet
    /\ appPc \in {"startSetup", "startWait", "startToggle", "stopClear"} => Quiet
    /\ appPc \in {"startWait", "startToggle"} => RingReset
    /\ appPc = "startAck" =>
           (ulCaptureState = "OFF" => Quiet /\ RingReset /\ OpenInDpm("STARTSTOP"))
           /\ (ulCaptureState = "RUNNING" => ~OpenInDpm("STARTSTOP"))
    /\ appPc \in {"stopWait", "stopToggle"} => ulCaptureState = "RUNNING"
    /\ appPc = "stopAck" =>
           /\ "ack" \in fwStop => OpenInDpm("STARTSTOP")
           /\ OpenInDpm("STARTSTOP") => fwStop = {} \/ "ack" \in fwStop
           /\ ulCaptureState = "RUNNING" <=>
                  "off" \in fwStop \/ (OpenInDpm("STARTSTOP") /\ fwStop = {})
    /\ appPc = "stopComplete" => (ulCaptureState = "RUNNING" <=> "off" \in fwStop)

(* The end of a capture on its way: the firmware has yet to announce it,   *)
(* or has announced it, or the DSR is about to set hStopComplete, or has.  *)
EndOfCapture ==
    /\ dsrPc = "stopEvent" /\ state = "OFF" => ulCaptureState = "OFF"
    /\ appPc \in {"stopAck", "stopComplete"} =>
           /\ dsrPc = "stopEvent" /\ state = "OFF" =>
                  /\ ~fwStatus /\ filled = freed
                  /\ ~OpenInDpm("NEWDATA") /\ ~OpenInDpm("NEWSTATUS")
           /\ hStopComplete => Quiet

RingInv ==
    /\ RingWindow
    /\ IndicationChain /\ CommandChain
    /\ AckPoints /\ Covered /\ LoopInWindow /\ StatusAfterData
    /\ CallPhase /\ EndOfCapture

=============================================================================
