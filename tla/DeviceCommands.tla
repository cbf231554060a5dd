---------------------------- MODULE DeviceCommands ----------------------------
(***************************************************************************)
(* The functions of the toolkit that talk to a running device besides the  *)
(* capture: handshake commands, the two mailboxes, filters, GPIOs, open    *)
(* and close.  Callers run in parallel.  Only the mailboxes have a mutex;  *)
(* a command is a block of the dual-port memory, a toggled bit and a wait  *)
(* for the firmware to toggle its own.                                     *)
(*                                                                         *)
(* Every caller is a process of one thread.  A call carries a ticket, id,  *)
(* that stands for what it asks or sends.                                  *)
(***************************************************************************)
EXTENDS Naturals, Sequences, FiniteSets

CONSTANTS
    Threads,      \* the callers
    Commands,     \* commands with a wait for their answer
    Gpios, Ports, \* inputs/outputs and Ethernet ports of the device
    Class,        \* its device class
    HighVoltage,  \* the GPIOs that can have 24 V
    Slow,         \* whether a wait may run out
    Serial,       \* whether the callers keep out of each other's commands
    MaxCalls,     \* bound: calls
    MaxPackets    \* bound: packets of the device

Mailboxes == {"SEND", "RECV"}
Bits == Commands \cup Mailboxes \cup {"BLINK"}
Classes == {"NANL", "NSCP", "CIFX"}

ASSUME CommandsAssumption ==
    /\ Commands \subseteq {"UPDATE", "MDIO", "RESYNC", "LICENSE"}
    /\ Class \in Classes /\ HighVoltage \subseteq Gpios
    /\ Slow \in BOOLEAN /\ Serial \in BOOLEAN
    /\ MaxCalls \in Nat /\ MaxPackets \in Nat

VARIABLES
    \* handshake bits of both sides, the driver's copy of the netX bits
    \* (ulNetxFlags) and the events of the bits that are set
    host, netx, seen, events,
    \* dual-port memory: block of a command, packets in the mailboxes
    block, sendMbx, recvMbx,
    \* a mailbox's priv_mutex.flag
    flag,
    \* filters, GPIOs, ulCaptureState, ulOpenCnt, g_tAppProcessList
    filter, gpio, running, ulOpenCnt, classFilter,
    \* history: whether since the last open a caller made a GPIO a PWM output
    \* while another one stood before its own such write
    raced,
    \* a caller: its step, whether it sleeps, its request, results
    pc, asleep, req, id, lRet, value,
    \* packets: signalled to the firmware, taken by it, offered by it, read
    sent, taken, offered, got,
    calls

hskVars  == <<host, netx, seen, events>>
dpmVars  == <<block, sendMbx, recvMbx>>
cfgVars  == <<filter, gpio, running, ulOpenCnt, classFilter, raced>>
callVars == <<pc, asleep, req, id, lRet, value, calls>>
pktVars  == <<sent, taken, offered, got>>
vars == <<hskVars, dpmVars, flag, cfgVars, callVars, pktVars>>

Flip(S, b) == IF b \in S THEN S \ {b} ELSE S \cup {b}
BitState(b, flags) == IF (b \in host) = (b \in flags) THEN "EQUAL" ELSE "UNEQUAL"

DefaultFilter == 0
DefaultGpio == [mode |-> "NONE", data |-> 0, voltage |-> "3V"]
Modes == {"NONE", "EDGE", "OUTPUT", "PWM", "SYNC"}

\* The calls.  wait: whether the caller's time limit is not 0
NoRequest == [op |-> "none", wait |-> TRUE]
Requests ==
    [op : (Commands \ {"MDIO"}) \cup {"BLINK", "OPEN", "CLOSE"}, wait : {TRUE}]
        \cup [op : Commands \cap {"MDIO"}, wait : BOOLEAN]
        \cup [op : {"PUT", "GET"}, wait : BOOLEAN, fits : BOOLEAN]
        \cup [op : {"FILTER"}, wait : {TRUE}, port : Ports]
        \cup [op : {"MODE"}, wait : {TRUE}, gpio : Gpios, mode : Modes, data : {1}]
        \cup [op : {"MODE"}, wait : {TRUE}, gpio : Gpios, mode : {"PWM"}, data : {0}]
        \cup [op : {"LEVEL"}, wait : {TRUE}, gpio : Gpios]
        \cup [op : {"VOLTAGE"}, wait : {TRUE}, mask : SUBSET Gpios, sel : {"3V", "24V"}]
        \cup [op : {"CLASS"}, wait : {TRUE}, class : Classes]

Resource(op) ==
    CASE op \in Commands \cup {"BLINK"} -> op
      [] op \in {"PUT", "GET"}          -> "mailboxes"
      [] OTHER                          -> "configuration"
FirstStep(op) ==
    CASE op \in Commands         -> "ready"
      [] op \in {"PUT", "GET"}   -> "lock"
      [] op \in {"FILTER", "MODE", "LEVEL"} -> "check"
      [] OTHER                   -> "do"

-----------------------------------------------------------------------------
Init ==
    /\ host = {} /\ netx = {} /\ seen = {} /\ events = {}
    /\ block = [c \in Commands |-> [req |-> 0, ans |-> 0]]
    /\ sendMbx = 0 /\ recvMbx = 0
    /\ flag = [m \in Mailboxes |-> FALSE]
    /\ filter = [p \in Ports |-> DefaultFilter]
    /\ gpio = [g \in Gpios |-> DefaultGpio]
    /\ running = FALSE /\ ulOpenCnt = 0 /\ raced = FALSE
    /\ classFilter = [t \in Threads |-> {}]
    /\ pc = [t \in Threads |-> "idle"] /\ asleep = [t \in Threads |-> FALSE]
    /\ req = [t \in Threads |-> NoRequest] /\ id = [t \in Threads |-> 0]
    /\ lRet = [t \in Threads |-> "OK"] /\ value = [t \in Threads |-> 0]
    /\ sent = <<>> /\ taken = <<>> /\ offered = <<>> /\ got = <<>>
    /\ calls = 0

Begin(t) ==
    /\ pc[t] = "idle" /\ calls < MaxCalls
    /\ \E r \in Requests :
        /\ Serial /\ r.op \in Commands =>
              \A u \in Threads : pc[u] # "idle" => req[u].op # r.op
        /\ req' = [req EXCEPT ![t] = r]
        /\ pc' = [pc EXCEPT ![t] = FirstStep(r.op)]
    /\ id' = [id EXCEPT ![t] = calls + 1] /\ calls' = calls + 1
    /\ UNCHANGED <<hskVars, dpmVars, flag, cfgVars, asleep, lRet, value, pktVars>>

GoTo(t, step) == pc' = [pc EXCEPT ![t] = step]
Return(t, ret) == lRet' = [lRet EXCEPT ![t] = ret] /\ GoTo(t, "idle")

-----------------------------------------------------------------------------
(* netana_tkit_WaitForBitState.  Two callers may wait for one event, which *)
(* only one of them consumes; the other looks again when its time is over. *)

FirstLook(t, b, state, done, fail) ==
    /\ ~asleep[t] /\ UNCHANGED events
    /\ \/ BitState(b, seen) = state /\ done /\ UNCHANGED asleep
       \/ BitState(b, seen) # state /\ ~req[t].wait /\ fail /\ UNCHANGED asleep
       \/ /\ BitState(b, seen) # state /\ req[t].wait
          /\ asleep' = [asleep EXCEPT ![t] = TRUE] /\ UNCHANGED <<pc, lRet>>

OnEvent(t, b, state, done) ==
    /\ asleep[t] /\ b \in events
    /\ events' = events \ {b}
    /\ IF BitState(b, seen) = state
       THEN done /\ asleep' = [asleep EXCEPT ![t] = FALSE]
       ELSE UNCHANGED <<asleep, pc, lRet>>

\* Mutant: the time that is left is never found to be over
OnTimeForever(t, b, state, done, fail) ==
    /\ Slow /\ asleep[t] /\ BitState(b, seen) = state
    /\ asleep' = [asleep EXCEPT ![t] = FALSE]
    /\ done /\ UNCHANGED events

OnTime(t, b, state, done, fail) ==
    /\ Slow /\ asleep[t] /\ UNCHANGED events
    /\ asleep' = [asleep EXCEPT ![t] = FALSE]
    /\ IF BitState(b, seen) = state THEN done ELSE fail

WaitForBit(t, b, state, next, fail) ==
    /\ LET done == GoTo(t, next) /\ UNCHANGED lRet
       IN \/ FirstLook(t, b, state, done, fail)
          \/ OnEvent(t, b, state, done)
          \/ OnTime(t, b, state, done, fail)
    /\ UNCHANGED <<host, netx, seen, dpmVars, flag, cfgVars, req, id, value, calls, pktVars>>

ToggleBit(b) == host' = Flip(host, b) /\ UNCHANGED <<netx, seen, events>>

(* netana_get_portstat, netana_access_phy_reg, netana_resync_time,         *)
(* netana_check_device_ident.                                              *)

InCommand(t, step) == req[t].op \in Commands /\ pc[t] = step

\* Mutant: no wait for the last command to be finished
CommandNotReady(t) ==
    /\ InCommand(t, "ready") /\ GoTo(t, "copy")
    /\ UNCHANGED <<hskVars, dpmVars, flag, cfgVars, asleep, req, id, lRet, value, calls, pktVars>>

CommandReady(t) ==
    /\ InCommand(t, "ready")
    /\ WaitForBit(t, req[t].op, "EQUAL", "copy", Return(t, "FAILED"))

CommandCopy(t) ==
    /\ InCommand(t, "copy")
    /\ block' = [block EXCEPT ![req[t].op].req = id[t]]
    /\ GoTo(t, "signal")
    /\ UNCHANGED <<hskVars, sendMbx, recvMbx, flag, cfgVars, asleep, req, id, lRet, value,
                   calls, pktVars>>

CommandSignal(t) ==
    /\ InCommand(t, "signal")
    /\ ToggleBit(req[t].op) /\ GoTo(t, "answer")
    /\ UNCHANGED <<dpmVars, flag, cfgVars, asleep, req, id, lRet, value, calls, pktVars>>

CommandAnswer(t) ==
    /\ InCommand(t, "answer")
    /\ WaitForBit(t, req[t].op, "EQUAL", "result", Return(t, "FAILED"))

CommandResult(t) ==
    /\ InCommand(t, "result")
    /\ value' = [value EXCEPT ![t] = block[req[t].op].ans]
    /\ Return(t, "OK")
    /\ UNCHANGED <<hskVars, dpmVars, flag, cfgVars, asleep, req, id, calls, pktVars>>

\* netana_mngmt_exec_cmd(BLINK): no wait, neither before nor after
Blink(t) ==
    /\ pc[t] = "do" /\ req[t].op = "BLINK"
    /\ ToggleBit("BLINK") /\ Return(t, "OK")
    /\ UNCHANGED <<dpmVars, flag, cfgVars, asleep, req, id, value, calls, pktVars>>

-----------------------------------------------------------------------------
(* netana_put_packet, netana_get_packet.  OS_ReleaseMutex wakes sleepers   *)
(* that can be interrupted, OS_WaitMutex sleeps so that it can not: a      *)
(* sleeper looks at the flag again when its time is over.                  *)

Mailbox(t) == IF req[t].op = "PUT" THEN "SEND" ELSE "RECV"
InPacket(t, op, step) == req[t].op = op /\ pc[t] = step

\* Mutant: the inner lock is taken for the mutex
TakeInnerLock(t) ==
    /\ flag' = [flag EXCEPT ![Mailbox(t)] = TRUE]
    /\ asleep' = [asleep EXCEPT ![t] = FALSE]
    /\ GoTo(t, "ready") /\ UNCHANGED lRet

TakeMutex(t) ==
    /\ ~flag[Mailbox(t)]
    /\ flag' = [flag EXCEPT ![Mailbox(t)] = TRUE]
    /\ asleep' = [asleep EXCEPT ![t] = FALSE]
    /\ GoTo(t, "ready") /\ UNCHANGED lRet

\* flag and inner lock are looked at together; without a time limit one try
MutexBusy(t) ==
    \/ flag[Mailbox(t)]
    \/ ~req[t].wait /\ \E u \in Threads \ {t} : /\ req[u].op = req[t].op
                                                /\ pc[u] \in {"lock", "release"}

WaitMutex(t) ==
    /\ pc[t] = "lock"
    /\ \/ TakeMutex(t)
       \/ /\ MutexBusy(t) /\ (asleep[t] \/ ~req[t].wait)
          /\ asleep' = [asleep EXCEPT ![t] = FALSE]
          /\ Return(t, "CMD_ACTIVE") /\ UNCHANGED flag
       \/ /\ MutexBusy(t) /\ ~asleep[t] /\ req[t].wait
          /\ asleep' = [asleep EXCEPT ![t] = TRUE]
          /\ UNCHANGED <<pc, lRet, flag>>
    /\ UNCHANGED <<hskVars, dpmVars, cfgVars, req, id, value, calls, pktVars>>

Fail(t, ret) == lRet' = [lRet EXCEPT ![t] = ret] /\ GoTo(t, "release")

PutTooLong(t) ==
    /\ InPacket(t, "PUT", "ready") /\ ~req[t].fits
    /\ Fail(t, "MAILBOX_TOO_SHORT")
    /\ UNCHANGED <<hskVars, dpmVars, flag, cfgVars, asleep, req, id, value, calls, pktVars>>

PutReady(t) ==
    /\ InPacket(t, "PUT", "ready") /\ req[t].fits
    /\ WaitForBit(t, "SEND", "EQUAL", "copy", Fail(t, "MAILBOX_FULL"))

PutCopy(t) ==
    /\ InPacket(t, "PUT", "copy")
    /\ sendMbx' = id[t] /\ GoTo(t, "signal")
    /\ UNCHANGED <<hskVars, block, recvMbx, flag, cfgVars, asleep, req, id, lRet, value,
                   calls, pktVars>>

PutSignal(t) ==
    /\ InPacket(t, "PUT", "signal")
    /\ ToggleBit("SEND")
    /\ sent' = Append(sent, id[t])
    /\ lRet' = [lRet EXCEPT ![t] = "OK"] /\ GoTo(t, "release")
    /\ UNCHANGED <<dpmVars, flag, cfgVars, asleep, req, id, value, calls, taken, offered, got>>

GetReady(t) ==
    /\ InPacket(t, "GET", "ready")
    /\ WaitForBit(t, "RECV", "UNEQUAL", "copy", Fail(t, "NO_PACKET"))

GetCopy(t) ==
    /\ InPacket(t, "GET", "copy")
    /\ value' = [value EXCEPT ![t] = recvMbx]
    /\ lRet' = [lRet EXCEPT ![t] = IF req[t].fits THEN "OK" ELSE "BUFFER_TOO_SHORT"]
    /\ GoTo(t, "signal")
    /\ UNCHANGED <<hskVars, dpmVars, flag, cfgVars, asleep, req, id, calls, pktVars>>

GetSignal(t) ==
    /\ InPacket(t, "GET", "signal")
    /\ ToggleBit("RECV")
    /\ got' = Append(got, value[t]) /\ GoTo(t, "release")
    /\ UNCHANGED <<dpmVars, flag, cfgVars, asleep, req, id, lRet, value, calls, sent, taken,
                   offered>>

ReleaseMutex(t) ==
    /\ pc[t] = "release"
    /\ flag' = [flag EXCEPT ![Mailbox(t)] = FALSE]
    /\ GoTo(t, "idle")
    /\ UNCHANGED <<hskVars, dpmVars, cfgVars, asleep, req, id, lRet, value, calls, pktVars>>

-----------------------------------------------------------------------------
(* Configuration: filters, GPIOs, open and close.  What must not change    *)
(* under a capture is refused after one look at ulCaptureState.            *)

ConfigFrame == <<hskVars, dpmVars, flag, asleep, req, id, value, calls, pktVars>>
InConfig(t, op, step) == req[t].op = op /\ pc[t] = step

CheckRunning(t) ==
    /\ pc[t] = "check" /\ req[t].op \in {"FILTER", "MODE"}
    /\ \/ running /\ Return(t, "CAPTURE_ACTIVE")
       \/ /\ ~running /\ UNCHANGED lRet
          /\ GoTo(t, IF req[t].op = "MODE" /\ req[t].mode = "PWM" THEN "others" ELSE "write")
    /\ UNCHANGED <<ConfigFrame, cfgVars>>

\* set_filter clears and copies one filter after the other: one step here
WriteFilter(t) ==
    /\ InConfig(t, "FILTER", "write")
    /\ filter' = [filter EXCEPT ![req[t].port] = id[t]]
    /\ Return(t, "OK")
    /\ UNCHANGED <<ConfigFrame, gpio, running, ulOpenCnt, classFilter, raced>>

\* data 0 is a period out of range
PwmElsewhereButLast(g) ==   \* mutant: the loop ends one GPIO early
    \E h \in Gpios \ {g, CHOOSE last \in Gpios : TRUE} : gpio[h].mode = "PWM"
PwmElsewhere(g) == \E h \in Gpios \ {g} : gpio[h].mode = "PWM"
CheckPwm(t) ==
    /\ InConfig(t, "MODE", "others")
    /\ \/ req[t].data = 0 /\ Return(t, "INVALID_PARAMETER")
       \/ req[t].data # 0 /\ PwmElsewhere(req[t].gpio) /\ Return(t, "FAILED")
       \/ /\ req[t].data # 0 /\ ~PwmElsewhere(req[t].gpio)
          /\ GoTo(t, "write") /\ UNCHANGED lRet
    /\ UNCHANGED <<ConfigFrame, cfgVars>>

\* the data of all modes is a union: NONE leaves what is there, OUTPUT clears it
PwmWriter(t) == InConfig(t, "MODE", "write") /\ req[t].mode = "PWM"
WriteMode(t) ==
    /\ InConfig(t, "MODE", "write")
    /\ raced' = (raced \/ /\ PwmWriter(t)
                          /\ \E u \in Threads : PwmWriter(u) /\ req[u].gpio # req[t].gpio)
    /\ LET r == req[t]
       IN gpio' = [gpio EXCEPT ![r.gpio].mode = r.mode,
                               ![r.gpio].data = CASE r.mode = "NONE"   -> @
                                                  [] r.mode = "OUTPUT" -> 0
                                                  [] OTHER             -> r.data]
    /\ Return(t, "OK")
    /\ UNCHANGED <<ConfigFrame, filter, running, ulOpenCnt, classFilter>>

\* the level may change while a capture runs
CheckOutput(t) ==
    /\ InConfig(t, "LEVEL", "check")
    /\ \/ gpio[req[t].gpio].mode = "OUTPUT" /\ GoTo(t, "write") /\ UNCHANGED lRet
       \/ gpio[req[t].gpio].mode # "OUTPUT" /\ Return(t, "FAILED")
    /\ UNCHANGED <<ConfigFrame, cfgVars>>

WriteLevel(t) ==
    /\ InConfig(t, "LEVEL", "write")
    /\ gpio' = [gpio EXCEPT ![req[t].gpio].data = 1]
    /\ Return(t, "OK")
    /\ UNCHANGED <<ConfigFrame, filter, running, ulOpenCnt, classFilter, raced>>

VoltageAllowed(r) ==
    /\ Class = "NANL" => r.mask = Gpios
    /\ r.sel = "24V" => r.mask \subseteq HighVoltage
SetVoltage(t) ==
    /\ InConfig(t, "VOLTAGE", "do")
    /\ LET r == req[t]
       IN IF VoltageAllowed(r)
          THEN /\ gpio' = [g \in Gpios |-> IF g \in r.mask
                                           THEN [gpio[g] EXCEPT !.voltage = r.sel]
                                           ELSE gpio[g]]
               /\ Return(t, "OK")
          ELSE Return(t, "INVALID_PARAMETER") /\ UNCHANGED gpio
    /\ UNCHANGED <<ConfigFrame, filter, running, ulOpenCnt, classFilter, raced>>

\* USER_SetDevClassFilter: the entry of the caller's process
SetClassFilter(t) ==
    /\ InConfig(t, "CLASS", "do")
    /\ classFilter' = [classFilter EXCEPT ![t] = {req[t].class}]
    /\ Return(t, "OK")
    /\ UNCHANGED <<ConfigFrame, filter, gpio, running, ulOpenCnt, raced>>

\* open puts filters and GPIOs back: the filters unless a capture runs, for
\* set_filter refuses and nobody looks, the GPIOs always
OpenDevice(t) ==
    /\ InConfig(t, "OPEN", "do")
    /\ LET classes == IF classFilter[t] = {} THEN {"NANL"} ELSE classFilter[t]
           opens   == Class \in classes /\ ulOpenCnt = 0
       IN /\ classFilter' = [classFilter EXCEPT ![t] = classes]
          /\ Return(t, CASE Class \notin classes -> "ACCESS_DENIED"
                         [] opens               -> "OK"
                         [] OTHER               -> "STILL_OPEN")
          /\ ulOpenCnt' = IF opens THEN 1 ELSE ulOpenCnt
          /\ filter' = IF opens /\ ~running THEN [p \in Ports |-> DefaultFilter] ELSE filter
          /\ gpio' = IF opens THEN [g \in Gpios |-> DefaultGpio] ELSE gpio
          /\ raced' = (raced /\ ~opens)
    /\ UNCHANGED <<ConfigFrame, running>>

CloseDevice(t) ==
    /\ InConfig(t, "CLOSE", "do")
    /\ IF ulOpenCnt > 0
       THEN ulOpenCnt' = ulOpenCnt - 1 /\ Return(t, "OK")
       ELSE Return(t, "NOT_OPEN") /\ UNCHANGED ulOpenCnt
    /\ UNCHANGED <<ConfigFrame, filter, gpio, running, classFilter, raced>>

-----------------------------------------------------------------------------
(* The device (external) and the DSR, which copies the netX bits and sets  *)
(* the events of those that changed.  Start and stop are Capture's matter. *)

DeviceFrame == <<seen, events, host, flag, cfgVars, callVars>>

FwServe(c) ==
    /\ BitState(c, netx) = "UNEQUAL"
    /\ block' = [block EXCEPT ![c].ans = block[c].req]
    /\ netx' = Flip(netx, c)
    /\ UNCHANGED <<DeviceFrame, sendMbx, recvMbx, pktVars>>

FwBlink ==
    /\ BitState("BLINK", netx) = "UNEQUAL"
    /\ netx' = Flip(netx, "BLINK")
    /\ UNCHANGED <<DeviceFrame, dpmVars, pktVars>>

FwTake ==
    /\ BitState("SEND", netx) = "UNEQUAL"
    /\ taken' = Append(taken, sendMbx)
    /\ netx' = Flip(netx, "SEND")
    /\ UNCHANGED <<DeviceFrame, dpmVars, sent, offered, got>>

FwOffer ==
    /\ BitState("RECV", netx) = "EQUAL" /\ Len(offered) < MaxPackets
    /\ recvMbx' = Len(offered) + 1
    /\ offered' = Append(offered, Len(offered) + 1)
    /\ netx' = Flip(netx, "RECV")
    /\ UNCHANGED <<DeviceFrame, block, sendMbx, sent, taken, got>>

CaptureChanges ==
    /\ running' = ~running
    /\ UNCHANGED <<hskVars, dpmVars, flag, filter, gpio, ulOpenCnt, classFilter, raced,
                   callVars, pktVars>>

DsrHandler ==
    /\ netx # seen
    /\ seen' = netx
    /\ events' = events \cup {b \in Bits : (b \in netx) # (b \in seen)}
    /\ UNCHANGED <<host, netx, dpmVars, flag, cfgVars, callVars, pktVars>>

-----------------------------------------------------------------------------
Command(t) == \/ CommandReady(t) \/ CommandCopy(t) \/ CommandSignal(t)
              \/ CommandAnswer(t) \/ CommandResult(t) \/ Blink(t)
Packet(t) == \/ WaitMutex(t) \/ PutTooLong(t) \/ PutReady(t) \/ PutCopy(t) \/ PutSignal(t)
             \/ GetReady(t) \/ GetCopy(t) \/ GetSignal(t) \/ ReleaseMutex(t)
Config(t) == \/ CheckRunning(t) \/ WriteFilter(t) \/ CheckPwm(t) \/ WriteMode(t)
             \/ CheckOutput(t) \/ WriteLevel(t) \/ SetVoltage(t) \/ SetClassFilter(t)
             \/ OpenDevice(t) \/ CloseDevice(t)
Call(t) == Command(t) \/ Packet(t) \/ Config(t)
Device == \/ \E c \in Commands : FwServe(c)
          \/ FwBlink \/ FwTake \/ FwOffer \/ CaptureChanges \/ DsrHandler

Next == (\E t \in Threads : Begin(t) \/ Call(t)) \/ Device
Spec == Init /\ [][Next]_vars

\* A thread inside a call runs on, and its time limits pass.  Nothing is
\* asked of the device or of the DSR.
LiveSpec == Spec /\ \A t \in Threads : WF_vars(Call(t))

-----------------------------------------------------------------------------
Steps == {"idle", "ready", "copy", "signal", "answer", "result", "do", "lock", "release",
          "check", "others", "write"}
Returns == {"OK", "FAILED", "CMD_ACTIVE", "MAILBOX_TOO_SHORT", "MAILBOX_FULL", "NO_PACKET",
            "BUFFER_TOO_SHORT", "CAPTURE_ACTIVE", "INVALID_PARAMETER", "ACCESS_DENIED",
            "STILL_OPEN", "NOT_OPEN"}

\* A command that reports success returns the firmware's answer to its own
\* request, also after calls whose time ran out before the firmware served
\* them: a late answer is never taken for the next one (netana_access_phy_reg
\* and its likes, functions.c:761, 1076, 1504, 1656).
AnswerIsOwn ==
    \A t \in Threads :
        pc[t] = "idle" /\ req[t].op \in Commands /\ lRet[t] = "OK" => value[t] = id[t]

\* Every packet put into the send mailbox reaches the device once and in
\* order, every packet the device offers is read once and in order, however
\* many callers use the mailboxes (netana_put_packet, netana_get_packet).
Pending(m, packet) == IF BitState(m, netx) = "UNEQUAL" THEN <<packet>> ELSE <<>>
PacketsOnce ==
    /\ sent = taken \o Pending("SEND", sendMbx)
    /\ offered = got \o Pending("RECV", recvMbx)

\* At most one GPIO is a PWM output: netana_set_gpio_mode promises to "only
\* activate PWM if it is not allready configured" (functions.c:1245).
AtMostOnePwm ==
    \A g, h \in Gpios : gpio[g].mode = "PWM" /\ gpio[h].mode = "PWM" => g = h

\* The code breaks this only between the look at the other GPIOs and the
\* write (functions.c:1246, 1269): two PWM outputs mean that one caller
\* wrote while another one stood there.  No other order of the calls, of
\* modes, levels, voltages, opens and closes, gives two of them.
TwoPwmByRace == ~raced => AtMostOnePwm

\* Every call ends, also if the device is dead or the mutex is never free:
\* each wait has a time limit (WaitForBitState, OS_WaitMutex).
CallsEnd == \A t \in Threads : pc[t] # "idle" ~> pc[t] = "idle"

=============================================================================
