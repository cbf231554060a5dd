------------------------ MODULE DeviceCommands_proofs ------------------------
(***************************************************************************)
(* Packets pass the mailboxes once and in order, for any number of callers *)
(* and packets, and whatever waits run out.  If the callers of a command   *)
(* keep out of each other's way, a command that reports success has the    *)
(* firmware's answer to its own request.  Two GPIOs become PWM outputs     *)
(* only if one caller writes between the look and the write of another.    *)
(***************************************************************************)
EXTENDS DeviceCommands, SequenceTheorems, TLAPS

Types ==
    /\ pc \in [Threads -> Steps] /\ asleep \in [Threads -> BOOLEAN]
    /\ lRet \in [Threads -> Returns]
    /\ req = [t \in Threads |-> req[t]]
    /\ id \in [Threads -> Nat] /\ value \in [Threads -> Nat]
    /\ flag \in [Mailboxes -> BOOLEAN]
    /\ block \in [Commands -> [req : Nat, ans : Nat]]
    /\ sendMbx \in Nat /\ recvMbx \in Nat /\ calls \in Nat
    /\ sent \in Seq(Nat) /\ taken \in Seq(Nat)
    /\ offered \in Seq(Nat) /\ got \in Seq(Nat)

(* The mutex.  A caller is inside from TakeMutex to ReleaseMutex.          *)
Inside(t) == req[t].op \in {"PUT", "GET"} /\ pc[t] \in {"ready", "copy", "signal", "release"}
Mutex ==
    /\ \A t \in Threads : pc[t] \in {"lock", "release"} => req[t].op \in {"PUT", "GET"}
    /\ \A t \in Threads : Inside(t) => flag[Mailbox(t)]
    /\ \A t, u \in Threads :
          Inside(t) /\ Inside(u) /\ req[t].op = req[u].op => t = u

(* The driver's copy of the netX bits lags behind.  What it says about a   *)
(* mailbox the host may use is so nevertheless: the firmware touches the   *)
(* send mailbox only while the bits are unequal, the receive mailbox only  *)
(* while they are equal.                                                   *)
Lag ==
    /\ BitState("SEND", seen) = "EQUAL" => BitState("SEND", netx) = "EQUAL"
    /\ BitState("RECV", seen) = "UNEQUAL" => BitState("RECV", netx) = "UNEQUAL"
InPacketStep(t) ==
    /\ req[t].op = "PUT" /\ pc[t] \in {"copy", "signal"} => BitState("SEND", seen) = "EQUAL"
    /\ req[t].op = "PUT" /\ pc[t] = "signal" => sendMbx = id[t]
    /\ req[t].op = "GET" /\ pc[t] \in {"copy", "signal"} => BitState("RECV", seen) = "UNEQUAL"
    /\ req[t].op = "GET" /\ pc[t] = "signal" => value[t] = recvMbx
InPacketSteps == \A t \in Threads : InPacketStep(t)

PacketInv == Types /\ Mutex /\ Lag /\ InPacketSteps /\ PacketsOnce

(* The same for the commands, where Serial stands for the mutex.           *)
CommandSteps == {"ready", "copy", "signal", "answer", "result"}
Alone ==
    \A t, u \in Threads :
        (/\ req[t].op \in Commands /\ pc[t] # "idle"
         /\ req[u].op = req[t].op /\ pc[u] # "idle") => t = u
LagCommand ==
    \A c \in Commands : BitState(c, seen) = "EQUAL" => BitState(c, netx) = "EQUAL"
InCommandStep(t) ==
    req[t].op \in Commands =>
        LET c == req[t].op
        IN /\ pc[t] \in {"copy", "signal", "result"} => BitState(c, seen) = "EQUAL"
           /\ pc[t] = "signal" => block[c].req = id[t]
           /\ pc[t] = "answer" => IF BitState(c, netx) = "EQUAL" THEN block[c].ans = id[t]
                                                                 ELSE block[c].req = id[t]
           /\ pc[t] = "result" => block[c].ans = id[t]
InCommandSteps == \A t \in Threads : InCommandStep(t)
CommandInv == Alone /\ LagCommand /\ InCommandSteps /\ AnswerIsOwn

-----------------------------------------------------------------------------
(* Packets at the end of a sequence.                                       *)

LEMMA ConcatFacts ==
    ASSUME NEW s \in Seq(Nat), NEW x \in Nat
    PROVE  s \o <<>> = s /\ Append(s, x) = s \o <<x>> /\ Append(s, x) \in Seq(Nat)
OBVIOUS

(* A call that is not for a mailbox leaves what the mailbox calls rely on  *)
(* alone.                                                                  *)
Elsewhere(t) ==
    /\ req[t].op \notin {"PUT", "GET"}
    /\ pc' \in [Threads -> Steps] /\ pc'[t] \notin {"lock", "release"}
    /\ value' \in [Threads -> Nat] /\ lRet' \in [Threads -> Returns]
    /\ asleep' \in [Threads -> BOOLEAN] /\ block' \in [Commands -> [req : Nat, ans : Nat]]
    /\ \A u \in Threads \ {t} : pc'[u] = pc[u] /\ value'[u] = value[u]
    /\ UNCHANGED <<req, id, calls, flag, netx, seen, sendMbx, recvMbx, pktVars>>
    /\ \A b \in Mailboxes : (b \in host') = (b \in host)

LEMMA CommandElsewhere ==
    ASSUME Types, NEW t \in Threads, Command(t)
    PROVE  Elsewhere(t)
<1> USE CommandsAssumption DEF Types, Steps, Returns, Elsewhere, vars, hskVars, dpmVars,
        pktVars, cfgVars, Mailboxes, GoTo, Return, InCommand, ToggleBit
<1>1. CASE CommandReady(t)
  BY <1>1 DEF CommandReady, WaitForBit, FirstLook, OnEvent, OnTime
<1>2. CASE CommandCopy(t)
  <2>1. /\ block[req[t].op] \in [req : Nat, ans : Nat] /\ req[t].op \in Commands
        /\ block' = [block EXCEPT ![req[t].op] = [@ EXCEPT !.req = id[t]]]
    BY <1>2 DEF CommandCopy
  <2>2. block' \in [Commands -> [req : Nat, ans : Nat]]
    BY <2>1
  <2>3. QED
    BY <1>2, <2>2 DEF CommandCopy
<1>3. CASE CommandSignal(t)
  <2>1. req[t].op \notin Mailboxes /\ host' = Flip(host, req[t].op)
    BY <1>3 DEF CommandSignal
  <2>2. \A b \in Mailboxes : (b \in host') = (b \in host)
    BY <2>1 DEF Flip
  <2>3. QED
    BY <1>3, <2>2 DEF CommandSignal
<1>4. CASE CommandAnswer(t)
  BY <1>4 DEF CommandAnswer, WaitForBit, FirstLook, OnEvent, OnTime
<1>5. CASE CommandResult(t)
  BY <1>5 DEF CommandResult
<1>6. CASE Blink(t)
  BY <1>6 DEF Blink, Flip
<1>7. QED
  BY <1>1, <1>2, <1>3, <1>4, <1>5, <1>6 DEF Command

LEMMA ConfigElsewhere ==
    ASSUME Types, NEW t \in Threads, Config(t)
    PROVE  Elsewhere(t)
<1> USE CommandsAssumption DEF Types, Steps, Returns, Elsewhere, hskVars, dpmVars, pktVars,
        ConfigFrame, InConfig, Return, GoTo
<1>1. CASE CheckRunning(t)
  BY <1>1 DEF CheckRunning
<1>2. CASE WriteFilter(t)
  BY <1>2 DEF WriteFilter
<1>3. CASE CheckPwm(t)
  BY <1>3 DEF CheckPwm
<1>4. CASE WriteMode(t)
  BY <1>4 DEF WriteMode
<1>5. CASE CheckOutput(t)
  BY <1>5 DEF CheckOutput
<1>6. CASE WriteLevel(t)
  BY <1>6 DEF WriteLevel
<1>7. CASE SetVoltage(t)
  BY <1>7 DEF SetVoltage
<1>8. CASE SetClassFilter(t)
  BY <1>8 DEF SetClassFilter
<1>9. CASE OpenDevice(t)
  BY <1>9 DEF OpenDevice
<1>10. CASE CloseDevice(t)
  BY <1>10 DEF CloseDevice
<1>11. QED
  BY <1>1, <1>2, <1>3, <1>4, <1>5, <1>6, <1>7, <1>8, <1>9, <1>10 DEF Config

-----------------------------------------------------------------------------
(* The mailboxes.                                                          *)

LEMMA PacketInit == Init => PacketInv
<1> SUFFICES ASSUME Init PROVE PacketInv
  OBVIOUS
<1>1. Types
  BY DEF Init, Types, Steps, Returns, Mailboxes
<1>2. Mutex /\ InPacketSteps
  BY DEF Init, Mutex, InPacketSteps, InPacketStep, Inside, NoRequest
<1>3. Lag /\ PacketsOnce
  BY DEF Init, Lag, PacketsOnce, Pending, BitState
<1>4. QED
  BY <1>1, <1>2, <1>3 DEF PacketInv

LEMMA ElsewhereKeeps ==
    ASSUME PacketInv, NEW t \in Threads, Elsewhere(t)
    PROVE  PacketInv'
<1> USE DEF PacketInv, Elsewhere, pktVars
<1>1. Types'
  BY DEF Types
<1>2. Mutex'
  BY DEF Types, Mutex, Inside, Mailbox
<1>3. \A b \in Mailboxes : BitState(b, seen)' = BitState(b, seen)
                        /\ BitState(b, netx)' = BitState(b, netx)
  BY DEF BitState
<1>4. Lag'
  BY <1>3 DEF Lag, Mailboxes
<1>5. InPacketSteps'
  BY <1>3 DEF InPacketSteps, InPacketStep, Mailboxes, Types
<1>6. PacketsOnce'
  BY <1>3 DEF PacketsOnce, Pending, Mailboxes
<1>7. QED
  BY <1>1, <1>2, <1>4, <1>5, <1>6

LEMMA PacketTypes ==
    ASSUME PacketInv, NEW t \in Threads, Packet(t)
    PROVE  Types'
<1> USE DEF PacketInv, Types, Steps, Returns, Mailboxes, Mailbox, hskVars, dpmVars, pktVars,
        GoTo, Return, Fail, InPacket
<1>1. CASE WaitMutex(t)
  BY <1>1 DEF WaitMutex, TakeMutex, MutexBusy
<1>2. CASE PutTooLong(t)
  BY <1>2 DEF PutTooLong
<1>3. CASE PutReady(t)
  BY <1>3 DEF PutReady, WaitForBit, FirstLook, OnEvent, OnTime
<1>4. CASE PutCopy(t)
  BY <1>4 DEF PutCopy
<1>5. CASE PutSignal(t)
  BY <1>5, ConcatFacts DEF PutSignal, ToggleBit
<1>6. CASE GetReady(t)
  BY <1>6 DEF GetReady, WaitForBit, FirstLook, OnEvent, OnTime
<1>7. CASE GetCopy(t)
  BY <1>7 DEF GetCopy
<1>8. CASE GetSignal(t)
  BY <1>8, ConcatFacts DEF GetSignal, ToggleBit
<1>9. CASE ReleaseMutex(t)
  BY <1>9 DEF ReleaseMutex
<1>10. QED
  BY <1>1, <1>2, <1>3, <1>4, <1>5, <1>6, <1>7, <1>8, <1>9 DEF Packet

LEMMA PacketMutex ==
    ASSUME PacketInv, NEW t \in Threads, Packet(t)
    PROVE  Mutex'
<1> USE DEF PacketInv, Types, Mutex, Inside, Mailboxes, Mailbox, hskVars, dpmVars, pktVars,
        GoTo, Return, Fail, InPacket
<1>1. CASE WaitMutex(t)
  <2>1. /\ req[t].op \in {"PUT", "GET"} /\ ~Inside(t) /\ req' = req
        /\ \A u \in Threads : req[u].op = req[t].op => Mailbox(u) = Mailbox(t)
    BY <1>1 DEF WaitMutex
  <2>2. CASE TakeMutex(t)
    <3>1. ~flag[Mailbox(t)] /\ flag' = [flag EXCEPT ![Mailbox(t)] = TRUE]
      BY <2>2 DEF TakeMutex
    <3>2. pc' = [pc EXCEPT ![t] = "ready"]
      BY <2>2 DEF TakeMutex
    <3>3. \A u \in Threads : Inside(u) => req[u].op # req[t].op
      BY <2>1, <3>1
    <3>4. \A u \in Threads \ {t} : Inside(u)' = Inside(u)
      BY <2>1, <3>2
    <3>5. \A u \in Threads : Mailbox(u)' = Mailbox(u)
      BY <2>1
    <3>6. \A u \in Threads : Inside(u)' => flag'[Mailbox(u)']
      BY <3>1, <3>4, <3>5
    <3>7. QED
      BY <2>1, <3>2, <3>3, <3>4, <3>6
  <2>3. CASE flag' = flag /\ (pc' = pc \/ pc' = [pc EXCEPT ![t] = "idle"])
    BY <2>1, <2>3
  <2>4. QED
    BY <1>1, <2>2, <2>3 DEF WaitMutex
<1>2. CASE PutTooLong(t)
  BY <1>2 DEF PutTooLong
<1>3. CASE PutReady(t)
  <2>1. /\ req' = req /\ flag' = flag /\ Inside(t)
        /\ \/ pc' = pc
           \/ pc' = [pc EXCEPT ![t] = "copy"]
           \/ pc' = [pc EXCEPT ![t] = "release"]
    BY <1>3 DEF PutReady, WaitForBit, FirstLook, OnEvent, OnTime
  <2>2. QED
    BY <2>1
<1>4. CASE PutCopy(t)
  BY <1>4 DEF PutCopy
<1>5. CASE PutSignal(t)
  BY <1>5 DEF PutSignal, ToggleBit
<1>6. CASE GetReady(t)
  <2>1. /\ req' = req /\ flag' = flag /\ Inside(t)
        /\ \/ pc' = pc
           \/ pc' = [pc EXCEPT ![t] = "copy"]
           \/ pc' = [pc EXCEPT ![t] = "release"]
    BY <1>6 DEF GetReady, WaitForBit, FirstLook, OnEvent, OnTime
  <2>2. QED
    BY <2>1
<1>7. CASE GetCopy(t)
  BY <1>7 DEF GetCopy
<1>8. CASE GetSignal(t)
  BY <1>8 DEF GetSignal, ToggleBit
<1>9. CASE ReleaseMutex(t)
  BY <1>9 DEF ReleaseMutex
<1>10. QED
  BY <1>1, <1>2, <1>3, <1>4, <1>5, <1>6, <1>7, <1>8, <1>9 DEF Packet

\* nobody else is at work on the mailbox
LEMMA OthersOutside ==
    ASSUME PacketInv, NEW t \in Threads, NEW u \in Threads, u # t,
           Inside(t), req[u].op = req[t].op
    PROVE  pc[u] \notin {"copy", "signal"}
BY DEF PacketInv, Mutex, Inside

\* a step of a mailbox call survives what leaves its own mailbox alone
LEMMA PutSame ==
    ASSUME NEW u \in Threads, InPacketStep(u), req[u].op # "PUT", pc'[u] = pc[u],
           UNCHANGED <<req, id, value, sendMbx, recvMbx>>,
           BitState("RECV", seen)' = BitState("RECV", seen)
    PROVE  InPacketStep(u)'
BY DEF InPacketStep

LEMMA GetSame ==
    ASSUME NEW u \in Threads, InPacketStep(u), req[u].op # "GET", pc'[u] = pc[u],
           UNCHANGED <<req, id, value, sendMbx, recvMbx>>,
           BitState("SEND", seen)' = BitState("SEND", seen)
    PROVE  InPacketStep(u)'
BY DEF InPacketStep

LEMMA PacketData ==
    ASSUME PacketInv, NEW t \in Threads, Packet(t)
    PROVE  Lag' /\ InPacketSteps' /\ PacketsOnce'
<1> USE DEF PacketInv, Types, Lag, InPacketSteps, InPacketStep, PacketsOnce, Pending,
        BitState, Inside, Mailbox, hskVars, dpmVars, pktVars, GoTo, Return, Fail, InPacket
<1>1. CASE WaitMutex(t)
  BY <1>1 DEF WaitMutex, TakeMutex, MutexBusy
<1>2. CASE PutTooLong(t)
  BY <1>2 DEF PutTooLong
<1>3. CASE PutReady(t)
  BY <1>3 DEF PutReady, WaitForBit, FirstLook, OnEvent, OnTime
<1>4. CASE PutCopy(t)
  BY <1>4, OthersOutside DEF PutCopy
<1>5. CASE PutSignal(t)
  <2>1. /\ BitState("SEND", seen) = "EQUAL" /\ sendMbx = id[t]
        /\ Inside(t) /\ req[t].op = "PUT"
        /\ host' = Flip(host, "SEND") /\ sent' = Append(sent, sendMbx)
        /\ pc' = [pc EXCEPT ![t] = "release"]
        /\ UNCHANGED <<seen, netx, sendMbx, recvMbx, req, id, value, taken, offered, got>>
    BY <1>5 DEF PutSignal, ToggleBit
  <2>2. /\ ("SEND" \in host') # ("SEND" \in host)
        /\ ("RECV" \in host') = ("RECV" \in host)
    BY <2>1 DEF Flip
  <2>3. Lag'
    BY <2>1, <2>2
  <2>4. InPacketSteps'
    <3>1. ASSUME NEW u \in Threads, u # t
          PROVE  pc'[u] = pc[u] /\ (req[u].op = req[t].op => pc[u] \notin {"copy", "signal"})
      BY <2>1, <3>1, OthersOutside
    <3>2. InPacketStep(t)'
      BY <2>1
    <3>3. ASSUME NEW u \in Threads, u # t PROVE InPacketStep(u)'
      <4>1. InPacketStep(u) /\ u # t
        BY <3>3
      <4>2. CASE req[u].op = "PUT"
        <5>1. pc'[u] \notin {"copy", "signal"} /\ req'[u].op = "PUT"
          BY <2>1, <3>1, <3>3, <4>2
        <5>2. QED
          BY <5>1
      <4>3. CASE req[u].op # "PUT"
        <5>1. BitState("RECV", seen)' = BitState("RECV", seen)
          BY <2>1, <2>2
        <5>2. pc'[u] = pc[u] /\ UNCHANGED <<req, id, value, sendMbx, recvMbx>>
          BY <2>1, <3>1, <3>3
        <5>3. QED
          BY ONLY <3>3, <4>1, <4>3, <5>1, <5>2, PutSame
      <4>4. QED
        BY <4>2, <4>3
    <3>4. QED
      BY <3>2, <3>3
  <2>5. sent' = taken' \o Pending("SEND", sendMbx)'
    BY <2>1, <2>2, ConcatFacts
  <2>6. QED
    BY <2>1, <2>2, <2>3, <2>4, <2>5
<1>6. CASE GetReady(t)
  BY <1>6 DEF GetReady, WaitForBit, FirstLook, OnEvent, OnTime
<1>7. CASE GetCopy(t)
  BY <1>7, OthersOutside DEF GetCopy
<1>8. CASE GetSignal(t)
  <2>1. /\ BitState("RECV", seen) = "UNEQUAL" /\ value[t] = recvMbx
        /\ Inside(t) /\ req[t].op = "GET"
        /\ host' = Flip(host, "RECV") /\ got' = Append(got, recvMbx)
        /\ pc' = [pc EXCEPT ![t] = "release"]
        /\ UNCHANGED <<seen, netx, sendMbx, recvMbx, req, id, value, sent, taken, offered>>
    BY <1>8 DEF GetSignal, ToggleBit
  <2>2. /\ ("RECV" \in host') # ("RECV" \in host)
        /\ ("SEND" \in host') = ("SEND" \in host)
    BY <2>1 DEF Flip
  <2>3. Lag'
    BY <2>1, <2>2
  <2>4. InPacketSteps'
    <3>1. ASSUME NEW u \in Threads, u # t
          PROVE  pc'[u] = pc[u] /\ (req[u].op = req[t].op => pc[u] \notin {"copy", "signal"})
      BY <2>1, <3>1, OthersOutside
    <3>2. InPacketStep(t)'
      BY <2>1
    <3>3. ASSUME NEW u \in Threads, u # t PROVE InPacketStep(u)'
      <4>1. InPacketStep(u) /\ u # t
        BY <3>3
      <4>2. CASE req[u].op = "GET"
        <5>1. pc'[u] \notin {"copy", "signal"} /\ req'[u].op = "GET"
          BY <2>1, <3>1, <3>3, <4>2
        <5>2. QED
          BY <5>1
      <4>3. CASE req[u].op # "GET"
        <5>1. BitState("SEND", seen)' = BitState("SEND", seen)
          BY <2>1, <2>2
        <5>2. pc'[u] = pc[u] /\ UNCHANGED <<req, id, value, sendMbx, recvMbx>>
          BY <2>1, <3>1, <3>3
        <5>3. QED
          BY ONLY <3>3, <4>1, <4>3, <5>1, <5>2, GetSame
      <4>4. QED
        BY <4>2, <4>3
    <3>4. QED
      BY <3>2, <3>3
  <2>5. offered' = got' \o Pending("RECV", recvMbx)'
    BY <2>1, <2>2, ConcatFacts
  <2>6. QED
    BY <2>1, <2>2, <2>3, <2>4, <2>5
<1>9. CASE ReleaseMutex(t)
  BY <1>9 DEF ReleaseMutex
<1>10. QED
  BY <1>1, <1>2, <1>3, <1>4, <1>5, <1>6, <1>7, <1>8, <1>9 DEF Packet

LEMMA DeviceKeeps ==
    ASSUME PacketInv, Device
    PROVE  PacketInv'
<1> USE CommandsAssumption DEF PacketInv, Types, Mutex, Lag, InPacketSteps, InPacketStep,
        PacketsOnce, Pending, BitState, Inside, Mailbox, hskVars, dpmVars, pktVars,
        callVars, cfgVars,
        DeviceFrame, Flip
<1>1. CASE \E c \in Commands : FwServe(c)
  <2>1. PICK c \in Commands : FwServe(c)
    BY <1>1
  <2>2. block' \in [Commands -> [req : Nat, ans : Nat]]
    BY <2>1 DEF FwServe
  <2>3. ("SEND" \in netx') = ("SEND" \in netx) /\ ("RECV" \in netx') = ("RECV" \in netx)
    <3>1. c # "SEND" /\ c # "RECV" /\ netx' = Flip(netx, c)
      BY <2>1 DEF FwServe
    <3>2. QED
      BY <3>1
  <2>4. QED
    BY <2>1, <2>2, <2>3 DEF FwServe
<1>2. CASE FwBlink
  <2>1. /\ ("SEND" \in netx') = ("SEND" \in netx) /\ ("RECV" \in netx') = ("RECV" \in netx)
        /\ netx' \subseteq netx \cup {"BLINK"}
    BY <1>2 DEF FwBlink
  <2>2. UNCHANGED <<host, seen, dpmVars, events, flag, cfgVars, callVars, pktVars>>
    BY <1>2 DEF FwBlink
  <2>3. QED
    BY <2>1, <2>2
<1>3. CASE FwTake
  BY <1>3, ConcatFacts DEF FwTake
<1>4. CASE FwOffer
  <2>1. /\ Len(offered) + 1 \in Nat /\ offered = got \o <<>>
        /\ offered' = Append(offered, recvMbx') /\ recvMbx' = Len(offered) + 1
        /\ netx' = Flip(netx, "RECV")
        /\ UNCHANGED <<host, seen, pc, req, id, value, sendMbx, sent, taken, got>>
    BY <1>4 DEF FwOffer
  <2>2. /\ ("RECV" \in netx') # ("RECV" \in netx)
        /\ ("SEND" \in netx') = ("SEND" \in netx)
    BY <2>1
  <2>3. offered' = got' \o <<recvMbx'>> /\ offered' \in Seq(Nat)
    <3>1. recvMbx' \in Nat /\ got' = got /\ got \in Seq(Nat)
      BY <2>1
    <3>2. offered' = Append(got, recvMbx')
      BY <2>1, <3>1, ConcatFacts
    <3>3. QED
      BY <3>1, <3>2, ConcatFacts
  <2>4. BitState("RECV", seen) = "EQUAL"
    BY <1>4 DEF FwOffer
  <2>5. Lag' /\ InPacketSteps' /\ PacketsOnce'
    BY <1>4, <2>1, <2>2, <2>3, <2>4 DEF FwOffer
  <2>6. netx' \subseteq netx \cup {"RECV"} /\ recvMbx' \in Nat
    BY <2>1
  <2>7. UNCHANGED <<seen, events, host, flag, cfgVars, callVars, block>>
    BY <1>4 DEF FwOffer
  <2>8. Types' /\ Mutex'
    BY <2>1, <2>3, <2>6, <2>7
  <2>9. QED
    BY <2>5, <2>8
<1>5. CASE CaptureChanges
  BY <1>5 DEF CaptureChanges
<1>6. CASE DsrHandler
  BY <1>6 DEF DsrHandler
<1>7. QED
  BY <1>1, <1>2, <1>3, <1>4, <1>5, <1>6 DEF Device

LEMMA BeginKeeps ==
    ASSUME PacketInv, NEW t \in Threads, Begin(t)
    PROVE  PacketInv'
<1> USE CommandsAssumption DEF PacketInv, hskVars, dpmVars, pktVars, cfgVars
<1>1. PICK r \in Requests : /\ req' = [req EXCEPT ![t] = r]
                            /\ pc' = [pc EXCEPT ![t] = FirstStep(r.op)]
  BY DEF Begin
<1>2. /\ FirstStep(r.op) \in {"ready", "lock", "check", "do"}
      /\ r.op \in {"PUT", "GET"} <=> FirstStep(r.op) = "lock"
  BY DEF FirstStep
<1>3. Types'
  <2>1. pc' \in [Threads -> Steps] /\ req' = [u \in Threads |-> req'[u]]
    BY <1>1, <1>2 DEF Types, Steps
  <2>2. id' \in [Threads -> Nat] /\ calls' \in Nat
    BY DEF Begin, Types
  <2>3. QED
    BY <2>1, <2>2 DEF Begin, Types
<1>4. Mutex'
  BY <1>1, <1>2 DEF Begin, Types, Mutex, Inside, Mailbox
<1>5. Lag' /\ PacketsOnce'
  BY DEF Begin, Lag, PacketsOnce, Pending, BitState
<1>6. InPacketSteps'
  BY <1>1, <1>2 DEF Begin, Types, InPacketSteps, InPacketStep, BitState
<1>7. QED
  BY <1>3, <1>4, <1>5, <1>6

LEMMA PacketStep == PacketInv /\ [Next]_vars => PacketInv'
<1> SUFFICES ASSUME PacketInv, [Next]_vars PROVE PacketInv'
  OBVIOUS
<1>1. ASSUME NEW t \in Threads, Begin(t) PROVE PacketInv'
  BY <1>1, BeginKeeps
<1>2. ASSUME NEW t \in Threads, Command(t) \/ Config(t) PROVE PacketInv'
  BY <1>2, CommandElsewhere, ConfigElsewhere, ElsewhereKeeps DEF PacketInv
<1>3. ASSUME NEW t \in Threads, Packet(t) PROVE PacketInv'
  BY <1>3, PacketTypes, PacketMutex, PacketData DEF PacketInv
<1>4. CASE Device
  BY <1>4, DeviceKeeps
<1>5. CASE UNCHANGED vars
  BY <1>5 DEF PacketInv, Types, Mutex, Lag, InPacketSteps, InPacketStep, PacketsOnce,
      Pending, BitState, Inside, Mailbox, vars, hskVars, dpmVars, pktVars, callVars
<1>6. QED
  BY <1>1, <1>2, <1>3, <1>4, <1>5 DEF Next, Call

(* Packets pass both mailboxes once and in order: netana_put_packet and    *)
(* netana_get_packet with OS_WaitMutex, for any number of callers.         *)
THEOREM PacketsPassOnce == Spec => []PacketsOnce
<1>1. PacketInv => PacketsOnce
  BY DEF PacketInv
<1>2. QED
  BY PacketInit, PacketStep, <1>1, PTL DEF Spec

-----------------------------------------------------------------------------
(* The commands.  Quiet steps leave alone what a command relies on.        *)

Quiet ==
    /\ req' = req /\ id' = id /\ block' = block /\ seen' = seen
    /\ \A c \in Commands : (c \in host') = (c \in host) /\ (c \in netx') = (c \in netx)
    /\ \A u \in Threads : req[u].op \in Commands =>
          pc'[u] = pc[u] /\ value'[u] = value[u] /\ lRet'[u] = lRet[u]

LEMMA QuietKeeps == CommandInv /\ Quiet => CommandInv'
<1> SUFFICES ASSUME CommandInv, Quiet PROVE CommandInv'
  OBVIOUS
<1> USE DEF CommandInv, Quiet
<1>1. \A c \in Commands : BitState(c, seen)' = BitState(c, seen)
                       /\ BitState(c, netx)' = BitState(c, netx)
  BY DEF BitState
<1>2. Alone'
  BY DEF Alone
<1>3. LagCommand'
  BY <1>1 DEF LagCommand
<1>4. InCommandSteps'
  BY <1>1 DEF InCommandSteps, InCommandStep
<1>5. AnswerIsOwn'
  BY DEF AnswerIsOwn
<1>6. QED
  BY <1>2, <1>3, <1>4, <1>5

LEMMA AloneKept ==
    ASSUME Types, Alone, NEW t \in Threads, pc[t] # "idle", req' = req,
           NEW step \in Steps, pc' = [pc EXCEPT ![t] = step]
    PROVE  Alone'
<1>1. \A u \in Threads : pc'[u] # "idle" => pc[u] # "idle"
  BY DEF Types
<1>2. QED
  BY <1>1 DEF Alone

LEMMA OtherStep ==
    ASSUME NEW u \in Threads, InCommandStep(u), pc'[u] = pc[u], UNCHANGED <<req, id>>,
           NEW d, d = req[u].op,
           d \in Commands => /\ block'[d] = block[d]
                             /\ BitState(d, seen)' = BitState(d, seen)
                             /\ BitState(d, netx)' = BitState(d, netx)
    PROVE  InCommandStep(u)'
BY DEF InCommandStep

LEMMA IdleStep ==
    ASSUME NEW u \in Threads, pc'[u] \in {"idle", "ready", "lock", "check", "do"}
    PROVE  InCommandStep(u)'
BY DEF InCommandStep

LEMMA PacketQuiet ==
    ASSUME PacketInv, NEW t \in Threads, Packet(t)
    PROVE  Quiet
<1> USE CommandsAssumption DEF Types, hskVars, dpmVars, GoTo, Return, Fail, InPacket
<1>1. Types /\ (pc[t] \in {"lock", "release"} => req[t].op \in {"PUT", "GET"})
  BY DEF PacketInv, Mutex
<1>2. /\ req' = req /\ id' = id /\ block' = block /\ seen' = seen /\ netx' = netx
      /\ req[t].op \in {"PUT", "GET"}
      /\ \A u \in Threads \ {t} : pc'[u] = pc[u] /\ value'[u] = value[u] /\ lRet'[u] = lRet[u]
  <2>1. CASE WaitMutex(t)
    BY <1>1, <2>1 DEF WaitMutex, TakeMutex
  <2>2. CASE PutTooLong(t) \/ PutCopy(t) \/ GetCopy(t) \/ ReleaseMutex(t)
    BY <1>1, <2>2 DEF PutTooLong, PutCopy, GetCopy, ReleaseMutex
  <2>3. CASE PutReady(t) \/ GetReady(t)
    BY <1>1, <2>3 DEF PutReady, GetReady, WaitForBit, FirstLook, OnEvent, OnTime
  <2>4. CASE PutSignal(t) \/ GetSignal(t)
    BY <1>1, <2>4 DEF PutSignal, GetSignal, ToggleBit
  <2>5. QED
    BY <2>1, <2>2, <2>3, <2>4 DEF Packet
<1>3. host' = host \/ host' = Flip(host, "SEND") \/ host' = Flip(host, "RECV")
  BY DEF Packet, WaitMutex, PutTooLong, PutReady, PutCopy, PutSignal, GetReady, GetCopy,
         GetSignal, ReleaseMutex, WaitForBit, ToggleBit
<1>4. \A c \in Commands : (c \in host') = (c \in host)
  BY <1>3 DEF Flip
<1>5. QED
  BY <1>2, <1>4 DEF Quiet

LEMMA ConfigQuiet ==
    ASSUME Types, NEW t \in Threads, Config(t)
    PROVE  Quiet
<1> USE CommandsAssumption DEF Types, hskVars, dpmVars, ConfigFrame, InConfig, Return, GoTo, Quiet
<1>1. CASE CheckRunning(t) \/ WriteFilter(t) \/ CheckPwm(t) \/ WriteMode(t)
  BY <1>1 DEF CheckRunning, WriteFilter, CheckPwm, WriteMode
<1>2. CASE CheckOutput(t) \/ WriteLevel(t) \/ SetVoltage(t)
  BY <1>2 DEF CheckOutput, WriteLevel, SetVoltage
<1>3. CASE SetClassFilter(t) \/ OpenDevice(t) \/ CloseDevice(t)
  BY <1>3 DEF SetClassFilter, OpenDevice, CloseDevice
<1>4. QED
  BY <1>1, <1>2, <1>3 DEF Config

LEMMA CommandKeeps ==
    ASSUME Types, CommandInv, NEW t \in Threads, Command(t)
    PROVE  CommandInv'
<1> USE CommandsAssumption DEF Types, CommandInv, hskVars, dpmVars, GoTo, Return, InCommand
<1>1. CASE Blink(t)
  <2>1. "BLINK" \notin Commands
    OBVIOUS
  <2>2. Quiet
    BY <1>1, <2>1 DEF Blink, ToggleBit, Flip, Quiet
  <2>3. QED
    BY <2>2, QuietKeeps
<1> DEFINE c == req[t].op
<1>2. ASSUME NEW u \in Threads, u # t, req[u].op = c, c \in Commands, pc[t] # "idle"
      PROVE  pc[u] = "idle"
  BY <1>2 DEF Alone
<1>3. CASE CommandReady(t) \/ CommandAnswer(t)
  <2>1. /\ c \in Commands /\ pc[t] \in {"ready", "answer"}
        /\ UNCHANGED <<host, netx, seen, block, req, id, value>>
        /\ \/ pc' = pc /\ lRet' = lRet
           \/ pc' = [pc EXCEPT ![t] = "idle"] /\ lRet' = [lRet EXCEPT ![t] = "FAILED"]
           \/ /\ BitState(c, seen) = "EQUAL" /\ lRet' = lRet
              /\ pc' = [pc EXCEPT ![t] = IF pc[t] = "ready" THEN "copy" ELSE "result"]
    BY <1>3 DEF CommandReady, CommandAnswer, WaitForBit, FirstLook, OnEvent, OnTime
  <2>2. \A d \in Commands : BitState(d, seen)' = BitState(d, seen)
                         /\ BitState(d, netx)' = BitState(d, netx)
    BY <2>1 DEF BitState
  <2>3. LagCommand'
    BY <2>2 DEF LagCommand
  <2>4. CASE pc' = pc /\ lRet' = lRet
    BY <2>1, <2>2, <2>4, QuietKeeps DEF Quiet
  <2>5. CASE pc' = [pc EXCEPT ![t] = "idle"] /\ lRet' = [lRet EXCEPT ![t] = "FAILED"]
    <3>1. Alone'
      BY <2>1, <2>5, AloneKept DEF Steps
    <3>2. AnswerIsOwn'
      BY <2>1, <2>5 DEF AnswerIsOwn
    <3>3. InCommandSteps'
      BY <2>1, <2>2, <2>5, OtherStep, IdleStep DEF InCommandSteps
    <3>4. QED
      BY <2>3, <3>1, <3>2, <3>3
  <2>6. CASE /\ BitState(c, seen) = "EQUAL" /\ lRet' = lRet
             /\ pc' = [pc EXCEPT ![t] = IF pc[t] = "ready" THEN "copy" ELSE "result"]
    <3>1. Alone'
      BY <2>1, <2>6, AloneKept DEF Steps
    <3>2. AnswerIsOwn'
      BY <2>1, <2>6 DEF AnswerIsOwn
    <3>3. InCommandStep(t)'
      <4>1. BitState(c, netx) = "EQUAL"
        BY <2>1, <2>6 DEF LagCommand
      <4>2. pc[t] = "answer" => block[c].ans = id[t]
        BY <2>1, <4>1 DEF InCommandSteps, InCommandStep
      <4>3. /\ req'[t].op = c /\ block' = block /\ id' = id /\ BitState(c, seen)' = "EQUAL"
            /\ pc'[t] = IF pc[t] = "ready" THEN "copy" ELSE "result"
        BY <2>1, <2>2, <2>6
      <4>4. QED
        BY <2>1, <4>2, <4>3 DEF InCommandStep
    <3>4. \A u \in Threads \ {t} : InCommandStep(u)'
      BY <2>1, <2>2, <2>6, OtherStep DEF InCommandSteps
    <3>5. QED
      BY <2>3, <3>1, <3>2, <3>3, <3>4 DEF InCommandSteps
  <2>7. QED
    BY <2>1, <2>4, <2>5, <2>6
<1>4. CASE CommandCopy(t)
  <2>1. /\ c \in Commands /\ pc[t] = "copy" /\ pc' = [pc EXCEPT ![t] = "signal"]
        /\ UNCHANGED <<host, netx, seen, req, id, value, lRet>>
        /\ block' = [block EXCEPT ![c] = [block[c] EXCEPT !.req = id[t]]]
    BY <1>4 DEF CommandCopy
  <2>2. block'[c].req = id[t] /\ \A d \in Commands \ {c} : block'[d] = block[d]
    BY <2>1
  <2>3. \A d \in Commands : BitState(d, seen)' = BitState(d, seen)
                         /\ BitState(d, netx)' = BitState(d, netx)
    BY <2>1 DEF BitState
  <2>4. Alone' /\ AnswerIsOwn'
    BY <2>1, AloneKept DEF Steps, AnswerIsOwn
  <2>5. LagCommand'
    BY <2>3 DEF LagCommand
  <2>6. InCommandSteps'
    <3>1. ASSUME NEW u \in Threads, u # t PROVE InCommandStep(u)'
      <4>1. pc'[u] = pc[u] /\ UNCHANGED <<req, id>> /\ InCommandStep(u)
        BY <2>1, <3>1 DEF InCommandSteps
      <4>2. CASE req[u].op = c
        BY <1>2, <2>1, <3>1, <4>1, <4>2, IdleStep
      <4>3. CASE req[u].op # c
        <5>1. ASSUME NEW d, d = req[u].op, d \in Commands
              PROVE  /\ block'[d] = block[d]
                     /\ BitState(d, seen)' = BitState(d, seen)
                     /\ BitState(d, netx)' = BitState(d, netx)
          BY <2>2, <2>3, <4>3, <5>1
        <5>2. QED
          BY <4>1, <5>1, OtherStep
      <4>4. QED
        BY <4>2, <4>3
    <3>2. BitState(c, seen) = "EQUAL"
      BY <2>1 DEF InCommandSteps, InCommandStep
    <3>3. InCommandStep(t)'
      BY <2>1, <2>2, <2>3, <3>2 DEF InCommandStep
    <3>4. QED
      BY <3>1, <3>3 DEF InCommandSteps
  <2>7. QED
    BY <2>4, <2>5, <2>6
<1>5. CASE CommandSignal(t)
  <2>1. /\ c \in Commands /\ pc[t] = "signal" /\ pc' = [pc EXCEPT ![t] = "answer"]
        /\ UNCHANGED <<netx, seen, req, id, value, lRet, block>>
        /\ host' = Flip(host, c)
    BY <1>5 DEF CommandSignal, ToggleBit
  <2>2. BitState(c, netx) = "EQUAL" /\ block[c].req = id[t]
    BY <2>1 DEF InCommandSteps, InCommandStep, LagCommand
  <2>3. BitState(c, seen) = "EQUAL"
    BY <2>1 DEF InCommandSteps, InCommandStep
  <2>4. BitState(c, netx)' = "UNEQUAL" /\ BitState(c, seen)' = "UNEQUAL"
    BY <2>1, <2>2, <2>3 DEF BitState, Flip
  <2>5. \A d \in Commands \ {c} : BitState(d, seen)' = BitState(d, seen)
                               /\ BitState(d, netx)' = BitState(d, netx)
    BY <2>1 DEF BitState, Flip
  <2>6. Alone' /\ AnswerIsOwn'
    BY <2>1, AloneKept DEF Steps, AnswerIsOwn
  <2>7. LagCommand'
    <3>1. ASSUME NEW d \in Commands
          PROVE  BitState(d, seen)' = "EQUAL" => BitState(d, netx)' = "EQUAL"
      <4>1. CASE d = c
        <5>1. d = c'
          BY <2>1, <4>1
        <5>2. QED
          BY ONLY <2>4, <5>1 DEF BitState
      <4>2. CASE d # c
        BY <2>5, <4>2 DEF LagCommand
      <4>3. QED
        BY <4>1, <4>2
    <3>2. QED
      BY <3>1 DEF LagCommand
  <2>8. InCommandSteps'
    <3>1. ASSUME NEW u \in Threads, u # t PROVE InCommandStep(u)'
      <4>1. pc'[u] = pc[u] /\ UNCHANGED <<req, id>> /\ InCommandStep(u)
        BY <2>1, <3>1 DEF InCommandSteps
      <4>2. CASE req[u].op = c
        BY <1>2, <2>1, <3>1, <4>1, <4>2, IdleStep
      <4>3. CASE req[u].op # c
        <5>1. ASSUME NEW d, d = req[u].op, d \in Commands
              PROVE  /\ block'[d] = block[d]
                     /\ BitState(d, seen)' = BitState(d, seen)
                     /\ BitState(d, netx)' = BitState(d, netx)
          BY <2>1, <2>5, <4>3, <5>1
        <5>2. QED
          BY <4>1, <5>1, OtherStep
      <4>4. QED
        BY <4>2, <4>3
    <3>2. InCommandStep(t)'
      BY <2>1, <2>2, <2>4 DEF InCommandStep
    <3>3. QED
      BY <3>1, <3>2 DEF InCommandSteps
  <2>9. QED
    BY <2>6, <2>7, <2>8
<1>6. CASE CommandResult(t)
  <2>1. /\ c \in Commands /\ pc[t] = "result" /\ pc' = [pc EXCEPT ![t] = "idle"]
        /\ UNCHANGED <<host, netx, seen, req, id, block>>
        /\ value' = [value EXCEPT ![t] = block[c].ans]
        /\ lRet' = [lRet EXCEPT ![t] = "OK"]
    BY <1>6 DEF CommandResult
  <2>2. block[c].ans = id[t]
    BY <2>1 DEF InCommandSteps, InCommandStep
  <2>3. \A d \in Commands : BitState(d, seen)' = BitState(d, seen)
                         /\ BitState(d, netx)' = BitState(d, netx)
    BY <2>1 DEF BitState
  <2>4. Alone' /\ AnswerIsOwn'
    BY <2>1, <2>2, AloneKept DEF Steps, AnswerIsOwn
  <2>5. LagCommand' /\ InCommandSteps'
    BY <2>1, <2>3 DEF LagCommand, InCommandSteps, InCommandStep
  <2>6. QED
    BY <2>4, <2>5
<1>7. QED
  BY <1>1, <1>3, <1>4, <1>5, <1>6 DEF Command

LEMMA DeviceKeepsCommands ==
    ASSUME Types, CommandInv, Device
    PROVE  CommandInv'
<1> USE CommandsAssumption DEF Types, CommandInv, hskVars, dpmVars, callVars, DeviceFrame
<1>1. CASE \E c \in Commands : FwServe(c)
  <2>1. PICK c \in Commands : FwServe(c)
    BY <1>1
  <2>2. /\ BitState(c, netx) = "UNEQUAL"
        /\ block' = [block EXCEPT ![c] = [block[c] EXCEPT !.ans = block[c].req]]
        /\ netx' = Flip(netx, c) /\ UNCHANGED <<host, seen, req, id, pc, lRet, value>>
    BY <2>1 DEF FwServe
  <2>3. /\ block'[c].ans = block[c].req /\ block'[c].req = block[c].req
        /\ \A d \in Commands \ {c} : block'[d] = block[d]
    BY <2>2
  <2>4. BitState(c, netx)' = "EQUAL"
    BY <2>2 DEF BitState, Flip
  <2>5. \A d \in Commands \ {c} : BitState(d, netx)' = BitState(d, netx)
    BY <2>2 DEF BitState, Flip
  <2>6. \A d \in Commands : BitState(d, seen)' = BitState(d, seen)
    BY <2>2 DEF BitState
  <2>7. Alone' /\ AnswerIsOwn'
    BY <2>2 DEF Alone, AnswerIsOwn
  <2>8. LagCommand'
    BY <2>4, <2>5, <2>6 DEF LagCommand
  <2>9. InCommandSteps'
    BY <2>2, <2>3, <2>4, <2>5, <2>6 DEF InCommandSteps, InCommandStep, LagCommand
  <2>10. QED
    BY <2>7, <2>8, <2>9
<1>2. CASE FwBlink \/ FwTake \/ FwOffer \/ CaptureChanges
  <2>1. "BLINK" \notin Commands /\ "SEND" \notin Commands /\ "RECV" \notin Commands
    OBVIOUS
  <2>2. Quiet
    BY <1>2, <2>1 DEF FwBlink, FwTake, FwOffer, CaptureChanges, Flip, Quiet
  <2>3. QED
    BY <2>2, QuietKeeps
<1>3. CASE DsrHandler
  <2>1. seen' = netx /\ UNCHANGED <<host, netx, block, req, id, pc, lRet, value>>
    BY <1>3 DEF DsrHandler
  <2>2. \A d \in Commands : /\ BitState(d, netx)' = BitState(d, netx)
                            /\ BitState(d, seen)' = BitState(d, netx)
    BY <2>1 DEF BitState
  <2>3. Alone' /\ AnswerIsOwn'
    BY <2>1 DEF Alone, AnswerIsOwn
  <2>4. LagCommand'
    BY <2>2 DEF LagCommand
  <2>5. InCommandSteps'
    BY <2>1, <2>2 DEF InCommandSteps, InCommandStep, LagCommand
  <2>6. QED
    BY <2>3, <2>4, <2>5
<1>4. QED
  BY <1>1, <1>2, <1>3 DEF Device

LEMMA BeginKeepsCommands ==
    ASSUME Serial, Types, CommandInv, NEW t \in Threads, Begin(t)
    PROVE  CommandInv'
<1> USE CommandsAssumption DEF Types, CommandInv, hskVars, dpmVars
<1>1. PICK r \in Requests : /\ req' = [req EXCEPT ![t] = r]
                            /\ pc' = [pc EXCEPT ![t] = FirstStep(r.op)]
                            /\ r.op \in Commands =>
                                  \A u \in Threads : pc[u] # "idle" => req[u].op # r.op
  BY DEF Begin
<1>2. /\ pc[t] = "idle" /\ UNCHANGED <<host, netx, seen, block, value, lRet>>
      /\ \A u \in Threads \ {t} : id'[u] = id[u]
  BY DEF Begin
<1>3. /\ FirstStep(r.op) \in {"ready", "lock", "check", "do"}
      /\ r.op \in Commands => FirstStep(r.op) = "ready"
  BY DEF FirstStep
<1>4. r.op \in Commands => \A u \in Threads : pc[u] # "idle" => req[u].op # r.op
  BY <1>1
<1>5. \A d \in Commands : BitState(d, seen)' = BitState(d, seen)
                       /\ BitState(d, netx)' = BitState(d, netx)
  BY <1>2 DEF BitState
<1>6. Alone'
  <2>1. \A u \in Threads \ {t} : pc'[u] = pc[u] /\ req'[u] = req[u]
    BY <1>1
  <2>2. req'[t].op = r.op
    BY <1>1
  <2>3. ASSUME NEW u \in Threads, NEW v \in Threads, u # v,
               req'[u].op \in Commands, pc'[u] # "idle", req'[v].op = req'[u].op, pc'[v] # "idle"
        PROVE  FALSE
    <3>1. CASE u # t /\ v # t
      BY <2>1, <2>3, <3>1 DEF Alone
    <3>2. CASE u = t \/ v = t
      BY <1>4, <2>1, <2>2, <2>3, <3>2
    <3>3. QED
      BY <3>1, <3>2
  <2>4. QED
    BY <2>3 DEF Alone
<1>7. LagCommand'
  BY <1>5 DEF LagCommand
<1>8. InCommandSteps'
  <2>1. \A u \in Threads \ {t} : InCommandStep(u)'
    <3>1. ASSUME NEW u \in Threads, u # t PROVE InCommandStep(u)'
      BY <1>1, <1>2, <1>5, <3>1 DEF InCommandSteps, InCommandStep
    <3>2. QED
      BY <3>1
  <2>2. InCommandStep(t)'
    BY <1>1, <1>3, IdleStep
  <2>3. QED
    BY <2>1, <2>2 DEF InCommandSteps
<1>9. AnswerIsOwn'
  BY <1>1, <1>2, <1>3 DEF AnswerIsOwn
<1>10. QED
  BY <1>6, <1>7, <1>8, <1>9

(* A command that reports success has the answer to its own request, late  *)
(* answers and all, if the callers of each command keep out of each        *)
(* other's way, which nothing in the driver makes them do.                 *)
THEOREM AnswersAreOwn ==
    ASSUME Serial
    PROVE  Spec => []AnswerIsOwn
<1> DEFINE Inv == PacketInv /\ CommandInv
<1>1. Init => Inv
  <2>1. Init => CommandInv
    BY CommandsAssumption DEF Init, CommandInv, Alone, LagCommand, InCommandSteps,
       InCommandStep, AnswerIsOwn, NoRequest, BitState
  <2>2. QED
    BY <2>1, PacketInit
<1>2. Inv /\ [Next]_vars => Inv'
  <2> SUFFICES ASSUME PacketInv, CommandInv, [Next]_vars PROVE CommandInv'
    BY PacketStep
  <2>1. Types
    BY DEF PacketInv
  <2>2. ASSUME NEW t \in Threads, Begin(t) PROVE CommandInv'
    BY <2>1, <2>2, BeginKeepsCommands
  <2>3. ASSUME NEW t \in Threads, Command(t) PROVE CommandInv'
    BY <2>1, <2>3, CommandKeeps
  <2>4. ASSUME NEW t \in Threads, Packet(t) \/ Config(t) PROVE CommandInv'
    BY <2>1, <2>4, PacketQuiet, ConfigQuiet, QuietKeeps
  <2>5. CASE Device
    BY <2>1, <2>5, DeviceKeepsCommands
  <2>6. CASE UNCHANGED vars
    <3>1. Quiet
      BY <2>6 DEF Quiet, vars, hskVars, dpmVars, callVars
    <3>2. QED
      BY <3>1, QuietKeeps
  <2>7. QED
    BY <2>2, <2>3, <2>4, <2>5, <2>6 DEF Next, Call
<1>3. Inv => AnswerIsOwn
  BY DEF CommandInv
<1>4. QED
  BY <1>1, <1>2, <1>3, PTL DEF Spec

-----------------------------------------------------------------------------
(* The GPIOs.  Between its look at the other GPIOs and its own write a     *)
(* caller relies on nobody else making one a PWM output.                   *)

ConfigOps == {"FILTER", "MODE", "LEVEL", "VOLTAGE", "CLASS", "OPEN", "CLOSE"}

GpioStates == [mode : Modes, data : {0, 1}, voltage : {"3V", "24V"}]
RequestTypes ==
    \A t \in Threads :
        /\ req[t].op = "MODE" =>
              req[t].gpio \in Gpios /\ req[t].mode \in Modes /\ req[t].data \in {0, 1}
        /\ req[t].op = "LEVEL" => req[t].gpio \in Gpios
        /\ req[t].op = "VOLTAGE" => req[t].sel \in {"3V", "24V"}

PwmChecked == \A t \in Threads : PwmWriter(t) => ~PwmElsewhere(req[t].gpio)
GpioInv ==
    /\ gpio \in [Gpios -> GpioStates] /\ RequestTypes /\ raced \in BOOLEAN
    /\ ~raced => PwmChecked /\ AtMostOnePwm

LEMMA RequestFacts ==
    ASSUME NEW r \in Requests
    PROVE  /\ r.op = "MODE" => r.gpio \in Gpios /\ r.mode \in Modes /\ r.data \in {0, 1}
           /\ r.op = "LEVEL" => r.gpio \in Gpios
           /\ r.op = "VOLTAGE" => r.sel \in {"3V", "24V"}
  BY CommandsAssumption DEF Requests, Modes

(* Whoever is at no configuration leaves the GPIOs and their callers alone. *)
LEMMA GpioQuiet ==
    ASSUME GpioInv, UNCHANGED <<req, gpio, raced>>,
           \A u \in Threads : req[u].op \in ConfigOps => pc'[u] = pc[u]
    PROVE  GpioInv'
<1>1. \A u \in Threads : PwmWriter(u)' => PwmWriter(u)
  BY DEF PwmWriter, InConfig, ConfigOps
<1>2. RequestTypes' /\ (AtMostOnePwm => AtMostOnePwm')
  BY DEF GpioInv, RequestTypes, AtMostOnePwm
<1>3. PwmChecked => PwmChecked'
  BY <1>1 DEF PwmChecked, PwmElsewhere
<1>4. QED
  BY <1>2, <1>3 DEF GpioInv

LEMMA OtherOps ==
    ASSUME Types, Mutex, NEW t \in Threads, Command(t) \/ Packet(t)
    PROVE  /\ UNCHANGED <<req, gpio, raced>> /\ req[t].op \notin ConfigOps
           /\ \A u \in Threads \ {t} : pc'[u] = pc[u]
<1> USE DEF cfgVars
<1>1. CASE Command(t)
  <2>1. Elsewhere(t)
    BY <1>1, CommandElsewhere
  <2>2. UNCHANGED <<gpio, raced>> /\ req[t].op \notin ConfigOps
    BY <1>1, CommandsAssumption DEF Command, CommandReady, CommandCopy, CommandSignal,
       CommandAnswer, CommandResult, Blink, WaitForBit, InCommand, ConfigOps
  <2>3. QED
    BY <2>1, <2>2 DEF Elsewhere
<1>2. CASE Packet(t)
  <2>1. UNCHANGED <<req, gpio, raced>> /\ req[t].op \in {"PUT", "GET"}
    BY <1>2 DEF Packet, WaitMutex, PutTooLong, PutReady, PutCopy, PutSignal, GetReady,
       GetCopy, GetSignal, ReleaseMutex, WaitForBit, InPacket, Mutex
  <2>2. \A u \in Threads \ {t} : pc'[u] = pc[u]
    BY <1>2 DEF Types, Packet, WaitMutex, TakeMutex, PutTooLong, PutReady, PutCopy,
       PutSignal, GetReady, GetCopy, GetSignal, ReleaseMutex, WaitForBit, FirstLook,
       OnEvent, OnTime, GoTo, Return, Fail
  <2>3. QED
    BY <2>1, <2>2 DEF ConfigOps
<1>3. QED
  BY <1>1, <1>2

LEMMA ConfigOnly ==
    ASSUME Types, GpioInv, NEW t \in Threads, Config(t)
    PROVE  /\ req' = req /\ RequestTypes'
           /\ \A u \in Threads \ {t} : PwmWriter(u)' => PwmWriter(u)
<1>1. Elsewhere(t)
  BY ConfigElsewhere
<1>2. QED
  BY <1>1 DEF GpioInv, RequestTypes, Elsewhere, PwmWriter, InConfig

\* The checks, and what is no matter of GPIOs.
LEMMA GpioChecks ==
    ASSUME Types, GpioInv, NEW t \in Threads,
           \/ CheckRunning(t) \/ WriteFilter(t) \/ CheckPwm(t)
           \/ CheckOutput(t) \/ SetClassFilter(t) \/ CloseDevice(t)
    PROVE  GpioInv'
<1>1. /\ req' = req /\ RequestTypes'
      /\ \A u \in Threads \ {t} : PwmWriter(u)' => PwmWriter(u)
  BY ConfigOnly DEF Config
<1>2. UNCHANGED <<gpio, raced>>
  BY DEF CheckRunning, WriteFilter, CheckPwm, CheckOutput, SetClassFilter, CloseDevice, cfgVars
<1>3. PwmWriter(t)' => ~PwmElsewhere(req[t].gpio)
  <2>1. SUFFICES ASSUME PwmWriter(t)' PROVE ~PwmElsewhere(req[t].gpio)
    OBVIOUS
  <2>2. req[t].op = "MODE" /\ req[t].mode = "PWM" /\ pc'[t] = "write"
    BY <1>1, <2>1 DEF PwmWriter, InConfig
  <2>3. CheckRunning(t) \/ CheckPwm(t)
    BY <2>2 DEF WriteFilter, CheckOutput, SetClassFilter, CloseDevice, InConfig
  <2>4. CheckPwm(t)
    BY <2>2, <2>3 DEF CheckRunning, GoTo, Return, Types
  <2>5. QED
    BY <2>2, <2>4 DEF CheckPwm, GoTo, Return, Types
<1>4. PwmChecked => PwmChecked'
  BY <1>1, <1>2, <1>3 DEF PwmChecked, PwmElsewhere
<1>5. QED
  BY <1>1, <1>2, <1>4 DEF GpioInv, AtMostOnePwm

\* A write to the GPIOs ends its call; the callers that stand before a write
\* of their own must not be in the way.
LEMMA GpioWrites ==
    ASSUME Types, GpioInv, NEW t \in Threads, Config(t), pc'[t] = "idle",
           gpio' \in [Gpios -> GpioStates], raced' \in BOOLEAN,
           ~raced' => /\ AtMostOnePwm'
                      /\ \A u \in Threads \ {t} : PwmWriter(u) => ~PwmElsewhere(req[u].gpio)'
    PROVE  GpioInv'
<1>1. /\ req' = req /\ RequestTypes'
      /\ \A u \in Threads \ {t} : PwmWriter(u)' => PwmWriter(u)
  BY ConfigOnly
<1>2. ~PwmWriter(t)'
  BY DEF PwmWriter, InConfig
<1>3. ~raced' => PwmChecked'
  BY <1>1, <1>2 DEF PwmChecked
<1>4. QED
  BY <1>1, <1>3 DEF GpioInv

\* A write that makes no GPIO a PWM output
LEMMA NoNewPwm ==
    ASSUME Types, GpioInv, NEW t \in Threads, Config(t), pc'[t] = "idle",
           gpio' \in [Gpios -> GpioStates], raced' \in BOOLEAN, ~raced' => ~raced,
           \A h \in Gpios : gpio'[h].mode = "PWM" => gpio[h].mode = "PWM"
    PROVE  GpioInv'
<1>1. req' = req
  BY ConfigOnly
<1>2. ~raced' => AtMostOnePwm'
  BY DEF GpioInv, AtMostOnePwm
<1>3. ~raced' => \A u \in Threads \ {t} : PwmWriter(u) => ~PwmElsewhere(req[u].gpio)'
  BY <1>1 DEF GpioInv, PwmChecked, PwmElsewhere
<1>4. QED
  BY <1>2, <1>3, GpioWrites

LEMMA ModeWritten ==
    ASSUME Types, GpioInv, NEW t \in Threads, WriteMode(t)
    PROVE  GpioInv'
<1> DEFINE r == req[t]
           g == r.gpio
           data == CASE r.mode = "NONE" -> gpio[g].data
                     [] r.mode = "OUTPUT" -> 0
                     [] OTHER -> r.data
           new == [gpio[g] EXCEPT !.mode = r.mode, !.data = data]
<1>1. r.op = "MODE" /\ g \in Gpios /\ r.mode \in Modes /\ r.data \in {0, 1}
  BY DEF WriteMode, InConfig, GpioInv, RequestTypes
<1>2. gpio \in [Gpios -> GpioStates] /\ gpio[g] \in GpioStates
  BY <1>1 DEF GpioInv
<1>3. new \in GpioStates /\ new.mode = r.mode
  <2>1. data \in {0, 1}
    BY <1>1, <1>2 DEF GpioStates
  <2> HIDE DEF data
  <2>2. QED
    BY <1>1, <1>2, <2>1 DEF GpioStates
<1>4. gpio' = [gpio EXCEPT ![g] = new]
  BY <1>1, <1>2 DEF WriteMode
<1>5. pc'[t] = "idle" /\ Config(t) /\ raced' \in BOOLEAN /\ (~raced' => ~raced)
  BY DEF WriteMode, Return, GoTo, Types, GpioInv, Config
<1>6. r.mode = "PWM" /\ ~raced' =>
          /\ ~PwmElsewhere(g)
          /\ \A u \in Threads : PwmWriter(u) => req[u].gpio = g
  <2>1. r.mode = "PWM" => PwmWriter(t)
    BY DEF WriteMode, PwmWriter
  <2>2. QED
    BY <1>5, <2>1 DEF WriteMode, GpioInv, PwmChecked
<1>7. gpio' \in [Gpios -> GpioStates] /\ gpio'[g].mode = r.mode
      /\ \A h \in Gpios \ {g} : gpio'[h] = gpio[h]
  <2> HIDE DEF new, g, r
  <2>1. QED
    BY <1>1, <1>2, <1>3, <1>4
<1>8. req' = req
  BY <1>5, ConfigOnly
<1> HIDE DEF new, g, r
<1>9. CASE r.mode # "PWM"
  <2>1. \A h \in Gpios : gpio'[h].mode = "PWM" => gpio[h].mode = "PWM"
    BY <1>7, <1>9
  <2>2. QED
    BY <1>5, <1>7, <2>1, NoNewPwm
<1>10. CASE r.mode = "PWM"
  <2>1. ~raced' => \A h \in Gpios \ {g} : gpio'[h].mode # "PWM"
    BY <1>6, <1>7, <1>10 DEF PwmElsewhere
  <2>2. ~raced' => AtMostOnePwm'
    BY <2>1 DEF AtMostOnePwm
  <2>3. ~raced' => \A u \in Threads \ {t} : PwmWriter(u) => ~PwmElsewhere(req[u].gpio)'
    BY <1>6, <1>8, <1>10, <2>1 DEF PwmElsewhere
  <2>4. QED
    BY <1>5, <1>7, <2>2, <2>3, GpioWrites
<1>11. QED
  BY <1>9, <1>10

LEMMA LevelWritten ==
    ASSUME Types, GpioInv, NEW t \in Threads, WriteLevel(t)
    PROVE  GpioInv'
<1> DEFINE g == req[t].gpio
           new == [gpio[g] EXCEPT !.data = 1]
<1>1. g \in Gpios /\ gpio \in [Gpios -> GpioStates] /\ gpio[g] \in GpioStates
  BY DEF WriteLevel, InConfig, GpioInv, RequestTypes
<1>2. new \in GpioStates /\ new.mode = gpio[g].mode
  BY <1>1 DEF GpioStates
<1>3. gpio' = [gpio EXCEPT ![g] = new]
  BY <1>1 DEF WriteLevel
<1>4. pc'[t] = "idle" /\ Config(t) /\ raced' = raced /\ raced \in BOOLEAN
  BY DEF WriteLevel, Return, GoTo, Types, Config, GpioInv
<1> HIDE DEF new, g
<1>5. gpio' \in [Gpios -> GpioStates] /\ \A h \in Gpios : gpio'[h].mode = gpio[h].mode
  BY <1>1, <1>2, <1>3
<1>6. QED
  BY <1>4, <1>5, NoNewPwm

LEMMA VoltageWritten ==
    ASSUME Types, GpioInv, NEW t \in Threads, SetVoltage(t)
    PROVE  GpioInv'
<1>1. gpio \in [Gpios -> GpioStates] /\ req[t].sel \in {"3V", "24V"}
  BY DEF SetVoltage, InConfig, GpioInv, RequestTypes
<1>2. pc'[t] = "idle" /\ Config(t) /\ raced' = raced /\ raced \in BOOLEAN
  BY DEF SetVoltage, Return, GoTo, Types, Config, GpioInv
<1>3. ASSUME NEW h \in Gpios
      PROVE  LET new == [gpio[h] EXCEPT !.voltage = req[t].sel]
             IN  new \in GpioStates /\ new.mode = gpio[h].mode
  <2>1. gpio[h] \in GpioStates
    BY <1>1
  <2>2. QED
    BY <1>1, <2>1 DEF GpioStates
<1>4. \/ gpio' = gpio
      \/ gpio' = [h \in Gpios |-> IF h \in req[t].mask
                                  THEN [gpio[h] EXCEPT !.voltage = req[t].sel]
                                  ELSE gpio[h]]
  BY DEF SetVoltage
<1>5. gpio' \in [Gpios -> GpioStates] /\ \A h \in Gpios : gpio'[h].mode = gpio[h].mode
  BY <1>1, <1>3, <1>4
<1>6. QED
  BY <1>2, <1>5, NoNewPwm

\* An open that succeeds leaves no PWM output, whatever was raced before.
LEMMA OpenWritten ==
    ASSUME Types, GpioInv, NEW t \in Threads, OpenDevice(t)
    PROVE  GpioInv'
<1>1. \/ gpio' = [g \in Gpios |-> DefaultGpio]
      \/ gpio' = gpio /\ raced' = raced
  BY DEF OpenDevice, GpioInv
<1>2. DefaultGpio \in GpioStates /\ DefaultGpio.mode = "NONE"
  BY DEF DefaultGpio, GpioStates, Modes
<1>3. pc'[t] = "idle" /\ Config(t) /\ raced' \in BOOLEAN
  BY DEF OpenDevice, Return, GoTo, Types, Config, GpioInv
<1> HIDE DEF DefaultGpio
<1>4. CASE gpio' = gpio /\ raced' = raced
  BY <1>3, <1>4, NoNewPwm DEF GpioInv
<1>5. CASE gpio' = [g \in Gpios |-> DefaultGpio]
  <2>1. gpio' \in [Gpios -> GpioStates] /\ \A g \in Gpios : gpio'[g].mode # "PWM"
    BY <1>2, <1>5
  <2>2. AtMostOnePwm'
    BY <2>1 DEF AtMostOnePwm
  <2>3. \A u \in Threads : ~PwmElsewhere(req[u].gpio)'
    BY <2>1 DEF PwmElsewhere
  <2>4. QED
    BY <1>3, <2>1, <2>2, <2>3, GpioWrites
<1>6. QED
  BY <1>1, <1>4, <1>5

LEMMA GpioBegin ==
    ASSUME Types, GpioInv, NEW t \in Threads, Begin(t)
    PROVE  GpioInv'
<1>1. PICK r \in Requests : /\ req' = [req EXCEPT ![t] = r]
                            /\ pc' = [pc EXCEPT ![t] = FirstStep(r.op)]
  BY DEF Begin
<1>2. /\ gpio' = gpio /\ raced' = raced
      /\ \A u \in Threads \ {t} : req'[u] = req[u] /\ pc'[u] = pc[u]
      /\ req'[t] = r /\ pc'[t] \in {"ready", "lock", "check", "do"}
  BY <1>1 DEF Begin, cfgVars, Types, FirstStep
<1>3. RequestTypes'
  BY <1>2, RequestFacts DEF RequestTypes, GpioInv
<1>4. \A u \in Threads : PwmWriter(u)' => PwmWriter(u) /\ req'[u] = req[u]
  BY <1>2 DEF PwmWriter, InConfig
<1>5. PwmChecked => PwmChecked'
  BY <1>2, <1>4 DEF PwmChecked, PwmElsewhere
<1>6. QED
  BY <1>2, <1>3, <1>5 DEF GpioInv, AtMostOnePwm

LEMMA GpioConfig ==
    ASSUME Types, GpioInv, NEW t \in Threads, Config(t)
    PROVE  GpioInv'
  BY GpioChecks, ModeWritten, LevelWritten, VoltageWritten, OpenWritten DEF Config

(* netana_set_gpio_mode looks at the modes of the other GPIOs and then     *)
(* writes its own, without a lock (netana_functions.c:1246).  For any      *)
(* number of GPIOs and callers, and with no discipline of theirs: since    *)
(* the last open two GPIOs became PWM outputs only if a caller wrote while *)
(* another one stood between its look and its write.                       *)
THEOREM OnePwmOutput == Spec => []TwoPwmByRace
<1> DEFINE Inv == PacketInv /\ GpioInv
<1>1. Init => Inv
  <2>1. Init => GpioInv
    <3>1. DefaultGpio \in GpioStates /\ DefaultGpio.mode = "NONE"
      BY DEF DefaultGpio, GpioStates, Modes
    <3> HIDE DEF DefaultGpio
    <3>2. Init => RequestTypes /\ PwmChecked
      BY DEF Init, RequestTypes, PwmChecked, PwmWriter, InConfig, NoRequest
    <3>3. Init => gpio \in [Gpios -> GpioStates] /\ AtMostOnePwm
      BY <3>1 DEF Init, AtMostOnePwm
    <3>4. Init => raced \in BOOLEAN
      BY DEF Init
    <3>5. QED
      BY <3>2, <3>3, <3>4 DEF GpioInv
  <2>2. QED
    BY <2>1, PacketInit
<1>2. Inv /\ [Next]_vars => Inv'
  <2> SUFFICES ASSUME PacketInv, GpioInv, [Next]_vars PROVE GpioInv'
    BY PacketStep
  <2>1. Types /\ Mutex
    BY DEF PacketInv
  <2>2. ASSUME NEW t \in Threads, Begin(t) PROVE GpioInv'
    BY <2>1, <2>2, GpioBegin
  <2>3. ASSUME NEW t \in Threads, Command(t) \/ Packet(t) PROVE GpioInv'
    <3>1. /\ UNCHANGED <<req, gpio, raced>> /\ req[t].op \notin ConfigOps
          /\ \A u \in Threads \ {t} : pc'[u] = pc[u]
      BY <2>1, <2>3, OtherOps
    <3>2. QED
      BY <3>1, GpioQuiet
  <2>4. ASSUME NEW t \in Threads, Config(t) PROVE GpioInv'
    BY <2>1, <2>4, GpioConfig
  <2>5. CASE Device \/ UNCHANGED vars
    <3>1. UNCHANGED <<req, gpio, raced, pc>>
      BY <2>5 DEF Device, FwServe, FwBlink, FwTake, FwOffer, CaptureChanges, DsrHandler,
         DeviceFrame, cfgVars, callVars, vars
    <3>2. QED
      BY <3>1, GpioQuiet
  <2>6. QED
    BY <2>2, <2>3, <2>4, <2>5 DEF Next, Call
<1>3. Inv => TwoPwmByRace
  BY DEF GpioInv, TwoPwmByRace
<1>4. QED
  BY <1>1, <1>2, <1>3, PTL DEF Spec
=============================================================================
