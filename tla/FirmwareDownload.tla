---------------------------- MODULE FirmwareDownload ----------------------------
(***************************************************************************)
(* What netana_tkit_deviceadd does to get a device running: reset, second  *)
(* stage boot loader, device class, licence file, firmware file and its    *)
(* start.  The files travel in packets over the boot loader's one-packet   *)
(* mailboxes, which the driver polls (no interrupt is enabled yet), and    *)
(* come from OS_FileOpen, which learns the device from a global variable.  *)
(*                                                                         *)
(* Each device is brought up by a thread of its own: the probe, or the     *)
(* writer of its identity attribute.  File contents are counted in units:  *)
(* unit i of a file is <<file, i>>.                                        *)
(***************************************************************************)
EXTENDS Naturals, Sequences

CONSTANTS
    Devices,       \* the devices of the driver
    Class,         \* Class[d]: usDeviceClass of the device, as it reports it
    FileLen,       \* units of a file
    MailboxUnits,  \* units of data that fit in a packet
    BlockSizes,    \* the block sizes a boot loader may answer
    Width,         \* numbers of a packet counter, 2^32
    MaxRuns,       \* bound: bring-ups of a device
    Slow,          \* whether a wait may run out
    Failures       \* what else may go wrong

(* "reset": the reset or the chip, "file": a file cannot be read,          *)
(* "status": the boot loader refuses a packet.                             *)
ASSUME DownloadAssumption ==
    /\ Class \in [Devices -> {"NANL", "NSCP", "CIFX"}]
    /\ FileLen \in Nat /\ MailboxUnits \in Nat \ {0} /\ MaxRuns \in Nat
    /\ Width \in Nat \ {0, 1} /\ BlockSizes \subseteq Nat
    /\ Slow \in BOOLEAN
    /\ Failures \subseteq {"reset", "file", "status"}

NoDevice == "none"
NoPacket == [cmd |-> "none", id |-> 0]

VARIABLES
    \* netana_tkit_deviceadd: step, result, device class known, file handle,
    \* name asked for; tIdentInfoFile; bring-ups
    pc, lRet, usDeviceClass, hFile, name, ident, runs,
    \* TransferPacket: step and request; DownloadFile: its local variables
    transfer, ptSendPkt, ptRecvPkt, dl,
    \* globals of OS_Linux.c and USER_Linux.c
    s_pdeviceinstance, ptBootLoader, ptFirmware,
    \* dual-port memory: packets and toggled bits of both mailboxes
    sendMbx, recvMbx, hostBits, netxBits,
    \* the device: what runs on it, open file, complete files, answer to give
    boot, rx, stored, out

addVars  == <<pc, lRet, usDeviceClass, hFile, name, ident, runs>>
xferVars == <<transfer, ptSendPkt, ptRecvPkt, dl>>
fwVars   == <<ptBootLoader, ptFirmware>>
osVars   == <<s_pdeviceinstance, fwVars>>
mbxVars  == <<sendMbx, recvMbx, hostBits, netxBits>>
devVars  == <<boot, rx, stored, out>>
vars == <<addVars, xferVars, osVars, mbxVars, devVars>>

Flip(S, b) == IF b \in S THEN S \ {b} ELSE S \cup {b}
Equal(d, b) == (b \in hostBits[d]) = (b \in netxBits[d])

Units(file, off, len) == [i \in 1 .. len |-> <<file, off + i>>]
Content(file) == Units(file, 0, FileLen)
Inc(n) == (n + 1) % Width
Least(a, b) == IF a < b THEN a ELSE b

\* USER_GetFirmwareFile, USER_GetBootloaderFile, USER_GetIdentInfoFile
FirmwareFile(class) == <<"firmware", class>>
BootloaderFile      == <<"boot", "NETX100">>
IdentFile(d)        == <<"licence", d>>

NoFile == [type |-> "none", bytes |-> <<>>, block |-> 0]
IdleDownload ==
    [state |-> "none", file |-> <<"none", "none">>, off |-> 0, len |-> 0, max |-> 0,
     seq |-> "NONE", block |-> 0, id |-> 0, crc |-> <<>>]

-----------------------------------------------------------------------------
Init ==
    /\ pc = [d \in Devices |-> "idle"] /\ lRet = [d \in Devices |-> "OK"]
    /\ usDeviceClass = [d \in Devices |-> "none"]
    /\ hFile = [d \in Devices |-> <<>>] /\ name = [d \in Devices |-> <<>>]
    /\ ident = [d \in Devices |-> [request |-> FALSE, lError |-> "OK"]]
    /\ runs = [d \in Devices |-> 0]
    /\ transfer = [d \in Devices |-> "none"]
    /\ ptSendPkt = [d \in Devices |-> NoPacket]
    /\ ptRecvPkt = [d \in Devices |-> NoPacket]
    /\ dl = [d \in Devices |-> IdleDownload]
    /\ s_pdeviceinstance = NoDevice /\ ptBootLoader = <<>> /\ ptFirmware = <<>>
    /\ sendMbx = [d \in Devices |-> NoPacket] /\ recvMbx = sendMbx
    /\ hostBits = [d \in Devices |-> {}] /\ netxBits = hostBits
    \* a flash based device runs its firmware from the start
    /\ boot \in [Devices -> {"off", "flash"}]
    /\ rx = [d \in Devices |-> NoFile] /\ stored = [d \in Devices |-> {}]
    /\ out = [d \in Devices |-> NoPacket]

-----------------------------------------------------------------------------
(* The boot loader (external): it takes a packet when it has answered the  *)
(* last one, checks number and running checksum of a block, and takes a    *)
(* block marked LAST or NONE for the end of the file.                      *)

Answer(p, sta) ==
    [cmd |-> p.cmd, id |-> p.id, sta |-> sta, max |-> 0, class |-> "none"]

Refuse(d, p) ==
    /\ "status" \in Failures
    /\ out' = [out EXCEPT ![d] = Answer(p, "ERROR")]
    /\ rx' = [rx EXCEPT ![d] = IF p.cmd = "DOWNLOAD" THEN NoFile ELSE @]
    /\ UNCHANGED <<boot, stored>>

Identify(d, p) ==
    /\ p.cmd = "IDENTIFY"
    /\ out' = [out EXCEPT ![d] = [Answer(p, "OK") EXCEPT !.class = Class[d]]]
    /\ UNCHANGED <<boot, rx, stored>>

OpenFile(d, p) ==
    /\ p.cmd = "DOWNLOAD"
    /\ rx' = [rx EXCEPT ![d] = [type |-> p.type, bytes |-> <<>>, block |-> 0]]
    /\ \E max \in BlockSizes :
          out' = [out EXCEPT ![d] = [Answer(p, "OK") EXCEPT !.max = max]]
    /\ UNCHANGED <<boot, stored>>

TakeBlock(d, p) ==
    /\ p.cmd = "DATA"
    /\ LET bytes == rx[d].bytes \o p.bytes
           good  == rx[d].type # "none" /\ p.block = rx[d].block /\ p.crc = bytes
           last  == p.seq \in {"LAST", "NONE"}
       IN /\ out' = [out EXCEPT ![d] = Answer(p, IF good THEN "OK" ELSE "ERROR")]
          /\ rx' = [rx EXCEPT ![d] =
                       IF ~good THEN @
                       ELSE IF last THEN NoFile
                       ELSE [rx[d] EXCEPT !.bytes = bytes, !.block = Inc(rx[d].block)]]
          /\ stored' = [stored EXCEPT ![d] =
                           IF good /\ last THEN @ \cup {<<rx[d].type, bytes>>} ELSE @]
    /\ UNCHANGED boot

Abort(d, p) ==
    /\ p.cmd = "ABORT"
    /\ rx' = [rx EXCEPT ![d] = NoFile]
    /\ out' = [out EXCEPT ![d] = Answer(p, "OK")]
    /\ UNCHANGED <<boot, stored>>

Instantiate(d, p) ==
    /\ p.cmd = "INSTANTIATE"
    /\ out' = [out EXCEPT ![d] = Answer(p, "OK")]
    /\ boot' = [boot EXCEPT ![d] = "starting"]
    /\ UNCHANGED <<rx, stored>>

BslTake(d) ==
    /\ boot[d] = "bsl" /\ ~Equal(d, "SEND") /\ out[d] = NoPacket
    /\ netxBits' = [netxBits EXCEPT ![d] = Flip(@, "SEND")]
    /\ LET p == sendMbx[d]
       IN \/ Refuse(d, p)
          \/ Identify(d, p) \/ OpenFile(d, p) \/ TakeBlock(d, p)
          \/ Abort(d, p) \/ Instantiate(d, p)
    /\ UNCHANGED <<sendMbx, recvMbx, hostBits, addVars, xferVars, osVars>>

BslAnswer(d) ==
    /\ boot[d] \in {"bsl", "starting"} /\ Equal(d, "RECV") /\ out[d] # NoPacket
    /\ recvMbx' = [recvMbx EXCEPT ![d] = out[d]]
    /\ netxBits' = [netxBits EXCEPT ![d] = Flip(@, "RECV")]
    /\ out' = [out EXCEPT ![d] = NoPacket]
    /\ UNCHANGED <<boot, rx, stored, sendMbx, hostBits, addVars, xferVars, osVars>>

\* The ROM loader starts the boot loader, the boot loader the firmware after
\* its answer has been taken.
Come(d) ==
    /\ \/ boot[d] = "loading" /\ boot' = [boot EXCEPT ![d] = "bsl"]
       \/ /\ boot[d] = "starting"
          /\ out[d] = NoPacket /\ Equal(d, "RECV")
          /\ boot' = [boot EXCEPT ![d] = "firmware"]
    /\ UNCHANGED <<rx, stored, out, mbxVars, addVars, xferVars, osVars>>

Device(d) == BslTake(d) \/ BslAnswer(d) \/ Come(d)

-----------------------------------------------------------------------------
(* TransferPacket.  PutPacketBL and GetPacketBL poll the two bits; each    *)
(* wait and the whole loop have the time limit ulTimeout.                  *)

notTransfer == <<addVars, osVars, devVars, dl>>

Transfer(d, p) ==
    /\ transfer' = [transfer EXCEPT ![d] = "put"]
    /\ ptSendPkt' = [ptSendPkt EXCEPT ![d] = p]
    /\ UNCHANGED ptRecvPkt

\* The caller of TransferPacket goes on with this return code.
Return(d, code) ==
    /\ transfer' = [transfer EXCEPT ![d] = code]

PutPacketBL(d) ==
    /\ transfer[d] = "put" /\ Equal(d, "SEND")
    /\ sendMbx' = [sendMbx EXCEPT ![d] = ptSendPkt[d]]
    /\ hostBits' = [hostBits EXCEPT ![d] = Flip(@, "SEND")]
    /\ transfer' = [transfer EXCEPT ![d] = "get"]
    /\ UNCHANGED <<ptSendPkt, ptRecvPkt, recvMbx, netxBits, notTransfer>>

PutTimeout(d) ==
    /\ Slow /\ transfer[d] = "put" /\ ~Equal(d, "SEND")
    /\ Return(d, "MAILBOX_FULL")
    /\ UNCHANGED <<ptSendPkt, ptRecvPkt, mbxVars, notTransfer>>

(* Command and packet identification of the answer are those of the        *)
(* request; sender and its identification are always the same here.        *)
Answers(p, q) == p.cmd = q.cmd /\ p.id = q.id

GetPacketBL(d) ==
    /\ transfer[d] = "get" /\ ~Equal(d, "RECV")
    /\ ptRecvPkt' = [ptRecvPkt EXCEPT ![d] = recvMbx[d]]
    /\ hostBits' = [hostBits EXCEPT ![d] = Flip(@, "RECV")]
    /\ \/ Answers(recvMbx[d], ptSendPkt[d]) /\ Return(d, "OK")
       \/ ~Answers(recvMbx[d], ptSendPkt[d]) /\ UNCHANGED transfer
       \/ Slow /\ ~Answers(recvMbx[d], ptSendPkt[d]) /\ Return(d, "TRANSFER_TIMEOUT")
    /\ UNCHANGED <<ptSendPkt, sendMbx, recvMbx, netxBits, notTransfer>>

GetTimeout(d) ==
    /\ Slow /\ transfer[d] = "get" /\ Equal(d, "RECV")
    /\ Return(d, "GET_NO_PACKET")
    /\ UNCHANGED <<ptSendPkt, ptRecvPkt, mbxVars, notTransfer>>

TransferPacket(d) == PutPacketBL(d) \/ PutTimeout(d) \/ GetPacketBL(d) \/ GetTimeout(d)

\* The return code, or the state in the answer.
Returned(d) == transfer[d] \notin {"none", "put", "get"}
Status(d) == IF transfer[d] # "OK" THEN transfer[d] ELSE ptRecvPkt[d].sta

-----------------------------------------------------------------------------
(* DownloadFile, a loop over ulState: request, data, and abort after an    *)
(* error.                                                                  *)

notDownload == <<pc, usDeviceClass, hFile, name, ident, runs, osVars, mbxVars, devVars>>

FileType(file) == IF file[1] = "licence" THEN "licence" ELSE "module"

\* The call of DownloadFile, up to the first packet.
DownloadFile(d, file) ==
    /\ dl' = [dl EXCEPT ![d] = [IdleDownload EXCEPT !.state = "REQ", !.file = file,
                                                    !.max = MailboxUnits, !.id = 1]]
    /\ Transfer(d, [cmd |-> "DOWNLOAD", id |-> 1, type |-> FileType(file)])

SendAbort(d) ==
    /\ dl' = [dl EXCEPT ![d].state = "ABORT", ![d].id = Inc(@)]
    /\ Transfer(d, [cmd |-> "ABORT", id |-> Inc(dl[d].id)])

\* One packet of data: ulSendLen units from ulCurrentOffset, with the
\* continued checksum.
SendData(d, next) ==
    LET bytes == Units(next.file, next.off, next.len)
        crc   == next.crc \o bytes
    IN /\ dl' = [dl EXCEPT ![d] = [next EXCEPT !.id = Inc(@), !.crc = crc, !.block = Inc(@)]]
       /\ Transfer(d, [cmd |-> "DATA", id |-> Inc(next.id), seq |-> next.seq,
                       block |-> next.block, bytes |-> bytes, crc |-> crc])

(* The block size is the smaller of ours and the device's; a file that     *)
(* fits in one packet is sent in one.                                      *)
FirstData(d) ==
    LET max == Least(MailboxUnits, ptRecvPkt[d].max)
        one == FileLen <= max
    IN [dl[d] EXCEPT !.state = "DATA", !.max = max,
                     !.len = IF one THEN FileLen ELSE max,
                     !.seq = IF one THEN "NONE" ELSE "FIRST"]

\* Mutant: a block size of zero is taken.
DownloadAnyBlock(d) ==
    /\ dl[d].state = "REQ" /\ Returned(d)
    /\ lRet' = [lRet EXCEPT ![d] = Status(d)]
    /\ IF Status(d) # "OK" THEN SendAbort(d) ELSE SendData(d, FirstData(d))
    /\ UNCHANGED notDownload

\* Answer to the download request.
DownloadReqDone(d) ==
    /\ dl[d].state = "REQ" /\ Returned(d)
    /\ IF Status(d) # "OK"
       THEN lRet' = [lRet EXCEPT ![d] = Status(d)] /\ SendAbort(d)
       ELSE IF ptRecvPkt[d].max = 0
       THEN lRet' = [lRet EXCEPT ![d] = "DOWNLOAD_FAILED"] /\ SendAbort(d)
       ELSE lRet' = [lRet EXCEPT ![d] = "OK"] /\ SendData(d, FirstData(d))
    /\ UNCHANGED notDownload

\* Mutant: the length of the last packet is not adjusted.
NextDataFull(d) ==
    LET off  == dl[d].off + dl[d].len
        last == FileLen <= off + dl[d].len
    IN [dl[d] EXCEPT !.off = off, !.seq = IF last THEN "LAST" ELSE "MIDDLE"]

(* ulTransferedLength is the new offset; the packet that reaches the end   *)
(* of the file is the last and may be shorter.                             *)
NextData(d) ==
    LET off  == dl[d].off + dl[d].len
        last == FileLen <= off + dl[d].len
    IN [dl[d] EXCEPT !.off = off, !.len = IF last THEN FileLen - off ELSE @,
                     !.seq = IF last THEN "LAST" ELSE "MIDDLE"]

EndDownload(d) ==
    /\ dl' = [dl EXCEPT ![d].state = "ended"]
    /\ transfer' = [transfer EXCEPT ![d] = "none"]
    /\ UNCHANGED <<ptSendPkt, ptRecvPkt>>

\* Answer to a packet of data.
DownloadDataDone(d) ==
    /\ dl[d].state = "DATA" /\ Returned(d)
    /\ lRet' = [lRet EXCEPT ![d] = Status(d)]
    /\ IF Status(d) # "OK" THEN SendAbort(d)
       ELSE IF dl[d].seq \in {"LAST", "NONE"} THEN EndDownload(d)
       ELSE SendData(d, NextData(d))
    /\ UNCHANGED notDownload

\* The abort's own error counts only after another one.
DownloadAbortDone(d) ==
    /\ dl[d].state = "ABORT" /\ Returned(d)
    /\ EndDownload(d)
    /\ UNCHANGED <<lRet, notDownload>>

Download(d) == DownloadReqDone(d) \/ DownloadDataDone(d) \/ DownloadAbortDone(d)

-----------------------------------------------------------------------------
(* OS_FileOpen and OS_FileClose (request_firmware), preceded by the        *)
(* functions of USER_Linux.c that name the file and the device.            *)

notFile == <<lRet, usDeviceClass, ident, runs, xferVars, mbxVars, devVars>>
Goto(d, step) == pc' = [pc EXCEPT ![d] = step]

\* The steps at which a file is named, opened and taken.
NameSteps == {"bootName", "identName", "fwName"}
After(step) == CASE step = "bootName"  -> "bootOpen"
                 [] step = "identName" -> "identOpen"
                 [] step = "fwName"    -> "fwClass"
                 [] step = "bootOpen"  -> "bootTake"
                 [] step = "identOpen" -> "identTake"
                 [] step = "fwOpen"    -> "fwTake"
                 [] step = "bootTake"  -> "bootStart"
                 [] step = "identTake" -> "identSend"
                 [] step = "fwTake"    -> "fwSend"

\* What follows a file that could not be opened.
OpenFailed(step) == IF step \in {"identOpen", "identTake"} THEN "identEnd" ELSE "failed"

UserGetFile(d) ==
    /\ pc[d] \in NameSteps
    /\ s_pdeviceinstance' = d
    /\ name' = [name EXCEPT ![d] = IF pc[d] = "bootName" THEN BootloaderFile
                                   ELSE IF pc[d] = "identName" THEN IdentFile(d)
                                   ELSE <<>>]
    /\ Goto(d, After(pc[d]))
    /\ UNCHANGED <<hFile, fwVars, notFile>>

\* USER_GetFirmwareFile reads the class through s_pdeviceinstance, which
\* must not be NULL.
UserGetClass(d) ==
    /\ pc[d] = "fwClass"
    /\ \/ /\ s_pdeviceinstance # NoDevice
          /\ name' = [name EXCEPT ![d] = FirmwareFile(usDeviceClass[s_pdeviceinstance])]
          /\ Goto(d, "fwOpen")
       \/ /\ s_pdeviceinstance = NoDevice
          /\ Goto(d, "oops") /\ UNCHANGED name
    /\ UNCHANGED <<hFile, osVars, notFile>>

\* The names OS_FileOpen knows: those of the device it is told.
KnownNames(d) == {BootloaderFile, FirmwareFile(usDeviceClass[d]), IdentFile(d)}

OsFileOpen(d) ==
    /\ pc[d] \in {"bootOpen", "identOpen", "fwOpen"}
    /\ \/ /\ s_pdeviceinstance # NoDevice /\ name[d] \in KnownNames(s_pdeviceinstance)
          /\ IF name[d] = BootloaderFile
             THEN ptBootLoader' = name[d] /\ UNCHANGED ptFirmware
             ELSE ptFirmware' = name[d] /\ UNCHANGED ptBootLoader
          /\ Goto(d, After(pc[d])) /\ UNCHANGED lRet
       \/ /\ \/ s_pdeviceinstance = NoDevice
             \/ name[d] \notin KnownNames(s_pdeviceinstance)
             \/ "file" \in Failures
          /\ lRet' = [lRet EXCEPT ![d] = "FILE_OPEN_ERROR"]
          /\ Goto(d, OpenFailed(pc[d])) /\ UNCHANGED fwVars
    /\ UNCHANGED <<usDeviceClass, hFile, name, ident, runs, s_pdeviceinstance,
                   xferVars, mbxVars, devVars>>

\* request_firmware has stored its result in a global pointer.
OsFileTake(d) ==
    /\ pc[d] \in {"bootTake", "identTake", "fwTake"}
    /\ hFile' = [hFile EXCEPT ![d] = IF pc[d] = "bootTake" THEN ptBootLoader
                                     ELSE ptFirmware]
    /\ Goto(d, After(pc[d]))
    /\ UNCHANGED <<name, osVars, notFile>>

OsFileClose(d) == hFile' = [hFile EXCEPT ![d] = <<>>] /\ s_pdeviceinstance' = NoDevice

File(d) == UserGetFile(d) \/ UserGetClass(d) \/ OsFileOpen(d) \/ OsFileTake(d)

-----------------------------------------------------------------------------
(* netana_tkit_deviceadd. *)

Fail(d, code) == lRet' = [lRet EXCEPT ![d] = code] /\ Goto(d, "failed")

\* netana_registerdevice adds the device.
Add(d) ==
    /\ pc[d] = "idle" /\ runs[d] = 0 /\ MaxRuns > 0
    /\ runs' = [runs EXCEPT ![d] = 1]
    /\ Goto(d, IF boot[d] = "flash" THEN "flash" ELSE "reset")
    /\ UNCHANGED <<lRet, usDeviceClass, hFile, name, ident, xferVars, osVars,
                   mbxVars, devVars>>

\* netana_set_device_ident and netana_restart_device.
IdentUpdate(d) ==
    /\ pc[d] = "added" /\ runs[d] < MaxRuns
    /\ runs' = [runs EXCEPT ![d] = @ + 1]
    /\ ident' = [ident EXCEPT ![d] = [request |-> TRUE, lError |-> "OK"]]
    /\ Goto(d, IF boot[d] = "flash" THEN "flash" ELSE "reset")
    /\ UNCHANGED <<lRet, usDeviceClass, hFile, name, xferVars, osVars, mbxVars,
                   devVars>>

\* A flash based device must show the cookie of its firmware.
FlashBased(d) ==
    /\ pc[d] = "flash"
    /\ \/ lRet' = [lRet EXCEPT ![d] = "OK"] /\ Goto(d, "added")
       \/ "reset" \in Failures /\ Fail(d, "FW_START_FAILED")
    /\ UNCHANGED <<usDeviceClass, hFile, name, ident, runs, xferVars, osVars,
                   mbxVars, devVars>>

\* netx_reset
NetxReset(d) ==
    /\ pc[d] = "reset"
    /\ \/ "reset" \in Failures /\ Fail(d, "HWRESET_ERROR")
       \/ lRet' = [lRet EXCEPT ![d] = "OK"] /\ Goto(d, "bootName")
    /\ boot' = [boot EXCEPT ![d] = "rom"]
    /\ rx' = [rx EXCEPT ![d] = NoFile] /\ stored' = [stored EXCEPT ![d] = {}]
    /\ out' = [out EXCEPT ![d] = NoPacket]
    /\ sendMbx' = [sendMbx EXCEPT ![d] = NoPacket]
    /\ recvMbx' = [recvMbx EXCEPT ![d] = NoPacket]
    /\ hostBits' = [hostBits EXCEPT ![d] = {}] /\ netxBits' = [netxBits EXCEPT ![d] = {}]
    /\ UNCHANGED <<usDeviceClass, hFile, name, ident, runs, xferVars, osVars>>

\* netx100_start_bootloader: the file into the memory, the start bit.
BootStart(d) ==
    /\ pc[d] = "bootStart"
    /\ boot' = [boot EXCEPT ![d] = "loading"]
    /\ Goto(d, "bootWait")
    /\ UNCHANGED <<lRet, usDeviceClass, hFile, name, ident, runs, xferVars, osVars,
                   mbxVars, rx, stored, out>>

\* It waits for the cookie and NSF_READY.
BootWait(d) ==
    /\ pc[d] = "bootWait"
    /\ \/ /\ boot[d] = "bsl"
          /\ lRet' = [lRet EXCEPT ![d] = "OK"] /\ Goto(d, "class")
       \/ Slow /\ Fail(d, "DOWNLOAD_FAILED")
    /\ OsFileClose(d)
    /\ UNCHANGED <<usDeviceClass, name, ident, runs, fwVars, xferVars, mbxVars,
                   devVars>>

\* RequestDeviceClass
RequestClass(d) ==
    /\ pc[d] = "class"
    /\ Transfer(d, [cmd |-> "IDENTIFY", id |-> 0])
    /\ Goto(d, "classWait")
    /\ UNCHANGED <<lRet, usDeviceClass, hFile, name, ident, runs, dl, osVars,
                   mbxVars, devVars>>

ClassDone(d) ==
    /\ pc[d] = "classWait" /\ Returned(d)
    /\ Return(d, "none")
    /\ IF Status(d) = "OK"
       THEN /\ usDeviceClass' = [usDeviceClass EXCEPT ![d] = ptRecvPkt[d].class]
            /\ Goto(d, IF ident[d].request THEN "identName" ELSE "identEnd")
            /\ lRet' = [lRet EXCEPT ![d] = "OK"]
       ELSE /\ usDeviceClass' = [usDeviceClass EXCEPT ![d] = "none"]
            /\ Fail(d, "FUNCTION_FAILED")
    /\ ident' = [ident EXCEPT ![d].request = IF Status(d) = "OK" THEN FALSE ELSE @]
    /\ UNCHANGED <<hFile, name, runs, ptSendPkt, ptRecvPkt, dl, osVars, mbxVars,
                   devVars>>

\* netx_update_ident_info and DownloadAndStartFirmware with the open file.
SendFile(d) ==
    /\ pc[d] \in {"identSend", "fwSend"}
    /\ \/ /\ DownloadFile(d, hFile[d])
          /\ Goto(d, IF pc[d] = "identSend" THEN "identXfer" ELSE "fwXfer")
          /\ UNCHANGED <<lRet, hFile, s_pdeviceinstance>>
       \/ /\ "file" \in Failures
          /\ lRet' = [lRet EXCEPT ![d] = "FILE_READ_FAILED"]
          /\ OsFileClose(d)
          /\ Goto(d, IF pc[d] = "identSend" THEN "identEnd" ELSE "failed")
          /\ UNCHANGED xferVars
    /\ UNCHANGED <<usDeviceClass, name, ident, runs, fwVars, mbxVars, devVars>>

IdentSent(d) ==
    /\ pc[d] = "identXfer" /\ dl[d].state = "ended"
    /\ dl' = [dl EXCEPT ![d] = IdleDownload]
    /\ OsFileClose(d)
    /\ Goto(d, "identEnd")
    /\ UNCHANGED <<lRet, usDeviceClass, name, ident, runs, transfer, ptSendPkt,
                   ptRecvPkt, fwVars, mbxVars, devVars>>

\* Mutant: the result of the licence is lost.
IdentForget(d) ==
    /\ pc[d] = "identEnd"
    /\ lRet' = [lRet EXCEPT ![d] = "OK"]
    /\ Goto(d, "fwName")
    /\ UNCHANGED <<usDeviceClass, hFile, name, ident, runs, xferVars, osVars,
                   mbxVars, devVars>>

\* The result is kept in lError; the bring-up goes on whatever it is.
IdentEnd(d) ==
    /\ pc[d] = "identEnd"
    /\ ident' = [ident EXCEPT ![d].lError = lRet[d]]
    /\ lRet' = [lRet EXCEPT ![d] = "OK"]
    /\ Goto(d, "fwName")
    /\ UNCHANGED <<usDeviceClass, hFile, name, runs, xferVars, osVars, mbxVars,
                   devVars>>

\* StartFirmware when the file is there.
FirmwareSent(d) ==
    /\ pc[d] = "fwXfer" /\ dl[d].state = "ended"
    /\ dl' = [dl EXCEPT ![d] = IdleDownload]
    /\ IF lRet[d] = "OK"
       THEN /\ Transfer(d, [cmd |-> "INSTANTIATE", id |-> 0])
            /\ Goto(d, "start") /\ UNCHANGED <<hFile, s_pdeviceinstance>>
       ELSE /\ OsFileClose(d)
            /\ Goto(d, "failed") /\ UNCHANGED <<transfer, ptSendPkt, ptRecvPkt>>
    /\ UNCHANGED <<lRet, usDeviceClass, name, ident, runs, fwVars, mbxVars,
                   devVars>>

StartDone(d) ==
    /\ pc[d] = "start" /\ Returned(d)
    /\ Return(d, "none")
    /\ lRet' = [lRet EXCEPT ![d] = Status(d)]
    /\ IF Status(d) = "OK"
       THEN Goto(d, "cookie") /\ UNCHANGED <<hFile, s_pdeviceinstance>>
       ELSE Goto(d, "failed") /\ OsFileClose(d)
    /\ UNCHANGED <<usDeviceClass, name, ident, runs, ptSendPkt, ptRecvPkt, dl,
                   fwVars, mbxVars, devVars>>

\* It waits for the cookie of the firmware; then the layout is read.
Cookie(d) ==
    /\ pc[d] = "cookie"
    /\ \/ boot[d] = "firmware" /\ Goto(d, "added") /\ UNCHANGED lRet
       \/ Slow /\ Fail(d, "FW_START_FAILED")
    /\ OsFileClose(d)
    /\ UNCHANGED <<usDeviceClass, name, ident, runs, fwVars, xferVars, mbxVars,
                   devVars>>

Caller(d) ==
    \/ FlashBased(d) \/ NetxReset(d) \/ BootStart(d) \/ BootWait(d)
    \/ RequestClass(d) \/ ClassDone(d) \/ SendFile(d) \/ IdentSent(d) \/ IdentEnd(d)
    \/ FirmwareSent(d) \/ StartDone(d) \/ Cookie(d)
    \/ File(d) \/ TransferPacket(d) \/ Download(d)

-----------------------------------------------------------------------------
Next == \E d \in Devices : Device(d) \/ Add(d) \/ IdentUpdate(d) \/ Caller(d)

Spec == Init /\ [][Next]_vars

\* The thread that adds the device runs; its time limits are its own steps.
LiveSpec == Spec /\ \A d \in Devices : WF_vars(Caller(d))

-----------------------------------------------------------------------------
\* The device runs, or is told to start, the complete firmware file of its
\* class (DownloadFile, DownloadAndStartFirmware).
RunsOwnFirmware ==
    \A d \in Devices : boot[d] \in {"starting", "firmware"} =>
        <<"module", Content(FirmwareFile(Class[d]))>> \in stored[d]

\* An update of the identity that reports no error has stored the complete
\* licence file (netx_update_ident_info, netana_ident_update).
IdentErrorTells ==
    \A d \in Devices :
        pc[d] = "added" /\ runs[d] > 1 /\ boot[d] # "flash" /\ ident[d].lError = "OK"
            => <<"licence", Content(IdentFile(d))>> \in stored[d]

\* A bring-up ends, whatever the device does or fails to do
\* (netana_tkit_deviceadd: every wait and every loop has its end).
BringUpEnds ==
    \A d \in Devices : pc[d] \notin {"idle", "added", "failed"} ~>
                       pc[d] \in {"added", "failed"}

=============================================================================
