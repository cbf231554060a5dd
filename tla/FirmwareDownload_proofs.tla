------------------------ MODULE FirmwareDownload_proofs ------------------------
(***************************************************************************)
(* A download that reports no error has put the complete file into the     *)
(* device, for any number of devices, any file, packet and block size, any *)
(* failure, and answers that come after their transfer was given up.  If   *)
(* one device is brought up at a time, the file is its own: it runs its    *)
(* firmware, and an update of the identity without an error has stored its *)
(* licence.                                                                *)
(*                                                                         *)
(* The packet identifications start again at 1 for every file, so they do  *)
(* not tell a late answer from the one that is waited for.  The order of   *)
(* the packets under way does: no answer to data of an earlier download is *)
(* behind the answer to the DOWNLOAD of this one (DataFirst).              *)
(***************************************************************************)
EXTENDS FirmwareDownload, Integers, SequenceTheorems, TLAPS

USE DownloadAssumption

-----------------------------------------------------------------------------
(* Types. *)

ClassNames == {"NANL", "NSCP", "CIFX"}
NoName     == <<"none", "none">>
FileNames  ==
    {<<>>, NoName, BootloaderFile} \cup {IdentFile(d) : d \in Devices}
      \cup {FirmwareFile(c) : c \in ClassNames \cup {"none"}}
FileUnits  == FileNames \X Nat
Numbers    == 0 .. Width - 1
FileTypes  == {"licence", "module"}
Sequence   == {"NONE", "FIRST", "MIDDLE", "LAST"}
Timeouts   == {"MAILBOX_FULL", "TRANSFER_TIMEOUT", "GET_NO_PACKET"}
Codes      ==
    Timeouts \cup {"OK", "ERROR", "DOWNLOAD_FAILED", "FILE_OPEN_ERROR", "FILE_READ_FAILED",
                 "FUNCTION_FAILED", "FW_START_FAILED", "HWRESET_ERROR"}
BootSteps  == {"bootName", "bootOpen", "bootTake", "bootStart", "bootWait"}
ClassSteps == BootSteps \cup {"class", "classWait"}
IdentSteps == {"identName", "identOpen", "identTake", "identSend"}
FwSteps    == {"fwName", "fwClass", "fwOpen", "fwTake", "fwSend"}
DownloadSteps == {"identXfer", "fwXfer"}
AtRest     == {"idle", "added", "failed"}
PcSteps    ==
    AtRest \cup ClassSteps \cup IdentSteps \cup FwSteps \cup DownloadSteps
      \cup {"reset", "flash", "identEnd", "start", "cookie", "oops"}

Requests ==
    {NoPacket}
      \cup [cmd : {"IDENTIFY", "INSTANTIATE", "ABORT"}, id : Numbers]
      \cup [cmd : {"DOWNLOAD"}, id : Numbers, type : FileTypes]
      \cup [cmd : {"DATA"}, id : Numbers, seq : Sequence, block : Numbers,
            bytes : Seq(FileUnits), crc : Seq(FileUnits)]
Commands == {"none", "IDENTIFY", "INSTANTIATE", "ABORT", "DOWNLOAD", "DATA"}
Replies ==
    {NoPacket} \cup [cmd : Commands, id : Numbers, sta : {"OK", "ERROR"}, max : Nat,
                     class : ClassNames \cup {"none"}]
Downloads ==
    [state : {"none", "REQ", "DATA", "ABORT", "ended"}, file : FileNames, off : Nat,
     len : Nat, max : Nat, seq : Sequence, block : Numbers, id : Numbers,
     crc : Seq(FileUnits)]

TypeOK ==
    /\ pc \in [Devices -> PcSteps] /\ lRet \in [Devices -> Codes]
    /\ usDeviceClass \in [Devices -> ClassNames \cup {"none"}]
    /\ hFile \in [Devices -> FileNames] /\ name \in [Devices -> FileNames]
    /\ ident \in [Devices -> [request : BOOLEAN, lError : Codes]]
    /\ runs \in [Devices -> Nat]
    /\ transfer \in [Devices -> Timeouts \cup {"none", "put", "get", "OK"}]
    /\ ptSendPkt \in [Devices -> Requests] /\ ptRecvPkt \in [Devices -> Replies]
    /\ dl \in [Devices -> Downloads]
    /\ s_pdeviceinstance \in Devices \cup {NoDevice}
    /\ ptBootLoader \in FileNames /\ ptFirmware \in FileNames
    /\ sendMbx \in [Devices -> Requests] /\ recvMbx \in [Devices -> Replies]
    /\ hostBits \in [Devices -> SUBSET {"SEND", "RECV"}]
    /\ netxBits \in [Devices -> SUBSET {"SEND", "RECV"}]
    /\ boot \in [Devices -> {"off", "flash", "rom", "loading", "bsl", "starting", "firmware"}]
    /\ rx \in [Devices -> [type : FileTypes \cup {"none"}, bytes : Seq(FileUnits),
                           block : Numbers]]
    /\ stored \in [Devices -> SUBSET (FileTypes \X Seq(FileUnits))]
    /\ out \in [Devices -> Replies]

-----------------------------------------------------------------------------
(* One device. *)

\* Where the thread is: a request is under way only where one is sent, and
\* it is the one that belongs there.
Where(d) ==
    /\ transfer[d] # "none" => pc[d] \in DownloadSteps \cup {"classWait", "start"}
    /\ dl[d].state # "none" <=> pc[d] \in DownloadSteps
    /\ dl[d].state = "ended" => transfer[d] = "none"
    /\ pc[d] = "flash" => boot[d] = "flash"
Request(d) ==
    /\ pc[d] = "classWait" => ptSendPkt[d].cmd = "IDENTIFY"
    /\ pc[d] = "start" => ptSendPkt[d].cmd = "INSTANTIATE"
    /\ dl[d].state = "REQ" =>
          /\ ptSendPkt[d].cmd = "DOWNLOAD"
          /\ ptSendPkt[d].type = FileType(dl[d].file)
    /\ dl[d].state = "DATA" =>
          /\ ptSendPkt[d].cmd = "DATA"
          /\ ptSendPkt[d].seq = dl[d].seq /\ ptSendPkt[d].crc = dl[d].crc
    /\ dl[d].state = "ABORT" => ptSendPkt[d].cmd = "ABORT"
    /\ transfer[d] = "OK" => Answers(ptRecvPkt[d], ptSendPkt[d])

\* How far the download is.
LastOne == {"LAST", "NONE"}
Extent(d) ==
    /\ dl[d].state = "REQ" => dl[d].off = 0 /\ dl[d].crc = <<>>
    /\ dl[d].state = "DATA" =>
          /\ dl[d].crc = Units(dl[d].file, 0, dl[d].off + dl[d].len)
          /\ dl[d].seq \in LastOne => dl[d].off + dl[d].len = FileLen
          /\ dl[d].seq \notin LastOne => dl[d].off + dl[d].len < FileLen

\* The packets under way: Sent is the newest, Shown the oldest.
Sent(d, c)  == ~Equal(d, "SEND") /\ sendMbx[d].cmd = c
Due(d, c)   == out[d].cmd = c
Shown(d, c) == ~Equal(d, "RECV") /\ recvMbx[d].cmd = c
NoneOf(d, c) == ~Sent(d, c) /\ ~Due(d, c) /\ ~Shown(d, c)
OneOf(d, c) ==
    /\ Due(d, c) => ~Sent(d, c)
    /\ Shown(d, c) => ~Sent(d, c) /\ ~Due(d, c)
\* an answer to a download comes before all those to data
DataFirst(d) ==
    /\ Due(d, "DOWNLOAD") => ~Sent(d, "DATA")
    /\ Shown(d, "DOWNLOAD") => ~Sent(d, "DATA") /\ ~Due(d, "DATA")

\* The device has the file that the last packet of data ends.
HasFile(d, file) == <<FileType(file), Content(file)>> \in stored[d]
Ends(d) == dl[d].seq \in LastOne => HasFile(d, dl[d].file)

\* The packet of data is the only one under way; an answer that accepts the
\* last one is true.
OnlyOwn(d) ==
    /\ ~Equal(d, "SEND") => sendMbx[d] = ptSendPkt[d]
    /\ OneOf(d, "DATA")
    /\ Due(d, "DATA") /\ out[d].sta = "OK" => Ends(d)
    /\ Shown(d, "DATA") /\ recvMbx[d].sta = "OK" => Ends(d)

\* What the device makes of the next packet of data.
Receives(d, type) ==
    /\ Sent(d, "DOWNLOAD") => sendMbx[d].type = type
    /\ ~Sent(d, "DOWNLOAD") => rx[d].type \in {"none", type}

\* The class that the device answers is its own.
ClassTrue(d) ==
    \A p \in {out[d], recvMbx[d], ptRecvPkt[d]} :
        p.cmd = "IDENTIFY" /\ p.sta = "OK" => p.class = Class[d]

Before(d) ==
    pc[d] \in ClassSteps \cup IdentSteps => NoneOf(d, "DOWNLOAD") /\ NoneOf(d, "DATA")
Ident(d) ==
    pc[d] = "identXfer" =>
        /\ dl[d].state = "REQ" =>
              /\ NoneOf(d, "DATA") /\ OneOf(d, "DOWNLOAD")
              /\ transfer[d] \in {"put", "OK"} => NoneOf(d, "DOWNLOAD")
        /\ dl[d].state = "DATA" => NoneOf(d, "DOWNLOAD")
Between(d) ==
    \/ pc[d] \in FwSteps \cup {"identEnd"}
    \/ pc[d] = "identXfer" /\ dl[d].state \in {"ABORT", "ended"}
    \/ pc[d] = "fwXfer" /\ dl[d].state = "REQ" /\ transfer[d] \in {"put", "get"}
    => DataFirst(d)
InDownload(d) ==
    /\ dl[d].state = "REQ" /\ transfer[d] = "OK" => NoneOf(d, "DATA")
    /\ dl[d].state = "DATA" /\ transfer[d] = "put" => NoneOf(d, "DATA")
    /\ dl[d].state = "DATA" /\ transfer[d] = "get" => OnlyOwn(d)
    /\ dl[d].state = "DATA" /\ transfer[d] = "OK" =>
          NoneOf(d, "DATA") /\ (ptRecvPkt[d].sta = "OK" => Ends(d))
    /\ \/ dl[d].state = "REQ" /\ transfer[d] \in {"get", "OK"}
       \/ dl[d].state = "DATA"
       => Receives(d, FileType(dl[d].file))
Done(d) ==
    /\ dl[d].state = "ABORT" => lRet[d] # "OK"
    /\ dl[d].state = "ended" /\ lRet[d] = "OK" => HasFile(d, dl[d].file)

\* DownloadFile, which reports no error, has the complete file accepted, its
\* last packet by the answer to this packet and to no other.
DownloadComplete ==
    \A d \in Devices : dl[d].state = "ended" /\ lRet[d] = "OK" => HasFile(d, dl[d].file)

PartsInv(d) == Where(d) /\ Request(d) /\ Extent(d)
PipeInv(d) == ClassTrue(d) /\ Before(d) /\ Ident(d) /\ Between(d) /\ InDownload(d) /\ Done(d)

\* Names, open files and downloads are those of the device.
Files(d) ==
    /\ pc[d] \in IdentSteps \cup FwSteps \cup {"identXfer", "identEnd"}
          => usDeviceClass[d] = Class[d]
    /\ pc[d] = "identOpen" => name[d] = IdentFile(d)
    /\ pc[d] = "identTake" => ptFirmware = IdentFile(d)
    /\ pc[d] = "identSend" => hFile[d] = IdentFile(d)
    /\ pc[d] = "identXfer" => dl[d].file = IdentFile(d)
    /\ pc[d] = "fwClass" => s_pdeviceinstance = d
    /\ pc[d] = "fwOpen" => name[d] = FirmwareFile(Class[d])
    /\ pc[d] = "fwTake" => ptFirmware = FirmwareFile(Class[d])
    /\ pc[d] = "fwSend" => hFile[d] = FirmwareFile(Class[d])
    /\ pc[d] = "fwXfer" => dl[d].file = FirmwareFile(Class[d])
\* An update asks for the licence, and what came of it is in lRet, then lError.
Licence(d) ==
    /\ runs[d] > 1 /\ pc[d] \in ClassSteps \cup {"reset"} => ident[d].request
    /\ runs[d] > 1 /\ pc[d] = "identEnd" /\ lRet[d] = "OK" => HasFile(d, IdentFile(d))
    /\ runs[d] > 1 /\ pc[d] \in FwSteps \cup {"fwXfer", "start", "cookie", "added"}
          /\ boot[d] # "flash" /\ ident[d].lError = "OK" => HasFile(d, IdentFile(d))
\* The firmware is told to start after its file is there.
Firmware(d) ==
    pc[d] = "start" \/ sendMbx[d].cmd = "INSTANTIATE" \/ boot[d] \in {"starting", "firmware"}
        => HasFile(d, FirmwareFile(Class[d]))
OwnInv(d) == Files(d) /\ Licence(d) /\ Firmware(d)

\* One device at a time is brought up.
Busy(d) == pc[d] \notin AtRest
OneAtATime == \A d, e \in Devices : Busy(d) /\ Busy(e) => d = e
-----------------------------------------------------------------------------
(* Units of a file, and names. *)

LEMMA UnitsType ==
    ASSUME NEW file \in FileNames, NEW off \in Nat, NEW len \in Nat
    PROVE  /\ Units(file, off, len) \in Seq(FileUnits)
           /\ Len(Units(file, off, len)) = len
           /\ \A i \in 1 .. len : Units(file, off, len)[i] = <<file, off + i>>
<1>1. \A i \in 1 .. len : <<file, off + i>> \in FileUnits
  BY DEF FileUnits
<1>2. [i \in 1 .. len |-> <<file, off + i>>] \in [1 .. len -> FileUnits]
  BY <1>1
<1>3. [i \in 1 .. len |-> <<file, off + i>>] \in Seq(FileUnits)
  <2> DEFINE f == [i \in 1 .. len |-> <<file, off + i>>]
  <2>1. f \in [1 .. len -> FileUnits]
    BY <1>2
  <2> HIDE DEF f
  <2>2. f \in UNION {[1 .. n -> FileUnits] : n \in Nat}
    BY <2>1
  <2>3. f \in Seq(FileUnits)
    BY <2>2, SeqDef, Zenon
  <2> QED
    BY <2>3 DEF f
<1> QED
  BY <1>2, <1>3 DEF Units

(* The continued checksum: the units up to the end of the packet.          *)
LEMMA UnitsConcat ==
    ASSUME NEW file \in FileNames, NEW n \in Nat, NEW m \in Nat
    PROVE  Units(file, 0, n) \o Units(file, n, m) = Units(file, 0, n + m)
<1> DEFINE s == Units(file, 0, n)
           t == Units(file, n, m)
           u == Units(file, 0, n + m)
<1>0. n + m \in Nat /\ 0 \in Nat
  OBVIOUS
<1>1. /\ s \in Seq(FileUnits) /\ Len(s) = n /\ \A i \in 1 .. n : s[i] = <<file, 0 + i>>
  BY <1>0, UnitsType
<1>2. /\ t \in Seq(FileUnits) /\ Len(t) = m /\ \A i \in 1 .. m : t[i] = <<file, n + i>>
  BY UnitsType
<1>3. /\ u \in Seq(FileUnits) /\ Len(u) = n + m
      /\ \A i \in 1 .. n + m : u[i] = <<file, 0 + i>>
  BY <1>0, UnitsType
<1> HIDE DEF s, t, u
<1>4. /\ s \o t \in Seq(FileUnits) /\ Len(s \o t) = n + m
      /\ \A i \in 1 .. n + m : (s \o t)[i] = IF i <= n THEN s[i] ELSE t[i - n]
  <2>1. /\ s \o t \in Seq(FileUnits) /\ Len(s \o t) = Len(s) + Len(t)
        /\ \A i \in 1 .. Len(s) + Len(t) :
              (s \o t)[i] = IF i <= Len(s) THEN s[i] ELSE t[i - Len(s)]
    <3>1. s \in Seq(FileUnits) /\ t \in Seq(FileUnits)
      BY <1>1, <1>2
    <3> QED
      BY <3>1, ConcatProperties
  <2>2. Len(s) = n /\ Len(t) = m
    BY <1>1, <1>2
  <2> QED
    BY <2>1, <2>2, Zenon
<1>5. \A i \in 1 .. n + m : (s \o t)[i] = u[i]
  <2> TAKE i \in 1 .. n + m
  <2>1. CASE i <= n
    <3>1. i \in 1 .. n
      BY <2>1
    <3>2. (s \o t)[i] = s[i]
      BY <2>1, <1>4, Zenon
    <3> QED
      BY <3>1, <3>2, <1>1, <1>3, Zenon
  <2>2. CASE ~(i <= n)
    <3>1. i - n \in 1 .. m /\ n + (i - n) = 0 + i
      BY <2>2
    <3>2. t[i - n] = <<file, n + (i - n)>>
      BY <3>1, <1>2
    <3> QED
      BY <2>2, <3>1, <3>2, <1>3, <1>4, Zenon
  <2> QED
    BY <2>1, <2>2
<1>6. s \o t = u
  BY <1>3, <1>4, <1>5, SeqEqual
<1> QED
  BY <1>6 DEF s, t, u

LEMMA UnitsFirst ==
    ASSUME NEW file \in FileNames, NEW n \in Nat
    PROVE  <<>> \o Units(file, 0, n) = Units(file, 0, n)
<1>1. Units(file, 0, n) \in Seq(FileUnits)
  BY UnitsType
<1> QED
  BY <1>1, ConcatEmptySeq

LEMMA Names ==
    ASSUME NEW d \in Devices, NEW c \in ClassNames \cup {"none"}
    PROVE  /\ IdentFile(d) \in FileNames /\ FirmwareFile(c) \in FileNames
           /\ <<>> \in FileNames /\ BootloaderFile \in FileNames /\ NoName \in FileNames
           /\ IdentFile(d) # BootloaderFile /\ FirmwareFile(c) # BootloaderFile
           /\ FileType(IdentFile(d)) = "licence" /\ FileType(FirmwareFile(c)) = "module"
<1>1. IdentFile(d)[1] = "licence" /\ FirmwareFile(c)[1] = "firmware" /\ BootloaderFile[1] = "boot"
  BY DEF IdentFile, FirmwareFile, BootloaderFile
<1>2. IdentFile(d) # BootloaderFile /\ FirmwareFile(c) # BootloaderFile
  BY <1>1
<1> QED
  BY <1>1, <1>2 DEF FileNames, FileType

LEMMA NoNames == <<>> \in FileNames /\ NoName \in FileNames /\ BootloaderFile \in FileNames
BY DEF FileNames

LEMMA Counted ==
    ASSUME DownloadAssumption
    PROVE  /\ 0 \in Numbers /\ 1 \in Numbers
           /\ \A n \in Numbers : Inc(n) \in Numbers
BY DEF DownloadAssumption, Numbers, Inc

LEMMA EmptySequence == <<>> \in Seq(FileUnits)
OBVIOUS

LEMMA TypesOfFiles == \A file : FileType(file) \in FileTypes
BY DEF FileType, FileTypes

(* The packets of the driver and of the device.                            *)
LEMMA PacketTypes ==
    ASSUME DownloadAssumption
    PROVE  /\ [cmd |-> "IDENTIFY", id |-> 0] \in Requests
           /\ [cmd |-> "INSTANTIATE", id |-> 0] \in Requests
           /\ \A n \in Numbers : [cmd |-> "ABORT", id |-> n] \in Requests
           /\ \A file : [cmd |-> "DOWNLOAD", id |-> 1, type |-> FileType(file)] \in Requests
           /\ \A n, b \in Numbers, q \in Sequence, x, y \in Seq(FileUnits) :
                 [cmd |-> "DATA", id |-> n, seq |-> q, block |-> b, bytes |-> x, crc |-> y]
                   \in Requests
           /\ \A p \in Requests, sta \in {"OK", "ERROR"} : Answer(p, sta) \in Replies
           /\ NoPacket \in Requests /\ NoPacket \in Replies
<1>1. \A p \in Requests : p.cmd \in Commands /\ p.id \in Numbers
  BY Counted DEF Requests, NoPacket, Commands
<1>2. \A p \in Requests, sta \in {"OK", "ERROR"} : Answer(p, sta) \in Replies
  BY <1>1 DEF Answer, Replies
<1>3. NoPacket \in Requests /\ NoPacket \in Replies
  BY DEF Requests, Replies
<1> QED
  BY <1>2, <1>3, Counted, TypesOfFiles DEF Requests

-----------------------------------------------------------------------------
(* Types. *)

(* What TransferPacket returned.                                           *)
LEMMA StatusIs ==
    ASSUME TypeOK, NEW d \in Devices, PartsInv(d), Returned(d)
    PROVE  /\ Status(d) \in Codes
           /\ Status(d) = "OK" => transfer[d] = "OK" /\ ptRecvPkt[d].sta = "OK"
           /\ transfer[d] = "OK" => ptRecvPkt[d].cmd = ptSendPkt[d].cmd /\ ptRecvPkt[d] # NoPacket
           /\ ptRecvPkt[d] # NoPacket => ptRecvPkt[d].max \in Nat
                                         /\ ptRecvPkt[d].class \in ClassNames \cup {"none"}
<1>1. transfer[d] \in Timeouts \cup {"OK"}
  BY DEF TypeOK, Returned, Timeouts
<1>2. ASSUME transfer[d] = "OK" PROVE ptSendPkt[d].cmd # "none"
  <2>1. pc[d] \in DownloadSteps \cup {"classWait", "start"} /\ dl[d].state # "ended"
    BY <1>2 DEF PartsInv, Where
  <2>2. CASE pc[d] \in {"classWait", "start"}
    BY <2>2 DEF PartsInv, Request
  <2>3. CASE pc[d] \in DownloadSteps
    <3>1. dl[d].state \in {"REQ", "DATA", "ABORT"}
      BY <2>1, <2>3 DEF PartsInv, Where, TypeOK, Downloads
    <3> QED
      BY <3>1 DEF PartsInv, Request
  <2> QED
    BY <2>1, <2>2, <2>3
<1>3. ASSUME transfer[d] = "OK"
      PROVE  ptRecvPkt[d].cmd = ptSendPkt[d].cmd /\ ptRecvPkt[d] # NoPacket
  BY <1>2, <1>3 DEF PartsInv, Request, Answers, NoPacket
<1>4. ptRecvPkt[d] \in Replies
  BY DEF TypeOK
<1>5. ptRecvPkt[d] # NoPacket =>
         /\ ptRecvPkt[d].max \in Nat /\ ptRecvPkt[d].class \in ClassNames \cup {"none"}
         /\ ptRecvPkt[d].sta \in {"OK", "ERROR"}
  BY <1>4 DEF Replies
<1> QED
  BY <1>1, <1>3, <1>5 DEF Status, Codes, Timeouts

(* A request of the driver, with what it stands for.                       *)
LEMMA TransferType ==
    ASSUME TypeOK, NEW d \in Devices, NEW p \in Requests, Transfer(d, p)
    PROVE  /\ transfer' \in [Devices -> Timeouts \cup {"none", "put", "get", "OK"}]
           /\ ptSendPkt' \in [Devices -> Requests] /\ ptRecvPkt' \in [Devices -> Replies]
BY DEF TypeOK, Transfer

LEMMA SendDataType ==
    ASSUME TypeOK, NEW d \in Devices, NEW next \in Downloads, SendData(d, next)
    PROVE  /\ transfer' \in [Devices -> Timeouts \cup {"none", "put", "get", "OK"}]
           /\ ptSendPkt' \in [Devices -> Requests] /\ ptRecvPkt' \in [Devices -> Replies]
           /\ dl' \in [Devices -> Downloads]
<1> DEFINE bytes == Units(next.file, next.off, next.len)
           crc == next.crc \o bytes
           p == [cmd |-> "DATA", id |-> Inc(next.id), seq |-> next.seq,
                 block |-> next.block, bytes |-> bytes, crc |-> crc]
<1>1. bytes \in Seq(FileUnits)
  BY UnitsType DEF Downloads
<1>2. crc \in Seq(FileUnits)
  BY <1>1, ConcatProperties DEF Downloads
<1> HIDE DEF bytes, crc
<1>3. p \in Requests
  BY <1>1, <1>2, PacketTypes, Counted DEF Downloads
<1>4. dl' = [dl EXCEPT ![d] = [next EXCEPT !.id = Inc(@), !.crc = crc, !.block = Inc(@)]]
  BY DEF SendData, crc, bytes
<1>5. Transfer(d, p)
  BY DEF SendData, crc, bytes
<1>6. dl' \in [Devices -> Downloads]
  BY <1>2, <1>4, Counted DEF TypeOK, Downloads
<1> HIDE DEF p
<1> QED
  BY <1>3, <1>5, <1>6, TransferType

(* Changes to the local variables of DownloadFile.                         *)
AbortRecord(r, n) == [r EXCEPT !.state = "ABORT", !.id = n]
FirstRecord(r, m, k, q) == [r EXCEPT !.state = "DATA", !.max = m, !.len = k, !.seq = q]
NextRecord(r, m, k, q) == [r EXCEPT !.off = m, !.len = k, !.seq = q]

LEMMA AbortFields ==
    ASSUME NEW r \in Downloads, NEW n \in Numbers
    PROVE  AbortRecord(r, n) \in Downloads /\ [r EXCEPT !.state = "ended"] \in Downloads
BY DEF Downloads, AbortRecord

LEMMA SendAbortType ==
    ASSUME TypeOK, NEW d \in Devices, SendAbort(d)
    PROVE  /\ transfer' \in [Devices -> Timeouts \cup {"none", "put", "get", "OK"}]
           /\ ptSendPkt' \in [Devices -> Requests] /\ ptRecvPkt' \in [Devices -> Replies]
           /\ dl' \in [Devices -> Downloads]
<1>1. dl[d].id \in Numbers
  BY DEF TypeOK, Downloads
<1>2. [cmd |-> "ABORT", id |-> Inc(dl[d].id)] \in Requests
  BY <1>1, PacketTypes, Counted
<1>3. dl' = [dl EXCEPT ![d] = AbortRecord(dl[d], Inc(dl[d].id))]
  BY DEF SendAbort, TypeOK, AbortRecord
<1>4. AbortRecord(dl[d], Inc(dl[d].id)) \in Downloads
  <2>1. dl[d] \in Downloads /\ Inc(dl[d].id) \in Numbers
    BY <1>1, Counted DEF TypeOK
  <2> QED
    BY <2>1, AbortFields
<1>5. dl' \in [Devices -> Downloads]
  BY <1>3, <1>4 DEF TypeOK
<1> QED
  BY <1>2, <1>5, TransferType DEF SendAbort

(* The extent of the first and of the next packet.                         *)
LEMMA FirstDataIs ==
    ASSUME TypeOK, NEW d \in Devices, PartsInv(d), dl[d].state = "REQ",
           ptRecvPkt[d].max \in Nat
    PROVE  LET next == FirstData(d)
           IN /\ next \in Downloads /\ next.state = "DATA" /\ next.file = dl[d].file
              /\ next.off = 0 /\ next.crc = <<>>
              /\ next.seq \in LastOne => next.off + next.len = FileLen
              /\ next.seq \notin LastOne => next.off + next.len < FileLen
<1> DEFINE max == Least(MailboxUnits, ptRecvPkt[d].max)
<1>1. dl[d] \in Downloads /\ dl[d].off = 0 /\ dl[d].crc = <<>>
  BY DEF TypeOK, PartsInv, Extent
<1>2. max \in Nat
  BY DEF Least, DownloadAssumption
<1> HIDE DEF max
<1>3. FirstData(d) = [dl[d] EXCEPT !.state = "DATA", !.max = max,
                       !.len = IF FileLen <= max THEN FileLen ELSE max,
                       !.seq = IF FileLen <= max THEN "NONE" ELSE "FIRST"]
  BY DEF FirstData, max
<1>4. "NONE" \in Sequence /\ "NONE" \in LastOne /\ "FIRST" \in Sequence /\ "FIRST" \notin LastOne
  BY DEF Sequence, LastOne
<1>5. FileLen \in Nat
  BY DEF DownloadAssumption
<1>6. 0 + FileLen = FileLen /\ 0 + max = max
  BY <1>2, <1>5
<1>7. CASE FileLen <= max
  <2>1. FirstData(d) = FirstRecord(dl[d], max, FileLen, "NONE")
    BY <1>3, <1>7 DEF FirstRecord
  <2>2. dl[d] \in Downloads /\ max \in Nat /\ FileLen \in Nat /\ "NONE" \in Sequence
    BY <1>1, <1>2, <1>4, <1>5
  <2> DEFINE next == FirstRecord(dl[d], max, FileLen, "NONE")
  <2>8. /\ next \in Downloads /\ next.state = "DATA" /\ next.file = dl[d].file
        /\ next.off = dl[d].off /\ next.crc = dl[d].crc /\ next.seq = "NONE"
    BY <2>2 DEF FirstRecord, Downloads
  <2>5. next.len = FileLen
    BY <2>2 DEF FirstRecord, Downloads
  <2> HIDE DEF next
  <2>9. FirstData(d) = next
    BY <2>1 DEF next
  <2> QED
    BY <1>1, <1>4, <1>6, <2>5, <2>8, <2>9
<1>8. CASE ~(FileLen <= max)
  <2>1. FirstData(d) = FirstRecord(dl[d], max, max, "FIRST")
    BY <1>3, <1>8 DEF FirstRecord
  <2>2. 0 + max < FileLen
    BY <1>2, <1>5, <1>6, <1>8
  <2>3. dl[d] \in Downloads /\ max \in Nat /\ "FIRST" \in Sequence
    BY <1>1, <1>2, <1>4
  <2> DEFINE next == FirstRecord(dl[d], max, max, "FIRST")
  <2>8. /\ next \in Downloads /\ next.state = "DATA" /\ next.file = dl[d].file
        /\ next.off = dl[d].off /\ next.crc = dl[d].crc /\ next.len = max /\ next.seq = "FIRST"
    BY <2>3 DEF FirstRecord, Downloads
  <2> HIDE DEF next
  <2>9. FirstData(d) = next
    BY <2>1 DEF next
  <2> QED
    BY <1>1, <1>4, <2>2, <2>8, <2>9
<1> QED
  BY <1>7, <1>8

LEMMA NextDataIs ==
    ASSUME TypeOK, NEW d \in Devices, PartsInv(d), dl[d].state = "DATA",
           dl[d].seq \notin LastOne
    PROVE  LET next == NextData(d)
           IN /\ next \in Downloads /\ next.state = "DATA" /\ next.file = dl[d].file
              /\ next.off = dl[d].off + dl[d].len /\ next.crc = dl[d].crc
              /\ next.seq \in LastOne => next.off + next.len = FileLen
              /\ next.seq \notin LastOne => next.off + next.len < FileLen
<1> DEFINE off == dl[d].off + dl[d].len
<1>1. dl[d] \in Downloads /\ off < FileLen /\ FileLen \in Nat /\ dl[d].len \in Nat
  BY DEF TypeOK, PartsInv, Extent, Downloads, DownloadAssumption
<1>2. off \in Nat
  BY <1>1 DEF Downloads
<1> HIDE DEF off
<1>3. NextData(d) = [dl[d] EXCEPT !.off = off,
                       !.len = IF FileLen <= off + dl[d].len THEN FileLen - off ELSE @,
                       !.seq = IF FileLen <= off + dl[d].len THEN "LAST" ELSE "MIDDLE"]
  BY DEF NextData, off
<1>4. "LAST" \in Sequence /\ "LAST" \in LastOne /\ "MIDDLE" \in Sequence /\ "MIDDLE" \notin LastOne
  BY DEF Sequence, LastOne
<1>5. CASE FileLen <= off + dl[d].len
  <2>1. FileLen - off \in Nat /\ off + (FileLen - off) = FileLen
    BY <1>1, <1>2
  <2>2. NextData(d) = NextRecord(dl[d], off, FileLen - off, "LAST")
    BY <1>3, <1>5 DEF NextRecord
  <2>3. dl[d] \in Downloads /\ off \in Nat /\ FileLen - off \in Nat /\ "LAST" \in Sequence
    BY <1>1, <1>2, <1>4, <2>1
  <2> DEFINE next == NextRecord(dl[d], off, (FileLen - off), "LAST")
  <2>8. /\ next \in Downloads /\ next.state = dl[d].state /\ next.file = dl[d].file
        /\ next.off = off /\ next.crc = dl[d].crc /\ next.len = (FileLen - off) /\ next.seq = "LAST"
    BY <2>3 DEF NextRecord, Downloads
  <2> HIDE DEF next
  <2>9. NextData(d) = next
    BY <2>2 DEF next
  <2> QED
    BY <1>1, <1>4, <2>1, <2>8, <2>9 DEF off
<1>6. CASE ~(FileLen <= off + dl[d].len)
  <2>1. NextData(d) = NextRecord(dl[d], off, dl[d].len, "MIDDLE")
    BY <1>1, <1>3, <1>6 DEF Downloads, NextRecord
  <2>2. off + dl[d].len < FileLen
    BY <1>1, <1>2, <1>6
  <2>3. dl[d] \in Downloads /\ off \in Nat /\ dl[d].len \in Nat /\ "MIDDLE" \in Sequence
    BY <1>1, <1>2, <1>4
  <2> DEFINE next == NextRecord(dl[d], off, dl[d].len, "MIDDLE")
  <2>8. /\ next \in Downloads /\ next.state = dl[d].state /\ next.file = dl[d].file
        /\ next.off = off /\ next.crc = dl[d].crc /\ next.seq = "MIDDLE"
    BY <2>3 DEF NextRecord, Downloads
  <2>5. next.len = dl[d].len
    BY <2>3 DEF NextRecord, Downloads
  <2> HIDE DEF next
  <2>9. NextData(d) = next
    BY <2>1 DEF next
  <2> QED
    BY <1>1, <1>4, <2>2, <2>5, <2>8, <2>9 DEF off
<1> QED
  BY <1>5, <1>6

(* Every action keeps the types.                                           *)
LEMMA DeviceType ==
    ASSUME TypeOK, NEW d \in Devices, Device(d)
    PROVE  TypeOK'
<1> USE DEF addVars, xferVars, fwVars, osVars, mbxVars
<1>1. CASE BslTake(d)
  <2> DEFINE p == sendMbx[d]
  <2>1. p \in Requests /\ p.id \in Numbers
    BY DEF TypeOK, Requests, NoPacket, Numbers, DownloadAssumption
  <2>2. \A sta \in {"OK", "ERROR"} : Answer(p, sta) \in Replies
    BY <2>1, PacketTypes
  <2>3. netxBits' \in [Devices -> SUBSET {"SEND", "RECV"}]
    BY <1>1 DEF BslTake, TypeOK, Flip
  <2> HIDE DEF p
  <2>4. NoFile \in [type : FileTypes \cup {"none"}, bytes : Seq(FileUnits), block : Numbers]
    BY Counted, EmptySequence DEF NoFile
  <2>5. ASSUME out' \in [Devices -> Replies],
               boot' \in [Devices -> {"off", "flash", "rom", "loading", "bsl", "starting",
                                      "firmware"}],
               rx' \in [Devices -> [type : FileTypes \cup {"none"}, bytes : Seq(FileUnits),
                                   block : Numbers]],
               stored' \in [Devices -> SUBSET (FileTypes \X Seq(FileUnits))]
        PROVE  TypeOK'
    BY <1>1, <2>3, <2>5 DEF BslTake, TypeOK
  <2>6. CASE Refuse(d, p)
    BY <2>2, <2>4, <2>5, <2>6 DEF Refuse, TypeOK
  <2>7. CASE Identify(d, p)
    <3>1. Class[d] \in ClassNames
      BY DEF DownloadAssumption, ClassNames
    <3>2. [Answer(p, "OK") EXCEPT !.class = Class[d]] \in Replies
      BY <2>1, <2>7, <3>1 DEF Identify, Answer, Replies, Commands
    <3> QED
      BY <2>5, <2>7, <3>2 DEF Identify, TypeOK
  <2>8. CASE OpenFile(d, p)
    <3>1. PICK max \in BlockSizes : out' = [out EXCEPT ![d] = [Answer(p, "OK") EXCEPT !.max = max]]
      BY <2>8 DEF OpenFile
    <3>2. max \in Nat
      BY DEF DownloadAssumption
    <3>3. [Answer(p, "OK") EXCEPT !.max = max] \in Replies
      BY <2>1, <2>8, <3>2 DEF OpenFile, Answer, Replies, Commands
    <3>4. p.type \in FileTypes
      BY <2>1, <2>8 DEF OpenFile, Requests, NoPacket
    <3>5. [type |-> p.type, bytes |-> <<>>, block |-> 0]
             \in [type : FileTypes \cup {"none"}, bytes : Seq(FileUnits), block : Numbers]
      BY <3>4, Counted, EmptySequence
    <3> QED
      BY <2>5, <2>8, <3>1, <3>3, <3>5 DEF OpenFile, TypeOK
  <2>9. CASE TakeBlock(d, p)
    <3> DEFINE bytes == rx[d].bytes \o p.bytes
    <3>1. p.bytes \in Seq(FileUnits)
      BY <2>1, <2>9 DEF TakeBlock, Requests, NoPacket
    <3>2. rx[d].bytes \in Seq(FileUnits) /\ rx[d].block \in Numbers
      BY DEF TypeOK
    <3>3. bytes \in Seq(FileUnits) /\ Inc(rx[d].block) \in Numbers
      BY <3>1, <3>2, ConcatProperties, Counted
    <3> DEFINE good == rx[d].type # "none" /\ p.block = rx[d].block /\ p.crc = bytes
               last == p.seq \in {"LAST", "NONE"}
    <3>4. /\ out' = [out EXCEPT ![d] = Answer(p, IF good THEN "OK" ELSE "ERROR")]
          /\ rx' = [rx EXCEPT ![d] = IF ~good THEN rx[d] ELSE IF last THEN NoFile
                       ELSE [rx[d] EXCEPT !.bytes = bytes, !.block = Inc(rx[d].block)]]
          /\ stored' = [stored EXCEPT ![d] =
                           IF good /\ last THEN @ \cup {<<rx[d].type, bytes>>} ELSE @]
          /\ UNCHANGED boot
      BY <2>9 DEF TakeBlock
    <3>5. good => rx[d].type \in FileTypes
      BY DEF TypeOK
    <3> HIDE DEF good, last, bytes
    <3>6. out' \in [Devices -> Replies]
      BY <2>2, <3>4 DEF TypeOK
    <3>7. rx' \in [Devices -> [type : FileTypes \cup {"none"}, bytes : Seq(FileUnits),
                                   block : Numbers]]
      <4>1. [rx[d] EXCEPT !.bytes = bytes, !.block = Inc(rx[d].block)]
               \in [type : FileTypes \cup {"none"}, bytes : Seq(FileUnits), block : Numbers]
        <5>1. rx[d] \in [type : FileTypes \cup {"none"}, bytes : Seq(FileUnits), block : Numbers]
          BY DEF TypeOK
        <5> QED
          BY <3>3, <5>1
      <4>2. PICK r \in [type : FileTypes \cup {"none"}, bytes : Seq(FileUnits), block : Numbers] :
               rx' = [rx EXCEPT ![d] = r]
        <5>1. rx[d] \in [type : FileTypes \cup {"none"}, bytes : Seq(FileUnits), block : Numbers]
          BY DEF TypeOK
        <5>2. CASE ~good
          BY <3>4, <5>1, <5>2
        <5>3. CASE good /\ last
          BY <2>4, <3>4, <5>3
        <5>4. CASE good /\ ~last
          BY <3>4, <4>1, <5>4
        <5> QED
          BY <5>2, <5>3, <5>4
      <4> QED
        BY <4>2 DEF TypeOK
    <3>8. stored' \in [Devices -> SUBSET (FileTypes \X Seq(FileUnits))]
      BY <3>3, <3>4, <3>5 DEF TypeOK
    <3> QED
      BY <2>5, <3>4, <3>6, <3>7, <3>8 DEF TypeOK
  <2>10. CASE Abort(d, p)
    BY <2>2, <2>4, <2>5, <2>10 DEF Abort, TypeOK
  <2>11. CASE Instantiate(d, p)
    BY <2>2, <2>5, <2>11 DEF Instantiate, TypeOK
  <2> QED
    BY <1>1, <2>6, <2>7, <2>8, <2>9, <2>10, <2>11 DEF BslTake, p
<1>2. CASE BslAnswer(d)
  BY <1>2, PacketTypes DEF BslAnswer, TypeOK, Flip
<1>3. CASE Come(d)
  BY <1>3 DEF Come, TypeOK
<1> QED
  BY <1>1, <1>2, <1>3 DEF Device

LEMMA DownloadType ==
    ASSUME TypeOK, NEW d \in Devices, PartsInv(d), TransferPacket(d) \/ Download(d)
    PROVE  TypeOK'
<1> USE DEF addVars, fwVars, osVars, mbxVars, devVars, notTransfer, notDownload
<1>1. CASE PutPacketBL(d)
  BY <1>1 DEF PutPacketBL, TypeOK, Flip
<1>2. CASE PutTimeout(d) \/ GetTimeout(d)
  BY <1>2 DEF PutTimeout, GetTimeout, Return, TypeOK, Timeouts
<1>3. CASE GetPacketBL(d)
  <2>1. transfer' \in [Devices -> Timeouts \cup {"none", "put", "get", "OK"}]
    <3>1. UNCHANGED transfer \/ (\E c \in {"OK", "TRANSFER_TIMEOUT"} : Return(d, c))
      BY <1>3 DEF GetPacketBL
    <3> QED
      BY <3>1 DEF Return, TypeOK, Timeouts
  <2> QED
    BY <1>3, <2>1 DEF GetPacketBL, TypeOK, Flip
<1> DEFINE Loc == /\ transfer' \in [Devices -> Timeouts \cup {"none", "put", "get", "OK"}]
                  /\ ptSendPkt' \in [Devices -> Requests]
                  /\ ptRecvPkt' \in [Devices -> Replies] /\ dl' \in [Devices -> Downloads]
                  /\ lRet' \in [Devices -> Codes]
<1>4. ASSUME Loc, UNCHANGED notDownload PROVE TypeOK'
  BY <1>4 DEF TypeOK
<1>5. CASE DownloadReqDone(d)
  <2>1. lRet' \in [Devices -> Codes]
    <3>1. \E c \in Codes : lRet' = [lRet EXCEPT ![d] = c]
      BY <1>5, StatusIs DEF DownloadReqDone, Codes
    <3> QED
      BY <3>1 DEF TypeOK
  <2>2. CASE SendAbort(d)
    BY <1>4, <1>5, <2>1, <2>2, SendAbortType DEF DownloadReqDone
  <2>3. CASE Status(d) = "OK" /\ SendData(d, FirstData(d))
    <3>1. ptRecvPkt[d].max \in Nat /\ dl[d].state = "REQ"
      BY <1>5, <2>3, StatusIs DEF DownloadReqDone
    <3> QED
      BY <1>4, <1>5, <2>1, <2>3, <3>1, FirstDataIs, SendDataType DEF DownloadReqDone
  <2> QED
    BY <1>5, <2>2, <2>3 DEF DownloadReqDone
<1>6. EndDownload(d) => /\ transfer' \in [Devices -> Timeouts \cup {"none", "put", "get", "OK"}]
                        /\ ptSendPkt' \in [Devices -> Requests]
                        /\ ptRecvPkt' \in [Devices -> Replies] /\ dl' \in [Devices -> Downloads]
  <2>1. [dl[d] EXCEPT !.state = "ended"] \in Downloads
    BY AbortFields, Counted DEF TypeOK
  <2> QED
    BY <2>1 DEF EndDownload, TypeOK
<1>7. CASE DownloadDataDone(d)
  <2>1. lRet' \in [Devices -> Codes]
    BY <1>7, StatusIs DEF DownloadDataDone, TypeOK
  <2>2. CASE SendAbort(d)
    BY <1>4, <1>7, <2>1, <2>2, SendAbortType DEF DownloadDataDone
  <2>3. CASE EndDownload(d)
    BY <1>4, <1>6, <1>7, <2>1, <2>3 DEF DownloadDataDone
  <2>4. CASE dl[d].seq \notin LastOne /\ SendData(d, NextData(d))
    <3>1. dl[d].state = "DATA"
      BY <1>7 DEF DownloadDataDone
    <3> QED
      BY <1>4, <1>7, <2>1, <2>4, <3>1, NextDataIs, SendDataType DEF DownloadDataDone
  <2> QED
    BY <1>7, <2>2, <2>3, <2>4 DEF DownloadDataDone, LastOne
<1>8. CASE DownloadAbortDone(d)
  BY <1>4, <1>6, <1>8 DEF DownloadAbortDone, TypeOK
<1> QED
  BY <1>1, <1>2, <1>3, <1>5, <1>7, <1>8 DEF TransferPacket, Download

LEMMA FileOpenType ==
    ASSUME TypeOK, NEW d \in Devices, File(d)
    PROVE  TypeOK'
<1> USE DEF addVars, xferVars, fwVars, osVars, mbxVars, devVars, notFile
<1>1. \A step : step \in NameSteps \cup {"bootOpen", "identOpen", "fwOpen", "bootTake",
                                        "identTake", "fwTake"} => After(step) \in PcSteps
  BY DEF NameSteps, After, PcSteps, AtRest, ClassSteps, BootSteps, IdentSteps, FwSteps
<1>2. \A step : OpenFailed(step) \in PcSteps
  BY DEF OpenFailed, PcSteps, AtRest
<1>3. \A c \in PcSteps : Goto(d, c) => pc' \in [Devices -> PcSteps]
  BY DEF Goto, TypeOK
<1>4. "fwOpen" \in PcSteps /\ "oops" \in PcSteps /\ "FILE_OPEN_ERROR" \in Codes
  BY DEF PcSteps, FwSteps, Codes
<1>5. CASE UserGetFile(d)
  <2>1. pc' \in [Devices -> PcSteps]
    BY <1>1, <1>3, <1>5 DEF UserGetFile
  <2>2. name' \in [Devices -> FileNames]
    BY <1>5, Names, NoNames DEF UserGetFile, TypeOK
  <2> QED
    BY <1>5, <2>1, <2>2 DEF UserGetFile, TypeOK
<1>6. CASE UserGetClass(d)
  <2>1. pc' \in [Devices -> PcSteps]
    BY <1>3, <1>4, <1>6 DEF UserGetClass
  <2>2. name' \in [Devices -> FileNames]
    <3>1. \A e \in Devices : FirmwareFile(usDeviceClass[e]) \in FileNames
      BY Names DEF TypeOK
    <3>2. s_pdeviceinstance # NoDevice => s_pdeviceinstance \in Devices
      BY DEF TypeOK
    <3> QED
      <4>1. CASE UNCHANGED name
        BY <4>1 DEF TypeOK
      <4>2. CASE s_pdeviceinstance # NoDevice
                   /\ name' = [name EXCEPT ![d] = FirmwareFile(usDeviceClass[s_pdeviceinstance])]
        BY <3>1, <3>2, <4>2 DEF TypeOK
      <4> QED
        BY <1>6, <4>1, <4>2 DEF UserGetClass
  <2> QED
    BY <1>6, <2>1, <2>2 DEF UserGetClass, TypeOK
<1>7. CASE OsFileOpen(d)
  <2>1. pc' \in [Devices -> PcSteps]
    BY <1>1, <1>2, <1>3, <1>7 DEF OsFileOpen
  <2>2. lRet' \in [Devices -> Codes]
    <3>1. UNCHANGED lRet \/ lRet' = [lRet EXCEPT ![d] = "FILE_OPEN_ERROR"]
      BY <1>7 DEF OsFileOpen
    <3> QED
      <4>1. CASE UNCHANGED lRet
        BY <4>1 DEF TypeOK
      <4>2. CASE lRet' = [lRet EXCEPT ![d] = "FILE_OPEN_ERROR"]
        BY <1>4, <4>2 DEF TypeOK
      <4> QED
        BY <3>1, <4>1, <4>2
  <2>3. ptBootLoader' \in FileNames /\ ptFirmware' \in FileNames
    BY <1>7 DEF OsFileOpen, TypeOK
  <2> QED
    BY <1>7, <2>1, <2>2, <2>3 DEF OsFileOpen, TypeOK
<1>8. CASE OsFileTake(d)
  <2>1. pc' \in [Devices -> PcSteps]
    BY <1>1, <1>3, <1>8 DEF OsFileTake
  <2> QED
    BY <1>8, <2>1 DEF OsFileTake, TypeOK
<1> QED
  BY <1>5, <1>6, <1>7, <1>8 DEF File

LEMMA CallerType ==
    ASSUME TypeOK, NEW d \in Devices, PartsInv(d),
           Add(d) \/ IdentUpdate(d) \/ FlashBased(d) \/ NetxReset(d) \/ BootStart(d)
             \/ BootWait(d) \/ RequestClass(d) \/ ClassDone(d) \/ SendFile(d)
             \/ IdentSent(d) \/ IdentEnd(d) \/ FirmwareSent(d) \/ StartDone(d) \/ Cookie(d)
    PROVE  TypeOK'
<1> USE DEF addVars, xferVars, fwVars, osVars, mbxVars, devVars
<1>1. \A c \in PcSteps : Goto(d, c) => pc' \in [Devices -> PcSteps]
  BY DEF Goto, TypeOK
<1>2. {"flash", "reset", "added", "failed", "bootName", "bootWait", "class", "classWait",
       "identName", "identEnd", "identXfer", "fwXfer", "fwName", "start", "cookie"} \subseteq PcSteps
  BY DEF PcSteps, AtRest, ClassSteps, BootSteps, IdentSteps, FwSteps, DownloadSteps
<1>3. /\ "OK" \in Codes /\ "FW_START_FAILED" \in Codes /\ "HWRESET_ERROR" \in Codes
      /\ "DOWNLOAD_FAILED" \in Codes /\ "FUNCTION_FAILED" \in Codes
      /\ "FILE_READ_FAILED" \in Codes
  BY DEF Codes
<1>30. \A c \in Codes : lRet' = [lRet EXCEPT ![d] = c] => lRet' \in [Devices -> Codes]
  BY DEF TypeOK
<1>31. \A c \in PcSteps, e \in Codes :
          Fail(d, e) \/ (lRet' = [lRet EXCEPT ![d] = e] /\ Goto(d, c))
             => lRet' \in [Devices -> Codes]
  BY <1>30 DEF Fail
<1>32. \A e \in Codes : Fail(d, e) => pc' \in [Devices -> PcSteps]
  BY <1>1, <1>2 DEF Fail
<1>4. OsFileClose(d) => /\ hFile' \in [Devices -> FileNames]
                        /\ s_pdeviceinstance' \in Devices \cup {NoDevice}
  BY NoNames DEF OsFileClose, TypeOK
<1>5. IdleDownload \in Downloads
  BY NoNames, Counted, EmptySequence DEF IdleDownload, Downloads, Sequence, NoName
<1>6. CASE Add(d) \/ IdentUpdate(d)
  <2>1. pc' \in [Devices -> PcSteps]
    BY <1>1, <1>2, <1>6 DEF Add, IdentUpdate
  <2> QED
    <3>1. ident' \in [Devices -> [request : BOOLEAN, lError : Codes]]
      <4>1. CASE Add(d)
        BY <4>1 DEF Add, TypeOK
      <4>2. CASE IdentUpdate(d)
        <5> DEFINE r == [request |-> TRUE, lError |-> "OK"]
        <5>1. ident' = [ident EXCEPT ![d] = r]
          BY <4>2 DEF IdentUpdate
        <5>2. r \in [request : BOOLEAN, lError : Codes]
          BY <1>3
        <5> HIDE DEF r
        <5> QED
          BY <5>1, <5>2 DEF TypeOK
      <4> QED
        BY <1>6, <4>1, <4>2
    <3>2. runs' \in [Devices -> Nat]
      <4>1. \E n \in Nat : runs' = [runs EXCEPT ![d] = n]
        BY <1>6 DEF Add, IdentUpdate, TypeOK
      <4> QED
        BY <4>1 DEF TypeOK
    <3> QED
      BY <1>6, <2>1, <3>1, <3>2 DEF Add, IdentUpdate, TypeOK
<1>7. CASE FlashBased(d)
  <2>1. pc' \in [Devices -> PcSteps] /\ lRet' \in [Devices -> Codes]
    BY <1>1, <1>2, <1>3, <1>30, <1>31, <1>32, <1>7 DEF FlashBased
  <2> QED
    BY <1>7, <2>1 DEF FlashBased, TypeOK
<1>8. CASE NetxReset(d)
  <2>1. pc' \in [Devices -> PcSteps] /\ lRet' \in [Devices -> Codes]
    BY <1>1, <1>2, <1>3, <1>30, <1>31, <1>32, <1>8 DEF NetxReset
  <2>2. NoFile \in [type : FileTypes \cup {"none"}, bytes : Seq(FileUnits), block : Numbers]
    BY Counted, EmptySequence DEF NoFile
  <2> QED
    BY <1>8, <2>1, <2>2, PacketTypes DEF NetxReset, TypeOK
<1>9. CASE BootStart(d)
  <2>1. pc' \in [Devices -> PcSteps]
    BY <1>1, <1>2, <1>9 DEF BootStart
  <2> QED
    BY <1>9, <2>1 DEF BootStart, TypeOK
<1>10. CASE BootWait(d) \/ Cookie(d)
  <2>1. pc' \in [Devices -> PcSteps] /\ lRet' \in [Devices -> Codes]
    <3>1. UNCHANGED lRet => lRet' \in [Devices -> Codes]
      BY DEF TypeOK
    <3> QED
      BY <1>1, <1>2, <1>3, <1>30, <1>31, <1>32, <1>10, <3>1 DEF BootWait, Cookie
  <2> QED
    BY <1>4, <1>10, <2>1 DEF BootWait, Cookie, TypeOK
<1>11. CASE RequestClass(d)
  <2>1. pc' \in [Devices -> PcSteps]
    BY <1>1, <1>2, <1>11 DEF RequestClass
  <2> QED
    BY <1>11, <2>1, TransferType, PacketTypes DEF RequestClass, TypeOK
<1>12. CASE ClassDone(d)
  <2>1. pc' \in [Devices -> PcSteps] /\ lRet' \in [Devices -> Codes]
    BY <1>1, <1>2, <1>3, <1>30, <1>31, <1>32, <1>12 DEF ClassDone
  <2>2. Status(d) = "OK" => ptRecvPkt[d].class \in ClassNames \cup {"none"}
    BY <1>12, StatusIs DEF ClassDone
  <2>3. usDeviceClass' \in [Devices -> ClassNames \cup {"none"}]
    BY <1>12, <2>2 DEF ClassDone, TypeOK
  <2>4. ident' \in [Devices -> [request : BOOLEAN, lError : Codes]]
    <3> DEFINE r == [ident[d] EXCEPT !.request = IF Status(d) = "OK" THEN FALSE ELSE @]
    <3>1. ident' = [ident EXCEPT ![d] = r]
      BY <1>12 DEF ClassDone
    <3>2. ident[d] \in [request : BOOLEAN, lError : Codes]
      BY DEF TypeOK
    <3>3. r \in [request : BOOLEAN, lError : Codes]
      <4>1. CASE Status(d) = "OK"
        BY <3>2, <4>1
      <4>2. CASE Status(d) # "OK"
        BY <3>2, <4>2
      <4> QED
        BY <4>1, <4>2
    <3> HIDE DEF r
    <3> QED
      BY <3>1, <3>3 DEF TypeOK
  <2>5. transfer' \in [Devices -> Timeouts \cup {"none", "put", "get", "OK"}]
    BY <1>12 DEF ClassDone, Return, TypeOK
  <2> QED
    BY <1>12, <2>1, <2>3, <2>4, <2>5 DEF ClassDone, TypeOK
<1>13. CASE SendFile(d)
  <2>1. pc' \in [Devices -> PcSteps]
    BY <1>1, <1>2, <1>13 DEF SendFile
  <2>2. CASE DownloadFile(d, hFile[d]) /\ UNCHANGED <<lRet, hFile, s_pdeviceinstance>>
    <3> DEFINE r == [IdleDownload EXCEPT !.state = "REQ", !.file = hFile[d],
                                         !.max = MailboxUnits, !.id = 1]
    <3>1. r \in Downloads
      BY <1>5, Counted DEF TypeOK, Downloads, DownloadAssumption
    <3>2. dl' = [dl EXCEPT ![d] = r]
      BY <2>2 DEF DownloadFile
    <3> HIDE DEF r
    <3>3. dl' \in [Devices -> Downloads]
      BY <3>1, <3>2 DEF TypeOK
    <3>4. Transfer(d, [cmd |-> "DOWNLOAD", id |-> 1, type |-> FileType(hFile[d])])
      BY <2>2 DEF DownloadFile
    <3>5. [cmd |-> "DOWNLOAD", id |-> 1, type |-> FileType(hFile[d])] \in Requests
      BY PacketTypes
    <3>6. /\ transfer' \in [Devices -> Timeouts \cup {"none", "put", "get", "OK"}]
          /\ ptSendPkt' \in [Devices -> Requests] /\ ptRecvPkt' \in [Devices -> Replies]
      BY <3>4, <3>5, TransferType
    <3> QED
      BY <1>13, <2>1, <2>2, <3>3, <3>6 DEF SendFile, TypeOK
  <2>3. CASE lRet' = [lRet EXCEPT ![d] = "FILE_READ_FAILED"] /\ OsFileClose(d)
             /\ UNCHANGED xferVars
    <3>1. lRet' \in [Devices -> Codes]
      BY <1>3, <2>3 DEF TypeOK
    <3> QED
      BY <1>4, <1>13, <2>1, <2>3, <3>1 DEF SendFile, TypeOK
  <2> QED
    BY <1>13, <2>2, <2>3 DEF SendFile
<1>14. CASE IdentSent(d)
  <2>1. pc' \in [Devices -> PcSteps]
    BY <1>1, <1>2, <1>14 DEF IdentSent
  <2> QED
    BY <1>4, <1>5, <1>14, <2>1 DEF IdentSent, TypeOK
<1>15. CASE IdentEnd(d)
  <2>1. pc' \in [Devices -> PcSteps] /\ lRet' \in [Devices -> Codes]
    BY <1>1, <1>2, <1>3, <1>15 DEF IdentEnd, TypeOK
  <2> QED
    <3>1. ident' \in [Devices -> [request : BOOLEAN, lError : Codes]]
      <4> DEFINE r == [ident[d] EXCEPT !.lError = lRet[d]]
      <4>1. ident' = [ident EXCEPT ![d] = r]
        BY <1>15 DEF IdentEnd
      <4>2. r \in [request : BOOLEAN, lError : Codes]
        <5>1. ident[d] \in [request : BOOLEAN, lError : Codes] /\ lRet[d] \in Codes
          BY DEF TypeOK
        <5> QED
          BY <5>1
      <4> HIDE DEF r
      <4> QED
        BY <4>1, <4>2 DEF TypeOK
    <3> QED
      BY <1>15, <2>1, <3>1 DEF IdentEnd, TypeOK
<1>16. CASE FirmwareSent(d)
  <2>1. pc' \in [Devices -> PcSteps]
    BY <1>1, <1>2, <1>16 DEF FirmwareSent
  <2>2. /\ transfer' \in [Devices -> Timeouts \cup {"none", "put", "get", "OK"}]
        /\ ptSendPkt' \in [Devices -> Requests] /\ ptRecvPkt' \in [Devices -> Replies]
    BY <1>16, TransferType, PacketTypes DEF FirmwareSent, TypeOK
  <2>3. hFile' \in [Devices -> FileNames] /\ s_pdeviceinstance' \in Devices \cup {NoDevice}
    BY <1>4, <1>16 DEF FirmwareSent, TypeOK
  <2> QED
    BY <1>5, <1>16, <2>1, <2>2, <2>3 DEF FirmwareSent, TypeOK
<1>17. CASE StartDone(d)
  <2>1. pc' \in [Devices -> PcSteps]
    BY <1>1, <1>2, <1>17 DEF StartDone
  <2>2. lRet' \in [Devices -> Codes]
    BY <1>17, StatusIs DEF StartDone, TypeOK
  <2>3. hFile' \in [Devices -> FileNames] /\ s_pdeviceinstance' \in Devices \cup {NoDevice}
    BY <1>4, <1>17 DEF StartDone, TypeOK
  <2>4. transfer' \in [Devices -> Timeouts \cup {"none", "put", "get", "OK"}]
    BY <1>17 DEF StartDone, Return, TypeOK
  <2> QED
    BY <1>17, <2>1, <2>2, <2>3, <2>4 DEF StartDone, TypeOK
<1> QED
  BY <1>6, <1>7, <1>8, <1>9, <1>10, <1>11, <1>12, <1>13, <1>14, <1>15, <1>16, <1>17

LEMMA TypeStep ==
    ASSUME TypeOK, \A d \in Devices : PartsInv(d), [Next]_vars
    PROVE  TypeOK'
<1>1. CASE Next
  <2>1. PICK d \in Devices : Device(d) \/ Add(d) \/ IdentUpdate(d) \/ Caller(d)
    BY <1>1 DEF Next
  <2>2. PartsInv(d)
    OBVIOUS
  <2> QED
    BY <2>1, <2>2, DeviceType, DownloadType, FileOpenType, CallerType DEF Caller
<1>2. CASE UNCHANGED vars
  BY <1>2 DEF TypeOK, vars, addVars, xferVars, fwVars, osVars, mbxVars, devVars
<1> QED
  BY <1>1, <1>2

-----------------------------------------------------------------------------
(* A step concerns one device. *)

Untouched(d) ==
    /\ pc'[d] = pc[d] /\ lRet'[d] = lRet[d] /\ usDeviceClass'[d] = usDeviceClass[d]
    /\ hFile'[d] = hFile[d] /\ name'[d] = name[d] /\ ident'[d] = ident[d]
    /\ runs'[d] = runs[d] /\ transfer'[d] = transfer[d] /\ ptSendPkt'[d] = ptSendPkt[d]
    /\ ptRecvPkt'[d] = ptRecvPkt[d] /\ dl'[d] = dl[d] /\ sendMbx'[d] = sendMbx[d]
    /\ recvMbx'[d] = recvMbx[d] /\ hostBits'[d] = hostBits[d] /\ netxBits'[d] = netxBits[d]
    /\ boot'[d] = boot[d] /\ rx'[d] = rx[d] /\ stored'[d] = stored[d] /\ out'[d] = out[d]

Steps(d) == Device(d) \/ Add(d) \/ IdentUpdate(d) \/ Caller(d)

LEMMA OthersUntouched ==
    ASSUME TypeOK, NEW e \in Devices, Steps(e), NEW d \in Devices, d # e
    PROVE  Untouched(d)
<1> USE DEF addVars, xferVars, fwVars, osVars, mbxVars, devVars, Untouched
<1>1. CASE BslTake(e)
  <2> DEFINE p == sendMbx[e]
  <2>1. /\ netxBits'[d] = netxBits[d]
        /\ UNCHANGED <<sendMbx, recvMbx, hostBits, addVars, xferVars, osVars>>
    BY <1>1 DEF BslTake, TypeOK
  <2>2. boot'[d] = boot[d] /\ rx'[d] = rx[d] /\ stored'[d] = stored[d] /\ out'[d] = out[d]
    <3>1. CASE Refuse(e, p)
      BY <3>1 DEF Refuse, TypeOK
    <3>2. CASE Identify(e, p)
      BY <3>2 DEF Identify, TypeOK
    <3>3. CASE OpenFile(e, p)
      BY <3>3 DEF OpenFile, TypeOK
    <3>4. CASE TakeBlock(e, p)
      BY <3>4 DEF TakeBlock, TypeOK
    <3>5. CASE Abort(e, p)
      BY <3>5 DEF Abort, TypeOK
    <3>6. CASE Instantiate(e, p)
      BY <3>6 DEF Instantiate, TypeOK
    <3> QED
      BY <1>1, <3>1, <3>2, <3>3, <3>4, <3>5, <3>6 DEF BslTake
  <2> QED
    BY <2>1, <2>2
<1>2. CASE BslAnswer(e)
  BY <1>2 DEF BslAnswer, TypeOK
<1>3. CASE Come(e)
  BY <1>3 DEF Come, TypeOK
<1>4. CASE TransferPacket(e)
  BY <1>4 DEF TransferPacket, PutPacketBL, PutTimeout, GetPacketBL, GetTimeout, Return,
              notTransfer, TypeOK
<1>5. \A p : Transfer(e, p) => transfer'[d] = transfer[d] /\ ptSendPkt'[d] = ptSendPkt[d]
                                 /\ ptRecvPkt'[d] = ptRecvPkt[d]
  BY DEF Transfer, TypeOK
<1>6. \A next : SendData(e, next) =>
         /\ dl'[d] = dl[d] /\ transfer'[d] = transfer[d] /\ ptSendPkt'[d] = ptSendPkt[d]
         /\ ptRecvPkt'[d] = ptRecvPkt[d]
  BY <1>5 DEF SendData, TypeOK
<1>7. SendAbort(e) \/ EndDownload(e) =>
         /\ dl'[d] = dl[d] /\ transfer'[d] = transfer[d] /\ ptSendPkt'[d] = ptSendPkt[d]
         /\ ptRecvPkt'[d] = ptRecvPkt[d]
  BY <1>5 DEF SendAbort, EndDownload, TypeOK
<1>8. CASE Download(e)
  <2>1. lRet'[d] = lRet[d] /\ UNCHANGED notDownload
    BY <1>8 DEF Download, DownloadReqDone, DownloadDataDone, DownloadAbortDone, TypeOK
  <2>2. \/ SendAbort(e) \/ EndDownload(e) \/ SendData(e, FirstData(e))
        \/ SendData(e, NextData(e))
    BY <1>8 DEF Download, DownloadReqDone, DownloadDataDone, DownloadAbortDone
  <2> QED
    BY <1>6, <1>7, <2>1, <2>2 DEF notDownload
<1>9. \A c : Goto(e, c) => pc'[d] = pc[d]
  BY DEF Goto, TypeOK
<1>10. \A c : Fail(e, c) => pc'[d] = pc[d] /\ lRet'[d] = lRet[d]
  BY <1>9 DEF Fail, TypeOK
<1>11. OsFileClose(e) => hFile'[d] = hFile[d]
  BY DEF OsFileClose, TypeOK
<1>12. CASE File(e)
  <2>1. CASE UserGetFile(e) \/ UserGetClass(e)
    BY <1>9, <2>1 DEF UserGetFile, UserGetClass, notFile, TypeOK
  <2>2. CASE OsFileOpen(e) \/ OsFileTake(e)
    BY <1>9, <2>2 DEF OsFileOpen, OsFileTake, notFile, TypeOK
  <2> QED
    BY <1>12, <2>1, <2>2 DEF File
<1>13. CASE Add(e) \/ IdentUpdate(e)
  BY <1>9, <1>13 DEF Add, IdentUpdate, TypeOK
<1>14. CASE FlashBased(e) \/ BootStart(e) \/ BootWait(e) \/ Cookie(e)
  BY <1>9, <1>10, <1>11, <1>14 DEF FlashBased, BootStart, BootWait, Cookie, TypeOK
<1>15. CASE NetxReset(e)
  BY <1>9, <1>10, <1>15 DEF NetxReset, TypeOK
<1>16. CASE RequestClass(e)
  BY <1>5, <1>9, <1>16 DEF RequestClass
<1>17. CASE ClassDone(e)
  <2>1. pc'[d] = pc[d] /\ lRet'[d] = lRet[d] /\ usDeviceClass'[d] = usDeviceClass[d]
    BY <1>9, <1>10, <1>17 DEF ClassDone, TypeOK
  <2> QED
    BY <1>17, <2>1 DEF ClassDone, Return, TypeOK
<1>18. CASE SendFile(e)
  <2>1. pc'[d] = pc[d]
    BY <1>9, <1>18 DEF SendFile
  <2>2. CASE DownloadFile(e, hFile[e]) /\ UNCHANGED <<lRet, hFile, s_pdeviceinstance>>
    <3>1. dl'[d] = dl[d]
      BY <2>2 DEF DownloadFile, TypeOK
    <3> QED
      BY <1>5, <1>18, <2>1, <2>2, <3>1 DEF SendFile, DownloadFile
  <2>3. CASE lRet' = [lRet EXCEPT ![e] = "FILE_READ_FAILED"] /\ OsFileClose(e)
             /\ UNCHANGED xferVars
    BY <1>11, <1>18, <2>1, <2>3 DEF SendFile, TypeOK
  <2> QED
    BY <1>18, <2>2, <2>3 DEF SendFile
<1>19. CASE IdentSent(e) \/ IdentEnd(e)
  BY <1>9, <1>11, <1>19 DEF IdentSent, IdentEnd, TypeOK
<1>20. CASE FirmwareSent(e)
  BY <1>5, <1>9, <1>11, <1>20 DEF FirmwareSent, TypeOK
<1>21. CASE StartDone(e)
  BY <1>9, <1>11, <1>21 DEF StartDone, Return, TypeOK
<1> QED
  BY <1>1, <1>2, <1>3, <1>4, <1>8, <1>12, <1>13, <1>14, <1>15, <1>16, <1>17, <1>18, <1>19,
     <1>20, <1>21 DEF Steps, Device, Caller

(* A property of one device is kept if the steps of this device keep it.   *)
LEMMA StepCases ==
    ASSUME TypeOK, [Next]_vars, NEW d \in Devices
    PROVE  Untouched(d) \/ Steps(d)
<1>1. CASE Next
  <2>1. PICK e \in Devices : Steps(e)
    BY <1>1 DEF Next, Steps
  <2> QED
    BY <2>1, OthersUntouched
<1>2. CASE UNCHANGED vars
  BY <1>2 DEF Untouched, vars, addVars, xferVars, fwVars, osVars, mbxVars, devVars
<1> QED
  BY <1>1, <1>2

-----------------------------------------------------------------------------
(* Requests and their place. *)

LEMMA TransferValues ==
    ASSUME TypeOK, NEW d \in Devices, NEW p, Transfer(d, p)
    PROVE  transfer'[d] = "put" /\ ptSendPkt'[d] = p /\ ptRecvPkt'[d] = ptRecvPkt[d]
BY DEF Transfer, TypeOK

LEMMA SendDataValues ==
    ASSUME TypeOK, NEW d \in Devices, NEW next \in Downloads, next.state = "DATA",
           SendData(d, next)
    PROVE  /\ transfer'[d] = "put" /\ ptRecvPkt'[d] = ptRecvPkt[d]
           /\ dl'[d].state = "DATA" /\ dl'[d].file = next.file /\ dl'[d].off = next.off
           /\ dl'[d].len = next.len /\ dl'[d].seq = next.seq
           /\ dl'[d].crc = next.crc \o Units(next.file, next.off, next.len)
           /\ ptSendPkt'[d].cmd = "DATA" /\ ptSendPkt'[d].seq = next.seq
           /\ ptSendPkt'[d].crc = dl'[d].crc
<1> DEFINE crc == next.crc \o Units(next.file, next.off, next.len)
<1>1. dl' = [dl EXCEPT ![d] = [next EXCEPT !.id = Inc(@), !.crc = crc, !.block = Inc(@)]]
  BY DEF SendData
<1> DEFINE p == [cmd |-> "DATA", id |-> Inc(next.id), seq |-> next.seq, block |-> next.block,
                 bytes |-> Units(next.file, next.off, next.len), crc |-> crc]
<1>2. Transfer(d, p)
  BY DEF SendData
<1> HIDE DEF crc
<1>5. p.cmd = "DATA" /\ p.seq = next.seq /\ p.crc = crc
  OBVIOUS
<1> HIDE DEF p
<1>6. transfer'[d] = "put" /\ ptSendPkt'[d] = p /\ ptRecvPkt'[d] = ptRecvPkt[d]
  BY <1>2, TransferValues
<1>3. dl'[d] = [next EXCEPT !.id = Inc(@), !.crc = crc, !.block = Inc(@)]
  BY <1>1 DEF TypeOK
<1>4. /\ dl'[d].state = next.state /\ dl'[d].file = next.file /\ dl'[d].off = next.off
      /\ dl'[d].len = next.len /\ dl'[d].seq = next.seq /\ dl'[d].crc = crc
  BY <1>3 DEF Downloads
<1> QED
  BY <1>4, <1>5, <1>6 DEF crc

LEMMA SendAbortValues ==
    ASSUME TypeOK, NEW d \in Devices, SendAbort(d)
    PROVE  /\ transfer'[d] = "put" /\ ptRecvPkt'[d] = ptRecvPkt[d]
           /\ dl'[d].state = "ABORT" /\ dl'[d].file = dl[d].file
           /\ ptSendPkt'[d].cmd = "ABORT"
<1>1. dl' = [dl EXCEPT ![d] = AbortRecord(dl[d], Inc(dl[d].id))]
  BY DEF SendAbort, TypeOK, AbortRecord
<1>2. dl'[d].state = "ABORT" /\ dl'[d].file = dl[d].file
  BY <1>1 DEF TypeOK, Downloads, AbortRecord
<1>3. Transfer(d, [cmd |-> "ABORT", id |-> Inc(dl[d].id)])
  BY DEF SendAbort
<1> QED
  BY <1>2, <1>3, TransferValues

LEMMA EndDownloadValues ==
    ASSUME TypeOK, NEW d \in Devices, EndDownload(d)
    PROVE  /\ transfer'[d] = "none" /\ ptRecvPkt'[d] = ptRecvPkt[d]
           /\ dl'[d].state = "ended" /\ dl'[d].file = dl[d].file
           /\ ptSendPkt'[d] = ptSendPkt[d]
<1>1. dl'[d] = [dl[d] EXCEPT !.state = "ended"]
  BY DEF EndDownload, TypeOK
<1>2. dl[d] \in Downloads
  BY DEF TypeOK
<1>3. dl'[d].state = "ended" /\ dl'[d].file = dl[d].file
  BY <1>1, <1>2 DEF Downloads
<1> QED
  BY <1>3 DEF EndDownload, TypeOK

(* What a step of DownloadFile does.                                       *)
LEMMA DownloadValues ==
    ASSUME TypeOK, NEW d \in Devices, PartsInv(d), Download(d)
    PROVE  /\ UNCHANGED notDownload
           /\ dl'[d].file = dl[d].file
           /\ Returned(d) /\ ptRecvPkt'[d] = ptRecvPkt[d]
           /\ \/ /\ dl[d].state \in {"REQ", "DATA"} /\ SendAbort(d) /\ dl'[d].state = "ABORT"
                 /\ lRet'[d] # "OK"
              \/ /\ dl[d].state = "REQ" /\ transfer[d] = "OK" /\ dl'[d].state = "DATA"
                 /\ lRet'[d] = "OK"
                 /\ transfer'[d] = "put"
              \/ /\ dl[d].state = "DATA" /\ transfer[d] = "OK" /\ dl'[d].state = "DATA"
                 /\ lRet'[d] = "OK"
                 /\ transfer'[d] = "put"
              \/ /\ dl[d].state = "DATA" /\ transfer[d] = "OK" /\ ptRecvPkt[d].sta = "OK"
                 /\ dl[d].seq \in LastOne
                 /\ lRet'[d] = "OK" /\ EndDownload(d) /\ dl'[d].state = "ended"
              \/ /\ dl[d].state = "ABORT" /\ EndDownload(d) /\ dl'[d].state = "ended"
                 /\ lRet'[d] = lRet[d]
           /\ PartsInv(d)'
<1> DEFINE Cases ==
             \/ /\ dl[d].state \in {"REQ", "DATA"} /\ SendAbort(d) /\ dl'[d].state = "ABORT"
                /\ lRet'[d] # "OK"
             \/ /\ dl[d].state = "REQ" /\ transfer[d] = "OK" /\ dl'[d].state = "DATA"
                /\ lRet'[d] = "OK"
                /\ transfer'[d] = "put"
             \/ /\ dl[d].state = "DATA" /\ transfer[d] = "OK" /\ dl'[d].state = "DATA"
                /\ lRet'[d] = "OK"
                /\ transfer'[d] = "put"
             \/ /\ dl[d].state = "DATA" /\ transfer[d] = "OK" /\ ptRecvPkt[d].sta = "OK"
                /\ dl[d].seq \in LastOne
                /\ lRet'[d] = "OK" /\ EndDownload(d) /\ dl'[d].state = "ended"
             \/ /\ dl[d].state = "ABORT" /\ EndDownload(d) /\ dl'[d].state = "ended"
                /\ lRet'[d] = lRet[d]
<1>1. Returned(d) /\ UNCHANGED notDownload
  BY DEF Download, DownloadReqDone, DownloadDataDone, DownloadAbortDone
<1>2. dl[d].state # "none" /\ pc[d] \in DownloadSteps /\ pc'[d] \in DownloadSteps
      /\ pc[d] \notin {"classWait", "start", "flash"} /\ pc'[d] = pc[d]
  BY <1>1 DEF Download, DownloadReqDone, DownloadDataDone, DownloadAbortDone, PartsInv, Where,
              notDownload, DownloadSteps
<1>3. dl[d] \in Downloads /\ \A c : lRet' = [lRet EXCEPT ![d] = c] => lRet'[d] = c
  BY DEF TypeOK
<1>4. ASSUME SendAbort(d), dl[d].state \in {"REQ", "DATA"}, lRet'[d] # "OK"
      PROVE  dl'[d].file = dl[d].file /\ ptRecvPkt'[d] = ptRecvPkt[d] /\ PartsInv(d)' /\ Cases
  <2>1. /\ transfer'[d] = "put" /\ ptRecvPkt'[d] = ptRecvPkt[d] /\ dl'[d].state = "ABORT"
        /\ dl'[d].file = dl[d].file /\ ptSendPkt'[d].cmd = "ABORT"
    BY <1>4, SendAbortValues
  <2> QED
    BY <1>2, <1>4, <2>1 DEF PartsInv, Where, Request, Extent
<1>5. ASSUME EndDownload(d)
      PROVE  /\ dl'[d].file = dl[d].file /\ ptRecvPkt'[d] = ptRecvPkt[d] /\ PartsInv(d)'
             /\ dl'[d].state = "ended"
  <2>1. /\ transfer'[d] = "none" /\ ptRecvPkt'[d] = ptRecvPkt[d] /\ dl'[d].state = "ended"
        /\ dl'[d].file = dl[d].file
    BY <1>5, EndDownloadValues
  <2> QED
    BY <1>2, <2>1 DEF PartsInv, Where, Request, Extent
<1>6. ASSUME NEW next \in Downloads, next.state = "DATA", next.file = dl[d].file,
             next.crc \o Units(next.file, next.off, next.len)
               = Units(next.file, 0, next.off + next.len),
             next.seq \in LastOne => next.off + next.len = FileLen,
             next.seq \notin LastOne => next.off + next.len < FileLen,
             SendData(d, next)
      PROVE  /\ dl'[d].file = dl[d].file /\ ptRecvPkt'[d] = ptRecvPkt[d] /\ PartsInv(d)'
             /\ dl'[d].state = "DATA" /\ transfer'[d] = "put"
  <2>1. /\ transfer'[d] = "put" /\ ptRecvPkt'[d] = ptRecvPkt[d]
        /\ dl'[d].state = "DATA" /\ dl'[d].file = next.file /\ dl'[d].off = next.off
        /\ dl'[d].len = next.len /\ dl'[d].seq = next.seq
        /\ dl'[d].crc = next.crc \o Units(next.file, next.off, next.len)
        /\ ptSendPkt'[d].cmd = "DATA" /\ ptSendPkt'[d].seq = next.seq
        /\ ptSendPkt'[d].crc = dl'[d].crc
    BY <1>6, SendDataValues
  <2>2. dl'[d].crc = Units(dl'[d].file, 0, dl'[d].off + dl'[d].len)
    BY <1>6, <2>1
  <2>3. Extent(d)'
    BY <1>6, <2>1, <2>2 DEF Extent
  <2>4. Where(d)' /\ Request(d)'
    BY <1>2, <1>6, <2>1 DEF Where, Request
  <2> QED
    BY <1>6, <2>1, <2>3, <2>4 DEF PartsInv
<1>7. CASE DownloadReqDone(d)
  <2>1. dl[d].state = "REQ" /\ dl[d].off = 0 /\ dl[d].crc = <<>>
    BY <1>7 DEF DownloadReqDone, PartsInv, Extent
  <2>2. CASE Status(d) # "OK" \/ ptRecvPkt[d].max = 0
    <3>1. SendAbort(d) /\ lRet'[d] # "OK"
      BY <1>3, <1>7, <2>2 DEF DownloadReqDone
    <3> QED
      BY <1>1, <1>4, <2>1, <3>1
  <2>3. CASE Status(d) = "OK" /\ ptRecvPkt[d].max # 0
    <3> DEFINE next == FirstData(d)
    <3>1. SendData(d, next) /\ lRet'[d] = "OK"
      BY <1>3, <1>7, <2>3 DEF DownloadReqDone
    <3>2. transfer[d] = "OK" /\ ptRecvPkt[d].max \in Nat
      BY <1>1, <2>3, StatusIs
    <3>3. /\ next \in Downloads /\ next.state = "DATA" /\ next.file = dl[d].file
          /\ next.off = 0 /\ next.crc = <<>>
          /\ next.seq \in LastOne => next.off + next.len = FileLen
          /\ next.seq \notin LastOne => next.off + next.len < FileLen
      BY <2>1, <3>2, FirstDataIs
    <3> HIDE DEF next
    <3>4. 0 + next.len = next.len /\ next.len \in Nat /\ next.file \in FileNames
      BY <3>3 DEF Downloads
    <3>5. next.crc \o Units(next.file, next.off, next.len)
            = Units(next.file, 0, next.off + next.len)
      BY <3>3, <3>4, UnitsFirst
    <3> QED
      BY <1>1, <1>6, <2>1, <3>1, <3>2, <3>3, <3>5
  <2> QED
    BY <2>2, <2>3
<1>8. CASE DownloadDataDone(d)
  <2>1. dl[d].state = "DATA"
    BY <1>8 DEF DownloadDataDone
  <2>2. CASE Status(d) # "OK"
    <3>1. SendAbort(d) /\ lRet'[d] # "OK"
      BY <1>3, <1>8, <2>2 DEF DownloadDataDone
    <3> QED
      BY <1>1, <1>4, <2>1, <3>1
  <2>3. CASE Status(d) = "OK" /\ dl[d].seq \in LastOne
    <3>1. EndDownload(d) /\ lRet'[d] = "OK" /\ transfer[d] = "OK" /\ ptRecvPkt[d].sta = "OK"
      BY <1>1, <1>3, <1>8, <2>3, StatusIs DEF DownloadDataDone, LastOne
    <3> QED
      BY <1>1, <1>5, <2>1, <2>3, <3>1
  <2>4. CASE Status(d) = "OK" /\ dl[d].seq \notin LastOne
    <3> DEFINE next == NextData(d)
    <3>1. SendData(d, next) /\ lRet'[d] = "OK" /\ transfer[d] = "OK"
      BY <1>1, <1>3, <1>8, <2>4, StatusIs DEF DownloadDataDone, LastOne
    <3>2. /\ next \in Downloads /\ next.state = "DATA" /\ next.file = dl[d].file
          /\ next.off = dl[d].off + dl[d].len /\ next.crc = dl[d].crc
          /\ next.seq \in LastOne => next.off + next.len = FileLen
          /\ next.seq \notin LastOne => next.off + next.len < FileLen
      BY <2>1, <2>4, NextDataIs
    <3> HIDE DEF next
    <3>3. next.crc = Units(next.file, 0, next.off)
      BY <2>1, <3>2 DEF PartsInv, Extent
    <3>4. next.off \in Nat /\ next.len \in Nat /\ next.file \in FileNames
      BY <3>2 DEF Downloads
    <3>5. next.crc \o Units(next.file, next.off, next.len)
            = Units(next.file, 0, next.off + next.len)
      <4>1. Units(next.file, 0, next.off) \o Units(next.file, next.off, next.len)
              = Units(next.file, 0, next.off + next.len)
        BY <3>4, UnitsConcat
      <4> QED
        BY <3>3, <4>1
    <3> QED
      BY <1>1, <1>6, <2>1, <3>1, <3>2, <3>5
  <2> QED
    BY <2>2, <2>3, <2>4
<1>9. CASE DownloadAbortDone(d)
  <2>1. EndDownload(d) /\ dl[d].state = "ABORT" /\ lRet'[d] = lRet[d]
    BY <1>9 DEF DownloadAbortDone
  <2> QED
    BY <1>1, <1>5, <2>1
<1> QED
  BY <1>7, <1>8, <1>9 DEF Download

-----------------------------------------------------------------------------
(* The other steps of the thread. *)

Moves(d) ==
    \/ Add(d) \/ IdentUpdate(d) \/ FlashBased(d) \/ BootStart(d) \/ BootWait(d)
    \/ RequestClass(d) \/ ClassDone(d) \/ SendFile(d) \/ IdentSent(d) \/ IdentEnd(d)
    \/ FirmwareSent(d) \/ StartDone(d) \/ Cookie(d) \/ File(d)

SameDevice(d) ==
    /\ sendMbx'[d] = sendMbx[d] /\ recvMbx'[d] = recvMbx[d] /\ hostBits'[d] = hostBits[d]
    /\ netxBits'[d] = netxBits[d] /\ rx'[d] = rx[d] /\ stored'[d] = stored[d]
    /\ out'[d] = out[d] /\ ptRecvPkt'[d] = ptRecvPkt[d]

\* Steps of the thread that send nothing.
Quiet(d) ==
    /\ transfer'[d] = "none" /\ dl'[d].state = "none"
    /\ \/ pc'[d] \in AtRest \cup {"reset", "cookie", "oops"}
       \/ pc'[d] = "flash" /\ boot'[d] = "flash"
       \/ /\ pc[d] \in ClassSteps \cup IdentSteps
          /\ pc'[d] \in (ClassSteps \ {"classWait"}) \cup IdentSteps \cup {"identEnd"}
       \/ pc[d] \in FwSteps \cup {"identEnd"} /\ pc'[d] \in FwSteps
       \/ pc[d] = "identXfer" /\ dl[d].state = "ended" /\ pc'[d] = "identEnd"
AsksClass(d) ==
    /\ pc[d] = "class" /\ pc'[d] = "classWait" /\ transfer'[d] = "put" /\ dl'[d] = dl[d]
    /\ ptSendPkt'[d].cmd = "IDENTIFY"
BeginsDownload(d) ==
    /\ \/ pc[d] = "identSend" /\ pc'[d] = "identXfer"
       \/ pc[d] = "fwSend" /\ pc'[d] = "fwXfer"
    /\ transfer'[d] = "put"
    /\ dl'[d].state = "REQ" /\ dl'[d].off = 0 /\ dl'[d].crc = <<>> /\ dl'[d].file = hFile[d]
    /\ ptSendPkt'[d].cmd = "DOWNLOAD" /\ ptSendPkt'[d].type = FileType(hFile[d])
StartsFirmware(d) ==
    /\ pc[d] = "fwXfer" /\ dl[d].state = "ended" /\ lRet[d] = "OK" /\ pc'[d] = "start"
    /\ transfer'[d] = "put" /\ dl'[d].state = "none" /\ ptSendPkt'[d].cmd = "INSTANTIATE"

LEMMA MoveValues ==
    ASSUME TypeOK, NEW d \in Devices, PartsInv(d), Moves(d)
    PROVE  /\ SameDevice(d)
           /\ Quiet(d) \/ AsksClass(d) \/ BeginsDownload(d) \/ StartsFirmware(d)
<1> USE DEF addVars, xferVars, fwVars, osVars, mbxVars, devVars
<1>1. \A c : Goto(d, c) => pc'[d] = c
  BY DEF Goto, TypeOK
<1>2. \A c : Fail(d, c) => pc'[d] = "failed"
  BY <1>1 DEF Fail
<1>3. pc[d] \notin DownloadSteps \cup {"classWait", "start"} =>
         transfer[d] = "none" /\ dl[d].state = "none"
  BY DEF PartsInv, Where
<1>4. "failed" \in AtRest /\ "added" \in AtRest
  BY DEF AtRest
<1>5. \A f : dl' = [dl EXCEPT ![d] = f] => dl'[d] = f
  BY DEF TypeOK
<1>6. IdleDownload.state = "none"
  BY DEF IdleDownload
<1>7. CASE Add(d) \/ IdentUpdate(d)
  <2>1. pc[d] \in AtRest /\ transfer'[d] = "none" /\ dl'[d].state = "none"
    BY <1>3, <1>7 DEF Add, IdentUpdate, AtRest, DownloadSteps
  <2>2. pc'[d] = "reset" \/ (pc'[d] = "flash" /\ boot'[d] = "flash")
    BY <1>1, <1>7 DEF Add, IdentUpdate
  <2> QED
    BY <1>7, <2>1, <2>2 DEF Add, IdentUpdate, SameDevice, Quiet
<1>8. CASE FlashBased(d) \/ Cookie(d)
  <2>1. transfer'[d] = "none" /\ dl'[d].state = "none" /\ pc'[d] \in AtRest
    BY <1>1, <1>2, <1>3, <1>4, <1>8 DEF FlashBased, Cookie, DownloadSteps
  <2> QED
    BY <1>8, <2>1 DEF FlashBased, Cookie, SameDevice, Quiet
<1>9. CASE BootStart(d) \/ BootWait(d)
  <2>1. transfer'[d] = "none" /\ dl'[d].state = "none"
    BY <1>3, <1>9 DEF BootStart, BootWait, DownloadSteps
  <2>2. pc[d] \in ClassSteps /\ pc'[d] \in {"failed", "bootWait", "class"}
    BY <1>1, <1>2, <1>9 DEF BootStart, BootWait, ClassSteps, BootSteps
  <2>3. SameDevice(d)
    BY <1>9 DEF BootStart, BootWait, SameDevice
  <2> QED
    BY <1>4, <2>1, <2>2, <2>3 DEF Quiet, ClassSteps, BootSteps
<1>10. CASE RequestClass(d)
  <2>1. AsksClass(d)
    BY <1>1, <1>10, TransferValues DEF RequestClass, AsksClass
  <2>2. ptRecvPkt'[d] = ptRecvPkt[d]
    BY <1>10 DEF RequestClass, Transfer
  <2> QED
    BY <1>10, <2>1, <2>2 DEF RequestClass, SameDevice
<1>11. CASE ClassDone(d)
  <2>1. transfer'[d] = "none" /\ dl'[d].state = "none" /\ pc[d] = "classWait"
    BY <1>11 DEF ClassDone, Return, TypeOK, PartsInv, Where, DownloadSteps
  <2>2. pc'[d] \in {"identName", "identEnd", "failed"}
    BY <1>1, <1>2, <1>11 DEF ClassDone
  <2>3. SameDevice(d)
    BY <1>11 DEF ClassDone, SameDevice
  <2> QED
    BY <1>4, <2>1, <2>2, <2>3 DEF Quiet, ClassSteps, IdentSteps
<1>12. CASE SendFile(d)
  <2>1. CASE DownloadFile(d, hFile[d])
    <3> DEFINE p == [cmd |-> "DOWNLOAD", id |-> 1, type |-> FileType(hFile[d])]
               r == [IdleDownload EXCEPT !.state = "REQ", !.file = hFile[d],
                                         !.max = MailboxUnits, !.id = 1]
    <3>1. dl'[d] = r /\ Transfer(d, p)
      BY <1>5, <2>1 DEF DownloadFile
    <3>2. r.state = "REQ" /\ r.off = 0 /\ r.crc = <<>> /\ r.file = hFile[d]
      BY DEF IdleDownload
    <3>3. p.cmd = "DOWNLOAD" /\ p.type = FileType(hFile[d])
      OBVIOUS
    <3> HIDE DEF p, r
    <3>4. transfer'[d] = "put" /\ ptSendPkt'[d] = p /\ ptRecvPkt'[d] = ptRecvPkt[d]
      BY <3>1, TransferValues
    <3>5. \/ pc[d] = "identSend" /\ pc'[d] = "identXfer"
          \/ pc[d] = "fwSend" /\ pc'[d] = "fwXfer"
      <4>1. (pc'[d] # "failed" /\ pc'[d] # "identEnd") \/ UNCHANGED xferVars
        BY <1>1, <1>12 DEF SendFile
      <4>2. dl[d].state = "none"
        BY <1>3, <1>12 DEF SendFile, DownloadSteps
      <4>3. ~UNCHANGED xferVars
        BY <3>1, <3>2, <4>2
      <4> QED
        BY <1>1, <1>12, <4>1, <4>3 DEF SendFile
    <3>6. BeginsDownload(d)
      BY <3>1, <3>2, <3>3, <3>4, <3>5 DEF BeginsDownload
    <3> QED
      BY <1>12, <3>4, <3>6 DEF SendFile, SameDevice
  <2>2. CASE UNCHANGED xferVars
    <3>1. pc[d] \in {"identSend", "fwSend"} /\ transfer[d] = "none" /\ dl[d].state = "none"
      BY <1>3, <1>12 DEF SendFile, DownloadSteps
    <3>2. ~DownloadFile(d, hFile[d])
      BY <1>5, <2>2, <3>1 DEF DownloadFile, IdleDownload
    <3>3. pc'[d] \in {"identEnd", "failed"} /\ (pc'[d] = "identEnd" => pc[d] = "identSend")
      BY <1>1, <1>12, <3>2 DEF SendFile
    <3> QED
      BY <1>4, <1>12, <2>2, <3>1, <3>3 DEF SendFile, SameDevice, Quiet, IdentSteps
  <2> QED
    BY <1>12, <2>1, <2>2 DEF SendFile
<1>13. CASE IdentSent(d)
  <2>1. transfer'[d] = "none" /\ dl'[d].state = "none"
    BY <1>5, <1>6, <1>13 DEF IdentSent, PartsInv, Where
  <2> QED
    BY <1>1, <1>13, <2>1 DEF IdentSent, SameDevice, Quiet
<1>14. CASE IdentEnd(d)
  <2>1. transfer'[d] = "none" /\ dl'[d].state = "none"
    BY <1>3, <1>14 DEF IdentEnd, DownloadSteps
  <2> QED
    BY <1>1, <1>14, <2>1 DEF IdentEnd, SameDevice, Quiet, FwSteps
<1>15. CASE FirmwareSent(d)
  <2>1. dl'[d].state = "none" /\ transfer[d] = "none"
    BY <1>5, <1>6, <1>15 DEF FirmwareSent, PartsInv, Where
  <2>2. CASE lRet[d] = "OK"
    <3>1. StartsFirmware(d)
      BY <1>1, <1>15, <2>1, <2>2, TransferValues DEF FirmwareSent, StartsFirmware
    <3>2. ptRecvPkt'[d] = ptRecvPkt[d]
      BY <1>15, <2>2 DEF FirmwareSent, Transfer
    <3> QED
      BY <1>15, <3>1, <3>2 DEF FirmwareSent, SameDevice
  <2>3. CASE lRet[d] # "OK"
    BY <1>1, <1>4, <1>15, <2>1, <2>3 DEF FirmwareSent, SameDevice, Quiet
  <2> QED
    BY <2>2, <2>3
<1>16. CASE StartDone(d)
  <2>1. transfer'[d] = "none" /\ dl'[d].state = "none"
    BY <1>16 DEF StartDone, Return, TypeOK, PartsInv, Where, DownloadSteps
  <2>2. pc'[d] \in {"cookie", "failed"}
    BY <1>1, <1>16 DEF StartDone
  <2> QED
    BY <1>4, <1>16, <2>1, <2>2 DEF StartDone, SameDevice, Quiet
<1>17. CASE File(d)
  <2>1. UNCHANGED <<xferVars, mbxVars, devVars>>
    BY <1>17 DEF File, UserGetFile, UserGetClass, OsFileOpen, OsFileTake, notFile
  <2>2. pc[d] \in {"bootName", "identName", "fwName", "bootOpen", "identOpen", "fwOpen",
                   "fwClass", "bootTake", "identTake", "fwTake"}
    BY <1>17 DEF File, UserGetFile, UserGetClass, OsFileOpen, OsFileTake, NameSteps
  <2>3. transfer'[d] = "none" /\ dl'[d].state = "none"
    BY <1>3, <2>1, <2>2 DEF DownloadSteps
  <2>4. \/ pc[d] = "fwClass" /\ pc'[d] \in {"fwOpen", "oops"}
        \/ pc[d] # "fwClass" /\ pc'[d] = After(pc[d])
        \/ pc[d] \in {"bootOpen", "identOpen", "fwOpen"} /\ pc'[d] = OpenFailed(pc[d])
    BY <1>1, <1>17 DEF File, UserGetFile, UserGetClass, OsFileOpen, OsFileTake, NameSteps
  <2>5. \/ pc'[d] \in {"failed", "oops"}
        \/ /\ pc[d] \in ClassSteps \cup IdentSteps
           /\ pc'[d] \in (ClassSteps \ {"classWait"}) \cup IdentSteps \cup {"identEnd"}
        \/ pc[d] \in FwSteps /\ pc'[d] \in FwSteps
    BY <2>2, <2>4 DEF After, OpenFailed, ClassSteps, BootSteps, IdentSteps, FwSteps
  <2> QED
    BY <1>4, <2>1, <2>3, <2>5 DEF SameDevice, Quiet
<1> QED
  BY <1>7, <1>8, <1>9, <1>10, <1>11, <1>12, <1>13, <1>14, <1>15, <1>16, <1>17 DEF Moves

LEMMA TransferPacketValues ==
    ASSUME TypeOK, NEW d \in Devices, TransferPacket(d)
    PROVE  /\ UNCHANGED notTransfer /\ ptSendPkt'[d] = ptSendPkt[d]
           /\ transfer[d] \in {"put", "get"} /\ transfer'[d] # "none"
           /\ transfer'[d] # "put"
           /\ transfer'[d] = "OK" =>
                 Answers(recvMbx[d], ptSendPkt[d]) /\ ptRecvPkt'[d] = recvMbx[d]
BY DEF TransferPacket, PutPacketBL, PutTimeout, GetPacketBL, GetTimeout, Return, TypeOK

LEMMA PartsStep ==
    ASSUME TypeOK, NEW d \in Devices, PartsInv(d), Untouched(d) \/ Steps(d)
    PROVE  PartsInv(d)'
<1>1. CASE Untouched(d)
  BY <1>1 DEF Untouched, PartsInv, Where, Request, Extent, Answers
<1>2. CASE Device(d)
  <2>1. UNCHANGED <<addVars, xferVars>>
    BY <1>2 DEF Device, BslTake, BslAnswer, Come
  <2>2. boot[d] = "flash" => boot'[d] = boot[d]
    BY <1>2 DEF Device, BslTake, BslAnswer, Come, TypeOK
  <2> QED
    BY <2>1, <2>2 DEF PartsInv, Where, Request, Extent, Answers, addVars, xferVars
<1>3. CASE TransferPacket(d)
  <2>1. UNCHANGED <<pc, dl, boot>> /\ ptSendPkt'[d] = ptSendPkt[d]
    BY <1>3, TransferPacketValues DEF notTransfer, addVars, devVars
  <2>2. transfer[d] # "none" /\ dl[d].state # "ended"
    BY <1>3, TransferPacketValues DEF PartsInv, Where
  <2>3. Where(d)'
    BY <2>1, <2>2 DEF PartsInv, Where
  <2>4. transfer'[d] = "OK" => Answers(ptRecvPkt'[d], ptSendPkt'[d])
    BY <1>3, <2>1, TransferPacketValues DEF Answers
  <2> QED
    BY <2>1, <2>3, <2>4 DEF PartsInv, Request, Extent
<1>4. CASE Download(d)
  BY <1>4, DownloadValues
<1>5. CASE Moves(d)
  <2>1. CASE Quiet(d)
    <3>1. /\ pc'[d] \notin DownloadSteps \cup {"classWait", "start"}
          /\ pc'[d] = "flash" => boot'[d] = "flash"
      BY <2>1 DEF Quiet, DownloadSteps, AtRest, ClassSteps, BootSteps, IdentSteps, FwSteps
    <3> QED
      BY <2>1, <3>1 DEF Quiet, PartsInv, Where, Request, Extent
  <2>2. CASE AsksClass(d)
    <3>1. dl[d].state = "none"
      BY <2>2 DEF AsksClass, PartsInv, Where, DownloadSteps
    <3> QED
      BY <2>2, <3>1 DEF AsksClass, PartsInv, Where, Request, Extent, DownloadSteps
  <2>3. CASE BeginsDownload(d)
    BY <2>3 DEF BeginsDownload, PartsInv, Where, Request, Extent, DownloadSteps
  <2>4. CASE StartsFirmware(d)
    BY <2>4 DEF StartsFirmware, PartsInv, Where, Request, Extent, DownloadSteps
  <2> QED
    BY <1>5, <2>1, <2>2, <2>3, <2>4, MoveValues
<1>6. CASE NetxReset(d)
  <2>1. UNCHANGED xferVars /\ pc[d] = "reset" /\ pc'[d] \in {"failed", "bootName"}
    BY <1>6 DEF NetxReset, Fail, Goto, TypeOK
  <2>2. transfer[d] = "none" /\ dl[d].state = "none"
    BY <2>1 DEF PartsInv, Where, DownloadSteps
  <2> QED
    BY <2>1, <2>2 DEF PartsInv, Where, Request, Extent, DownloadSteps, xferVars
<1> QED
  BY <1>1, <1>2, <1>3, <1>4, <1>5, <1>6 DEF Steps, Caller, Moves

(* The types and the requests, of any number of devices.                   *)
LEMMA InitParts == Init => TypeOK /\ \A d \in Devices : PartsInv(d)
<1> SUFFICES ASSUME Init PROVE TypeOK /\ \A d \in Devices : PartsInv(d)
  OBVIOUS
<1>1. TypeOK
  <2>1. IdleDownload \in Downloads /\ NoPacket \in Requests /\ NoPacket \in Replies
    BY NoNames, Counted, EmptySequence, PacketTypes DEF IdleDownload, Downloads, Sequence, NoName
  <2>2. NoFile \in [type : FileTypes \cup {"none"}, bytes : Seq(FileUnits), block : Numbers]
    BY Counted, EmptySequence DEF NoFile
  <2>3. "idle" \in PcSteps /\ "OK" \in Codes
    BY DEF PcSteps, AtRest, Codes
  <2>4. ident \in [Devices -> [request : BOOLEAN, lError : Codes]]
    BY <2>3 DEF Init
  <2>5. boot \in [Devices -> {"off", "flash", "rom", "loading", "bsl", "starting", "firmware"}]
    BY DEF Init
  <2> QED
    BY <2>1, <2>2, <2>3, <2>4, <2>5, NoNames DEF Init, TypeOK
<1>2. \A d \in Devices : PartsInv(d)
  BY DEF Init, IdleDownload, PartsInv, Where, Request, Extent, DownloadSteps
<1> QED
  BY <1>1, <1>2

LEMMA PartsInvariant == Spec => [](TypeOK /\ \A d \in Devices : PartsInv(d))
<1>1. TypeOK /\ (\A d \in Devices : PartsInv(d)) /\ [Next]_vars
        => TypeOK' /\ (\A d \in Devices : PartsInv(d))'
  BY TypeStep, StepCases, PartsStep
<1>2. QED
  BY <1>1, InitParts, PTL DEF Spec

-----------------------------------------------------------------------------
(* The packets under way. *)

LEMMA FlipEqual ==
    ASSUME NEW S, NEW b, NEW c
    PROVE  /\ c \in Flip(S, b) <=> (IF c = b THEN ~(c \in S) ELSE c \in S)
BY DEF Flip

(* The device takes the newest packet.                                     *)
LEMMA TakeValues ==
    ASSUME TypeOK, NEW d \in Devices, BslTake(d)
    PROVE  /\ boot[d] = "bsl" /\ out[d] = NoPacket /\ ~Equal(d, "SEND")
           /\ Equal(d, "SEND")' /\ (Equal(d, "RECV")' <=> Equal(d, "RECV"))
           /\ UNCHANGED <<sendMbx, recvMbx, addVars, xferVars, osVars>>
           /\ out'[d].cmd = sendMbx[d].cmd
           /\ out'[d].cmd = "IDENTIFY" /\ out'[d].sta = "OK" => out'[d].class = Class[d]
           /\ stored[d] \subseteq stored'[d]
           /\ \A type : Receives(d, type) => rx'[d].type \in {"none", type}
           /\ sendMbx[d].cmd = "DATA" /\ sendMbx[d].seq \in LastOne /\ out'[d].sta = "OK" =>
                 rx[d].type # "none" /\ <<rx[d].type, sendMbx[d].crc>> \in stored'[d]
           /\ boot'[d] \in {"starting", "firmware"} => sendMbx[d].cmd = "INSTANTIATE"
           /\ boot'[d] \in {"bsl", "starting"}
<1> DEFINE p == sendMbx[d]
<1>1. /\ boot[d] = "bsl" /\ out[d] = NoPacket /\ ~Equal(d, "SEND")
      /\ netxBits' = [netxBits EXCEPT ![d] = Flip(@, "SEND")]
      /\ UNCHANGED <<sendMbx, recvMbx, hostBits, addVars, xferVars, osVars>>
  BY DEF BslTake
<1>2. Equal(d, "SEND")' /\ (Equal(d, "RECV")' <=> Equal(d, "RECV"))
  <2>1. netxBits'[d] = Flip(netxBits[d], "SEND") /\ hostBits'[d] = hostBits[d]
    BY <1>1 DEF TypeOK
  <2>2. /\ "SEND" \in netxBits'[d] <=> ~("SEND" \in netxBits[d])
        /\ "RECV" \in netxBits'[d] <=> "RECV" \in netxBits[d]
    BY <2>1, FlipEqual
  <2> QED
    BY <1>1, <2>1, <2>2 DEF Equal
<1>3. ASSUME NEW type, Receives(d, type)
      PROVE  IF p.cmd = "DOWNLOAD" THEN p.type = type ELSE rx[d].type \in {"none", type}
  BY <1>1, <1>3 DEF Receives, Sent
<1>4. NoFile.type = "none"
  BY DEF NoFile
<1> DEFINE Goal ==
             /\ out'[d].cmd = sendMbx[d].cmd
             /\ out'[d].cmd = "IDENTIFY" /\ out'[d].sta = "OK" => out'[d].class = Class[d]
             /\ stored[d] \subseteq stored'[d]
             /\ \A type : Receives(d, type) => rx'[d].type \in {"none", type}
             /\ sendMbx[d].cmd = "DATA" /\ sendMbx[d].seq \in LastOne /\ out'[d].sta = "OK" =>
                   rx[d].type # "none" /\ <<rx[d].type, sendMbx[d].crc>> \in stored'[d]
             /\ boot'[d] \in {"starting", "firmware"} => sendMbx[d].cmd = "INSTANTIATE"
             /\ boot'[d] \in {"bsl", "starting"}
<1> SUFFICES Goal
  BY <1>1, <1>2
<1>5. \A r : out' = [out EXCEPT ![d] = r] => out'[d] = r
  BY DEF TypeOK
<1>6. \A sta : Answer(p, sta).cmd = p.cmd /\ Answer(p, sta).sta = sta
  BY DEF Answer
<1>7. CASE Refuse(d, p)
  <2>1. out'[d].cmd = p.cmd /\ out'[d].sta = "ERROR"
    BY <1>5, <1>6, <1>7 DEF Refuse
  <2>2. rx'[d] = IF p.cmd = "DOWNLOAD" THEN NoFile ELSE rx[d]
    BY <1>7 DEF Refuse, TypeOK
  <2>3. stored'[d] = stored[d] /\ boot'[d] = boot[d]
    BY <1>7 DEF Refuse
  <2>4. \A type : Receives(d, type) => rx'[d].type \in {"none", type}
    BY <1>3, <1>4, <2>2
  <2>5. out'[d].sta # "OK" /\ boot'[d] = "bsl"
    BY <1>1, <2>1, <2>3
  <2> QED
    BY <2>1, <2>3, <2>4, <2>5
<1>8. CASE Identify(d, p)
  <2>1. out'[d] = [Answer(p, "OK") EXCEPT !.class = Class[d]]
    BY <1>5, <1>8 DEF Identify
  <2>2. out'[d].cmd = p.cmd /\ out'[d].class = Class[d]
    BY <2>1 DEF Answer
  <2>3. rx'[d] = rx[d] /\ stored'[d] = stored[d] /\ boot'[d] = boot[d] /\ p.cmd = "IDENTIFY"
    BY <1>8 DEF Identify
  <2>4. \A type : Receives(d, type) => rx'[d].type \in {"none", type}
    BY <1>3, <2>3
  <2>5. p.cmd # "DATA" /\ boot'[d] = "bsl"
    BY <1>1, <2>3
  <2> QED
    BY <2>2, <2>3, <2>4, <2>5
<1>9. CASE OpenFile(d, p)
  <2>1. PICK max \in BlockSizes : out' = [out EXCEPT ![d] = [Answer(p, "OK") EXCEPT !.max = max]]
    BY <1>9 DEF OpenFile
  <2>2. out'[d] = [Answer(p, "OK") EXCEPT !.max = max]
    BY <1>5, <2>1
  <2>3. out'[d].cmd = p.cmd
    BY <2>2 DEF Answer
  <2>4. rx'[d].type = p.type
    BY <1>9 DEF OpenFile, TypeOK
  <2>5. stored'[d] = stored[d] /\ boot'[d] = boot[d] /\ p.cmd = "DOWNLOAD"
    BY <1>9 DEF OpenFile
  <2>6. \A type : Receives(d, type) => rx'[d].type \in {"none", type}
    BY <1>3, <2>4, <2>5
  <2>7. p.cmd # "DATA" /\ p.cmd # "IDENTIFY" /\ boot'[d] = "bsl"
    BY <1>1, <2>5
  <2> QED
    BY <2>3, <2>5, <2>6, <2>7
<1>10. CASE TakeBlock(d, p)
  <2> DEFINE bytes == rx[d].bytes \o p.bytes
             good == rx[d].type # "none" /\ p.block = rx[d].block /\ p.crc = bytes
             last == p.seq \in {"LAST", "NONE"}
  <2>1. /\ out' = [out EXCEPT ![d] = Answer(p, IF good THEN "OK" ELSE "ERROR")]
        /\ rx' = [rx EXCEPT ![d] = IF ~good THEN rx[d] ELSE IF last THEN NoFile
                     ELSE [rx[d] EXCEPT !.bytes = bytes, !.block = Inc(rx[d].block)]]
        /\ stored' = [stored EXCEPT ![d] =
                         IF good /\ last THEN @ \cup {<<rx[d].type, bytes>>} ELSE @]
        /\ UNCHANGED boot /\ p.cmd = "DATA"
    BY <1>10 DEF TakeBlock
  <2>2. good => p.crc = bytes /\ rx[d].type # "none"
    OBVIOUS
  <2>3. last <=> p.seq \in LastOne
    BY DEF LastOne
  <2> HIDE DEF bytes, good, last
  <2>4. out'[d].cmd = p.cmd /\ (out'[d].sta = "OK" => good)
    <3>1. CASE good
      <4>1. out'[d] = Answer(p, "OK")
        BY <1>5, <2>1, <3>1
      <4> QED
        BY <1>6, <3>1, <4>1
    <3>2. CASE ~good
      <4>1. out'[d] = Answer(p, "ERROR")
        BY <1>5, <2>1, <3>2
      <4> QED
        BY <1>6, <4>1
    <3> QED
      BY <3>1, <3>2
  <2>5. rx'[d].type \in {rx[d].type, "none"}
    <3>1. [rx[d] EXCEPT !.bytes = bytes, !.block = Inc(rx[d].block)].type = rx[d].type
      BY DEF TypeOK
    <3> QED
      BY <1>4, <2>1, <3>1 DEF TypeOK
  <2>6. stored'[d] = IF good /\ last THEN stored[d] \cup {<<rx[d].type, bytes>>} ELSE stored[d]
    BY <2>1 DEF TypeOK
  <2>7. \A type : Receives(d, type) => rx'[d].type \in {"none", type}
    BY <1>3, <2>1, <2>5
  <2>8. stored[d] \subseteq stored'[d]
    BY <2>6
  <2>9. sendMbx[d].seq \in LastOne /\ out'[d].sta = "OK" =>
           rx[d].type # "none" /\ <<rx[d].type, sendMbx[d].crc>> \in stored'[d]
    BY <2>2, <2>3, <2>4, <2>6
  <2>10. p.cmd # "IDENTIFY" /\ boot'[d] = "bsl"
    BY <1>1, <2>1
  <2> QED
    BY <2>4, <2>7, <2>8, <2>9, <2>10
<1>11. CASE Abort(d, p)
  <2>1. out'[d].cmd = p.cmd /\ p.cmd = "ABORT"
    BY <1>5, <1>6, <1>11 DEF Abort
  <2>2. rx'[d] = NoFile
    BY <1>11 DEF Abort, TypeOK
  <2>3. stored'[d] = stored[d] /\ boot'[d] = boot[d]
    BY <1>11 DEF Abort
  <2>4. \A type : Receives(d, type) => rx'[d].type \in {"none", type}
    BY <1>4, <2>2
  <2>5. p.cmd # "DATA" /\ p.cmd # "IDENTIFY" /\ boot'[d] = "bsl"
    BY <1>1, <2>1, <2>3
  <2> QED
    BY <2>1, <2>3, <2>4, <2>5
<1>12. CASE Instantiate(d, p)
  <2>1. out'[d].cmd = p.cmd /\ p.cmd = "INSTANTIATE"
    BY <1>5, <1>6, <1>12 DEF Instantiate
  <2>2. boot'[d] = "starting"
    BY <1>12 DEF Instantiate, TypeOK
  <2>3. stored'[d] = stored[d] /\ rx'[d] = rx[d]
    BY <1>12 DEF Instantiate
  <2>4. \A type : Receives(d, type) => rx'[d].type \in {"none", type}
    BY <1>3, <2>1, <2>3
  <2>5. p.cmd # "DATA" /\ p.cmd # "IDENTIFY"
    BY <2>1
  <2> QED
    BY <2>1, <2>2, <2>3, <2>4, <2>5
<1> QED
  BY <1>7, <1>8, <1>9, <1>10, <1>11, <1>12 DEF BslTake

(* The device answers.                                                     *)
LEMMA AnswerValues ==
    ASSUME TypeOK, NEW d \in Devices, BslAnswer(d)
    PROVE  /\ Equal(d, "RECV") /\ ~Equal(d, "RECV")' /\ (Equal(d, "SEND")' <=> Equal(d, "SEND"))
           /\ recvMbx'[d] = out[d] /\ out'[d] = NoPacket
           /\ UNCHANGED <<sendMbx, addVars, xferVars, osVars, boot, rx, stored>>
<1>1. netxBits'[d] = Flip(netxBits[d], "RECV") /\ hostBits'[d] = hostBits[d]
  BY DEF BslAnswer, TypeOK
<1>2. /\ "RECV" \in netxBits'[d] <=> ~("RECV" \in netxBits[d])
      /\ "SEND" \in netxBits'[d] <=> "SEND" \in netxBits[d]
  BY <1>1, FlipEqual
<1>3. Equal(d, "RECV") /\ ~Equal(d, "RECV")' /\ (Equal(d, "SEND")' <=> Equal(d, "SEND"))
  BY <1>1, <1>2 DEF Equal, BslAnswer
<1> QED
  BY <1>3 DEF BslAnswer, TypeOK

(* The thread puts a packet, gets one, or has waited long enough.          *)
LEMMA PutValues ==
    ASSUME TypeOK, NEW d \in Devices, PutPacketBL(d)
    PROVE  /\ transfer[d] = "put" /\ transfer'[d] = "get"
           /\ Equal(d, "SEND") /\ ~Equal(d, "SEND")' /\ (Equal(d, "RECV")' <=> Equal(d, "RECV"))
           /\ sendMbx'[d] = ptSendPkt[d]
           /\ UNCHANGED <<recvMbx, ptSendPkt, ptRecvPkt, notTransfer>>
<1>1. hostBits'[d] = Flip(hostBits[d], "SEND") /\ netxBits'[d] = netxBits[d]
  BY DEF PutPacketBL, TypeOK
<1>2. /\ "SEND" \in hostBits'[d] <=> ~("SEND" \in hostBits[d])
      /\ "RECV" \in hostBits'[d] <=> "RECV" \in hostBits[d]
  BY <1>1, FlipEqual
<1>3. Equal(d, "SEND") /\ ~Equal(d, "SEND")' /\ (Equal(d, "RECV")' <=> Equal(d, "RECV"))
  BY <1>1, <1>2 DEF Equal, PutPacketBL
<1> QED
  BY <1>3 DEF PutPacketBL, TypeOK

LEMMA GetValues ==
    ASSUME TypeOK, NEW d \in Devices, GetPacketBL(d)
    PROVE  /\ transfer[d] = "get" /\ transfer'[d] \in {"OK", "get", "TRANSFER_TIMEOUT"}
           /\ transfer'[d] = "OK" => Answers(recvMbx[d], ptSendPkt[d])
           /\ ~Equal(d, "RECV") /\ Equal(d, "RECV")' /\ (Equal(d, "SEND")' <=> Equal(d, "SEND"))
           /\ ptRecvPkt'[d] = recvMbx[d]
           /\ UNCHANGED <<sendMbx, recvMbx, ptSendPkt, notTransfer>>
           /\ transfer'[d] # "OK" => ~Answers(recvMbx[d], ptSendPkt[d])
<1>1. hostBits'[d] = Flip(hostBits[d], "RECV") /\ netxBits'[d] = netxBits[d]
  BY DEF GetPacketBL, TypeOK
<1>2. /\ "RECV" \in hostBits'[d] <=> ~("RECV" \in hostBits[d])
      /\ "SEND" \in hostBits'[d] <=> "SEND" \in hostBits[d]
  BY <1>1, FlipEqual
<1>3. ~Equal(d, "RECV") /\ Equal(d, "RECV")' /\ (Equal(d, "SEND")' <=> Equal(d, "SEND"))
  BY <1>1, <1>2 DEF Equal, GetPacketBL
<1> QED
  BY <1>3 DEF GetPacketBL, Return, TypeOK

(* Packets on their way: each step moves one on.                           *)
LEMMA TakeMoves ==
    ASSUME TypeOK, NEW d \in Devices, BslTake(d), NEW c, c # "none"
    PROVE  ~Sent(d, c)' /\ (Due(d, c)' <=> Sent(d, c)) /\ (Shown(d, c)' <=> Shown(d, c))
           /\ ~Due(d, c)
<1>1. /\ out[d] = NoPacket /\ ~Equal(d, "SEND") /\ Equal(d, "SEND")'
      /\ (Equal(d, "RECV")' <=> Equal(d, "RECV")) /\ out'[d].cmd = sendMbx[d].cmd
      /\ UNCHANGED recvMbx
  BY TakeValues
<1>2. out[d].cmd = "none"
  BY <1>1 DEF NoPacket
<1> QED
  BY <1>1, <1>2 DEF Sent, Due, Shown

LEMMA AnswerMoves ==
    ASSUME TypeOK, NEW d \in Devices, BslAnswer(d), NEW c, c # "none"
    PROVE  (Sent(d, c)' <=> Sent(d, c)) /\ ~Due(d, c)' /\ (Shown(d, c)' <=> Due(d, c))
           /\ ~Shown(d, c)
BY AnswerValues DEF Sent, Due, Shown, NoPacket

LEMMA PutMoves ==
    ASSUME TypeOK, NEW d \in Devices, PutPacketBL(d), NEW c
    PROVE  (Sent(d, c)' <=> ptSendPkt[d].cmd = c) /\ (Due(d, c)' <=> Due(d, c))
           /\ (Shown(d, c)' <=> Shown(d, c)) /\ ~Sent(d, c)
BY PutValues DEF Sent, Due, Shown, notTransfer, devVars

LEMMA GetMoves ==
    ASSUME TypeOK, NEW d \in Devices, GetPacketBL(d), NEW c
    PROVE  (Sent(d, c)' <=> Sent(d, c)) /\ (Due(d, c)' <=> Due(d, c)) /\ ~Shown(d, c)'
           /\ (recvMbx[d].cmd = c <=> Shown(d, c))
BY GetValues DEF Sent, Due, Shown, notTransfer, devVars

(* What the invariant says of is not changed.                              *)
Kept(d) ==
    /\ sendMbx'[d] = sendMbx[d] /\ recvMbx'[d] = recvMbx[d] /\ hostBits'[d] = hostBits[d]
    /\ netxBits'[d] = netxBits[d] /\ rx'[d] = rx[d] /\ stored'[d] = stored[d]
    /\ out'[d] = out[d]

LEMMA KeptMoves ==
    ASSUME NEW d \in Devices, Kept(d)
    PROVE  /\ \A c : /\ Sent(d, c)' <=> Sent(d, c)
                     /\ Due(d, c)' <=> Due(d, c)
                     /\ Shown(d, c)' <=> Shown(d, c)
                     /\ NoneOf(d, c)' <=> NoneOf(d, c)
                     /\ OneOf(d, c)' <=> OneOf(d, c)
           /\ DataFirst(d)' <=> DataFirst(d)
           /\ \A type : Receives(d, type)' <=> Receives(d, type)
           /\ \A file : HasFile(d, file)' <=> HasFile(d, file)
<1>1. Equal(d, "SEND")' <=> Equal(d, "SEND")
  BY DEF Kept, Equal
<1>2. Equal(d, "RECV")' <=> Equal(d, "RECV")
  BY DEF Kept, Equal
<1>3. \A c : /\ Sent(d, c)' <=> Sent(d, c)
             /\ Due(d, c)' <=> Due(d, c)
             /\ Shown(d, c)' <=> Shown(d, c)
  BY <1>1, <1>2 DEF Kept, Sent, Due, Shown
<1>4. \A c : NoneOf(d, c)' <=> NoneOf(d, c)
  BY <1>3 DEF NoneOf
<1>5. \A c : OneOf(d, c)' <=> OneOf(d, c)
  BY <1>3 DEF OneOf
<1>6. DataFirst(d)' <=> DataFirst(d)
  BY <1>3 DEF DataFirst
<1>7. \A type : Receives(d, type)' <=> Receives(d, type)
  BY <1>3 DEF Receives, Kept
<1>8. \A file : HasFile(d, file)' <=> HasFile(d, file)
  BY DEF HasFile, Kept
<1> QED
  BY <1>3, <1>4, <1>5, <1>6, <1>7, <1>8

LEMMA PipeKept ==
    ASSUME TypeOK, NEW d \in Devices, PipeInv(d), Kept(d),
           pc'[d] = pc[d], lRet'[d] = lRet[d], dl'[d] = dl[d],
           ptRecvPkt'[d] = ptRecvPkt[d], ptSendPkt'[d] = ptSendPkt[d],
           \/ transfer'[d] = transfer[d]
           \/ transfer'[d] \notin {"put", "get", "OK"}
    PROVE  PipeInv(d)'
<1>1. \A c : (NoneOf(d, c)' <=> NoneOf(d, c)) /\ (OneOf(d, c)' <=> OneOf(d, c))
  BY KeptMoves
<1>2. /\ DataFirst(d)' <=> DataFirst(d)
      /\ \A type : Receives(d, type)' <=> Receives(d, type)
      /\ \A file : HasFile(d, file)' <=> HasFile(d, file)
  BY KeptMoves
<1>3. ClassTrue(d)'
  BY DEF PipeInv, ClassTrue, Kept
<1>4. Before(d)'
  BY <1>1 DEF PipeInv, Before
<1>5. Ident(d)'
  BY <1>1 DEF PipeInv, Ident
<1>6. Between(d)'
  BY <1>2 DEF PipeInv, Between
<1>7. Ends(d)' <=> Ends(d)
  BY <1>2 DEF Ends
<1>8. OnlyOwn(d)' <=> OnlyOwn(d)
  <2>1. /\ Due(d, "DATA")' <=> Due(d, "DATA")
        /\ Shown(d, "DATA")' <=> Shown(d, "DATA")
    BY KeptMoves
  <2>2. Equal(d, "SEND")' <=> Equal(d, "SEND")
    BY DEF Kept, Equal
  <2> QED
    BY <1>1, <1>7, <2>1, <2>2 DEF OnlyOwn, Kept
<1>9. InDownload(d)'
  <2>1. Receives(d, FileType(dl[d].file))' <=> Receives(d, FileType(dl[d].file))
    BY <1>2 DEF Receives, Sent, Kept, Equal
  <2> QED
    BY <1>1, <1>7, <1>8, <2>1 DEF PipeInv, InDownload
<1>10. Done(d)'
  BY <1>2 DEF PipeInv, Done
<1> QED
  BY <1>3, <1>4, <1>5, <1>6, <1>9, <1>10 DEF PipeInv

(* The device takes a packet.                                              *)
LEMMA PipeTake ==
    ASSUME TypeOK, NEW d \in Devices, PartsInv(d), PipeInv(d), BslTake(d)
    PROVE  PipeInv(d)'
<1> DEFINE file == dl[d].file
<1>1. /\ ~Equal(d, "SEND") /\ Equal(d, "SEND")' /\ out[d] = NoPacket
      /\ UNCHANGED <<sendMbx, recvMbx, addVars, xferVars>>
  BY TakeValues
<1>2. UNCHANGED <<pc, lRet, transfer, ptSendPkt, ptRecvPkt, dl>>
  BY <1>1 DEF addVars, xferVars
<1>3. \A c \in {"DATA", "DOWNLOAD"} :
         /\ ~Sent(d, c)' /\ (Due(d, c)' <=> Sent(d, c)) /\ (Shown(d, c)' <=> Shown(d, c))
         /\ ~Due(d, c)
  BY TakeMoves
<1>4. \A c \in {"DATA", "DOWNLOAD"} :
         /\ NoneOf(d, c)' <=> NoneOf(d, c)
         /\ OneOf(d, c) => OneOf(d, c)'
  BY <1>3 DEF NoneOf, OneOf
<1>5. DataFirst(d) => DataFirst(d)'
  BY <1>3 DEF DataFirst
<1>6. \A f : HasFile(d, f) => HasFile(d, f)'
  <2>1. stored[d] \subseteq stored'[d]
    BY TakeValues
  <2> QED
    BY <2>1 DEF HasFile
<1>7. ClassTrue(d)'
  <2>1. out'[d].cmd = "IDENTIFY" /\ out'[d].sta = "OK" => out'[d].class = Class[d]
    BY TakeValues
  <2> QED
    BY <1>1, <1>2, <2>1 DEF PipeInv, ClassTrue
<1>8. Before(d)'
  BY <1>2, <1>4 DEF PipeInv, Before
<1>9. Ident(d)'
  BY <1>2, <1>4 DEF PipeInv, Ident
<1>10. Between(d)'
  BY <1>2, <1>5 DEF PipeInv, Between
<1>11. Receives(d, FileType(file)) => Receives(d, FileType(file))'
  <2>1. Receives(d, FileType(file)) => rx'[d].type \in {"none", FileType(file)}
    BY TakeValues
  <2>2. ~Sent(d, "DOWNLOAD")'
    BY <1>3
  <2>3. FileType(dl[d].file)' = FileType(dl[d].file)
    BY <1>2
  <2> QED
    BY <2>1, <2>2, <2>3 DEF Receives
<1>12. Ends(d) => Ends(d)'
  BY <1>2, <1>6 DEF Ends
<1>13. ASSUME dl[d].state = "DATA", transfer[d] = "get"
       PROVE  OnlyOwn(d)'
  <2>1. OnlyOwn(d) /\ Receives(d, FileType(file))
    BY <1>13 DEF PipeInv, InDownload
  <2>2. sendMbx[d] = ptSendPkt[d]
    BY <1>1, <2>1 DEF OnlyOwn
  <2>3. ptSendPkt[d].cmd = "DATA" /\ ptSendPkt[d].seq = dl[d].seq /\ ptSendPkt[d].crc = dl[d].crc
    BY <1>13 DEF PartsInv, Request
  <2>4. ASSUME out'[d].sta = "OK", dl[d].seq \in LastOne
        PROVE  HasFile(d, file)'
    <3>1. rx[d].type # "none" /\ <<rx[d].type, sendMbx[d].crc>> \in stored'[d]
      BY <2>2, <2>3, <2>4, TakeValues
    <3>2. rx[d].type = FileType(file)
      BY <2>1, <2>2, <2>3, <3>1 DEF Receives, Sent
    <3>3. dl[d].crc = Content(file)
      BY <1>13, <2>4 DEF PartsInv, Extent, Content
    <3> QED
      BY <1>2, <2>2, <2>3, <3>1, <3>2, <3>3 DEF HasFile
  <2>5. out'[d].sta = "OK" => Ends(d)'
    BY <1>2, <2>4 DEF Ends
  <2>6. Shown(d, "DATA")' /\ recvMbx'[d].sta = "OK" => Ends(d)'
    BY <1>1, <1>3, <1>12, <2>1 DEF OnlyOwn
  <2> QED
    BY <1>1, <1>4, <2>1, <2>5, <2>6 DEF OnlyOwn
<1>14. InDownload(d)'
  <2>1. dl[d].state = "REQ" /\ transfer[d] = "OK" => NoneOf(d, "DATA")'
    BY <1>4 DEF PipeInv, InDownload
  <2>2. dl[d].state = "DATA" /\ transfer[d] = "put" => NoneOf(d, "DATA")'
    BY <1>4 DEF PipeInv, InDownload
  <2>3. dl[d].state = "DATA" /\ transfer[d] = "OK" =>
           NoneOf(d, "DATA")' /\ (ptRecvPkt[d].sta = "OK" => Ends(d)')
    BY <1>4, <1>12 DEF PipeInv, InDownload
  <2>4. \/ dl[d].state = "REQ" /\ transfer[d] \in {"get", "OK"}
        \/ dl[d].state = "DATA"
        => Receives(d, FileType(file))'
    BY <1>11 DEF PipeInv, InDownload
  <2> QED
    BY <1>2, <1>13, <2>1, <2>2, <2>3, <2>4 DEF InDownload
<1>15. Done(d)'
  BY <1>2, <1>6 DEF PipeInv, Done
<1> QED
  BY <1>7, <1>8, <1>9, <1>10, <1>14, <1>15 DEF PipeInv

(* The device answers.                                                     *)
LEMMA PipeAnswer ==
    ASSUME TypeOK, NEW d \in Devices, PipeInv(d), BslAnswer(d)
    PROVE  PipeInv(d)'
<1>1. /\ (Equal(d, "SEND")' <=> Equal(d, "SEND")) /\ recvMbx'[d] = out[d]
      /\ out'[d] = NoPacket
      /\ UNCHANGED <<sendMbx, addVars, xferVars, rx, stored>>
  BY AnswerValues
<1>2. UNCHANGED <<pc, lRet, transfer, ptSendPkt, ptRecvPkt, dl, sendMbx, rx, stored>>
  BY <1>1 DEF addVars, xferVars
<1>3. \A c \in {"DATA", "DOWNLOAD"} :
         /\ (Sent(d, c)' <=> Sent(d, c)) /\ ~Due(d, c)' /\ (Shown(d, c)' <=> Due(d, c))
         /\ ~Shown(d, c)
  BY AnswerMoves
<1>4. \A c \in {"DATA", "DOWNLOAD"} :
         /\ NoneOf(d, c)' <=> NoneOf(d, c)
         /\ OneOf(d, c) => OneOf(d, c)'
  BY <1>3 DEF NoneOf, OneOf
<1>5. DataFirst(d) => DataFirst(d)'
  BY <1>3 DEF DataFirst
<1>6. Ends(d)' <=> Ends(d)
  BY <1>2 DEF Ends, HasFile
<1>7. ClassTrue(d)'
  <2>1. NoPacket.cmd = "none"
    BY DEF NoPacket
  <2>2. ClassTrue(d)
    BY DEF PipeInv
  <2>3. \A p \in {out'[d], recvMbx'[d], ptRecvPkt'[d]} :
           p.cmd = "IDENTIFY" /\ p.sta = "OK" => p.class = Class[d]
    BY <1>1, <1>2, <2>1, <2>2 DEF ClassTrue
  <2> QED
    BY <2>3 DEF ClassTrue
<1>8. Before(d)'
  BY <1>2, <1>4 DEF PipeInv, Before
<1>9. Ident(d)'
  BY <1>2, <1>4 DEF PipeInv, Ident
<1>10. Between(d)'
  BY <1>2, <1>5 DEF PipeInv, Between
<1>11. OnlyOwn(d) => OnlyOwn(d)'
  <2>1. (Equal(d, "SEND")' <=> Equal(d, "SEND")) /\ UNCHANGED <<sendMbx, ptSendPkt>>
    BY <1>1, <1>2
  <2>2. OneOf(d, "DATA") => OneOf(d, "DATA")'
    BY <1>4
  <2>3. ~Due(d, "DATA")' /\ (Shown(d, "DATA")' <=> Due(d, "DATA"))
    BY <1>3
  <2> QED
    BY <1>1, <1>6, <2>1, <2>2, <2>3 DEF OnlyOwn
<1>12. InDownload(d)'
  <2>1. \A type : Receives(d, type) => Receives(d, type)'
    BY <1>1, <1>2 DEF Receives, Sent
  <2>2. \/ dl[d].state = "REQ" /\ transfer[d] \in {"get", "OK"}
        \/ dl[d].state = "DATA"
        => Receives(d, FileType(dl[d].file))'
    BY <1>1, <1>2 DEF PipeInv, InDownload, Receives, Sent
  <2>3. NoneOf(d, "DATA")' <=> NoneOf(d, "DATA")
    BY <1>4
  <2> QED
    BY <1>2, <1>6, <1>11, <2>2, <2>3 DEF PipeInv, InDownload
<1>13. Done(d)'
  BY <1>2 DEF PipeInv, Done, HasFile
<1> QED
  BY <1>7, <1>8, <1>9, <1>10, <1>12, <1>13 DEF PipeInv

(* The thread puts a packet.                                               *)
LEMMA PipePut ==
    ASSUME TypeOK, NEW d \in Devices, PartsInv(d), PipeInv(d), PutPacketBL(d)
    PROVE  PipeInv(d)'
<1>1. /\ transfer[d] = "put" /\ transfer'[d] = "get" /\ Equal(d, "SEND")
      /\ ~Equal(d, "SEND")' /\ sendMbx'[d] = ptSendPkt[d]
      /\ UNCHANGED <<recvMbx, ptSendPkt, ptRecvPkt, notTransfer>>
  BY PutValues
<1>2. UNCHANGED <<pc, lRet, ptSendPkt, ptRecvPkt, dl, recvMbx, rx, stored, out>>
  BY <1>1 DEF notTransfer, addVars, devVars
<1>3. \A c \in {"DATA", "DOWNLOAD"} :
         /\ (Sent(d, c)' <=> ptSendPkt[d].cmd = c) /\ (Due(d, c)' <=> Due(d, c))
         /\ (Shown(d, c)' <=> Shown(d, c)) /\ ~Sent(d, c)
  BY PutMoves
<1>4. /\ pc[d] \in DownloadSteps \cup {"classWait", "start"}
      /\ pc[d] = "classWait" => ptSendPkt[d].cmd = "IDENTIFY"
      /\ dl[d].state = "REQ" => ptSendPkt[d].cmd = "DOWNLOAD"
                                /\ ptSendPkt[d].type = FileType(dl[d].file)
      /\ dl[d].state = "DATA" => ptSendPkt[d].cmd = "DATA"
      /\ dl[d].state = "ABORT" => ptSendPkt[d].cmd = "ABORT"
      /\ dl[d].state # "ended"
  BY <1>1 DEF PartsInv, Where, Request
<1>5. ClassTrue(d)'
  BY <1>2 DEF PipeInv, ClassTrue
<1>6. Before(d)'
  <2>1. pc[d] \in ClassSteps \cup IdentSteps => pc[d] = "classWait"
    BY <1>4 DEF DownloadSteps, ClassSteps, BootSteps, IdentSteps
  <2>2. pc[d] = "classWait" => NoneOf(d, "DOWNLOAD") /\ NoneOf(d, "DATA")
    BY DEF PipeInv, Before, ClassSteps
  <2>3. pc[d] = "classWait" => NoneOf(d, "DOWNLOAD")' /\ NoneOf(d, "DATA")'
    BY <1>3, <1>4, <2>2 DEF NoneOf
  <2> QED
    BY <1>2, <2>1, <2>3 DEF Before
<1>7. Ident(d)'
  <2>1. ASSUME pc[d] = "identXfer", dl[d].state = "REQ"
        PROVE  NoneOf(d, "DATA")' /\ OneOf(d, "DOWNLOAD")'
    <3>1. NoneOf(d, "DATA") /\ NoneOf(d, "DOWNLOAD")
      BY <1>1, <2>1 DEF PipeInv, Ident
    <3> QED
      BY <1>3, <1>4, <2>1, <3>1 DEF NoneOf, OneOf
  <2>2. ASSUME pc[d] = "identXfer", dl[d].state = "DATA"
        PROVE  NoneOf(d, "DOWNLOAD")'
    <3>1. NoneOf(d, "DOWNLOAD")
      BY <2>2 DEF PipeInv, Ident
    <3> QED
      BY <1>3, <1>4, <2>2, <3>1 DEF NoneOf
  <2> QED
    BY <1>1, <1>2, <2>1, <2>2 DEF Ident
<1>8. Between(d)'
  <2>1. \/ pc[d] = "identXfer" /\ dl[d].state = "ABORT"
        \/ pc[d] = "fwXfer" /\ dl[d].state = "REQ"
        => DataFirst(d)'
    <3>1. \/ pc[d] = "identXfer" /\ dl[d].state = "ABORT"
          \/ pc[d] = "fwXfer" /\ dl[d].state = "REQ"
          => DataFirst(d) /\ ptSendPkt[d].cmd # "DATA"
      BY <1>1, <1>4 DEF PipeInv, Between
    <3> QED
      BY <1>3, <3>1 DEF DataFirst
  <2>2. pc[d] \notin FwSteps \cup {"identEnd"}
    BY <1>4 DEF DownloadSteps, FwSteps
  <2> QED
    BY <1>2, <1>4, <2>1, <2>2 DEF Between
<1>9. InDownload(d)'
  <2>1. ASSUME dl[d].state = "REQ"
        PROVE  Receives(d, FileType(dl[d].file))'
    BY <1>1, <1>2, <1>3, <1>4, <2>1 DEF Receives
  <2>2. ASSUME dl[d].state = "DATA"
        PROVE  Receives(d, FileType(dl[d].file))' /\ OnlyOwn(d)'
    <3>1. NoneOf(d, "DATA") /\ Receives(d, FileType(dl[d].file))
      BY <1>1, <2>2 DEF PipeInv, InDownload
    <3>2. ~Sent(d, "DOWNLOAD")' /\ ~Sent(d, "DOWNLOAD")
      BY <1>3, <1>4, <2>2
    <3>3. Receives(d, FileType(dl[d].file))'
      BY <1>2, <3>1, <3>2 DEF Receives
    <3>4. ~Due(d, "DATA")' /\ ~Shown(d, "DATA")'
      BY <1>3, <3>1 DEF NoneOf
    <3>5. OneOf(d, "DATA")'
      BY <3>4 DEF OneOf
    <3>6. OnlyOwn(d)'
      BY <1>1, <1>2, <3>4, <3>5 DEF OnlyOwn
    <3> QED
      BY <3>3, <3>6
  <2> QED
    BY <1>1, <1>2, <2>1, <2>2 DEF InDownload
<1>10. Done(d)'
  BY <1>2 DEF PipeInv, Done, HasFile
<1> QED
  BY <1>5, <1>6, <1>7, <1>8, <1>9, <1>10 DEF PipeInv

(* The thread gets a packet.                                               *)
LEMMA PipeGet ==
    ASSUME TypeOK, NEW d \in Devices, PartsInv(d), PipeInv(d), GetPacketBL(d)
    PROVE  PipeInv(d)'
<1>1. /\ transfer[d] = "get" /\ transfer'[d] \in {"OK", "get", "TRANSFER_TIMEOUT"}
      /\ transfer'[d] = "OK" => Answers(recvMbx[d], ptSendPkt[d])
      /\ ~Equal(d, "RECV") /\ (Equal(d, "SEND")' <=> Equal(d, "SEND"))
      /\ ptRecvPkt'[d] = recvMbx[d]
      /\ UNCHANGED <<sendMbx, recvMbx, ptSendPkt, notTransfer>>
  BY GetValues
<1>2. UNCHANGED <<pc, lRet, ptSendPkt, dl, sendMbx, recvMbx, rx, stored, out>>
  BY <1>1 DEF notTransfer, addVars, devVars
<1>3. \A c \in {"DATA", "DOWNLOAD"} :
         /\ (Sent(d, c)' <=> Sent(d, c)) /\ (Due(d, c)' <=> Due(d, c)) /\ ~Shown(d, c)'
         /\ (recvMbx[d].cmd = c <=> Shown(d, c))
  BY GetMoves
<1>4. \A c \in {"DATA", "DOWNLOAD"} :
         /\ NoneOf(d, c) => NoneOf(d, c)'
         /\ OneOf(d, c) => OneOf(d, c)'
         /\ OneOf(d, c) /\ Shown(d, c) => NoneOf(d, c)'
  BY <1>3 DEF NoneOf, OneOf
<1>5. DataFirst(d) => DataFirst(d)'
  BY <1>3 DEF DataFirst
<1>6. Ends(d)' <=> Ends(d)
  BY <1>2 DEF Ends, HasFile
<1>7. ClassTrue(d)'
  BY <1>1, <1>2 DEF PipeInv, ClassTrue
<1>8. /\ transfer'[d] = "OK" /\ dl[d].state = "REQ" => Shown(d, "DOWNLOAD")
      /\ transfer'[d] = "OK" /\ dl[d].state = "DATA" => Shown(d, "DATA")
  BY <1>1, <1>3 DEF PartsInv, Request, Answers
<1>9. Before(d)'
  BY <1>2, <1>4 DEF PipeInv, Before
<1>10. Ident(d)'
  <2>1. ASSUME pc[d] = "identXfer", dl[d].state = "REQ"
        PROVE  /\ NoneOf(d, "DATA")' /\ OneOf(d, "DOWNLOAD")'
               /\ transfer'[d] = "OK" => NoneOf(d, "DOWNLOAD")'
    <3>1. NoneOf(d, "DATA") /\ OneOf(d, "DOWNLOAD")
      BY <2>1 DEF PipeInv, Ident
    <3> QED
      BY <1>4, <1>8, <2>1, <3>1
  <2>2. pc[d] = "identXfer" /\ dl[d].state = "DATA" => NoneOf(d, "DOWNLOAD")'
    BY <1>4 DEF PipeInv, Ident
  <2> QED
    BY <1>1, <1>2, <2>1, <2>2 DEF Ident
<1>11. Between(d)'
  BY <1>1, <1>2, <1>5 DEF PipeInv, Between
<1>12. OnlyOwn(d) => OnlyOwn(d)'
  <2>1. OneOf(d, "DATA") => OneOf(d, "DATA")'
    BY <1>4
  <2>2. ~Shown(d, "DATA")' /\ (Due(d, "DATA")' <=> Due(d, "DATA"))
    BY <1>3
  <2> QED
    BY <1>1, <1>2, <1>6, <2>1, <2>2 DEF OnlyOwn
<1>13. InDownload(d)'
  <2>1. ASSUME dl[d].state = "REQ", transfer'[d] = "OK"
        PROVE  NoneOf(d, "DATA")'
    <3>1. pc[d] \in {"identXfer", "fwXfer"}
      BY <2>1 DEF PartsInv, Where, DownloadSteps
    <3>2. CASE pc[d] = "identXfer"
      BY <1>4, <2>1, <3>2 DEF PipeInv, Ident
    <3>3. CASE pc[d] = "fwXfer"
      <4>1. DataFirst(d)
        BY <1>1, <2>1, <3>3 DEF PipeInv, Between
      <4>2. ~Sent(d, "DATA") /\ ~Due(d, "DATA")
        BY <1>8, <2>1, <4>1 DEF DataFirst
      <4> QED
        BY <1>3, <4>2 DEF NoneOf
    <3> QED
      BY <3>1, <3>2, <3>3
  <2>2. ASSUME dl[d].state = "DATA"
        PROVE  /\ OnlyOwn(d)'
               /\ transfer'[d] = "OK" =>
                     NoneOf(d, "DATA")' /\ (ptRecvPkt'[d].sta = "OK" => Ends(d)')
    <3>1. OnlyOwn(d)
      BY <1>1, <2>2 DEF PipeInv, InDownload
    <3>2. ASSUME transfer'[d] = "OK"
          PROVE  NoneOf(d, "DATA")' /\ (ptRecvPkt'[d].sta = "OK" => Ends(d)')
      <4>1. Shown(d, "DATA") /\ OneOf(d, "DATA")
        BY <1>8, <2>2, <3>1, <3>2 DEF OnlyOwn
      <4>2. NoneOf(d, "DATA")'
        BY <1>4, <4>1
      <4>3. ptRecvPkt'[d].sta = "OK" => Ends(d)
        BY <1>1, <3>1, <4>1 DEF OnlyOwn
      <4> QED
        BY <1>6, <4>2, <4>3
    <3> QED
      BY <1>12, <3>1, <3>2
  <2>3. \/ dl[d].state = "REQ"
        \/ dl[d].state = "DATA"
        => Receives(d, FileType(dl[d].file))'
    BY <1>1, <1>2 DEF PipeInv, InDownload, Receives, Sent
  <2> QED
    BY <1>1, <1>2, <2>1, <2>2, <2>3 DEF InDownload
<1>14. Done(d)'
  BY <1>2 DEF PipeInv, Done, HasFile
<1> QED
  BY <1>7, <1>9, <1>10, <1>11, <1>13, <1>14 DEF PipeInv

(* A step of DownloadFile.                                                 *)
LEMMA PipeDownload ==
    ASSUME TypeOK, NEW d \in Devices, PartsInv(d), PipeInv(d), Download(d)
    PROVE  PipeInv(d)'
<1>1. /\ UNCHANGED notDownload /\ dl'[d].file = dl[d].file /\ Returned(d)
      /\ ptRecvPkt'[d] = ptRecvPkt[d]
  BY DownloadValues
<1>2. UNCHANGED <<pc, sendMbx, recvMbx, hostBits, netxBits, rx, stored, out>>
  BY <1>1 DEF notDownload, mbxVars, devVars
<1>3. Kept(d)
  BY <1>2 DEF Kept
<1>4. /\ \A c : (NoneOf(d, c)' <=> NoneOf(d, c)) /\ (OneOf(d, c)' <=> OneOf(d, c))
      /\ DataFirst(d)' <=> DataFirst(d)
      /\ \A type : Receives(d, type)' <=> Receives(d, type)
      /\ \A file : HasFile(d, file)' <=> HasFile(d, file)
  BY <1>3, KeptMoves
<1>5. pc[d] \in DownloadSteps
  BY DEF PartsInv, Where, Download, DownloadReqDone, DownloadDataDone, DownloadAbortDone
<1>6. ClassTrue(d)'
  BY <1>1, <1>2 DEF PipeInv, ClassTrue
<1>7. Before(d)'
  BY <1>2, <1>5 DEF Before, DownloadSteps, ClassSteps, BootSteps, IdentSteps
<1>8. pc[d] \notin FwSteps \cup {"identEnd"}
  BY <1>5 DEF DownloadSteps, FwSteps
<1>9. NoneOf(d, "DATA") \/ NoneOf(d, "DOWNLOAD") => DataFirst(d)
  BY DEF NoneOf, DataFirst
<1>10. CASE /\ dl[d].state \in {"REQ", "DATA"} /\ dl'[d].state = "ABORT"
            /\ lRet'[d] # "OK"
  <2>1. Ident(d)'
    BY <1>10 DEF Ident
  <2>2. pc[d] = "identXfer" => DataFirst(d)
    BY <1>9, <1>10 DEF PipeInv, Ident
  <2>3. Between(d)'
    BY <1>2, <1>4, <1>8, <1>10, <2>2 DEF Between
  <2>4. InDownload(d)' /\ Done(d)'
    BY <1>10 DEF InDownload, Done
  <2> QED
    BY <1>6, <1>7, <2>1, <2>3, <2>4 DEF PipeInv
<1>11. CASE /\ dl[d].state \in {"REQ", "DATA"} /\ transfer[d] = "OK"
            /\ dl'[d].state = "DATA" /\ transfer'[d] = "put"
  <2>1. pc[d] = "identXfer" => NoneOf(d, "DOWNLOAD")
    BY <1>11 DEF PipeInv, Ident
  <2>2. Ident(d)'
    BY <1>2, <1>4, <1>11, <2>1 DEF Ident
  <2>3. Between(d)'
    BY <1>2, <1>8, <1>11 DEF Between
  <2>4. NoneOf(d, "DATA") /\ Receives(d, FileType(dl[d].file))
    BY <1>11 DEF PipeInv, InDownload
  <2>5. NoneOf(d, "DATA")' /\ Receives(d, FileType(dl[d].file))'
    BY <1>1, <1>2, <1>4, <2>4 DEF Receives, Sent, Equal
  <2>6. InDownload(d)' /\ Done(d)'
    BY <1>11, <2>5 DEF InDownload, Done
  <2> QED
    BY <1>6, <1>7, <2>2, <2>3, <2>6 DEF PipeInv
<1>12. CASE /\ dl[d].state = "DATA" /\ transfer[d] = "OK" /\ ptRecvPkt[d].sta = "OK"
            /\ dl[d].seq \in LastOne /\ dl'[d].state = "ended"
  <2>1. pc[d] = "identXfer" => DataFirst(d)
    BY <1>9, <1>12 DEF PipeInv, Ident
  <2>2. Ident(d)' /\ Between(d)'
    BY <1>2, <1>4, <1>8, <1>12, <2>1 DEF Ident, Between
  <2>3. HasFile(d, dl[d].file)
    BY <1>12 DEF PipeInv, InDownload, Ends
  <2>4. InDownload(d)' /\ Done(d)'
    BY <1>1, <1>2, <1>12, <2>3 DEF InDownload, Done, HasFile
  <2> QED
    BY <1>6, <1>7, <2>2, <2>4 DEF PipeInv
<1>13. CASE dl[d].state = "ABORT" /\ dl'[d].state = "ended" /\ lRet'[d] = lRet[d]
  <2>1. pc[d] = "identXfer" => DataFirst(d)
    BY <1>13 DEF PipeInv, Between
  <2>2. Ident(d)' /\ Between(d)'
    BY <1>2, <1>4, <1>8, <1>13, <2>1 DEF Ident, Between
  <2>3. InDownload(d)' /\ Done(d)'
    BY <1>13 DEF PipeInv, InDownload, Done
  <2> QED
    BY <1>6, <1>7, <2>2, <2>3 DEF PipeInv
<1> QED
  BY <1>10, <1>11, <1>12, <1>13, DownloadValues

(* The other steps of the thread.                                          *)
LEMMA PipeMoves ==
    ASSUME TypeOK, NEW d \in Devices, PartsInv(d), PipeInv(d), Moves(d)
    PROVE  PipeInv(d)'
<1>1. SameDevice(d) /\ (Quiet(d) \/ AsksClass(d) \/ BeginsDownload(d) \/ StartsFirmware(d))
  BY MoveValues
<1>2. Kept(d) /\ ptRecvPkt'[d] = ptRecvPkt[d]
  BY <1>1 DEF SameDevice, Kept
<1>3. /\ \A c : (NoneOf(d, c)' <=> NoneOf(d, c)) /\ (OneOf(d, c)' <=> OneOf(d, c))
      /\ DataFirst(d)' <=> DataFirst(d)
  BY <1>2, KeptMoves
<1>4. ClassTrue(d)'
  BY <1>2 DEF PipeInv, ClassTrue, Kept
<1>5. NoneOf(d, "DOWNLOAD") => DataFirst(d)
  BY DEF NoneOf, DataFirst
<1>6. CASE Quiet(d)
  <2>1. Done(d)' /\ InDownload(d)'
    BY <1>6 DEF Quiet, Done, InDownload
  <2>2. pc'[d] # "identXfer" /\ pc'[d] # "fwXfer"
    BY <1>6 DEF Quiet, AtRest, ClassSteps, BootSteps, IdentSteps, FwSteps
  <2>3. pc'[d] \in ClassSteps \cup IdentSteps => pc[d] \in ClassSteps \cup IdentSteps
    BY <1>6 DEF Quiet, AtRest, ClassSteps, BootSteps, IdentSteps, FwSteps
  <2>4. Before(d)'
    BY <1>3, <2>3 DEF PipeInv, Before
  <2>5. pc'[d] \in FwSteps \cup {"identEnd"} =>
           \/ pc[d] \in ClassSteps \cup IdentSteps
           \/ pc[d] \in FwSteps \cup {"identEnd"}
           \/ pc[d] = "identXfer" /\ dl[d].state = "ended"
    BY <1>6 DEF Quiet, AtRest, ClassSteps, BootSteps, IdentSteps, FwSteps
  <2>6. pc'[d] \in FwSteps \cup {"identEnd"} => DataFirst(d)
    BY <1>5, <2>5 DEF PipeInv, Before, Between
  <2>7. Between(d)' /\ Ident(d)'
    BY <1>3, <2>2, <2>6 DEF Between, Ident
  <2> QED
    BY <1>4, <2>1, <2>4, <2>7 DEF PipeInv
<1>7. CASE AsksClass(d)
  <2>1. pc[d] \in ClassSteps /\ pc'[d] \notin FwSteps \cup {"identEnd", "identXfer", "fwXfer"}
    BY <1>7 DEF AsksClass, ClassSteps, FwSteps
  <2>2. dl'[d].state = "none"
    BY <1>7 DEF AsksClass, PartsInv, Where, DownloadSteps
  <2>3. Before(d)'
    BY <1>3, <2>1 DEF PipeInv, Before
  <2>4. Ident(d)' /\ Between(d)' /\ InDownload(d)' /\ Done(d)'
    BY <2>1, <2>2 DEF Ident, Between, InDownload, Done
  <2> QED
    BY <1>4, <2>3, <2>4 DEF PipeInv
<1>8. CASE BeginsDownload(d)
  <2>1. dl'[d].state = "REQ" /\ transfer'[d] = "put"
    BY <1>8 DEF BeginsDownload
  <2>2. InDownload(d)' /\ Done(d)'
    BY <2>1 DEF InDownload, Done
  <2>3. CASE pc[d] = "identSend" /\ pc'[d] = "identXfer"
    <3>1. NoneOf(d, "DOWNLOAD") /\ NoneOf(d, "DATA")
      BY <2>3 DEF PipeInv, Before, IdentSteps
    <3>2. OneOf(d, "DOWNLOAD")
      BY <3>1 DEF NoneOf, OneOf
    <3>3. Ident(d)'
      BY <1>3, <2>1, <3>1, <3>2 DEF Ident
    <3>4. Before(d)' /\ Between(d)'
      BY <2>1, <2>3 DEF Before, Between, ClassSteps, BootSteps, IdentSteps, FwSteps
    <3> QED
      BY <1>4, <2>2, <3>3, <3>4 DEF PipeInv
  <2>4. CASE pc[d] = "fwSend" /\ pc'[d] = "fwXfer"
    <3>1. DataFirst(d)
      BY <2>4 DEF PipeInv, Between, FwSteps
    <3>2. Between(d)'
      BY <1>3, <3>1 DEF Between
    <3>3. Before(d)' /\ Ident(d)'
      BY <2>4 DEF Before, Ident, ClassSteps, BootSteps, IdentSteps
    <3> QED
      BY <1>4, <2>2, <3>2, <3>3 DEF PipeInv
  <2> QED
    BY <1>8, <2>3, <2>4 DEF BeginsDownload
<1>9. CASE StartsFirmware(d)
  <2>1. Done(d)' /\ InDownload(d)'
    BY <1>9 DEF StartsFirmware, Done, InDownload
  <2>2. Before(d)' /\ Ident(d)' /\ Between(d)'
    BY <1>9 DEF StartsFirmware, Before, Ident, Between, ClassSteps, BootSteps, IdentSteps, FwSteps
  <2> QED
    BY <1>4, <2>1, <2>2 DEF PipeInv
<1> QED
  BY <1>1, <1>6, <1>7, <1>8, <1>9

(* The reset of the device.                                                *)
LEMMA PipeReset ==
    ASSUME TypeOK, NEW d \in Devices, PartsInv(d), PipeInv(d), NetxReset(d)
    PROVE  PipeInv(d)'
<1>1. UNCHANGED xferVars /\ pc[d] = "reset" /\ pc'[d] \in {"failed", "bootName"}
  BY DEF NetxReset, Fail, Goto, TypeOK
<1>2. /\ out'[d] = NoPacket /\ recvMbx'[d] = NoPacket
      /\ hostBits'[d] = {} /\ netxBits'[d] = {}
  BY DEF NetxReset, TypeOK
<1>3. dl'[d].state = "none" /\ ptRecvPkt'[d] = ptRecvPkt[d]
  BY <1>1 DEF xferVars, PartsInv, Where, DownloadSteps
<1>4. Equal(d, "SEND")' /\ Equal(d, "RECV")'
  BY <1>2 DEF Equal
<1>5. NoPacket.cmd = "none"
  BY DEF NoPacket
<1>6. NoneOf(d, "DOWNLOAD")' /\ NoneOf(d, "DATA")'
  BY <1>2, <1>4, <1>5 DEF NoneOf, Sent, Due, Shown
<1>7. ClassTrue(d)'
  <2>1. ClassTrue(d)
    BY DEF PipeInv
  <2>2. \A p \in {out'[d], recvMbx'[d], ptRecvPkt'[d]} :
           p.cmd = "IDENTIFY" /\ p.sta = "OK" => p.class = Class[d]
    BY <1>2, <1>3, <1>5, <2>1 DEF ClassTrue
  <2> QED
    BY <2>2 DEF ClassTrue
<1>8. Before(d)'
  BY <1>6 DEF Before
<1>9. Ident(d)' /\ InDownload(d)' /\ Done(d)'
  BY <1>3 DEF Ident, InDownload, Done
<1>10. Between(d)'
  BY <1>1, <1>3 DEF Between, FwSteps
<1> QED
  BY <1>7, <1>8, <1>9, <1>10 DEF PipeInv

LEMMA PipeStep ==
    ASSUME TypeOK, NEW d \in Devices, PartsInv(d), PipeInv(d), Untouched(d) \/ Steps(d)
    PROVE  PipeInv(d)'
<1>1. CASE Untouched(d)
  <2>1. /\ Kept(d) /\ pc'[d] = pc[d] /\ lRet'[d] = lRet[d] /\ dl'[d] = dl[d]
        /\ ptRecvPkt'[d] = ptRecvPkt[d] /\ ptSendPkt'[d] = ptSendPkt[d]
        /\ transfer'[d] = transfer[d]
    BY <1>1 DEF Untouched, Kept
  <2> QED
    BY <2>1, PipeKept
<1>2. CASE Come(d)
  <2>1. /\ Kept(d) /\ pc'[d] = pc[d] /\ lRet'[d] = lRet[d] /\ dl'[d] = dl[d]
        /\ ptRecvPkt'[d] = ptRecvPkt[d] /\ ptSendPkt'[d] = ptSendPkt[d]
        /\ transfer'[d] = transfer[d]
    BY <1>2 DEF Come, Kept, mbxVars, addVars, xferVars
  <2> QED
    BY <2>1, PipeKept
<1>3. CASE PutTimeout(d) \/ GetTimeout(d)
  <2>1. /\ Kept(d) /\ pc'[d] = pc[d] /\ lRet'[d] = lRet[d] /\ dl'[d] = dl[d]
        /\ ptRecvPkt'[d] = ptRecvPkt[d] /\ ptSendPkt'[d] = ptSendPkt[d]
    BY <1>3 DEF PutTimeout, GetTimeout, Kept, mbxVars, notTransfer, addVars, devVars
  <2>2. transfer'[d] \in {"MAILBOX_FULL", "GET_NO_PACKET"}
    BY <1>3 DEF PutTimeout, GetTimeout, Return, TypeOK
  <2> QED
    BY <2>1, <2>2, PipeKept
<1> QED
  BY <1>1, <1>2, <1>3, PipeTake, PipeAnswer, PipePut, PipeGet, PipeDownload, PipeMoves,
     PipeReset DEF Steps, Device, Caller, TransferPacket, Moves

LEMMA InitPipe == Init => \A d \in Devices : PipeInv(d)
<1> SUFFICES ASSUME Init, NEW d \in Devices PROVE PipeInv(d)
  OBVIOUS
<1>1. /\ pc[d] = "idle" /\ dl[d].state = "none" /\ out[d].cmd = "none"
      /\ recvMbx[d].cmd = "none" /\ ptRecvPkt[d].cmd = "none"
  BY DEF Init, IdleDownload, NoPacket
<1>2. ClassTrue(d)
  BY <1>1 DEF ClassTrue
<1>3. Before(d) /\ Ident(d) /\ Between(d) /\ InDownload(d) /\ Done(d)
  BY <1>1 DEF Before, Ident, Between, InDownload, Done, ClassSteps, BootSteps, IdentSteps,
              FwSteps
<1> QED
  BY <1>2, <1>3 DEF PipeInv

LEMMA PipeInvariant == Spec => [](\A d \in Devices : PartsInv(d) /\ PipeInv(d))
<1>1. /\ TypeOK /\ \A d \in Devices : PartsInv(d)
      /\ \A d \in Devices : PipeInv(d)
      /\ [Next]_vars
      => (\A d \in Devices : PipeInv(d))'
  BY StepCases, PipeStep
<1>2. (\A d \in Devices : PartsInv(d)) /\ (\A d \in Devices : PipeInv(d))
        => \A d \in Devices : PartsInv(d) /\ PipeInv(d)
  OBVIOUS
<1>3. QED
  BY <1>1, <1>2, InitPipe, PartsInvariant, PTL DEF Spec

-----------------------------------------------------------------------------
(* The files of a device.                                                  *)

LEMMA FileTypeIs ==
    /\ \A c : FileType(FirmwareFile(c)) = "module"
    /\ \A d : FileType(IdentFile(d)) = "licence"
BY DEF FileType, FirmwareFile, IdentFile

LEMMA NotBoot == \A d : IdentFile(d) # BootloaderFile /\ FirmwareFile(d) # BootloaderFile
BY DEF FirmwareFile, IdentFile, BootloaderFile

(* A device that is not brought up leaves the globals alone.               *)
LEMMA RestStep ==
    ASSUME TypeOK, NEW e \in Devices, PartsInv(e), ~Busy(e), Steps(e)
    PROVE  UNCHANGED osVars
<1>1. pc[e] \in AtRest
  BY DEF Busy
<1>2. pc[e] \notin DownloadSteps \cup {"classWait", "start"}
  BY <1>1 DEF AtRest, DownloadSteps
<1>3. transfer[e] = "none" /\ dl[e].state = "none"
  BY <1>2 DEF PartsInv, Where
<1>4. ~TransferPacket(e)
  BY <1>3 DEF TransferPacket, PutPacketBL, PutTimeout, GetPacketBL, GetTimeout
<1>5. ~Download(e)
  BY <1>3 DEF Download, DownloadReqDone, DownloadDataDone, DownloadAbortDone
<1>6. ~File(e)
  BY <1>1 DEF AtRest, File, UserGetFile, UserGetClass, OsFileOpen, OsFileTake, NameSteps
<1>7. /\ ~FlashBased(e) /\ ~NetxReset(e) /\ ~BootStart(e) /\ ~BootWait(e)
      /\ ~RequestClass(e) /\ ~ClassDone(e) /\ ~SendFile(e) /\ ~IdentSent(e) /\ ~IdentEnd(e)
      /\ ~FirmwareSent(e) /\ ~StartDone(e) /\ ~Cookie(e)
  BY <1>1 DEF AtRest, FlashBased, NetxReset, BootStart, BootWait, RequestClass, ClassDone,
              SendFile, IdentSent, IdentEnd, FirmwareSent, StartDone, Cookie
<1>8. ~Caller(e)
  BY <1>4, <1>5, <1>6, <1>7 DEF Caller
<1>9. Device(e) \/ Add(e) \/ IdentUpdate(e)
  BY <1>8 DEF Steps
<1> QED
  BY <1>9 DEF Device, BslTake, BslAnswer, Come, Add, IdentUpdate

LEMMA OneStepCases ==
    ASSUME TypeOK, \A e \in Devices : PartsInv(e), OneAtATime, [Next]_vars, NEW d \in Devices
    PROVE  \/ Untouched(d) /\ (Busy(d) => UNCHANGED osVars)
           \/ Steps(d)
<1>1. CASE Next
  <2>1. PICK e \in Devices : Steps(e)
    BY <1>1 DEF Next, Steps
  <2>2. CASE e = d
    BY <2>1, <2>2
  <2>3. CASE e # d
    <3>1. Untouched(d)
      BY <2>1, <2>3, OthersUntouched
    <3>2. Busy(d) => ~Busy(e)
      BY <2>3 DEF OneAtATime
    <3> QED
      BY <2>1, <3>1, <3>2, RestStep
  <2> QED
    BY <2>2, <2>3
<1>2. CASE UNCHANGED vars
  BY <1>2, StepCases DEF Untouched, vars, addVars, xferVars, fwVars, osVars, mbxVars, devVars
<1> QED
  BY <1>1, <1>2

(* Complete files stay until the reset.                                    *)
LEMMA FilesStay ==
    ASSUME TypeOK, NEW d \in Devices, PartsInv(d), Untouched(d) \/ Steps(d), ~NetxReset(d),
           NEW f
    PROVE  HasFile(d, f) => HasFile(d, f)'
<1>1. stored[d] \subseteq stored'[d]
  <2>1. CASE Untouched(d)
    BY <2>1 DEF Untouched
  <2>2. CASE Device(d)
    BY <2>2, TakeValues DEF Device, BslAnswer, Come
  <2>3. CASE TransferPacket(d)
    BY <2>3, TransferPacketValues DEF notTransfer, devVars
  <2>4. CASE Download(d)
    BY <2>4, DownloadValues DEF notDownload, devVars
  <2>5. CASE Moves(d)
    BY <2>5, MoveValues DEF SameDevice
  <2> QED
    BY <2>1, <2>2, <2>3, <2>4, <2>5 DEF Steps, Caller, Moves
<1> QED
  BY <1>1 DEF HasFile

FileSteps == IdentSteps \cup FwSteps \cup {"identXfer", "identEnd", "fwXfer"}

LEMMA NoFileStep ==
    ASSUME NEW d \in Devices, pc'[d] \notin FileSteps
    PROVE  Files(d)'
BY DEF Files, FileSteps, IdentSteps, FwSteps

(* Names, open files and downloads are those of the device.                *)
LEMMA FilesKept ==
    ASSUME NEW d \in Devices, Files(d), pc'[d] = pc[d], usDeviceClass'[d] = usDeviceClass[d],
           name'[d] = name[d], hFile'[d] = hFile[d], dl'[d].file = dl[d].file,
           Busy(d) => UNCHANGED osVars
    PROVE  Files(d)'
<1>1. CASE Busy(d)
  BY <1>1 DEF Files, osVars, fwVars
<1>2. CASE ~Busy(d)
  <2>1. pc'[d] \notin FileSteps
    BY <1>2 DEF Busy, AtRest, FileSteps, IdentSteps, FwSteps
  <2> QED
    BY <2>1, NoFileStep
<1> QED
  BY <1>1, <1>2

LEMMA FileActions ==
    ASSUME TypeOK, NEW d \in Devices, Files(d), File(d)
    PROVE  Files(d)'
<1>1. \A c : Goto(d, c) => pc'[d] = c
  BY DEF Goto, TypeOK
<1>2. UNCHANGED usDeviceClass
  BY DEF File, UserGetFile, UserGetClass, OsFileOpen, OsFileTake, notFile
<1>3. CASE UserGetFile(d)
  <2>1. pc'[d] = After(pc[d]) /\ pc[d] \in NameSteps /\ s_pdeviceinstance' = d
    BY <1>1, <1>3 DEF UserGetFile
  <2>2. pc[d] = "identName" => name'[d] = IdentFile(d)
    BY <1>3 DEF UserGetFile, TypeOK
  <2>3. CASE pc[d] = "bootName"
    BY <2>1, <2>3, NoFileStep DEF After, FileSteps, IdentSteps, FwSteps
  <2>4. CASE pc[d] = "identName"
    <3>1. pc'[d] = "identOpen"
      BY <2>1, <2>4 DEF After
    <3>2. usDeviceClass[d] = Class[d]
      BY <2>4 DEF Files, IdentSteps
    <3> QED
      BY <1>2, <2>2, <2>4, <3>1, <3>2 DEF Files
  <2>5. CASE pc[d] = "fwName"
    <3>1. pc'[d] = "fwClass"
      BY <2>1, <2>5 DEF After
    <3>2. usDeviceClass[d] = Class[d]
      BY <2>5 DEF Files, FwSteps
    <3> QED
      BY <1>2, <2>1, <3>1, <3>2 DEF Files
  <2> QED
    BY <2>1, <2>3, <2>4, <2>5 DEF NameSteps
<1>4. CASE UserGetClass(d)
  <2>1. pc[d] = "fwClass" /\ s_pdeviceinstance = d /\ usDeviceClass[d] = Class[d]
    BY <1>4 DEF UserGetClass, Files, FwSteps
  <2>2. CASE pc'[d] = "fwOpen"
    <3>1. name' = [name EXCEPT ![d] = FirmwareFile(usDeviceClass[s_pdeviceinstance])]
      BY <1>1, <1>4, <2>2 DEF UserGetClass
    <3>2. name'[d] = FirmwareFile(Class[d])
      BY <2>1, <3>1 DEF TypeOK
    <3> QED
      BY <1>2, <2>1, <2>2, <3>2 DEF Files
  <2>3. CASE pc'[d] = "oops"
    BY <2>3, NoFileStep DEF FileSteps, IdentSteps, FwSteps
  <2> QED
    BY <1>1, <1>4, <2>2, <2>3 DEF UserGetClass
<1>5. CASE OsFileOpen(d)
  <2>1. pc[d] \in {"bootOpen", "identOpen", "fwOpen"}
    BY <1>5 DEF OsFileOpen
  <2>2. CASE pc'[d] = OpenFailed(pc[d])
    <3>1. (pc[d] = "identOpen" /\ pc'[d] = "identEnd") \/ pc'[d] = "failed"
      BY <2>1, <2>2 DEF OpenFailed
    <3>2. CASE pc[d] = "identOpen" /\ pc'[d] = "identEnd"
      BY <1>2, <3>2 DEF Files, IdentSteps
    <3>3. CASE pc'[d] = "failed"
      BY <3>3, NoFileStep DEF FileSteps, IdentSteps, FwSteps
    <3> QED
      BY <3>1, <3>2, <3>3
  <2>3. CASE /\ pc'[d] = After(pc[d])
             /\ IF name[d] = BootloaderFile
                THEN ptBootLoader' = name[d] /\ UNCHANGED ptFirmware
                ELSE ptFirmware' = name[d] /\ UNCHANGED ptBootLoader
    <3>1. CASE pc[d] = "bootOpen"
      BY <2>3, <3>1, NoFileStep DEF After, FileSteps, IdentSteps, FwSteps
    <3>2. CASE pc[d] = "identOpen"
      <4>1. name[d] = IdentFile(d) /\ usDeviceClass[d] = Class[d]
        BY <3>2 DEF Files, IdentSteps
      <4>2. pc'[d] = "identTake" /\ ptFirmware' = IdentFile(d)
        BY <2>3, <3>2, <4>1, NotBoot DEF After
      <4> QED
        BY <1>2, <4>1, <4>2 DEF Files
    <3>3. CASE pc[d] = "fwOpen"
      <4>1. name[d] = FirmwareFile(Class[d]) /\ usDeviceClass[d] = Class[d]
        BY <3>3 DEF Files, FwSteps
      <4>2. pc'[d] = "fwTake" /\ ptFirmware' = FirmwareFile(Class[d])
        BY <2>3, <3>3, <4>1, NotBoot DEF After
      <4> QED
        BY <1>2, <4>1, <4>2 DEF Files
    <3> QED
      BY <2>1, <3>1, <3>2, <3>3
  <2> QED
    BY <1>1, <1>5, <2>2, <2>3 DEF OsFileOpen
<1>6. CASE OsFileTake(d)
  <2>1. pc[d] \in {"bootTake", "identTake", "fwTake"} /\ pc'[d] = After(pc[d])
    BY <1>1, <1>6 DEF OsFileTake
  <2>2. pc[d] # "bootTake" => hFile'[d] = ptFirmware
    BY <1>6 DEF OsFileTake, TypeOK
  <2>3. CASE pc[d] = "bootTake"
    BY <2>1, <2>3, NoFileStep DEF After, FileSteps, IdentSteps, FwSteps
  <2>4. CASE pc[d] = "identTake"
    <3>1. pc'[d] = "identSend" /\ ptFirmware = IdentFile(d) /\ usDeviceClass[d] = Class[d]
      BY <2>1, <2>4 DEF After, Files, IdentSteps
    <3> QED
      BY <1>2, <2>2, <2>4, <3>1 DEF Files
  <2>5. CASE pc[d] = "fwTake"
    <3>1. /\ pc'[d] = "fwSend" /\ ptFirmware = FirmwareFile(Class[d])
          /\ usDeviceClass[d] = Class[d]
      BY <2>1, <2>5 DEF After, Files, FwSteps
    <3> QED
      BY <1>2, <2>2, <2>5, <3>1 DEF Files
  <2> QED
    BY <2>1, <2>3, <2>4, <2>5
<1> QED
  BY <1>3, <1>4, <1>5, <1>6 DEF File

LEMMA FilesStep ==
    ASSUME TypeOK, NEW d \in Devices, PartsInv(d), PipeInv(d), Files(d),
           \/ Untouched(d) /\ (Busy(d) => UNCHANGED osVars)
           \/ Steps(d)
    PROVE  Files(d)'
<1>1. \A c : Goto(d, c) => pc'[d] = c
  BY DEF Goto, TypeOK
<1>2. \A c : Fail(d, c) => pc'[d] = "failed"
  BY <1>1 DEF Fail
<1>3. CASE Untouched(d) /\ (Busy(d) => UNCHANGED osVars)
  BY <1>3, FilesKept DEF Untouched
<1>4. CASE Device(d)
  BY <1>4, FilesKept DEF Device, BslTake, BslAnswer, Come, addVars, xferVars
<1>5. CASE TransferPacket(d)
  BY <1>5, TransferPacketValues, FilesKept DEF notTransfer, addVars
<1>6. CASE Download(d)
  BY <1>6, DownloadValues, FilesKept DEF notDownload
<1>7. CASE File(d)
  BY <1>7, FileActions
<1>8. CASE \/ Add(d) \/ IdentUpdate(d) \/ FlashBased(d) \/ NetxReset(d) \/ BootStart(d)
           \/ BootWait(d) \/ RequestClass(d) \/ FirmwareSent(d) \/ StartDone(d) \/ Cookie(d)
  <2>1. pc'[d] \in {"reset", "flash", "added", "failed", "bootName", "bootWait", "class",
                    "classWait", "start", "cookie"}
    BY <1>1, <1>2, <1>8 DEF Add, IdentUpdate, FlashBased, NetxReset, BootStart, BootWait,
       RequestClass, FirmwareSent, StartDone, Cookie
  <2>2. pc'[d] \notin FileSteps
    BY <2>1 DEF FileSteps, IdentSteps, FwSteps
  <2> QED
    BY <2>2, NoFileStep
<1>9. CASE ClassDone(d)
  <2>1. CASE Status(d) = "OK"
    <3>1. pc[d] = "classWait" /\ Returned(d)
      BY <1>9 DEF ClassDone
    <3>2. transfer[d] = "OK" /\ ptRecvPkt[d].sta = "OK"
      BY <2>1, <3>1, StatusIs
    <3>3. ptRecvPkt[d].cmd = "IDENTIFY"
      BY <3>1, <3>2 DEF PartsInv, Request, Answers
    <3>4. ptRecvPkt[d].class = Class[d]
      BY <3>2, <3>3 DEF PipeInv, ClassTrue
    <3>5. usDeviceClass'[d] = Class[d] /\ pc'[d] \in {"identName", "identEnd"}
      BY <1>1, <1>9, <2>1, <3>4 DEF ClassDone, TypeOK
    <3> QED
      BY <3>5 DEF Files
  <2>2. CASE Status(d) # "OK"
    <3>1. pc'[d] = "failed"
      BY <1>2, <1>9, <2>2 DEF ClassDone
    <3> QED
      BY <3>1, NoFileStep DEF FileSteps, IdentSteps, FwSteps
  <2> QED
    BY <2>1, <2>2
<1>10. CASE SendFile(d)
  <2>1. UNCHANGED usDeviceClass /\ pc[d] \in {"identSend", "fwSend"}
    BY <1>10 DEF SendFile
  <2>2. /\ usDeviceClass[d] = Class[d]
        /\ pc[d] = "identSend" => hFile[d] = IdentFile(d)
        /\ pc[d] = "fwSend" => hFile[d] = FirmwareFile(Class[d])
    BY <2>1 DEF Files, IdentSteps, FwSteps
  <2>3. CASE DownloadFile(d, hFile[d])
             /\ Goto(d, IF pc[d] = "identSend" THEN "identXfer" ELSE "fwXfer")
    <3>1. dl'[d].file = hFile[d]
      BY <2>3 DEF DownloadFile, TypeOK, IdleDownload
    <3>2. pc'[d] = IF pc[d] = "identSend" THEN "identXfer" ELSE "fwXfer"
      BY <1>1, <2>3
    <3> QED
      BY <2>1, <2>2, <3>1, <3>2 DEF Files, IdentSteps, FwSteps
  <2>4. CASE Goto(d, IF pc[d] = "identSend" THEN "identEnd" ELSE "failed")
    <3>1. pc'[d] = IF pc[d] = "identSend" THEN "identEnd" ELSE "failed"
      BY <1>1, <2>4
    <3> QED
      BY <2>1, <2>2, <3>1 DEF Files, IdentSteps, FwSteps
  <2> QED
    BY <1>10, <2>3, <2>4 DEF SendFile
<1>11. CASE IdentSent(d)
  <2>1. UNCHANGED usDeviceClass /\ pc[d] = "identXfer" /\ pc'[d] = "identEnd"
    BY <1>1, <1>11 DEF IdentSent
  <2> QED
    BY <2>1 DEF Files
<1>12. CASE IdentEnd(d)
  <2>1. UNCHANGED usDeviceClass /\ pc[d] = "identEnd" /\ pc'[d] = "fwName"
    BY <1>1, <1>12 DEF IdentEnd
  <2> QED
    BY <2>1 DEF Files
<1> QED
  BY <1>3, <1>4, <1>5, <1>6, <1>7, <1>8, <1>9, <1>10, <1>11, <1>12 DEF Steps, Caller

(* The licence: asked for until its download, reported if it failed.       *)
LicenceSteps == FwSteps \cup {"fwXfer", "start", "cookie", "added"}

LEMMA LicenceKept ==
    ASSUME NEW d \in Devices, Licence(d), pc'[d] = pc[d], runs'[d] = runs[d],
           ident'[d] = ident[d], lRet'[d] = lRet[d] \/ pc[d] # "identEnd",
           boot[d] = "flash" => boot'[d] = "flash",
           HasFile(d, IdentFile(d)) => HasFile(d, IdentFile(d))'
    PROVE  Licence(d)'
BY DEF Licence

\* Steps on the way to the class, and those behind the licence.
LEMMA LicenceMove ==
    ASSUME NEW d \in Devices, Licence(d), runs'[d] = runs[d], ident'[d] = ident[d],
           boot[d] = "flash" => boot'[d] = "flash",
           HasFile(d, IdentFile(d)) => HasFile(d, IdentFile(d))',
           \/ pc'[d] \in ClassSteps /\ pc[d] \in ClassSteps \cup {"reset"}
           \/ pc'[d] \in LicenceSteps /\ pc[d] \in LicenceSteps
           \/ pc'[d] \notin ClassSteps \cup LicenceSteps \cup {"reset", "identEnd"}
           \/ pc'[d] = "identEnd" /\ lRet'[d] # "OK"
    PROVE  Licence(d)'
<1> DEFINE A == ClassSteps \cup {"reset"}
<1>1. /\ \A s \in A : s \notin LicenceSteps /\ s # "identEnd"
      /\ \A s \in LicenceSteps : s # "identEnd"
      /\ "identEnd" \notin A /\ "identEnd" \notin LicenceSteps
  BY DEF ClassSteps, BootSteps, LicenceSteps, FwSteps
<1>2. ClassSteps \subseteq A
  OBVIOUS
<1>3. /\ runs[d] > 1 /\ pc[d] \in A => ident[d].request
      /\ runs[d] > 1 /\ pc[d] \in LicenceSteps /\ boot[d] # "flash" /\ ident[d].lError = "OK"
            => HasFile(d, IdentFile(d))
  BY DEF Licence, LicenceSteps
<1> DEFINE P == /\ runs'[d] > 1 /\ pc'[d] \in A => ident'[d].request
                /\ runs'[d] > 1 /\ pc'[d] = "identEnd" /\ lRet'[d] = "OK"
                      => HasFile(d, IdentFile(d))'
                /\ runs'[d] > 1 /\ pc'[d] \in LicenceSteps /\ boot'[d] # "flash"
                      /\ ident'[d].lError = "OK" => HasFile(d, IdentFile(d))'
<1>4. P
  <2> HIDE DEF A
  <2>1. CASE pc'[d] \in ClassSteps /\ pc[d] \in ClassSteps \cup {"reset"}
    <3>1. pc'[d] \in A /\ pc[d] \in A
      BY <1>2, <2>1 DEF A
    <3> QED
      BY <1>1, <1>3, <3>1
  <2>2. CASE pc'[d] \in LicenceSteps /\ pc[d] \in LicenceSteps
    BY <1>1, <1>3, <2>2
  <2>3. CASE pc'[d] \notin ClassSteps \cup LicenceSteps \cup {"reset", "identEnd"}
    BY <2>3 DEF A
  <2>4. CASE pc'[d] = "identEnd" /\ lRet'[d] # "OK"
    BY <1>1, <2>4
  <2> QED
    BY <2>1, <2>2, <2>3, <2>4
<1> QED
  BY <1>4 DEF Licence, LicenceSteps

LEMMA LicenceStep ==
    ASSUME TypeOK, NEW d \in Devices, PartsInv(d), PipeInv(d), Files(d), Licence(d),
           Untouched(d) \/ Steps(d)
    PROVE  Licence(d)'
<1>1. \A c : Goto(d, c) => pc'[d] = c
  BY DEF Goto, TypeOK
<1>2. \A c : Fail(d, c) => pc'[d] = "failed"
  BY <1>1 DEF Fail
<1>3. ~NetxReset(d) => (HasFile(d, IdentFile(d)) => HasFile(d, IdentFile(d))')
  <2>1. \A f : ~NetxReset(d) => (HasFile(d, f) => HasFile(d, f)')
    BY FilesStay
  <2>2. IdentFile(d)' = IdentFile(d)
    BY DEF IdentFile
  <2> QED
    BY <2>1, <2>2 DEF HasFile
<1>4. CASE Untouched(d)
  <2>1. ~NetxReset(d)
    BY <1>1, <1>2, <1>4 DEF NetxReset, Untouched
  <2> QED
    BY <1>3, <1>4, <2>1, LicenceKept DEF Untouched
<1>5. CASE Device(d) \/ TransferPacket(d)
  <2>1. /\ UNCHANGED <<pc, runs, ident, lRet>>
        /\ boot[d] = "flash" => boot'[d] = "flash"
    <3>1. CASE Device(d)
      BY <3>1 DEF Device, BslTake, BslAnswer, Come, addVars, TypeOK
    <3>2. CASE TransferPacket(d)
      BY <3>2, TransferPacketValues DEF notTransfer, addVars, devVars
    <3> QED
      BY <1>5, <3>1, <3>2
  <2>2. ~NetxReset(d)
    BY <1>1, <1>2, <2>1 DEF NetxReset
  <2> QED
    BY <1>3, <2>1, <2>2, LicenceKept
<1>6. CASE Download(d)
  <2>1. UNCHANGED <<pc, runs, ident, boot, stored>>
    BY <1>6, DownloadValues DEF notDownload, devVars
  <2>2. pc[d] # "identEnd"
    BY <1>6 DEF PartsInv, Where, DownloadSteps, Download, DownloadReqDone, DownloadDataDone,
                DownloadAbortDone
  <2>3. ~NetxReset(d)
    BY <1>1, <1>2, <2>1 DEF NetxReset
  <2> QED
    BY <1>3, <2>1, <2>2, <2>3, LicenceKept
<1>7. CASE NetxReset(d)
  <2>1. /\ UNCHANGED <<runs, ident>> /\ pc[d] = "reset"
        /\ pc'[d] \in {"bootName", "failed"}
    BY <1>1, <1>2, <1>7 DEF NetxReset
  <2> QED
    BY <2>1 DEF Licence, ClassSteps, BootSteps, FwSteps
<1>8. CASE Add(d)
  <2>1. runs'[d] = 1
    BY <1>8 DEF Add, TypeOK
  <2> QED
    BY <2>1 DEF Licence
<1>9. CASE IdentUpdate(d)
  <2>1. ident'[d] = [request |-> TRUE, lError |-> "OK"]
    BY <1>9 DEF IdentUpdate, TypeOK
  <2>2. ident'[d].request
    BY <2>1
  <2>3. pc'[d] \in {"reset", "flash"}
    BY <1>1, <1>9 DEF IdentUpdate
  <2>4. pc'[d] \notin LicenceSteps /\ pc'[d] # "identEnd"
    BY <2>3 DEF LicenceSteps, FwSteps
  <2> QED
    BY <2>2, <2>4 DEF Licence, LicenceSteps
<1>10. CASE FlashBased(d)
  <2>1. pc'[d] \in {"added", "failed"} /\ boot'[d] = "flash"
    BY <1>1, <1>2, <1>10 DEF FlashBased, PartsInv, Where, devVars
  <2>2. pc'[d] \notin ClassSteps \cup {"reset", "identEnd"}
    BY <2>1 DEF ClassSteps, BootSteps
  <2> QED
    BY <2>1, <2>2 DEF Licence
<1>11. CASE BootStart(d) \/ BootWait(d) \/ RequestClass(d)
  <2>1. /\ UNCHANGED <<runs, ident, stored>> /\ pc[d] \in {"bootStart", "bootWait", "class"}
        /\ pc'[d] \in {"bootWait", "class", "classWait", "failed"}
    BY <1>1, <1>2, <1>11 DEF BootStart, BootWait, RequestClass, devVars
  <2>2. \/ pc'[d] \in ClassSteps /\ pc[d] \in ClassSteps
        \/ pc'[d] \notin ClassSteps \cup LicenceSteps \cup {"reset", "identEnd"}
    BY <2>1 DEF ClassSteps, BootSteps, LicenceSteps, FwSteps
  <2>3. pc'[d] \notin LicenceSteps /\ pc'[d] # "identEnd" /\ pc'[d] # "reset"
    BY <2>1 DEF LicenceSteps, FwSteps
  <2> QED
    BY <2>1, <2>2, <2>3 DEF Licence, LicenceSteps
<1>12. CASE ClassDone(d)
  <2>1. UNCHANGED runs /\ pc[d] = "classWait"
    BY <1>12 DEF ClassDone
  <2>2. runs[d] > 1 => ident[d].request
    BY <2>1 DEF Licence, ClassSteps
  <2>3. runs[d] > 1 => pc'[d] \in {"identName", "failed"}
    BY <1>1, <1>2, <1>12, <2>2 DEF ClassDone
  <2>4. {"identName", "failed"} \cap (ClassSteps \cup LicenceSteps \cup {"reset", "identEnd"}) = {}
    BY DEF ClassSteps, BootSteps, LicenceSteps, FwSteps
  <2>5. runs'[d] > 1 => pc'[d] \notin ClassSteps \cup LicenceSteps \cup {"reset", "identEnd"}
    BY <2>1, <2>3, <2>4
  <2> QED
    BY <2>5 DEF Licence, LicenceSteps
<1>13. CASE SendFile(d)
  <2>1. /\ UNCHANGED <<runs, ident, boot, stored>> /\ pc[d] \in {"identSend", "fwSend"}
    BY <1>13 DEF SendFile, devVars
  <2>2. \/ pc'[d] = "identXfer"
        \/ pc'[d] = "fwXfer" /\ pc[d] = "fwSend"
        \/ pc'[d] = "failed"
        \/ pc'[d] = "identEnd" /\ lRet'[d] # "OK"
    BY <1>1, <1>13 DEF SendFile, TypeOK
  <2>3. \/ pc'[d] \in LicenceSteps /\ pc[d] \in LicenceSteps
        \/ pc'[d] \notin ClassSteps \cup LicenceSteps \cup {"reset", "identEnd"}
        \/ pc'[d] = "identEnd" /\ lRet'[d] # "OK"
    BY <2>2 DEF ClassSteps, BootSteps, LicenceSteps, FwSteps
  <2> QED
    BY <2>1, <2>3, LicenceMove DEF HasFile
<1>14. CASE IdentSent(d)
  <2>1. /\ UNCHANGED <<runs, ident, lRet, boot, stored>>
        /\ pc[d] = "identXfer" /\ pc'[d] = "identEnd" /\ dl[d].state = "ended"
    BY <1>1, <1>14 DEF IdentSent, devVars
  <2>2. lRet[d] = "OK" => HasFile(d, IdentFile(d))
    BY <2>1 DEF PipeInv, Done, Files
  <2>3. pc'[d] \notin ClassSteps \cup LicenceSteps \cup {"reset"}
    BY <2>1 DEF ClassSteps, BootSteps, LicenceSteps, FwSteps
  <2> QED
    BY <2>1, <2>2, <2>3 DEF Licence, LicenceSteps, HasFile
<1>15. CASE IdentEnd(d)
  <2>1. /\ UNCHANGED <<runs, boot, stored>> /\ pc[d] = "identEnd" /\ pc'[d] = "fwName"
        /\ ident' = [ident EXCEPT ![d].lError = lRet[d]]
    BY <1>1, <1>15 DEF IdentEnd, devVars
  <2>2. ident'[d].lError = lRet[d]
    BY <2>1 DEF TypeOK
  <2>3. runs[d] > 1 /\ lRet[d] = "OK" => HasFile(d, IdentFile(d))
    BY <2>1 DEF Licence
  <2>4. pc'[d] \notin ClassSteps \cup {"reset", "identEnd"}
    BY <2>1 DEF ClassSteps, BootSteps
  <2> QED
    BY <2>1, <2>2, <2>3, <2>4 DEF Licence, HasFile
<1>16. CASE FirmwareSent(d) \/ StartDone(d) \/ Cookie(d)
  <2>1. /\ UNCHANGED <<runs, ident, boot, stored>> /\ pc[d] \in {"fwXfer", "start", "cookie"}
        /\ pc'[d] \in {"start", "cookie", "added", "failed"}
    BY <1>1, <1>2, <1>16 DEF FirmwareSent, StartDone, Cookie, devVars
  <2>2. \/ pc'[d] \in LicenceSteps /\ pc[d] \in LicenceSteps
        \/ pc'[d] \notin ClassSteps \cup LicenceSteps \cup {"reset", "identEnd"}
    BY <2>1 DEF ClassSteps, BootSteps, LicenceSteps, FwSteps
  <2> QED
    BY <2>1, <2>2, LicenceMove DEF HasFile
<1>17. CASE File(d)
  <2>1. UNCHANGED <<runs, ident, boot, stored>>
    BY <1>17 DEF File, UserGetFile, UserGetClass, OsFileOpen, OsFileTake, notFile, devVars
  <2>2. \/ pc[d] = "fwClass" /\ pc'[d] \in {"fwOpen", "oops"}
        \/ pc[d] \in {"bootName", "identName", "fwName", "bootOpen", "identOpen", "fwOpen",
                      "bootTake", "identTake", "fwTake"} /\ pc'[d] = After(pc[d])
        \/ /\ pc[d] \in {"bootOpen", "identOpen", "fwOpen"} /\ pc'[d] = OpenFailed(pc[d])
           /\ lRet'[d] # "OK"
    BY <1>1, <1>17 DEF File, UserGetFile, UserGetClass, OsFileOpen, OsFileTake, NameSteps,
       TypeOK
  <2>3. \/ pc'[d] \in ClassSteps /\ pc[d] \in ClassSteps \cup {"reset"}
        \/ pc'[d] \in LicenceSteps /\ pc[d] \in LicenceSteps
        \/ pc'[d] \notin ClassSteps \cup LicenceSteps \cup {"reset", "identEnd"}
        \/ pc'[d] = "identEnd" /\ lRet'[d] # "OK"
    BY <2>2 DEF After, OpenFailed, ClassSteps, BootSteps, LicenceSteps, FwSteps
  <2> QED
    BY <2>1, <2>3, LicenceMove DEF HasFile
<1> QED
  BY <1>4, <1>5, <1>6, <1>7, <1>8, <1>9, <1>10, <1>11, <1>12, <1>13, <1>14, <1>15, <1>16,
     <1>17 DEF Steps, Caller

(* The firmware starts after its file is complete.                         *)
Told(d) ==
    pc[d] = "start" \/ sendMbx[d].cmd = "INSTANTIATE" \/ boot[d] \in {"starting", "firmware"}

LEMMA FirmwareStep ==
    ASSUME TypeOK, NEW d \in Devices, PartsInv(d), PipeInv(d), Files(d), Firmware(d),
           Untouched(d) \/ Steps(d)
    PROVE  Firmware(d)'
<1> DEFINE file == FirmwareFile(Class[d])
<1>1. Told(d) => HasFile(d, file)
  BY DEF Firmware, Told
<1>2. CASE NetxReset(d)
  <2>1. pc'[d] \in {"failed", "bootName"}
    BY <1>2 DEF NetxReset, Fail, Goto, TypeOK
  <2>2. sendMbx'[d] = NoPacket /\ boot'[d] = "rom"
    BY <1>2 DEF NetxReset, TypeOK
  <2> QED
    BY <2>1, <2>2 DEF Firmware, NoPacket
<1>3. CASE ~NetxReset(d)
  <2>1. HasFile(d, file) => HasFile(d, file)'
    <3>1. \A f : HasFile(d, f) => HasFile(d, f)'
      BY <1>3, FilesStay
    <3>2. FirmwareFile(Class[d])' = FirmwareFile(Class[d])
      BY DEF FirmwareFile
    <3> QED
      BY <3>1, <3>2 DEF HasFile
  <2>2. Told(d)' => HasFile(d, file)
    <3>1. CASE Untouched(d)
      BY <1>1, <3>1 DEF Untouched, Told
    <3>2. CASE BslTake(d)
      <4>1. /\ UNCHANGED <<pc, sendMbx>>
            /\ boot'[d] \in {"starting", "firmware"} => sendMbx[d].cmd = "INSTANTIATE"
        BY <3>2, TakeValues DEF addVars
      <4> QED
        BY <1>1, <4>1 DEF Told
    <3>3. CASE BslAnswer(d)
      BY <1>1, <3>3, AnswerValues DEF addVars, Told
    <3>4. CASE Come(d)
      <4>1. UNCHANGED <<pc, sendMbx>>
        BY <3>4 DEF Come, addVars, mbxVars
      <4>2. boot'[d] = "firmware" => boot[d] = "starting"
        BY <3>4 DEF Come, TypeOK
      <4>3. boot'[d] # "starting"
        BY <3>4 DEF Come, TypeOK
      <4> QED
        BY <1>1, <4>1, <4>2, <4>3 DEF Told
    <3>5. CASE PutPacketBL(d)
      <4>1. /\ transfer[d] = "put" /\ sendMbx'[d] = ptSendPkt[d]
            /\ UNCHANGED <<pc, boot>>
        BY <3>5, PutValues DEF notTransfer, addVars, devVars
      <4>2. pc[d] \in DownloadSteps \cup {"classWait", "start"}
        BY <4>1 DEF PartsInv, Where
      <4>3. pc[d] \in DownloadSteps => dl[d].state \in {"REQ", "DATA", "ABORT"}
        BY <4>1 DEF PartsInv, Where, TypeOK, Downloads
      <4>4. ptSendPkt[d].cmd = "INSTANTIATE" => pc[d] = "start"
        BY <4>2, <4>3 DEF PartsInv, Request
      <4> QED
        BY <1>1, <4>1, <4>4 DEF Told
    <3>6. CASE PutTimeout(d) \/ GetPacketBL(d) \/ GetTimeout(d)
      <4>1. UNCHANGED <<pc, boot, sendMbx>>
        BY <3>6 DEF PutTimeout, GetPacketBL, GetTimeout, notTransfer, addVars, devVars, mbxVars
      <4> QED
        BY <1>1, <4>1 DEF Told
    <3>7. CASE Download(d)
      BY <1>1, <3>7, DownloadValues DEF notDownload, mbxVars, devVars, Told
    <3>8. CASE Moves(d)
      <4>1. SameDevice(d)
        BY <3>8, MoveValues
      <4>2. boot'[d] = boot[d] \/ boot'[d] = "loading"
        BY <3>8 DEF Moves, Add, IdentUpdate, FlashBased, BootStart, BootWait, RequestClass,
           ClassDone, SendFile, IdentSent, IdentEnd, FirmwareSent, StartDone, Cookie, File,
           UserGetFile, UserGetClass, OsFileOpen, OsFileTake, notFile, devVars, TypeOK
      <4>3. CASE pc'[d] = "start"
        <5>1. StartsFirmware(d)
          BY <3>8, <4>3, MoveValues DEF Quiet, AsksClass, BeginsDownload, AtRest, ClassSteps,
             BootSteps, IdentSteps, FwSteps
        <5>2. HasFile(d, dl[d].file)
          BY <5>1 DEF StartsFirmware, PipeInv, Done
        <5> QED
          BY <5>1, <5>2 DEF StartsFirmware, Files
      <4>4. CASE pc'[d] # "start"
        BY <1>1, <4>1, <4>2, <4>4 DEF Told, SameDevice
      <4> QED
        BY <4>3, <4>4
    <3> QED
      BY <1>3, <3>1, <3>2, <3>3, <3>4, <3>5, <3>6, <3>7, <3>8
         DEF Steps, Device, Caller, TransferPacket, Moves
  <2>3. Told(d)' => HasFile(d, file)'
    BY <2>1, <2>2
  <2> QED
    BY <2>3 DEF Firmware, Told
<1> QED
  BY <1>2, <1>3

(* The files of each device are its own while they come one at a time.     *)
LEMMA OwnStart == Init => \A d \in Devices : OwnInv(d)
<1> SUFFICES ASSUME Init, NEW d \in Devices PROVE OwnInv(d)
  OBVIOUS
<1>1. pc[d] = "idle" /\ runs[d] = 0 /\ sendMbx[d].cmd = "none" /\ boot[d] \in {"off", "flash"}
  BY DEF Init, NoPacket
<1>2. Files(d)
  BY <1>1 DEF Files, IdentSteps, FwSteps
<1>3. Licence(d) /\ Firmware(d)
  BY <1>1 DEF Licence, Firmware
<1> QED
  BY <1>2, <1>3 DEF OwnInv

LEMMA OwnStep ==
    ASSUME TypeOK, \A d \in Devices : PartsInv(d) /\ PipeInv(d),
           \A d \in Devices : OwnInv(d), OneAtATime, [Next]_vars
    PROVE  (\A d \in Devices : OwnInv(d))'
<1> SUFFICES ASSUME NEW d \in Devices PROVE OwnInv(d)'
  OBVIOUS
<1>1. PartsInv(d) /\ PipeInv(d) /\ Files(d) /\ Licence(d) /\ Firmware(d)
  BY DEF OwnInv
<1>2. \/ Untouched(d) /\ (Busy(d) => UNCHANGED osVars)
      \/ Steps(d)
  BY OneStepCases
<1>3. Files(d)'
  BY <1>1, <1>2, FilesStep
<1>4. Licence(d)'
  BY <1>1, <1>2, LicenceStep
<1>5. Firmware(d)'
  BY <1>1, <1>2, FirmwareStep
<1> QED
  BY <1>3, <1>4, <1>5 DEF OwnInv

LEMMA OwnInvariant == Spec /\ []OneAtATime => []\A d \in Devices : OwnInv(d)
<1>1. /\ TypeOK /\ \A d \in Devices : PartsInv(d)
      /\ \A d \in Devices : PartsInv(d) /\ PipeInv(d)
      /\ \A d \in Devices : OwnInv(d)
      /\ OneAtATime /\ [Next]_vars
      => (\A d \in Devices : OwnInv(d))'
  BY OwnStep
<1>2. QED
  BY <1>1, OwnStart, PartsInvariant, PipeInvariant, PTL DEF Spec

-----------------------------------------------------------------------------
(* Every variable has its type, with the packets, the local variables of   *)
(* DownloadFile and the files of the device.                               *)
THEOREM TypeCorrect == Spec => []TypeOK
BY PartsInvariant, PTL

(* A download that ends without an error has the complete file accepted:   *)
(* DownloadFile, netana_toolkit.c, with the loop of TransferPacket, any    *)
(* number of devices at once and any answers that come late.               *)
THEOREM DownloadIsComplete == Spec => []DownloadComplete
<1>1. (\A d \in Devices : PartsInv(d) /\ PipeInv(d)) => DownloadComplete
  BY DEF PipeInv, Done, DownloadComplete
<1>2. QED
  BY <1>1, PipeInvariant, PTL

(* The device runs, or is told to start, the complete firmware file of its *)
(* class: DownloadAndStartFirmware behind USER_GetFirmwareFile and         *)
(* OS_FileOpen, which have one s_pdeviceinstance for all devices.          *)
THEOREM FirmwareIsOwn == Spec /\ []OneAtATime => []RunsOwnFirmware
<1>1. (\A d \in Devices : OwnInv(d)) => RunsOwnFirmware
  <2> SUFFICES ASSUME \A d \in Devices : OwnInv(d), NEW d \in Devices,
                      boot[d] \in {"starting", "firmware"}
               PROVE  <<"module", Content(FirmwareFile(Class[d]))>> \in stored[d]
    BY DEF RunsOwnFirmware
  <2>1. HasFile(d, FirmwareFile(Class[d]))
    BY DEF OwnInv, Firmware
  <2> QED
    BY <2>1, FileTypeIs DEF HasFile
<1>2. QED
  BY <1>1, OwnInvariant, PTL

(* An update of the identity whose lError is OK has stored the licence:    *)
(* netx_update_ident_info as part of netana_tkit_deviceadd, for a device   *)
(* that is brought up again.                                               *)
THEOREM IdentErrorsTell == Spec /\ []OneAtATime => []IdentErrorTells
<1>1. (\A d \in Devices : OwnInv(d)) => IdentErrorTells
  <2> SUFFICES ASSUME \A d \in Devices : OwnInv(d), NEW d \in Devices,
                      pc[d] = "added", runs[d] > 1, boot[d] # "flash",
                      ident[d].lError = "OK"
               PROVE  <<"licence", Content(IdentFile(d))>> \in stored[d]
    BY DEF IdentErrorTells
  <2>1. HasFile(d, IdentFile(d))
    BY DEF OwnInv, Licence
  <2> QED
    BY <2>1, FileTypeIs DEF HasFile
<1>2. QED
  BY <1>1, OwnInvariant, PTL
=============================================================================
