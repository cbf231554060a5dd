-------------------------- MODULE LibCapture_proofs ---------------------------
(***************************************************************************)
(* Proofs about LibCapture, for every number of files, buffers and calls,  *)
(* every size of files and buffers and every failure, while no call is     *)
(* made beside a left-over event thread (Tidy).                            *)
(***************************************************************************)
EXTENDS LibCapture, Integers, TLAPS

USE LibAssumption

-----------------------------------------------------------------------------
(* The invariant. *)

HasBuf(t) == thread[t].pc \in {"write", "callback"}

NoThread == \A t \in Threads : ~Alive(t)

\* The event thread is the one the handle knows of.
AloneInv ==
    /\ \A t \in Threads : Alive(t) => t = hPollingThread
    /\ \A t \in Threads : thread[t].buf # <<>> <=> HasBuf(t)
    /\ api = "startThread" => NoThread /\ starts \in Threads

(* What the driver shows comes in an order: the buffers, then the state.   *)
(* A stop has returned only when all of it was read.                       *)
ShowsEnd == kState = "RUNNING" \/ kChange \/ kStatus

DriverInv ==
    /\ kData # <<>> => (kState = "RUNNING" \/ kChange) /\ ~kStatus
    /\ \A t \in Threads : HasBuf(t) => ShowsEnd
    /\ api \in {"stopFiles", "stopWait", "stopJoin"} => StopServed

\* A new list waits for its start.
FreshList == api \in {"idle", "freed"} /\ ~IsCaptureRunning /\ NoThread

(* The files: those of the list are open; the current one has no size yet, *)
(* and its position is behind what was written.                            *)
FilesInv ==
    /\ ulFileCount > 0 => /\ ulCurrentFile < ulFileCount
                          /\ \A f \in Files : f < ulFileCount => atFiles[f].open
    /\ fWriteToFile => ulCurrentFile \in Files
    /\ fWriteToFile /\ ulFileCount = 0 =>
           api \in {"stopWait", "stopJoin"} \/ (NoThread /\ api # "startThread")
    /\ HeaderDescribesFile
    /\ fWriteToFile /\ ulFileCount > 0 =>
           /\ atFiles[ulCurrentFile].size = INVALID
           /\ \/ atFiles[ulCurrentFile].offset = atFiles[ulCurrentFile].bytes + 1
              \/ FreshList

\* Numbers of the last buffer taken from the driver, given to the callback,
\* and written to a file.
Taken   == filled - Len(kData)
Called  == IF \E t \in Threads : HasBuf(t) THEN Taken - 1 ELSE Taken
Written == IF \E t \in Threads : thread[t].pc = "write" THEN Taken - 1 ELSE Taken

(* The numbers of the buffers on their way, and what the callback got.     *)
OrderInv ==
    /\ kData # <<>> => Head(kData).no = filled
    /\ \A t \in Threads : HasBuf(t) => Head(thread[t].buf).no = Taken
    /\ \A i \in 1 .. Len(seen) : seen[i] <= Called
    /\ CallbackInOrder
    /\ pfnData /\ Called > first => EndsWith(seen, Called - first, Called)

(* What the current file got: all since it was begun, without a gap.       *)
DataInv ==
    fWriteToFile =>
        \/ FreshList
        \/ LET data == atFiles[ulCurrentFile].data
           IN  /\ Written > first => data # <<>>
               /\ data # <<>> => EndsWith(data, Len(data), Written)

LibInv == AloneInv /\ DriverInv /\ FilesInv /\ OrderInv /\ DataInv

-----------------------------------------------------------------------------
(* One step of an event thread, as far as the invariant sees it. *)

LEMMA OwnRecord ==
    ASSUME TypeOK, NEW t \in Threads, NEW r \in ThreadRecords,
           thread' = [thread EXCEPT ![t] = r]
    PROVE  /\ thread' \in [Threads -> ThreadRecords]
           /\ thread'[t] = r
           /\ \A u \in Threads \ {t} : thread'[u] = thread[u]
  BY DEF TypeOK

\* The steps that have nothing to do with a buffer.
ThreadOther(t) ==
    \/ ThreadBegin(t) \/ ThreadTest(t) \/ ThreadPoll(t) \/ ThreadStatus(t)
    \/ ThreadSetState(t) \/ ThreadError(t)

LEMMA OtherStep ==
    ASSUME TypeOK, NEW t \in Threads, ThreadOther(t)
    PROVE  /\ thread' \in [Threads -> ThreadRecords]
           /\ \A u \in Threads \ {t} : thread'[u] = thread[u]
           /\ thread'[t].buf = thread[t].buf
           /\ Alive(t) /\ ~HasBuf(t) /\ ~HasBuf(t)'
<1> USE DEF Alive, HasBuf
<1>1. thread \in [Threads -> ThreadRecords] /\ thread[t] \in ThreadRecords
  BY DEF TypeOK
<1>2. ASSUME NEW pc \in {"test", "poll", "ended", "error"}, Goto(t, pc),
             thread[t].pc \notin {"none", "ended", "write", "callback"}
      PROVE  /\ thread' \in [Threads -> ThreadRecords]
             /\ \A u \in Threads \ {t} : thread'[u] = thread[u]
             /\ thread'[t].buf = thread[t].buf
             /\ Alive(t) /\ ~HasBuf(t) /\ ~HasBuf(t)'
  <2> DEFINE r == [thread[t] EXCEPT !.pc = pc]
  <2>1. r \in ThreadRecords /\ r.pc = pc /\ r.buf = thread[t].buf
    BY <1>1 DEF ThreadRecords, ThreadPcs
  <2>2. thread' = [thread EXCEPT ![t] = r]
    BY <1>2 DEF Goto
  <2> HIDE DEF r
  <2>3. QED
    BY <1>2, <2>1, <2>2, OwnRecord
<1>3. CASE ThreadBegin(t) \/ ThreadTest(t) \/ ThreadSetState(t) \/ ThreadError(t)
  <2>1. thread[t].pc \in {"begin", "test", "set", "error"}
        /\ \E pc \in {"test", "poll", "ended", "error"} : Goto(t, pc)
    BY <1>3 DEF ThreadBegin, ThreadTest, ThreadSetState, ThreadError
  <2>2. QED
    BY <1>2, <2>1
<1>4. CASE ThreadPoll(t)
  <2> DEFINE events == {e \in {"data", "status"} :
                          IF e = "data" THEN kData # <<>> ELSE kStatus}
             r == [thread[t] EXCEPT !.events = events,
                                    !.pc = IF "data" \in events THEN "read"
                                           ELSE IF "status" \in events
                                           THEN "status" ELSE "test"]
  <2>1. r \in ThreadRecords /\ r.pc \in {"read", "status", "test"}
        /\ r.buf = thread[t].buf
    BY <1>1 DEF ThreadRecords, ThreadPcs
  <2>2. thread' = [thread EXCEPT ![t] = r] /\ thread[t].pc = "poll"
    BY <1>1, <1>4 DEF ThreadPoll
  <2> HIDE DEF r
  <2>3. QED
    BY <2>1, <2>2, OwnRecord
<1>5. CASE ThreadStatus(t)
  <2> DEFINE r == [thread[t] EXCEPT !.state = kState, !.pc = "set"]
  <2>1. r \in ThreadRecords /\ r.pc = "set" /\ r.buf = thread[t].buf
    BY <1>1 DEF ThreadRecords, ThreadPcs, TypeOK
  <2>2. thread' = [thread EXCEPT ![t] = r] /\ thread[t].pc = "status"
    BY <1>1, <1>5 DEF ThreadStatus
  <2> HIDE DEF r
  <2>3. QED
    BY <2>1, <2>2, OwnRecord
<1>6. QED
  BY <1>3, <1>4, <1>5 DEF ThreadOther

LEMMA ReadStep ==
    ASSUME TypeOK, NEW t \in Threads, ThreadRead(t)
    PROVE  /\ thread' \in [Threads -> ThreadRecords]
           /\ \A u \in Threads \ {t} : thread'[u] = thread[u]
           /\ thread[t].pc = "read" /\ thread'[t].buf = kData
           /\ thread'[t].pc = IF kData = <<>> THEN AfterData(t) ELSE "write"
           /\ AfterData(t) \in {"status", "error"}
<1>1. thread \in [Threads -> ThreadRecords] /\ thread[t] \in ThreadRecords
      /\ kData \in Slots
  BY DEF TypeOK
<1> DEFINE r == [thread[t] EXCEPT !.buf = kData,
                                  !.pc = IF kData = <<>> THEN AfterData(t)
                                                         ELSE "write"]
<1>2. r \in ThreadRecords /\ r.buf = kData
      /\ r.pc = IF kData = <<>> THEN AfterData(t) ELSE "write"
  BY <1>1 DEF ThreadRecords, ThreadPcs, AfterData
<1>3. thread' = [thread EXCEPT ![t] = r] /\ thread[t].pc = "read"
  BY <1>1 DEF ThreadRead
<1> HIDE DEF r
<1>4. QED
  BY <1>2, <1>3, OwnRecord DEF AfterData

LEMMA WriteStep ==
    ASSUME TypeOK, NEW t \in Threads, ThreadWrite(t)
    PROVE  /\ thread' \in [Threads -> ThreadRecords]
           /\ \A u \in Threads \ {t} : thread'[u] = thread[u]
           /\ thread[t].pc = "write" /\ thread'[t].pc = "callback"
           /\ thread'[t].buf = thread[t].buf
<1>1. thread \in [Threads -> ThreadRecords] /\ thread[t] \in ThreadRecords
  BY DEF TypeOK
<1>2. \E full \in BOOLEAN :
         \/ thread' = [thread EXCEPT ![t] = [thread[t] EXCEPT !.pc = "callback",
                                                             !.error = full]]
         \/ thread' = [thread EXCEPT ![t] = [thread[t] EXCEPT !.pc = "callback"]]
  BY <1>1 DEF ThreadWrite, Goto
<1>3. \E r \in ThreadRecords : /\ thread' = [thread EXCEPT ![t] = r]
                               /\ r.pc = "callback" /\ r.buf = thread[t].buf
  <2>1. \A full \in BOOLEAN :
          LET r == [thread[t] EXCEPT !.pc = "callback", !.error = full]
          IN  r \in ThreadRecords /\ r.pc = "callback" /\ r.buf = thread[t].buf
    BY <1>1 DEF ThreadRecords, ThreadPcs
  <2>2. LET r == [thread[t] EXCEPT !.pc = "callback"]
        IN  r \in ThreadRecords /\ r.pc = "callback" /\ r.buf = thread[t].buf
    BY <1>1 DEF ThreadRecords, ThreadPcs
  <2>3. QED
    BY <1>2, <2>1, <2>2
<1>4. QED
  BY <1>3, OwnRecord DEF ThreadWrite

LEMMA CallbackStep ==
    ASSUME TypeOK, NEW t \in Threads, ThreadCallback(t)
    PROVE  /\ thread' \in [Threads -> ThreadRecords]
           /\ \A u \in Threads \ {t} : thread'[u] = thread[u]
           /\ thread[t].pc = "callback" /\ thread'[t].pc \in {"status", "error"}
           /\ thread'[t].buf = <<>>
<1>1. thread \in [Threads -> ThreadRecords] /\ thread[t] \in ThreadRecords
  BY DEF TypeOK
<1> DEFINE r == [thread[t] EXCEPT !.buf = <<>>, !.pc = AfterData(t)]
<1>2. r \in ThreadRecords /\ r.buf = <<>> /\ r.pc \in {"status", "error"}
  BY <1>1 DEF ThreadRecords, ThreadPcs, AfterData, Slots
<1>3. thread' = [thread EXCEPT ![t] = r] /\ thread[t].pc = "callback"
  BY <1>1 DEF ThreadCallback
<1> HIDE DEF r
<1>4. QED
  BY <1>2, <1>3, OwnRecord

(* While a thread steps, no other has a buffer. *)
LEMMA OnlyThread ==
    ASSUME AloneInv, NEW t \in Threads, Alive(t)
    PROVE  \A u \in Threads \ {t} : ~Alive(u) /\ ~HasBuf(u)
  BY DEF AloneInv, Alive, HasBuf

LEMMA ThreadFrame ==
    ASSUME NEW t \in Threads, EventThread(t)
    PROVE  UNCHANGED <<api, starts, first, ret, ulFileCount, fRingBuffer,
                       hPollingThread, pfnData, filled, kState, kChange, kStop>>
  BY DEF EventThread, ThreadBegin, ThreadTest, ThreadPoll, ThreadRead, ThreadWrite,
     ThreadCallback, ThreadStatus, ThreadSetState, ThreadError, driverVars,
     stateVars, fileVars, apiVars

(* The new thread. *)
LEMMA StartThreadStep ==
    ASSUME TypeOK, AloneInv, StartThread
    PROVE  /\ thread' \in [Threads -> ThreadRecords]
           /\ starts \in Threads /\ thread'[starts].pc = "begin"
           /\ thread'[starts].buf = thread[starts].buf
           /\ \A u \in Threads \ {starts} : thread'[u] = thread[u]
<1>1. starts \in Threads /\ thread[starts] \in ThreadRecords
  BY DEF StartThread, AloneInv, TypeOK
<1> DEFINE r == [thread[starts] EXCEPT !.pc = "begin"]
<1>2. r \in ThreadRecords /\ r.buf = thread[starts].buf /\ r.pc = "begin"
  BY <1>1 DEF ThreadRecords, ThreadPcs
<1>3. thread' = [thread EXCEPT ![starts] = r]
  BY DEF StartThread, Goto
<1> HIDE DEF r
<1>4. QED
  BY <1>1, <1>2, <1>3, OwnRecord

-----------------------------------------------------------------------------
(* The files. *)

LEMMA HeaderFacts ==
    ASSUME NEW files \in [Files -> FileRecords], NEW f \in Files,
           NEW size \in 0 .. INVALID
    PROVE  LET new == WriteHeader(files, f, size)
           IN  /\ new \in [Files -> FileRecords]
               /\ new[f].open = files[f].open /\ new[f].offset = 1
               /\ new[f].size = size
               /\ new[f].data  = IF size = INVALID THEN <<>> ELSE files[f].data
               /\ new[f].bytes = IF size = INVALID THEN 0 ELSE files[f].bytes
               /\ \A g \in Files \ {f} : new[g] = files[g]
<1> DEFINE r == [files[f] EXCEPT !.offset = 1, !.size = size,
                   !.data  = IF size = INVALID THEN <<>> ELSE @,
                   !.bytes = IF size = INVALID THEN 0 ELSE @]
<1>1. files[f] \in FileRecords /\ 1 \in 0 .. FileSize
  OBVIOUS
<1>2. <<>> \in Seq(1 .. MaxFill)
  OBVIOUS
<1>3. /\ r \in FileRecords
      /\ r.open = files[f].open /\ r.offset = 1 /\ r.size = size
      /\ r.data  = IF size = INVALID THEN <<>> ELSE files[f].data
      /\ r.bytes = IF size = INVALID THEN 0 ELSE files[f].bytes
  BY <1>1, <1>2 DEF FileRecords
<1>4. WriteHeader(files, f, size) = [files EXCEPT ![f] = r]
  BY <1>1 DEF WriteHeader
<1> HIDE DEF r
<1>5. QED
  BY <1>3, <1>4

LEMMA DataFacts ==
    ASSUME NEW files \in [Files -> FileRecords], NEW f \in Files,
           NEW buf \in Buffers, files[f].offset + buf.size <= FileSize
    PROVE  LET new == WriteData(files, f, buf)
           IN  /\ new \in [Files -> FileRecords]
               /\ new[f].open = files[f].open /\ new[f].size = files[f].size
               /\ new[f].offset = files[f].offset + buf.size
               /\ new[f].bytes = files[f].bytes + buf.size
               /\ new[f].data = Append(files[f].data, buf.no)
               /\ \A g \in Files \ {f} : new[g] = files[g]
<1> DEFINE r == [files[f] EXCEPT !.offset = @ + buf.size,
                   !.data = Append(@, buf.no), !.bytes = @ + buf.size]
<1>1. files[f] \in FileRecords /\ buf.size \in Nat /\ buf.no \in 1 .. MaxFill
  BY DEF Buffers
<1>2. Append(files[f].data, buf.no) \in Seq(1 .. MaxFill)
  BY <1>1 DEF FileRecords
<1>3. /\ r \in FileRecords
      /\ r.open = files[f].open /\ r.size = files[f].size
      /\ r.offset = files[f].offset + buf.size
      /\ r.bytes = files[f].bytes + buf.size
      /\ r.data = Append(files[f].data, buf.no)
  <2>1. files[f].offset \in 0 .. FileSize /\ files[f].bytes \in Nat
    BY <1>1 DEF FileRecords
  <2>2. files[f].offset + buf.size \in 0 .. FileSize /\ files[f].bytes + buf.size \in Nat
    BY <1>1, <2>1
  <2>3. QED
    BY <1>1, <1>2, <2>2 DEF FileRecords
<1>4. WriteData(files, f, buf) = [files EXCEPT ![f] = r]
  BY <1>1 DEF WriteData
<1> HIDE DEF r
<1>5. QED
  BY <1>3, <1>4

(* A file in use: its size is not known yet, and its position is behind    *)
(* what was written.                                                       *)
InUse(files, f) ==
    files[f].size = INVALID /\ files[f].offset = files[f].bytes + 1

(* The header of a file that ends, and the files when they are closed. *)
LEMMA EndFacts ==
    ASSUME NEW files \in [Files -> FileRecords], NEW f \in Files, InUse(files, f)
    PROVE  LET ended == WriteHeader(files, f, DataSize(files, f))
           IN  /\ ended \in [Files -> FileRecords]
               /\ ended[f].size = ended[f].bytes /\ ended[f].open = files[f].open
               /\ ended[f].data = files[f].data
               /\ \A g \in Files \ {f} : ended[g] = files[g]
<1>1. files[f].offset \in 0 .. FileSize /\ files[f].bytes \in Nat
  BY DEF FileRecords
<1>2. DataSize(files, f) = files[f].bytes /\ DataSize(files, f) \in 0 .. INVALID
      /\ DataSize(files, f) # INVALID
  BY <1>1 DEF DataSize, InUse, INVALID
<1>3. QED
  BY <1>2, HeaderFacts

LEMMA ClosedFacts ==
    ASSUME NEW files \in [Files -> FileRecords]
    PROVE  /\ Closed(files) \in [Files -> FileRecords]
           /\ \A f \in Files : /\ Closed(files)[f].size = files[f].size
                               /\ Closed(files)[f].bytes = files[f].bytes
                               /\ Closed(files)[f].data = files[f].data
<1>1. ASSUME NEW f \in Files
      PROVE  LET r == [files[f] EXCEPT !.open = FALSE]
             IN  /\ r \in FileRecords
                 /\ r.size = files[f].size /\ r.bytes = files[f].bytes
                 /\ r.data = files[f].data
  <2>1. files[f] \in FileRecords
    OBVIOUS
  <2>2. QED
    BY <2>1 DEF FileRecords
<1>2. QED
  BY <1>1 DEF Closed

LEMMA WriteFacts ==
    ASSUME TypeOK, HeaderDescribesFile, fWriteToFile, ulCurrentFile \in Files,
           ulCurrentFile < ulFileCount, InUse(atFiles, ulCurrentFile),
           NEW buf \in Buffers, NEW full \in BOOLEAN, WriteToFile(buf, full)
    PROVE  /\ atFiles' \in [Files -> FileRecords] /\ fWriteToFile' \in BOOLEAN
           /\ ulCurrentFile' \in Files /\ ulCurrentFile' < ulFileCount
           /\ \A f \in Files : atFiles'[f].open = atFiles[f].open
           /\ HeaderDescribesFile'
           /\ fWriteToFile' =>
                 /\ InUse(atFiles', ulCurrentFile')
                 /\ \/ atFiles'[ulCurrentFile'].data =
                           Append(atFiles[ulCurrentFile].data, buf.no)
                    \/ atFiles'[ulCurrentFile'].data = <<buf.no>>
<1> DEFINE cur  == ulCurrentFile
           ended == WriteHeader(atFiles, cur, DataSize(atFiles, cur))
           last == cur + 1 >= ulFileCount
           next == IF last THEN 0 ELSE cur + 1
           blank == WriteHeader(ended, next, INVALID)
<1>1. /\ atFiles \in [Files -> FileRecords] /\ atFiles[cur] \in FileRecords
      /\ ulFileCount \in 0 .. MaxFiles /\ fWriteToFile \in BOOLEAN
      /\ cur \in Nat /\ buf.size \in 1 .. DmaSize
  BY DEF TypeOK, Buffers, Files
<1>2. next \in Files /\ next < ulFileCount
  BY <1>1 DEF Files
<1>3. /\ ended \in [Files -> FileRecords]
      /\ ended[cur].size = ended[cur].bytes /\ ended[cur].open = atFiles[cur].open
      /\ \A g \in Files \ {cur} : ended[g] = atFiles[g]
  BY <1>1, EndFacts
<1>4. INVALID \in 0 .. INVALID
  BY DEF INVALID
<1> HIDE DEF ended, next
<1>5. /\ blank \in [Files -> FileRecords]
      /\ blank[next].size = INVALID /\ blank[next].bytes = 0
      /\ blank[next].offset = 1 /\ blank[next].data = <<>>
      /\ blank[next].open = ended[next].open
      /\ \A g \in Files \ {next} : blank[g] = ended[g]
  BY <1>2, <1>3, <1>4, HeaderFacts
<1> HIDE DEF blank
<1>6. CASE Fits(buf) /\ atFiles' = WriteData(atFiles, cur, buf)
           /\ UNCHANGED <<fWriteToFile, ulCurrentFile>>
  <2>1. /\ atFiles' \in [Files -> FileRecords]
        /\ atFiles'[cur].open = atFiles[cur].open
        /\ atFiles'[cur].size = atFiles[cur].size
        /\ atFiles'[cur].offset = atFiles[cur].offset + buf.size
        /\ atFiles'[cur].bytes = atFiles[cur].bytes + buf.size
        /\ atFiles'[cur].data = Append(atFiles[cur].data, buf.no)
        /\ \A g \in Files \ {cur} : atFiles'[g] = atFiles[g]
    <3>1. atFiles[cur].offset + buf.size <= FileSize
      BY <1>6 DEF Fits
    <3> HIDE DEF cur
    <3>2. cur \in Files
      BY DEF cur
    <3>3. atFiles \in [Files -> FileRecords] /\ atFiles' = WriteData(atFiles, cur, buf)
      BY <1>1, <1>6
    <3>4. QED
      BY ONLY LibAssumption, buf \in Buffers, <3>1, <3>2, <3>3, DataFacts
  <2>2. /\ atFiles[cur].offset \in Nat /\ atFiles[cur].bytes \in Nat
        /\ buf.size \in Nat
    BY <1>1 DEF FileRecords
  <2>3. InUse(atFiles', cur)
    <3>1. atFiles[cur].size = INVALID /\ atFiles[cur].offset = atFiles[cur].bytes + 1
      BY DEF InUse
    <3> HIDE DEF cur
    <3>2. atFiles'[cur].size = INVALID
          /\ atFiles'[cur].offset = atFiles'[cur].bytes + 1
      BY <2>1, <2>2, <3>1
    <3>3. QED
      BY <3>2 DEF InUse
  <2>4. HeaderDescribesFile'
    BY <2>1, <2>3 DEF HeaderDescribesFile, InUse
  <2>5. QED
    BY <1>1, <1>6, <2>1, <2>3, <2>4
<1>7. CASE atFiles' = WriteData(blank, next, buf) /\ ulCurrentFile' = next
           /\ UNCHANGED fWriteToFile
  <2>1. blank[next].offset + buf.size <= FileSize
    BY <1>1, <1>5
  <2>2. /\ atFiles' \in [Files -> FileRecords]
        /\ atFiles'[next].open = blank[next].open
        /\ atFiles'[next].size = INVALID
        /\ atFiles'[next].offset = 1 + buf.size
        /\ atFiles'[next].bytes = 0 + buf.size
        /\ atFiles'[next].data = Append(<<>>, buf.no)
        /\ \A g \in Files \ {next} : atFiles'[g] = blank[g]
    BY <1>2, <1>5, <1>7, <2>1, DataFacts
  <2>3. InUse(atFiles', next) /\ atFiles'[next].data = <<buf.no>>
    BY <1>1, <2>2 DEF InUse
  <2>4. \A f \in Files : atFiles'[f].open = atFiles[f].open
    BY <1>2, <1>3, <1>5, <2>2
  <2>5. HeaderDescribesFile'
    BY <1>2, <1>3, <1>5, <2>2, <2>3 DEF HeaderDescribesFile, InUse
  <2>6. QED
    BY <1>1, <1>2, <1>7, <2>2, <2>3, <2>4, <2>5
<1>8. CASE atFiles' = ended /\ fWriteToFile' = FALSE /\ UNCHANGED ulCurrentFile
  <2>1. HeaderDescribesFile'
    BY <1>3, <1>8 DEF HeaderDescribesFile
  <2>2. QED
    BY <1>1, <1>3, <1>8, <2>1
<1>9. QED
  BY <1>6, <1>7, <1>8 DEF WriteToFile, ended, blank, next

-----------------------------------------------------------------------------
(* The writing event thread has a buffer, and its file is ready. *)

LEMMA HeldBuffer ==
    ASSUME TypeOK, LibInv, NEW t \in Threads, HasBuf(t)
    PROVE  /\ Alive(t) /\ t = hPollingThread
           /\ Head(thread[t].buf) \in Buffers
           /\ Head(thread[t].buf).no = Taken
<1>1. thread[t] \in ThreadRecords
  BY DEF TypeOK
<1>2. thread[t].buf # <<>> /\ Head(thread[t].buf).no = Taken
  BY DEF LibInv, AloneInv, OrderInv
<1>3. thread[t].buf \in {<<b>> : b \in Buffers}
  BY <1>1, <1>2 DEF ThreadRecords, Slots
<1>4. Alive(t)
  BY DEF Alive, HasBuf
<1>5. QED
  BY <1>2, <1>3, <1>4 DEF LibInv, AloneInv

LEMMA WriterReady ==
    ASSUME TypeOK, LibInv, NEW t \in Threads, HasBuf(t), fWriteToFile
    PROVE  /\ ulFileCount > 0 /\ ulCurrentFile \in Files
           /\ ulCurrentFile < ulFileCount /\ InUse(atFiles, ulCurrentFile)
<1>1. Alive(t) /\ ~NoThread
  BY HeldBuffer DEF NoThread
<1>2. api \notin {"stopFiles", "stopWait", "stopJoin"}
  BY DEF LibInv, DriverInv, StopServed, ShowsEnd
<1>3. ulFileCount \in Nat /\ ulFileCount # 0
  BY <1>1, <1>2 DEF LibInv, FilesInv, TypeOK
<1>4. QED
  BY <1>1, <1>3 DEF LibInv, FilesInv, FreshList, InUse

LEMMA WriteResult ==
    ASSUME TypeOK, LibInv, NEW t \in Threads, ThreadWrite(t)
    PROVE  /\ atFiles' \in [Files -> FileRecords] /\ fWriteToFile' \in BOOLEAN
           /\ ulCurrentFile' = 0 \/ ulCurrentFile' \in Files
           /\ ulFileCount > 0 => ulCurrentFile' < ulFileCount
           /\ \A f \in Files : atFiles'[f].open = atFiles[f].open
           /\ HeaderDescribesFile'
           /\ fWriteToFile' =>
                /\ fWriteToFile /\ ulFileCount > 0 /\ ulCurrentFile' \in Files
                /\ InUse(atFiles', ulCurrentFile')
                /\ \/ atFiles'[ulCurrentFile'].data =
                          Append(atFiles[ulCurrentFile].data, Taken)
                   \/ atFiles'[ulCurrentFile'].data = <<Taken>>
<1>1. HasBuf(t)
  BY DEF ThreadWrite, HasBuf
<1>2. CASE fWriteToFile
  <2>1. PICK full \in BOOLEAN : WriteToFile(Head(thread[t].buf), full)
    BY <1>2 DEF ThreadWrite
  <2>2. Head(thread[t].buf) \in Buffers /\ Head(thread[t].buf).no = Taken
    BY <1>1, HeldBuffer
  <2>3. HeaderDescribesFile /\ InUse(atFiles, ulCurrentFile)
        /\ ulCurrentFile \in Files /\ ulCurrentFile < ulFileCount
        /\ ulFileCount > 0
    BY <1>1, <1>2, WriterReady DEF LibInv, FilesInv
  <2> DEFINE buf == Head(thread[t].buf)
  <2>4. buf \in Buffers /\ buf.no = Taken /\ WriteToFile(buf, full)
    BY <2>1, <2>2
  <2> HIDE DEF buf
  <2>5. QED
    BY <1>2, <2>3, <2>4, WriteFacts
<1>3. CASE ~fWriteToFile
  <2>1. UNCHANGED <<fWriteToFile, ulCurrentFile, atFiles>>
    BY <1>3 DEF ThreadWrite
  <2>2. QED
    BY <1>3, <2>1 DEF TypeOK, LibInv, FilesInv, HeaderDescribesFile
<1>4. QED
  BY <1>2, <1>3 DEF TypeOK

-----------------------------------------------------------------------------
(* Every step keeps the types. *)

LEMMA ThreadTypes ==
    ASSUME TypeOK, LibInv, NEW t \in Threads, EventThread(t)
    PROVE  TypeOK'
<1> USE DEF driverVars, stateVars, fileVars, apiVars, ThreadBegin, ThreadTest,
            ThreadPoll, ThreadStatus, ThreadSetState, ThreadError, ThreadRead,
            TakeData, ThreadCallback
<1>1. thread' \in [Threads -> ThreadRecords]
  BY OtherStep, ReadStep, WriteStep, CallbackStep DEF EventThread, ThreadOther
<1>2. UNCHANGED <<api, starts, first, ulFileCount, fRingBuffer, hPollingThread,
                  pfnData, filled, kState, kChange, kStop>>
  BY ThreadFrame
<1>3. /\ atFiles' \in [Files -> FileRecords] /\ fWriteToFile' \in BOOLEAN
      /\ ulCurrentFile' = 0 \/ ulCurrentFile' \in Files
  <2>1. CASE ThreadWrite(t)
    BY <2>1, WriteResult
  <2>2. CASE UNCHANGED fileVars
    BY <2>2 DEF TypeOK
  <2>3. QED
    BY <2>1, <2>2 DEF EventThread
<1>4. kData' \in Slots
  <2>1. kData' = kData \/ kData' = <<>>
    BY DEF EventThread, ThreadWrite
  <2>2. QED
    BY <2>1 DEF TypeOK, Slots
<1>5. seen' \in Seq(1 .. MaxFill)
  <2>1. CASE ThreadCallback(t)
    <3> DEFINE e == Head(thread[t].buf).no
    <3>1. e \in 1 .. MaxFill
      BY <2>1, HeldBuffer DEF HasBuf, Buffers
    <3>2. seen \in Seq(1 .. MaxFill)
      BY DEF TypeOK
    <3>3. seen' = seen \/ seen' = Append(seen, e)
      BY <2>1
    <3> HIDE DEF e
    <3>4. Append(seen, e) \in Seq(1 .. MaxFill)
      BY ONLY <3>1, <3>2
    <3>5. QED
      BY ONLY <3>2, <3>3, <3>4
  <2>2. CASE UNCHANGED seen
    BY <2>2 DEF TypeOK
  <2>3. QED
    BY <2>1, <2>2 DEF EventThread, ThreadWrite
<1>6. ulCaptureState' \in {"OFF", "RUNNING"}
  <2>1. thread[t] \in ThreadRecords /\ ulCaptureState \in {"OFF", "RUNNING"}
    BY DEF TypeOK
  <2>2. ulCaptureState' = ulCaptureState \/ ulCaptureState' = thread[t].state
    BY DEF EventThread, ThreadWrite
  <2>3. QED
    BY <2>1, <2>2 DEF ThreadRecords
<1>7. {kStatus', kError', fRunEventThread', iEventError'} \subseteq BOOLEAN
  <2>1. {kStatus, kError, fRunEventThread, iEventError} \subseteq BOOLEAN
    BY DEF TypeOK
  <2>2. thread[t].error \in BOOLEAN
    BY DEF TypeOK, ThreadRecords
  <2>3. /\ kStatus' \in {kStatus, FALSE}
        /\ kError' \in {kError, (kError \/ (thread[t].error /\ kState = "RUNNING"))}
        /\ fRunEventThread' \in {fRunEventThread, FALSE}
        /\ iEventError' \in {iEventError, TRUE}
    BY DEF EventThread, ThreadWrite
  <2>4. QED
    BY <2>1, <2>2, <2>3
<1>8. QED
  BY <1>1, <1>2, <1>3, <1>4, <1>5, <1>6, <1>7 DEF TypeOK

LEMMA TypeStep ==
    ASSUME TypeOK, LibInv, [Next]_vars
    PROVE  TypeOK'
<1> USE DEF driverVars, stateVars, fileVars, apiVars, notDriver, notApp, TypeOK
<1>1. CASE Publish
  <2>1. kData' \in Slots
    <3>1. \E size \in 1 .. DmaSize : kData' = <<[no |-> filled + 1, size |-> size]>>
      BY <1>1 DEF Publish
    <3>2. filled + 1 \in 1 .. MaxFill
      BY <1>1 DEF Publish
    <3>3. QED
      BY <3>1, <3>2 DEF Slots, Buffers
  <2>2. filled' \in 0 .. MaxFill
    BY <1>1 DEF Publish
  <2>3. QED
    BY <1>1, <2>1, <2>2 DEF Publish
<1>2. CASE CaptureEnds
  BY <1>2 DEF CaptureEnds
<1>3. CASE ShowState
  BY <1>3 DEF ShowState
<1>4. CASE SetFileList
  <2>1. atFiles' \in [Files -> FileRecords]
    <3>1. [open |-> TRUE, offset |-> 0, size |-> INVALID, data |-> <<>>, bytes |-> 0]
          \in FileRecords
      <4>1. <<>> \in Seq(1 .. MaxFill) /\ 0 \in 0 .. FileSize /\ INVALID \in 0 .. INVALID
        BY DEF INVALID
      <4>2. QED
        BY <4>1 DEF FileRecords
    <3>2. QED
      BY <1>4, <3>1 DEF SetFileList
  <2>2. ulCurrentFile' = 0 /\ ulFileCount' \in 0 .. MaxFiles
    BY <1>4 DEF SetFileList
  <2>3. QED
    BY <1>4, <2>1, <2>2 DEF SetFileList
<1>5. CASE Start
  <2>1. atFiles' \in [Files -> FileRecords]
        /\ (ulCurrentFile' = 0 \/ ulCurrentFile' \in Files)
    <3>1. CASE ulFileCount > 0
      <4>1. 0 \in Files /\ INVALID \in 0 .. INVALID
        BY <3>1 DEF Files, INVALID
      <4>2. ulCurrentFile' = 0 /\ atFiles' = WriteHeader(atFiles, 0, INVALID)
        BY <1>5, <3>1 DEF Start
      <4>3. QED
        BY <4>1, <4>2, HeaderFacts
    <3>2. CASE ~(ulFileCount > 0)
      BY <1>5, <3>2 DEF Start
    <3>3. QED
      BY <3>1, <3>2
  <2>2. {fRingBuffer', fWriteToFile', pfnData'} \subseteq BOOLEAN
    BY <1>5 DEF Start
  <2>3. starts' \in 0 .. MaxStarts /\ first' \in 0 .. MaxFill /\ api' \in ApiPcs
    BY <1>5 DEF Start, ApiPcs
  <2>4. QED
    BY <1>5, <2>1, <2>2, <2>3 DEF Start
<1>6. CASE Stop
  BY <1>6 DEF Stop, Return, ApiPcs
<1>7. CASE Close
  BY <1>7 DEF Close, ApiPcs
<1>8. CASE StartThread
  <2>1. thread' \in [Threads -> ThreadRecords]
    BY <1>8, StartThreadStep DEF LibInv
  <2>2. {fRunEventThread', iEventError'} \subseteq BOOLEAN
        /\ hPollingThread' \in 0 .. MaxStarts /\ api' \in ApiPcs
    BY <1>8 DEF StartThread, ApiPcs
  <2>3. QED
    BY <1>8, <2>1, <2>2 DEF StartThread
<1>9. CASE StartControl
  BY <1>9 DEF StartControl, Return, ApiPcs
<1>10. CASE StartDone
  BY <1>10 DEF StartDone, Return, ApiPcs
<1>11. CASE StopControl
  BY <1>11 DEF StopControl, Return, ApiPcs
<1>12. CASE StopDriver
  BY <1>12 DEF StopDriver, ApiPcs
<1>13. CASE StopFiles
  <2>1. atFiles' \in [Files -> FileRecords]
    <3>1. CASE fWriteToFile /\ ulFileCount # 0
      <4>1. ulCurrentFile \in Files /\ InUse(atFiles, ulCurrentFile)
        BY <1>13, <3>1 DEF StopFiles, LibInv, FilesInv, FreshList, InUse
      <4>2. WriteHeader(atFiles, ulCurrentFile, DataSize(atFiles, ulCurrentFile))
            \in [Files -> FileRecords]
        BY <4>1, EndFacts
      <4>3. QED
        BY <1>13, <3>1, <4>2, ClosedFacts DEF StopFiles
    <3>2. CASE ~(fWriteToFile /\ ulFileCount # 0)
      BY <1>13, <3>2, ClosedFacts DEF StopFiles
    <3>3. QED
      BY <3>1, <3>2
  <2>2. ulFileCount' \in 0 .. MaxFiles /\ api' \in ApiPcs
    BY <1>13 DEF StopFiles, ApiPcs
  <2>3. QED
    BY <1>13, <2>1, <2>2 DEF StopFiles
<1>14. CASE StopWait
  BY <1>14 DEF StopWait, TellThread, ApiPcs
<1>15. CASE StopJoin
  BY <1>15 DEF StopJoin, Return, ApiPcs
<1>16. CASE \E t \in Threads : EventThread(t)
  BY <1>16, ThreadTypes
<1>17. CASE UNCHANGED vars
  BY <1>17 DEF vars
<1>18. CASE StartNoThread
  BY <1>18 DEF StartNoThread, Return, ApiPcs
<1>19. QED
  BY <1>1, <1>2, <1>3, <1>4, <1>5, <1>6, <1>7, <1>8, <1>9, <1>10, <1>11, <1>12,
     <1>13, <1>14, <1>15, <1>16, <1>17, <1>18 DEF Next, Driver, AppContinue

-----------------------------------------------------------------------------
(* Every step keeps the event thread alone. *)

\* The steps of the application that neither make a thread nor wait for one.
AppOther ==
    \/ SetFileList \/ Stop \/ Close \/ StartControl \/ StartNoThread \/ StartDone
    \/ StopControl \/ StopDriver \/ StopFiles \/ StopWait \/ StopJoin

LEMMA NextCases ==
    ASSUME [Next]_vars
    PROVE  \/ Driver \/ Start \/ StartThread \/ AppOther
           \/ \E t \in Threads : EventThread(t)
           \/ UNCHANGED vars
  BY DEF Next, AppContinue, AppOther

LEMMA ThreadKept ==
    ASSUME Driver \/ Start \/ AppOther \/ UNCHANGED vars
    PROVE  UNCHANGED <<thread, hPollingThread, seen>>
  BY DEF Driver, Publish, CaptureEnds, ShowState, Start, AppOther, SetFileList,
     Stop, Close, StartControl, StartNoThread, StartDone, StopControl, StopDriver, StopFiles,
     StopWait, StopJoin, notDriver, notApp, stateVars, vars

LEMMA NotStarting ==
    ASSUME Driver \/ AppOther \/ UNCHANGED vars
    PROVE  starts' = starts /\ first' = first
           /\ (api' = api \/ api' \notin {"startThread", "startControl"})
  BY DEF Driver, Publish, CaptureEnds, ShowState, AppOther, SetFileList,
     Stop, Close, StartControl, StartNoThread, StartDone, StopControl, StopDriver, StopFiles,
     StopWait, StopJoin, Return, notDriver, notApp, apiVars, vars

LEMMA AloneStep ==
    ASSUME Tidy, TypeOK, LibInv, [Next]_vars
    PROVE  AloneInv'
<1> USE DEF Alive, HasBuf
<1>0. AloneInv
  BY DEF LibInv
<1>1. CASE Driver \/ AppOther \/ UNCHANGED vars
  BY <1>0, <1>1, ThreadKept, NotStarting DEF AloneInv, NoThread
<1>2. CASE Start
  <2>1. NoThread /\ starts' \in Threads
    BY <1>2 DEF Start, Undisturbed, NoThread, Threads, TypeOK
  <2>2. QED
    BY <1>0, <1>2, <2>1, ThreadKept DEF AloneInv, NoThread
<1>3. CASE StartThread
  <2>1. /\ starts \in Threads /\ thread'[starts].pc = "begin"
        /\ thread'[starts].buf = thread[starts].buf
        /\ \A u \in Threads \ {starts} : thread'[u] = thread[u]
    BY <1>0, <1>3, StartThreadStep
  <2>2. NoThread /\ hPollingThread' = starts /\ api' = "startControl"
    BY <1>0, <1>3 DEF StartThread, AloneInv
  <2>3. \A u \in Threads : thread[u].buf = <<>>
    BY <1>0, <2>2 DEF AloneInv, NoThread
  <2>4. QED
    BY <2>1, <2>2, <2>3 DEF AloneInv, NoThread
<1>4. ASSUME NEW t \in Threads, EventThread(t)
      PROVE  AloneInv'
  <2>1. Alive(t) /\ t = hPollingThread
    <3>1. Alive(t)
      BY <1>4 DEF EventThread, ThreadBegin, ThreadTest, ThreadPoll, ThreadRead,
         ThreadWrite, ThreadCallback, ThreadStatus, ThreadSetState, ThreadError
    <3>2. QED
      BY <1>0, <3>1 DEF AloneInv
  <2>2. \A u \in Threads \ {t} : ~Alive(u) /\ ~HasBuf(u)
    BY <1>0, <2>1, OnlyThread
  <2>3. \A u \in Threads \ {t} : thread'[u] = thread[u]
    BY <1>4, OtherStep, ReadStep, WriteStep, CallbackStep DEF EventThread, ThreadOther
  <2>4. (thread'[t].buf # <<>>) <=> HasBuf(t)'
    <3>1. CASE ThreadOther(t)
      BY <1>0, <3>1, OtherStep DEF AloneInv
    <3>2. CASE ThreadRead(t)
      BY <3>2, ReadStep
    <3>3. CASE ThreadWrite(t)
      BY <1>0, <3>3, WriteStep DEF AloneInv
    <3>4. CASE ThreadCallback(t)
      BY <3>4, CallbackStep
    <3>5. QED
      BY <1>4, <3>1, <3>2, <3>3, <3>4 DEF EventThread, ThreadOther
  <2>5. UNCHANGED <<api, starts, hPollingThread>> /\ api # "startThread"
    BY <1>0, <1>4, <2>1, ThreadFrame DEF AloneInv, NoThread
  <2>6. QED
    BY <1>0, <2>1, <2>2, <2>3, <2>4, <2>5 DEF AloneInv
<1>5. QED
  BY <1>1, <1>2, <1>3, <1>4, NextCases

-----------------------------------------------------------------------------
(* Every step keeps the driver's order. *)

\* What the application does not change of the driver, but in StartControl.
LEMMA AppKeepsDriver ==
    ASSUME Start \/ StartThread \/ (AppOther /\ ~StartControl) \/ UNCHANGED vars
    PROVE  UNCHANGED <<kState, kChange, kData, kStatus, filled>>
  BY DEF Start, StartThread, AppOther, SetFileList, Stop, Close, StartNoThread, StartDone,
     StopControl, StopDriver, StopFiles, StopWait, StopJoin, driverVars, vars

LEMMA Stopping ==
    ASSUME Start \/ StartThread \/ (AppOther /\ ~StartControl) \/ UNCHANGED vars,
           api' \in {"stopFiles", "stopWait", "stopJoin"}
    PROVE  StopServed \/ api \in {"stopFiles", "stopWait", "stopJoin"}
  BY DEF Start, StartThread, AppOther, SetFileList, Stop, Close, StartNoThread, StartDone,
     StopControl, StopDriver, StopFiles, StopWait, StopJoin, Return, apiVars, vars

\* Who has a buffer after a thread's step.
LEMMA NewHolder ==
    ASSUME TypeOK, LibInv, NEW t \in Threads, EventThread(t)
    PROVE  /\ \A u \in Threads \ {t} : ~HasBuf(u)' /\ ~HasBuf(u)
           /\ HasBuf(t)' => HasBuf(t) \/ (ThreadRead(t) /\ kData # <<>>)
           /\ HasBuf(t) <=> ThreadWrite(t) \/ ThreadCallback(t)
<1>1. Alive(t)
  BY DEF EventThread, ThreadBegin, ThreadTest, ThreadPoll, ThreadRead, Alive,
     ThreadWrite, ThreadCallback, ThreadStatus, ThreadSetState, ThreadError
<1>2. \A u \in Threads \ {t} : thread'[u] = thread[u] /\ ~HasBuf(u)
  BY <1>1, OnlyThread, OtherStep, ReadStep, WriteStep, CallbackStep
  DEF EventThread, ThreadOther, LibInv
<1>3. CASE ThreadOther(t)
  BY <1>2, <1>3, OtherStep DEF HasBuf, ThreadWrite, ThreadCallback
<1>4. CASE ThreadRead(t)
  BY <1>2, <1>4, ReadStep DEF HasBuf, ThreadWrite, ThreadCallback
<1>5. CASE ThreadWrite(t) \/ ThreadCallback(t)
  BY <1>2, <1>5, WriteStep, CallbackStep DEF HasBuf
<1>6. QED
  BY <1>3, <1>4, <1>5 DEF EventThread, ThreadOther

LEMMA DriverStep ==
    ASSUME TypeOK, LibInv, [Next]_vars
    PROVE  DriverInv'
<1> USE DEF ShowsEnd, StopServed
<1>0. DriverInv
  BY DEF LibInv
<1>1. CASE Driver
  <2>1. UNCHANGED <<thread, api>>
    BY <1>1 DEF Driver, Publish, CaptureEnds, ShowState, notDriver, apiVars
  <2>2. \A u \in Threads : HasBuf(u)' <=> HasBuf(u)
    BY <2>1 DEF HasBuf
  <2>3. CASE Publish
    BY <1>0, <2>1, <2>2, <2>3 DEF DriverInv, Publish
  <2>4. CASE CaptureEnds
    BY <1>0, <2>1, <2>2, <2>4 DEF DriverInv, CaptureEnds
  <2>5. CASE ShowState
    BY <1>0, <2>1, <2>2, <2>5 DEF DriverInv, ShowState
  <2>6. QED
    BY <1>1, <2>3, <2>4, <2>5 DEF Driver
<1>2. CASE Start \/ AppOther \/ UNCHANGED vars
  <2>1. \A u \in Threads : HasBuf(u)' <=> HasBuf(u)
    BY <1>2, ThreadKept DEF HasBuf
  <2>2. CASE StartControl
    <3>1. UNCHANGED <<kData, kStatus>> /\ api' \in {"startWait", "idle"}
          /\ \/ UNCHANGED <<kState, kChange>>
             \/ kState' = "RUNNING" /\ kChange'
      BY <2>2 DEF StartControl, Return
    <3>2. QED
      BY <1>0, <2>1, <3>1 DEF DriverInv
  <2>3. CASE ~StartControl
    BY <1>0, <1>2, <2>1, <2>3, AppKeepsDriver, Stopping DEF DriverInv
  <2>4. QED
    BY <2>2, <2>3
<1>3. CASE StartThread
  <2>1. \A u \in Threads : HasBuf(u)' => HasBuf(u)
    BY <1>3, StartThreadStep DEF LibInv, HasBuf
  <2>2. QED
    BY <1>0, <1>3, <2>1, AppKeepsDriver, Stopping DEF DriverInv
<1>4. ASSUME NEW t \in Threads, EventThread(t)
      PROVE  DriverInv'
  <2>1. \A u \in Threads : HasBuf(u)' =>
            u = t /\ (HasBuf(t) \/ (ThreadRead(t) /\ kData # <<>>))
    BY <1>4, NewHolder
  <2>2. UNCHANGED <<api, kState, kChange>>
    BY <1>4, ThreadFrame
  <2>3. kData' = kData \/ kData' = <<>>
    BY <1>4 DEF EventThread, ThreadBegin, ThreadTest, ThreadPoll, ThreadRead,
       TakeData, ThreadWrite, ThreadCallback, ThreadStatus, ThreadSetState,
       ThreadError, driverVars
  <2>4. kStatus' = kStatus \/ (kStatus' = FALSE /\ ~HasBuf(t) /\ ~ThreadRead(t))
    BY <1>4 DEF EventThread, ThreadBegin, ThreadTest, ThreadPoll, ThreadRead,
       ThreadWrite, ThreadCallback, ThreadStatus, ThreadSetState,
       ThreadError, driverVars, HasBuf
  <2>5. QED
    BY <1>0, <2>1, <2>2, <2>3, <2>4 DEF DriverInv
<1>5. QED
  BY <1>1, <1>2, <1>3, <1>4, NextCases

-----------------------------------------------------------------------------
(* Every step keeps the files in order. *)

\* The steps that leave the files alone.
LEMMA FilesKept ==
    ASSUME Driver \/ StartThread \/ UNCHANGED vars
           \/ (AppOther /\ ~SetFileList /\ ~StopFiles)
    PROVE  UNCHANGED <<fRingBuffer, fWriteToFile, ulFileCount, ulCurrentFile, atFiles>>
  BY DEF Driver, Publish, CaptureEnds, ShowState, StartThread, AppOther, Stop,
     Close, StartControl, StartNoThread, StartDone, StopControl, StopDriver, StopWait, StopJoin,
     notDriver, fileVars, vars

LEMMA SameFiles ==
    ASSUME UNCHANGED atFiles, HeaderDescribesFile
    PROVE  HeaderDescribesFile'
  BY DEF HeaderDescribesFile

\* A list waits for its start until a call comes that starts it.
LEMMA FreshStep ==
    ASSUME Driver \/ UNCHANGED vars \/ (AppOther /\ ~SetFileList /\ ~StopFiles),
           FreshList
    PROVE  FreshList'
<1>1. api \in {"idle", "freed"} /\ ulCaptureState = "OFF" /\ NoThread
  BY DEF FreshList, IsCaptureRunning
<1>2. UNCHANGED thread
  BY ThreadKept
<1>3. NoThread'
  BY <1>1, <1>2 DEF NoThread, Alive
<1>4. api' \in {"idle", "freed"} /\ ulCaptureState' = "OFF"
  BY <1>1 DEF Driver, Publish, CaptureEnds, ShowState, AppOther, Stop,
     Close, StartControl, StartNoThread, StartDone, StopControl, StopDriver, StopWait, StopJoin,
     Return, notDriver, stateVars, apiVars, vars, IsCaptureRunning
<1>5. QED
  BY <1>3, <1>4 DEF FreshList, IsCaptureRunning

\* Where the file is not begun again, its call has ended.
LEMMA IdleStep ==
    ASSUME TypeOK, LibInv, fWriteToFile, ulFileCount = 0,
           Driver \/ UNCHANGED vars \/ (AppOther /\ ~SetFileList /\ ~StopFiles)
    PROVE  \/ api' \in {"stopWait", "stopJoin"}
           \/ NoThread' /\ api' # "startThread"
<1>1. api \in {"stopWait", "stopJoin"} \/ (NoThread /\ api # "startThread")
  BY DEF LibInv, FilesInv
<1>2. UNCHANGED thread
  BY ThreadKept
<1>3. NoThread => NoThread'
  BY <1>2 DEF NoThread, Alive
<1>4. CASE NoThread /\ api # "startThread"
  BY <1>3, <1>4, NotStarting
<1>5. CASE api \in {"stopWait", "stopJoin"}
  <2>1. api' = api \/ StopWait \/ StopJoin
    BY <1>5 DEF Driver, Publish, CaptureEnds, ShowState, AppOther, Stop,
       Close, StartControl, StartNoThread, StartDone, StopControl, StopDriver, notDriver,
       apiVars, vars
  <2>2. CASE StopWait
    BY <2>2 DEF StopWait
  <2>3. CASE StopJoin
    <3>1. NoThread
      BY <2>3 DEF StopJoin, LibInv, AloneInv, NoThread
    <3>2. QED
      BY <1>3, <2>3, <3>1 DEF StopJoin, Return
  <2>4. QED
    BY <1>5, <2>1, <2>2, <2>3
<1>6. QED
  BY <1>1, <1>4, <1>5

LEMMA FilesStep ==
    ASSUME Tidy, TypeOK, LibInv, [Next]_vars
    PROVE  FilesInv'
<1>0. FilesInv /\ HeaderDescribesFile /\ atFiles \in [Files -> FileRecords]
      /\ ulFileCount \in 0 .. MaxFiles
  BY DEF LibInv, FilesInv, TypeOK
<1>1. CASE Driver \/ UNCHANGED vars \/ (AppOther /\ ~SetFileList /\ ~StopFiles)
  <2>1. UNCHANGED <<fWriteToFile, ulFileCount, ulCurrentFile, atFiles>>
    BY <1>1, FilesKept
  <2>2. HeaderDescribesFile'
    BY <1>0, <2>1, SameFiles
  <2>3. FreshList => FreshList'
    BY <1>1, FreshStep
  <2>4. fWriteToFile /\ ulFileCount = 0 =>
          api' \in {"stopWait", "stopJoin"} \/ (NoThread' /\ api' # "startThread")
    BY <1>1, IdleStep
  <2>5. QED
    BY <1>0, <2>1, <2>2, <2>3, <2>4 DEF FilesInv
<1>2. CASE StartThread
  <2>1. UNCHANGED <<fWriteToFile, ulFileCount, ulCurrentFile, atFiles>>
    BY <1>2, FilesKept
  <2>2. HeaderDescribesFile'
    BY <1>0, <2>1, SameFiles
  <2>3. ~FreshList /\ (fWriteToFile => ulFileCount # 0)
    BY <1>0, <1>2 DEF StartThread, FreshList, FilesInv
  <2>4. QED
    BY <1>0, <2>1, <2>2, <2>3 DEF FilesInv
<1>3. CASE Start
  <2>1. CASE ulFileCount > 0
    <3>1. 0 \in Files /\ INVALID \in 0 .. INVALID
      BY <1>0, <2>1 DEF Files, INVALID
    <3>2. ulCurrentFile' = 0 /\ atFiles' = WriteHeader(atFiles, 0, INVALID)
          /\ UNCHANGED ulFileCount
      BY <1>3, <2>1 DEF Start
    <3>3. /\ atFiles'[0].open = atFiles[0].open /\ InUse(atFiles', 0)
          /\ \A g \in Files \ {0} : atFiles'[g] = atFiles[g]
      BY <1>0, <3>1, <3>2, HeaderFacts DEF InUse
    <3>4. HeaderDescribesFile'
      BY <1>0, <3>3 DEF HeaderDescribesFile, InUse
    <3>5. \A f \in Files : f < ulFileCount => atFiles'[f].open
      BY <1>0, <2>1, <3>3 DEF FilesInv
    <3>6. ulFileCount' # 0
      BY <2>1, <3>2
    <3>7. QED
      BY <1>0, <2>1, <3>1, <3>2, <3>3, <3>4, <3>5, <3>6 DEF FilesInv, InUse
  <2>2. CASE ~(ulFileCount > 0)
    <3>1. ~fWriteToFile' /\ UNCHANGED <<ulFileCount, ulCurrentFile, atFiles>>
      BY <1>3, <2>2 DEF Start
    <3>2. HeaderDescribesFile'
      BY <1>0, <3>1, SameFiles
    <3>3. QED
      BY <2>2, <3>1, <3>2 DEF FilesInv
  <2>3. QED
    BY <2>1, <2>2
<1>4. CASE SetFileList
  <2>1. /\ ulFileCount' \in 1 .. MaxFiles /\ ulCurrentFile' = 0
        /\ UNCHANGED <<fWriteToFile, thread, api, ulCaptureState>>
        /\ api = "idle" /\ ~IsCaptureRunning /\ NoThread
    BY <1>4 DEF SetFileList, stateVars, notApp, Undisturbed, NoThread
  <2>2. FreshList'
    BY <2>1 DEF FreshList, NoThread, Alive, IsCaptureRunning
  <2>3. 0 \in Files
    BY <2>1 DEF Files
  <2>4. \A f \in Files : IF f < ulFileCount'
                         THEN atFiles'[f].open /\ atFiles'[f].size = INVALID
                         ELSE atFiles'[f] = atFiles[f]
    BY <1>4 DEF SetFileList
  <2>5. HeaderDescribesFile'
    BY <1>0, <2>4 DEF HeaderDescribesFile
  <2>6. ulFileCount' > 0 /\ ulFileCount' # 0 /\ 0 < ulFileCount'
    BY <2>1
  <2>7. QED
    BY <2>1, <2>2, <2>3, <2>4, <2>5, <2>6 DEF FilesInv
<1>5. CASE StopFiles
  <2>1. ulFileCount' = 0 /\ api' = "stopWait" /\ UNCHANGED <<fWriteToFile, ulCurrentFile>>
    BY <1>5 DEF StopFiles
  <2>2. HeaderDescribesFile'
    <3>1. CASE fWriteToFile /\ ulFileCount # 0
      <4>1. ulCurrentFile \in Files /\ InUse(atFiles, ulCurrentFile)
        BY <1>0, <1>5, <3>1 DEF StopFiles, FilesInv, FreshList, InUse
      <4> DEFINE ended == WriteHeader(atFiles, ulCurrentFile,
                                      DataSize(atFiles, ulCurrentFile))
      <4>2. /\ ended \in [Files -> FileRecords]
            /\ ended[ulCurrentFile].size = ended[ulCurrentFile].bytes
            /\ \A g \in Files \ {ulCurrentFile} : ended[g] = atFiles[g]
        BY <1>0, <4>1, EndFacts
      <4>3. atFiles' = Closed(ended)
        BY <1>5, <3>1 DEF StopFiles
      <4> HIDE DEF ended
      <4>4. \A f \in Files : /\ atFiles'[f].size = ended[f].size
                             /\ atFiles'[f].bytes = ended[f].bytes
        BY <4>2, <4>3, ClosedFacts
      <4>5. QED
        BY <1>0, <4>1, <4>2, <4>4 DEF HeaderDescribesFile
    <3>2. CASE ~(fWriteToFile /\ ulFileCount # 0)
      <4>1. atFiles' = atFiles \/ atFiles' = Closed(atFiles)
        BY <1>5, <3>2 DEF StopFiles
      <4>2. QED
        BY <1>0, <4>1, ClosedFacts DEF HeaderDescribesFile
    <3>3. QED
      BY <3>1, <3>2
  <2>3. ~(ulFileCount' > 0)
    BY <2>1
  <2>4. QED
    BY <1>0, <2>1, <2>2, <2>3 DEF FilesInv
<1>6. ASSUME NEW t \in Threads, EventThread(t)
      PROVE  FilesInv'
  <2>1. Alive(t) /\ ~NoThread
    BY <1>6 DEF EventThread, ThreadBegin, ThreadTest, ThreadPoll, ThreadRead, Alive,
       ThreadWrite, ThreadCallback, ThreadStatus, ThreadSetState, ThreadError, NoThread
  <2>2. UNCHANGED <<api, ulFileCount>>
    BY <1>6, ThreadFrame
  <2>3. CASE ThreadWrite(t)
    <3>1. /\ ulFileCount > 0 => ulCurrentFile' < ulFileCount
          /\ \A f \in Files : atFiles'[f].open = atFiles[f].open
          /\ HeaderDescribesFile'
          /\ fWriteToFile' => /\ ulFileCount > 0 /\ ulCurrentFile' \in Files
                              /\ InUse(atFiles', ulCurrentFile')
      BY <2>3, WriteResult
    <3>2. fWriteToFile' => ulFileCount # 0
      BY <3>1
    <3>3. QED
      BY <1>0, <2>2, <3>1, <3>2 DEF FilesInv, InUse
  <2>4. CASE UNCHANGED <<fWriteToFile, ulCurrentFile, atFiles>>
    <3>1. HeaderDescribesFile'
      BY <1>0, <2>4, SameFiles
    <3>2. ~FreshList /\ (fWriteToFile /\ ulFileCount = 0 =>
                            api \in {"stopWait", "stopJoin"})
      BY <1>0, <2>1 DEF FreshList, FilesInv
    <3>3. QED
      BY <1>0, <2>2, <2>4, <3>1, <3>2 DEF FilesInv
  <2>5. QED
    BY <1>6, <2>3, <2>4 DEF EventThread, ThreadBegin, ThreadTest, ThreadPoll,
       ThreadRead, ThreadCallback, ThreadStatus, ThreadSetState, ThreadError, fileVars
<1>7. QED
  BY <1>1, <1>2, <1>3, <1>4, <1>5, <1>6, NextCases

-----------------------------------------------------------------------------
(* Numbers and sequences of numbers. *)

LEMMA SeqElement ==
    ASSUME NEW s \in Seq(Nat), NEW i \in 1 .. Len(s)
    PROVE  s[i] \in Nat
  OBVIOUS

LEMMA AppendFacts ==
    ASSUME NEW s \in Seq(Nat), NEW e \in Nat
    PROVE  /\ Len(s) \in Nat /\ Append(s, e) # <<>>
           /\ Len(Append(s, e)) = Len(s) + 1 /\ Append(s, e)[Len(s) + 1] = e
           /\ \A i \in 1 .. Len(s) : Append(s, e)[i] = s[i]
<1>1. /\ Len(s) \in Nat
      /\ Len(Append(s, e)) = Len(s) + 1 /\ Append(s, e)[Len(s) + 1] = e
      /\ \A i \in 1 .. Len(s) : Append(s, e)[i] = s[i]
  OBVIOUS
<1>2. Len(Append(s, e)) # Len(<<>>)
  BY <1>1
<1>3. QED
  BY <1>1, <1>2

(* A greater element keeps a sequence increasing. *)
LEMMA IncreasingAppend ==
    ASSUME NEW s \in Seq(Nat), NEW e \in Nat,
           \A i \in 1 .. Len(s) : s[i] < e,
           \A i \in 1 .. Len(s) - 1 : s[i] < s[i + 1]
    PROVE  \A i \in 1 .. Len(Append(s, e)) - 1 : Append(s, e)[i] < Append(s, e)[i + 1]
<1>1. Len(Append(s, e)) - 1 = Len(s)
  BY AppendFacts
<1>2. SUFFICES ASSUME NEW i \in 1 .. Len(s)
               PROVE  Append(s, e)[i] < Append(s, e)[i + 1]
  BY <1>1
<1>3. CASE i = Len(s)
  BY <1>3, AppendFacts
<1>4. CASE i # Len(s)
  <2>1. i \in 1 .. Len(s) - 1 /\ i + 1 \in 1 .. Len(s)
    BY <1>4
  <2>2. QED
    BY <2>1, AppendFacts
<1>5. QED
  BY <1>3, <1>4

(* The next number continues the end of a sequence. *)
LEMMA EndsWithAppend ==
    ASSUME NEW s \in Seq(Nat), NEW n \in Nat, NEW e \in Nat, EndsWith(s, n, e - 1)
    PROVE  EndsWith(Append(s, e), n + 1, e)
<1>1. Len(s) \in Nat /\ Len(s) >= n
      /\ \A i \in 1 .. n : s[Len(s) - n + i] = e - 1 - n + i
  BY DEF EndsWith
<1>2. Len(Append(s, e)) = Len(s) + 1 /\ Append(s, e)[Len(s) + 1] = e
      /\ \A i \in 1 .. Len(s) : Append(s, e)[i] = s[i]
  BY AppendFacts
<1> DEFINE a == Append(s, e)
<1> HIDE DEF a
<1>3. ASSUME NEW i \in 1 .. n + 1
      PROVE  a[Len(a) - (n + 1) + i] = e - (n + 1) + i
  <2>0. Len(a) = Len(s) + 1 /\ a[Len(s) + 1] = e
        /\ \A j \in 1 .. Len(s) : a[j] = s[j]
    BY <1>2 DEF a
  <2>1. CASE i = n + 1
    <3>1. Len(a) - (n + 1) + i = Len(s) + 1 /\ e - (n + 1) + i = e
      BY <1>1, <2>0, <2>1
    <3>2. QED
      BY <2>0, <3>1
  <2>2. CASE i # n + 1
    <3>1. /\ i \in 1 .. n /\ Len(s) - n + i \in 1 .. Len(s)
          /\ e - (n + 1) + i = e - 1 - n + i
      BY <1>1, <2>2
    <3>2. Len(a) - (n + 1) + i = Len(s) - n + i
      BY <1>1, <2>0
    <3>3. QED
      BY <1>1, <2>0, <3>1, <3>2
  <2>3. QED
    BY <2>1, <2>2
<1>4. Len(a) >= n + 1
  BY <1>1, <1>2 DEF a
<1>5. QED
  BY <1>3, <1>4 DEF EndsWith, a

LEMMA EndsWithNothing ==
    ASSUME NEW s \in Seq(Nat), NEW e \in Int
    PROVE  EndsWith(s, 0, e)
  BY DEF EndsWith

LEMMA OneEnds ==
    ASSUME NEW e \in Nat
    PROVE  <<e>> \in Seq(Nat) /\ Len(<<e>>) = 1 /\ EndsWith(<<e>>, 1, e)
  BY DEF EndsWith

(* Only the callback and the write move the numbers of the buffers.        *)
LEMMA TakenBounds ==
    ASSUME TypeOK
    PROVE  /\ Taken \in Int /\ Taken <= filled /\ filled \in Nat
           /\ Called \in Int /\ Called <= Taken /\ Written \in Int /\ Written <= Taken
<1>1. Len(kData) \in {0, 1} /\ filled \in Nat
  BY DEF TypeOK, Slots
<1>2. QED
  BY <1>1 DEF Taken, Called, Written

LEMMA NumbersKept ==
    ASSUME TypeOK, LibInv, [Next]_vars,
           \A t \in Threads : ~ThreadRead(t) /\ ~ThreadWrite(t) /\ ~ThreadCallback(t)
    PROVE  /\ \A t \in Threads : /\ HasBuf(t)' <=> HasBuf(t)
                                 /\ thread'[t].buf = thread[t].buf
           /\ Taken' = Taken /\ Called' = Called /\ Written' = Written
<1>1. /\ \A t \in Threads : thread'[t].buf = thread[t].buf
      /\ \A t \in Threads : HasBuf(t)' <=> HasBuf(t)
      /\ \A t \in Threads : (thread'[t].pc = "write") <=> (thread[t].pc = "write")
  <2>1. CASE Driver \/ Start \/ AppOther \/ UNCHANGED vars
    BY <2>1, ThreadKept DEF HasBuf
  <2>2. CASE StartThread
    <3>1. /\ starts \in Threads /\ thread'[starts].pc = "begin"
          /\ thread'[starts].buf = thread[starts].buf
          /\ \A u \in Threads \ {starts} : thread'[u] = thread[u]
      BY <2>2, StartThreadStep DEF LibInv
    <3>2. thread[starts].pc \in {"none", "ended"}
      BY <2>2, <3>1 DEF StartThread, LibInv, AloneInv, NoThread, Alive
    <3>3. QED
      BY <3>1, <3>2 DEF HasBuf
  <2>3. ASSUME NEW t \in Threads, EventThread(t)
        PROVE  \A u \in Threads : /\ thread'[u].buf = thread[u].buf
                                  /\ HasBuf(u)' <=> HasBuf(u)
                                  /\ (thread'[u].pc = "write") <=> (thread[u].pc = "write")
    <3>1. ThreadOther(t)
      BY <2>3 DEF EventThread, ThreadOther
    <3>2. QED
      BY <3>1, OtherStep DEF HasBuf
  <2>4. QED
    BY <2>1, <2>2, <2>3, NextCases
<1>2. Taken' = Taken
  <2>1. CASE Publish
    <3>1. \E b : kData = <<>> /\ kData' = <<b>> /\ filled' = filled + 1
      BY <2>1 DEF Publish
    <3>2. filled \in Nat
      BY DEF TypeOK
    <3>3. QED
      BY <3>1, <3>2 DEF Taken
  <2>2. CASE ~Publish
    <3>1. UNCHANGED <<kData, filled>>
      <4>1. CASE Driver \/ Start \/ StartThread \/ AppOther \/ UNCHANGED vars
        BY <2>2, <4>1, AppKeepsDriver DEF Driver, CaptureEnds, ShowState, StartControl
      <4>2. ASSUME NEW t \in Threads, EventThread(t)
            PROVE  UNCHANGED <<kData, filled>>
        BY <4>2 DEF EventThread, ThreadBegin, ThreadTest, ThreadPoll, ThreadStatus,
           ThreadSetState, ThreadError, driverVars
      <4>3. QED
        BY <4>1, <4>2, NextCases
    <3>2. QED
      BY <3>1 DEF Taken
  <2>3. QED
    BY <2>1, <2>2
<1>3. QED
  BY <1>1, <1>2 DEF Called, Written

LEMMA NumbersRead ==
    ASSUME TypeOK, LibInv, NEW t \in Threads, ThreadRead(t)
    PROVE  /\ Called' = Called /\ Written' = Written
           /\ HasBuf(t)' => Head(thread'[t].buf).no = Taken'
<1>1. /\ thread'[t].pc = IF kData = <<>> THEN AfterData(t) ELSE "write"
      /\ AfterData(t) \in {"status", "error"} /\ thread'[t].buf = kData
      /\ thread[t].pc = "read"
  BY ReadStep
<1>2. \A u \in Threads \ {t} : ~HasBuf(u) /\ ~HasBuf(u)'
  BY NewHolder DEF EventThread
<1>3. kData' = <<>> /\ filled' = filled /\ filled \in Nat
  BY DEF ThreadRead, TakeData, TypeOK
<1>4. CASE kData = <<>>
  <2>1. \A u \in Threads : /\ ~HasBuf(u) /\ ~HasBuf(u)'
                           /\ thread[u].pc # "write" /\ thread'[u].pc # "write"
    BY <1>1, <1>2, <1>4 DEF HasBuf
  <2>2. QED
    BY <1>3, <1>4, <2>1 DEF Taken, Called, Written
<1>5. CASE kData # <<>>
  <2>1. Len(kData) = 1 /\ Head(kData).no = filled
    BY <1>5 DEF TypeOK, Slots, LibInv, OrderInv
  <2>2. Taken = filled - 1 /\ Taken' = filled
    BY <1>3, <2>1 DEF Taken
  <2>3. /\ \A u \in Threads : ~HasBuf(u) /\ thread[u].pc # "write"
        /\ HasBuf(t)' /\ thread'[t].pc = "write"
    BY <1>1, <1>2, <1>5 DEF HasBuf
  <2>4. Called = Taken /\ Written = Taken /\ Called' = Taken' - 1 /\ Written' = Taken' - 1
    BY <2>3 DEF Called, Written
  <2>5. QED
    BY <1>1, <1>3, <2>1, <2>2, <2>4
<1>6. QED
  BY <1>4, <1>5

LEMMA NumbersWrite ==
    ASSUME TypeOK, LibInv, NEW t \in Threads, ThreadWrite(t)
    PROVE  /\ Taken' = Taken /\ Called' = Called
           /\ Written = Taken - 1 /\ Written' = Taken
           /\ HasBuf(t) /\ Taken \in Nat
<1>1. /\ thread[t].pc = "write" /\ thread'[t].pc = "callback"
  BY WriteStep
<1>2. \A u \in Threads \ {t} : ~HasBuf(u) /\ ~HasBuf(u)'
  BY NewHolder DEF EventThread
<1>3. Taken' = Taken
  BY DEF ThreadWrite, driverVars, Taken
<1>4. HasBuf(t) /\ HasBuf(t)' /\ \A u \in Threads : thread'[u].pc # "write"
  BY <1>1, <1>2 DEF HasBuf
<1>5. Taken \in Nat
  BY <1>4, HeldBuffer DEF Buffers
<1>6. QED
  BY <1>1, <1>3, <1>4, <1>5 DEF Called, Written

LEMMA NumbersCallback ==
    ASSUME TypeOK, LibInv, NEW t \in Threads, ThreadCallback(t)
    PROVE  /\ Taken' = Taken /\ Written' = Written
           /\ Called = Taken - 1 /\ Called' = Taken /\ Taken \in 1 .. MaxFill
           /\ HasBuf(t) /\ ~HasBuf(t)'
           /\ seen' = IF pfnData THEN Append(seen, Taken) ELSE seen
<1>1. /\ thread[t].pc = "callback" /\ thread'[t].pc \in {"status", "error"}
  BY CallbackStep
<1>2. \A u \in Threads \ {t} : ~HasBuf(u) /\ ~HasBuf(u)'
  BY NewHolder DEF EventThread
<1>3. Taken' = Taken
  BY DEF ThreadCallback, driverVars, Taken
<1>4. /\ HasBuf(t) /\ \A u \in Threads : ~HasBuf(u)'
      /\ \A u \in Threads : thread'[u].pc # "write" /\ thread[u].pc # "write"
  BY <1>1, <1>2 DEF HasBuf
<1>5. Taken \in 1 .. MaxFill /\ Head(thread[t].buf).no = Taken
  BY <1>4, HeldBuffer DEF Buffers
<1>6. QED
  BY <1>3, <1>4, <1>5 DEF Called, Written, ThreadCallback

-----------------------------------------------------------------------------
(* Every step keeps the order of the buffers. *)

\* The history changes with a callback, and with a start.
LEMMA HistoryKept ==
    ASSUME [Next]_vars, ~Start, \A t \in Threads : ~ThreadCallback(t)
    PROVE  seen' = seen /\ first' = first /\ (pfnData' => pfnData)
<1>1. CASE Driver \/ AppOther \/ UNCHANGED vars
  <2>1. seen' = seen /\ first' = first
    BY <1>1, ThreadKept, NotStarting
  <2>2. pfnData' = pfnData \/ pfnData' = FALSE
    BY <1>1 DEF Driver, Publish, CaptureEnds, ShowState, AppOther, SetFileList,
       Stop, Close, StartControl, StartNoThread, StartDone, StopControl, StopDriver, StopFiles,
       StopWait, StopJoin, notDriver, stateVars, vars
  <2>3. QED
    BY <2>1, <2>2
<1>2. CASE StartThread
  BY <1>2 DEF StartThread
<1>3. ASSUME NEW t \in Threads, EventThread(t)
      PROVE  UNCHANGED <<seen, first, pfnData>>
  BY <1>3, ThreadFrame DEF EventThread, ThreadBegin, ThreadTest, ThreadPoll,
     ThreadRead, ThreadWrite, ThreadStatus, ThreadSetState, ThreadError
<1>4. QED
  BY <1>1, <1>2, <1>3, NextCases

LEMMA NumbersStep ==
    ASSUME TypeOK, LibInv, [Next]_vars, \A t \in Threads : ~ThreadCallback(t)
    PROVE  Called' = Called
  BY NumbersKept, NumbersRead, NumbersWrite

LEMMA KDataOrder ==
    ASSUME TypeOK, LibInv, [Next]_vars
    PROVE  kData' # <<>> => Head(kData').no = filled'
<1>1. kData # <<>> => Head(kData).no = filled
  BY DEF LibInv, OrderInv
<1>2. CASE Publish
  BY <1>2 DEF Publish
<1>3. CASE ~Publish
  <2>1. UNCHANGED <<kData, filled>> \/ kData' = <<>>
    <3>1. CASE Driver \/ Start \/ StartThread \/ AppOther \/ UNCHANGED vars
      BY <1>3, <3>1, AppKeepsDriver DEF Driver, CaptureEnds, ShowState, StartControl
    <3>2. ASSUME NEW t \in Threads, EventThread(t)
          PROVE  UNCHANGED <<kData, filled>> \/ kData' = <<>>
      BY <3>2 DEF EventThread, ThreadBegin, ThreadTest, ThreadPoll, ThreadStatus,
         ThreadRead, TakeData, ThreadWrite, ThreadCallback, ThreadSetState,
         ThreadError, driverVars
    <3>3. QED
      BY <3>1, <3>2, NextCases
  <2>2. QED
    BY <1>1, <2>1
<1>4. QED
  BY <1>2, <1>3

LEMMA HeldOrder ==
    ASSUME TypeOK, LibInv, [Next]_vars, NEW u \in Threads, HasBuf(u)'
    PROVE  Head(thread'[u].buf).no = Taken'
<1>1. HasBuf(u) => Head(thread[u].buf).no = Taken
  BY DEF LibInv, OrderInv
<1>2. CASE \A t \in Threads : ~ThreadRead(t) /\ ~ThreadWrite(t) /\ ~ThreadCallback(t)
  BY <1>1, <1>2, NumbersKept
<1>3. ASSUME NEW t \in Threads, ThreadRead(t) \/ ThreadWrite(t) \/ ThreadCallback(t)
      PROVE  Head(thread'[u].buf).no = Taken'
  <2>1. u = t
    BY <1>3, NewHolder DEF EventThread
  <2>2. CASE ThreadRead(t)
    BY <2>1, <2>2, NumbersRead
  <2>3. CASE ThreadWrite(t)
    BY <1>1, <2>1, <2>3, NumbersWrite, WriteStep
  <2>4. CASE ThreadCallback(t)
    BY <2>1, <2>4, NumbersCallback
  <2>5. QED
    BY <1>3, <2>2, <2>3, <2>4
<1>4. QED
  BY <1>2, <1>3

\* What the callback got, and what it was to get.
SeenInv ==
    /\ \A i \in 1 .. Len(seen) : seen[i] <= Called
    /\ CallbackInOrder
    /\ pfnData /\ Called > first => EndsWith(seen, Called - first, Called)

LEMMA SeenNat ==
    ASSUME TypeOK
    PROVE  seen \in Seq(Nat) /\ Len(seen) \in Nat /\ first \in Nat
  BY DEF TypeOK

LEMMA SeenStep ==
    ASSUME TypeOK, TypeOK', LibInv, [Next]_vars
    PROVE  SeenInv'
<1>0. SeenInv /\ seen \in Seq(Nat) /\ Len(seen) \in Nat /\ first \in Nat
  BY SeenNat DEF LibInv, OrderInv, SeenInv
<1>1. CASE ~Start /\ \A t \in Threads : ~ThreadCallback(t)
  <2>1. seen' = seen /\ first' = first /\ (pfnData' => pfnData) /\ Called' = Called
    BY <1>1, HistoryKept, NumbersStep
  <2>2. QED
    BY <1>0, <2>1 DEF SeenInv, CallbackInOrder
<1>2. CASE Start
  <2>1. seen' = seen /\ first' = filled
    BY <1>2, ThreadKept DEF Start
  <2>2. Called' = Called
    <3>1. \A t \in Threads : ~ThreadCallback(t)
      BY <1>2 DEF Start, ThreadCallback, apiVars
    <3>2. QED
      BY <3>1, NumbersStep
  <2>3. ~(Called' > first')
    BY <2>1, <2>2, TakenBounds
  <2>4. QED
    BY <1>0, <2>1, <2>2, <2>3 DEF SeenInv, CallbackInOrder
<1>3. ASSUME NEW t \in Threads, ThreadCallback(t)
      PROVE  SeenInv'
  <2>1. /\ Called = Taken - 1 /\ Called' = Taken /\ Taken \in 1 .. MaxFill
        /\ seen' = IF pfnData THEN Append(seen, Taken) ELSE seen
    BY <1>3, NumbersCallback
  <2>2. UNCHANGED <<first, pfnData>>
    BY <1>3, ThreadFrame DEF EventThread
  <2>3. \A i \in 1 .. Len(seen) : seen[i] \in Nat /\ seen[i] < Taken
    BY <1>0, <2>1, SeqElement DEF SeenInv
  <2>4. Taken \in Nat /\ Taken > 0
    BY <2>1
  <2> HIDE DEF Taken, Called
  <2>5. CASE ~pfnData
    BY <1>0, <2>1, <2>2, <2>3, <2>4, <2>5 DEF SeenInv, CallbackInOrder
  <2>6. CASE pfnData
    <3>1. seen' = Append(seen, Taken)
      BY <2>1, <2>6
    <3>2. CallbackInOrder'
      BY <1>0, <2>3, <2>4, <3>1, IncreasingAppend DEF SeenInv, CallbackInOrder
    <3>3. \A i \in 1 .. Len(seen') : seen'[i] <= Taken
      <4>1. /\ Len(seen') = Len(seen) + 1 /\ seen'[Len(seen) + 1] = Taken
            /\ \A i \in 1 .. Len(seen) : seen'[i] = seen[i]
        BY <1>0, <2>4, <3>1, AppendFacts
      <4>2. ASSUME NEW i \in 1 .. Len(seen')
            PROVE  seen'[i] <= Taken
        <5>1. i \in 1 .. Len(seen) \/ i = Len(seen) + 1
          BY <1>0, <4>1
        <5>2. QED
          BY <2>3, <2>4, <4>1, <5>1
      <4>3. QED
        BY <4>2
    <3>4. ASSUME Taken > first
          PROVE  EndsWith(seen', Taken - first, Taken)
      <4>1. Taken - 1 - first \in Nat
        BY <1>0, <2>4, <3>4
      <4>2. EndsWith(seen, Taken - 1 - first, Taken - 1)
        <5>1. CASE Taken - 1 > first
          BY <1>0, <2>1, <2>6, <5>1 DEF SeenInv
        <5>2. CASE ~(Taken - 1 > first)
          <6>1. Taken - 1 - first = 0
            BY <4>1, <5>2, <1>0, <2>4
          <6>2. QED
            BY <1>0, <2>4, <6>1, EndsWithNothing
        <5>3. QED
          BY <5>1, <5>2
      <4>3. EndsWith(Append(seen, Taken), Taken - 1 - first + 1, Taken)
        BY <1>0, <2>4, <4>1, <4>2, EndsWithAppend
      <4>4. Taken - 1 - first + 1 = Taken - first
        BY <1>0, <2>4
      <4>5. QED
        BY <3>1, <4>3, <4>4
    <3>5. QED
      BY <2>1, <2>2, <3>2, <3>3, <3>4 DEF SeenInv
  <2>7. QED
    BY <2>5, <2>6
<1>4. QED
  BY <1>1, <1>2, <1>3

LEMMA OrderStep ==
    ASSUME TypeOK, TypeOK', LibInv, [Next]_vars
    PROVE  OrderInv'
  BY KDataOrder, HeldOrder, SeenStep DEF OrderInv, SeenInv

-----------------------------------------------------------------------------
(* Every step keeps the current file without a gap. *)

LEMMA WrittenStep ==
    ASSUME TypeOK, LibInv, [Next]_vars, \A t \in Threads : ~ThreadWrite(t)
    PROVE  Written' = Written
  BY NumbersKept, NumbersRead, NumbersCallback

LEMMA FileData ==
    ASSUME TypeOK, NEW f \in Files
    PROVE  atFiles[f].data \in Seq(Nat) /\ Len(atFiles[f].data) \in Nat
<1>1. atFiles[f] \in FileRecords
  BY DEF TypeOK
<1>2. QED
  BY <1>1 DEF FileRecords

LEMMA DataStep ==
    ASSUME Tidy, TypeOK, LibInv, [Next]_vars
    PROVE  DataInv'
<1>0. DataInv
  BY DEF LibInv
<1>1. CASE Driver \/ UNCHANGED vars \/ (AppOther /\ ~SetFileList /\ ~StopFiles)
  <2>1. UNCHANGED <<fWriteToFile, ulCurrentFile, atFiles>> /\ first' = first
    BY <1>1, FilesKept, NotStarting
  <2>2. Written' = Written
    <3>1. \A t \in Threads : ~ThreadWrite(t)
      <4>1. UNCHANGED thread
        BY <1>1, ThreadKept
      <4>2. ASSUME NEW t \in Threads, ThreadWrite(t)
            PROVE  FALSE
        BY <4>1, <4>2, WriteStep
      <4>3. QED
        BY <4>2
    <3>2. QED
      BY <3>1, WrittenStep
  <2>3. FreshList => FreshList'
    BY <1>1, FreshStep
  <2>4. QED
    BY <1>0, <2>1, <2>2, <2>3 DEF DataInv
<1>2. CASE StartThread
  <2>1. UNCHANGED <<fWriteToFile, ulCurrentFile, atFiles>> /\ first' = first
        /\ ~FreshList
    BY <1>2, FilesKept DEF StartThread, FreshList
  <2>2. Written' = Written
    BY <1>2, WrittenStep DEF StartThread, ThreadWrite, apiVars
  <2>3. QED
    BY <1>0, <2>1, <2>2 DEF DataInv
<1>3. CASE Start
  <2>1. CASE ulFileCount > 0
    <3>1. 0 \in Files /\ INVALID \in 0 .. INVALID
      BY <2>1 DEF Files, INVALID, TypeOK
    <3>2. ulCurrentFile' = 0 /\ atFiles' = WriteHeader(atFiles, 0, INVALID)
          /\ first' = filled
      BY <1>3, <2>1 DEF Start
    <3>3. atFiles'[0].data = <<>>
      BY <3>1, <3>2, HeaderFacts DEF TypeOK
    <3>4. Written' = Written
      BY <1>3, WrittenStep DEF Start, ThreadWrite, apiVars
    <3>5. ~(Written' > first')
      BY <3>2, <3>4, TakenBounds
    <3>6. QED
      BY <3>2, <3>3, <3>5 DEF DataInv
  <2>2. CASE ~(ulFileCount > 0)
    BY <1>3, <2>2 DEF Start, DataInv
  <2>3. QED
    BY <2>1, <2>2
<1>4. CASE SetFileList
  <2>1. UNCHANGED <<thread, api, ulCaptureState>>
        /\ api = "idle" /\ ~IsCaptureRunning /\ NoThread
    BY <1>4 DEF SetFileList, stateVars, notApp, Undisturbed, NoThread
  <2>2. FreshList'
    BY <2>1 DEF FreshList, NoThread, Alive, IsCaptureRunning
  <2>3. QED
    BY <2>2 DEF DataInv
<1>5. CASE StopFiles
  <2>1. /\ UNCHANGED <<fWriteToFile, ulCurrentFile, thread, first>>
        /\ api = "stopFiles" /\ api' = "stopWait"
    BY <1>5 DEF StopFiles, notApp
  <2>2. Written' = Written
    BY <1>5, WrittenStep DEF StopFiles, ThreadWrite, apiVars
  <2>3. ~FreshList
    BY <2>1 DEF FreshList
  <2>4. SUFFICES ASSUME fWriteToFile
                 PROVE  atFiles'[ulCurrentFile].data = atFiles[ulCurrentFile].data
    BY <1>0, <2>1, <2>2, <2>3, <2>4 DEF DataInv
  <2>5. ulCurrentFile \in Files /\ atFiles \in [Files -> FileRecords]
    BY <2>4 DEF LibInv, FilesInv, TypeOK
  <2>6. CASE ulFileCount # 0
    <3>1. InUse(atFiles, ulCurrentFile)
      BY <2>1, <2>4, <2>6 DEF LibInv, FilesInv, FreshList, InUse, TypeOK
    <3> DEFINE ended == WriteHeader(atFiles, ulCurrentFile,
                                    DataSize(atFiles, ulCurrentFile))
    <3>2. ended \in [Files -> FileRecords]
          /\ ended[ulCurrentFile].data = atFiles[ulCurrentFile].data
      BY <2>5, <3>1, EndFacts
    <3>3. atFiles' = Closed(ended)
      BY <1>5, <2>4, <2>6 DEF StopFiles
    <3> HIDE DEF ended
    <3>4. QED
      BY <2>5, <3>2, <3>3, ClosedFacts
  <2>7. CASE ulFileCount = 0
    BY <1>5, <2>7 DEF StopFiles
  <2>8. QED
    BY <2>6, <2>7
<1>6. ASSUME NEW t \in Threads, EventThread(t)
      PROVE  DataInv'
  <2>1. ~FreshList
    BY <1>6 DEF EventThread, ThreadBegin, ThreadTest, ThreadPoll, ThreadRead, Alive,
       ThreadWrite, ThreadCallback, ThreadStatus, ThreadSetState, ThreadError,
       NoThread, FreshList
  <2>2. first' = first
    BY <1>6, ThreadFrame
  <2>3. CASE ThreadWrite(t)
    <3>1. SUFFICES ASSUME fWriteToFile'
                   PROVE  LET data == atFiles'[ulCurrentFile'].data
                          IN  /\ data # <<>>
                              /\ EndsWith(data, Len(data), Written')
      BY DEF DataInv
    <3>2. /\ fWriteToFile /\ ulFileCount > 0
          /\ \/ atFiles'[ulCurrentFile'].data =
                    Append(atFiles[ulCurrentFile].data, Taken)
             \/ atFiles'[ulCurrentFile'].data = <<Taken>>
      BY <2>3, <3>1, WriteResult
    <3>3. Written = Taken - 1 /\ Written' = Taken /\ Taken \in Nat
      BY <2>3, NumbersWrite
    <3>4. ulCurrentFile \in Files
      BY <3>2 DEF LibInv, FilesInv
    <3> DEFINE old == atFiles[ulCurrentFile].data
               new == atFiles'[ulCurrentFile'].data
    <3>5. old \in Seq(Nat) /\ Len(old) \in Nat
      BY <3>4, FileData
    <3>6. old # <<>> => EndsWith(old, Len(old), Taken - 1)
      BY <1>0, <2>1, <3>2, <3>3 DEF DataInv
    <3>7. new = Append(old, Taken) \/ new = <<Taken>>
      BY <3>2
    <3> HIDE DEF old, new, Taken, Written
    <3>8. CASE new = Append(old, Taken) /\ old # <<>>
      <4>1. EndsWith(new, Len(old) + 1, Taken)
        BY <3>3, <3>5, <3>6, <3>8, EndsWithAppend
      <4>2. Len(new) = Len(old) + 1 /\ new # <<>>
        BY <3>3, <3>5, <3>8, AppendFacts
      <4>3. QED
        BY <3>3, <4>1, <4>2 DEF new
    <3>9. CASE new = <<Taken>> \/ old = <<>>
      <4>1. new = <<Taken>>
        <5>1. Append(<<>>, Taken) = <<Taken>>
          BY <3>3
        <5>2. QED
          BY <3>7, <3>9, <5>1
      <4>2. Len(new) = 1 /\ EndsWith(new, 1, Taken) /\ new # <<>>
        BY <3>3, <4>1, OneEnds
      <4>3. QED
        BY <3>3, <4>2 DEF new
    <3>10. QED
      BY <3>7, <3>8, <3>9
  <2>4. CASE ~ThreadWrite(t)
    <3>1. UNCHANGED <<fWriteToFile, ulCurrentFile, atFiles>>
      BY <1>6, <2>4 DEF EventThread, ThreadBegin, ThreadTest, ThreadPoll, ThreadRead,
         ThreadCallback, ThreadStatus, ThreadSetState, ThreadError, fileVars
    <3>2. \A u \in Threads : ~ThreadWrite(u)
      BY <1>6, <2>4, NewHolder DEF EventThread
    <3>3. Written' = Written
      BY <3>2, WrittenStep
    <3>4. QED
      BY <1>0, <2>1, <2>2, <3>1, <3>3 DEF DataInv
  <2>5. QED
    BY <2>3, <2>4
<1>7. QED
  BY <1>1, <1>2, <1>3, <1>4, <1>5, <1>6, NextCases

-----------------------------------------------------------------------------
(* The theorems. *)

LEMMA InitInv == Init => TypeOK /\ LibInv
<1> SUFFICES ASSUME Init PROVE TypeOK /\ LibInv
  OBVIOUS
<1>1. TypeOK
  <2>1. [open |-> FALSE, offset |-> 0, size |-> INVALID, data |-> <<>>, bytes |-> 0]
        \in FileRecords
    <3>1. <<>> \in Seq(1 .. MaxFill) /\ 0 \in 0 .. FileSize /\ INVALID \in 0 .. INVALID
      BY DEF INVALID
    <3>2. QED
      BY <3>1 DEF FileRecords
  <2>2. [pc |-> "none", state |-> "OFF", events |-> {}, buf |-> <<>>, error |-> FALSE]
        \in ThreadRecords
    BY DEF ThreadRecords, ThreadPcs, Slots
  <2>3. atFiles \in [Files -> FileRecords] /\ thread \in [Threads -> ThreadRecords]
    BY <2>1, <2>2 DEF Init
  <2>4. {kChange, kStatus, kStop, kError, fRunEventThread, iEventError, pfnData,
         fRingBuffer, fWriteToFile} \subseteq BOOLEAN
    BY DEF Init
  <2>5. kData \in Slots /\ seen \in Seq(1 .. MaxFill) /\ api \in ApiPcs
    BY DEF Init, Slots, ApiPcs
  <2>6. /\ filled = 0 /\ ulFileCount = 0 /\ hPollingThread = 0 /\ starts = 0
        /\ first = 0 /\ ulCurrentFile = 0 /\ kState = "OFF" /\ ulCaptureState = "OFF"
    BY DEF Init
  <2>7. QED
    BY <2>3, <2>4, <2>5, <2>6 DEF TypeOK
<1>2. \A t \in Threads : /\ thread[t].buf = <<>> /\ ~Alive(t) /\ ~HasBuf(t)
                         /\ thread[t].pc # "write"
  BY DEF Init, Alive, HasBuf
<1>3. AloneInv
  BY <1>2 DEF Init, AloneInv
<1>4. DriverInv
  BY <1>2 DEF Init, DriverInv
<1>5. FilesInv
  BY DEF Init, FilesInv, HeaderDescribesFile
<1>6. Called = 0
  <2>1. Taken = 0
    <3>1. filled = 0 /\ Len(kData) = 0
      BY DEF Init
    <3>2. QED
      BY <3>1 DEF Taken
  <2>2. QED
    BY <1>2, <2>1 DEF Called
<1>7. OrderInv
  BY <1>2, <1>6 DEF Init, OrderInv, CallbackInOrder
<1>8. DataInv
  BY DEF Init, DataInv
<1>9. QED
  BY <1>1, <1>3, <1>4, <1>5, <1>7, <1>8 DEF LibInv

(* The event thread, the driver, the files and the numbers of the buffers  *)
(* stay in step, while no call is made beside a left-over event thread.    *)
THEOREM LibInvariant ==
    ASSUME Tidy
    PROVE  Spec => [](TypeOK /\ LibInv)
<1>1. TypeOK /\ LibInv /\ [Next]_vars => (TypeOK /\ LibInv)'
  BY TypeStep, AloneStep, DriverStep, FilesStep, OrderStep, DataStep DEF LibInv
<1>2. QED
  BY <1>1, InitInv, PTL DEF Spec

(* A header that netana_writefileheader (libnetana/netana_capture.c:9)     *)
(* wrote with a size names exactly the bytes behind it: written by         *)
(* netana_write_to_file when a file is full (line 45), or by               *)
(* netana_stop_capture (libnetana/netana_functions.c:1271).                *)
THEOREM HeadersDescribeFiles ==
    ASSUME Tidy
    PROVE  Spec => []HeaderDescribesFile
<1>1. LibInv => HeaderDescribesFile
  BY DEF LibInv, FilesInv
<1>2. QED
  BY <1>1, LibInvariant, PTL

(* netana_write_to_file finds its file open, though netana_stop_capture    *)
(* closes the files (libnetana/netana_functions.c:1274) before it joins    *)
(* the event thread (1282): the driver's stop has waited for the thread to *)
(* read the end of the capture.                                            *)
THEOREM WritesFindTheFileOpen ==
    ASSUME Tidy
    PROVE  Spec => []WritesOpenFile
<1>1. TypeOK /\ LibInv => WritesOpenFile
  <2>1. SUFFICES ASSUME TypeOK, LibInv, NEW t \in Threads,
                        thread[t].pc = "write", fWriteToFile
                 PROVE  atFiles[ulCurrentFile].open
    BY DEF WritesOpenFile
  <2>2. ulFileCount > 0 /\ ulCurrentFile \in Files /\ ulCurrentFile < ulFileCount
    BY <2>1, WriterReady DEF HasBuf
  <2>3. QED
    BY <2>1, <2>2 DEF LibInv, FilesInv
<1>2. QED
  BY <1>1, LibInvariant, PTL

(* When netana_stop_capture joins the event thread                         *)
(* (libnetana/netana_functions.c:1282), every buffer of the capture was    *)
(* given to the callback, and the current file ends with the last one and  *)
(* has no gap, unless the last file became full.                           *)
THEOREM StopsDeliverAll ==
    ASSUME Tidy
    PROVE  Spec => StopDeliversAll
<1> DEFINE Delivers ==
             /\ pfnData => EndsWith(seen, filled - first, filled)
             /\ fWriteToFile => LET data == atFiles[ulCurrentFile].data
                                IN  data # <<>> /\ EndsWith(data, Len(data), filled)
<1>1. TypeOK /\ LibInv /\ StopJoin /\ filled > first => Delivers
  <2>1. SUFFICES ASSUME TypeOK, LibInv, StopJoin, filled > first PROVE Delivers
    OBVIOUS
  <2>2. kData = <<>> /\ ~FreshList
    BY <2>1 DEF StopJoin, LibInv, DriverInv, StopServed, FreshList
  <2>3. \A t \in Threads : ~HasBuf(t) /\ thread[t].pc # "write"
    BY <2>1 DEF StopJoin, LibInv, AloneInv, Alive, HasBuf
  <2>4. Called = filled /\ Written = filled
    BY <2>1, <2>2, <2>3 DEF Called, Written, Taken, TypeOK
  <2>5. QED
    BY <2>1, <2>2, <2>4 DEF LibInv, OrderInv, DataInv
<1>2. TypeOK /\ LibInv => (StopJoin /\ filled > first => Delivers)
  BY <1>1
<1>3. QED
  BY <1>2, LibInvariant, PTL DEF StopDeliversAll
=============================================================================
