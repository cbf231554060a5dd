----------------------------- MODULE LibCapture ------------------------------
(***************************************************************************)
(* A capture seen from the user library: netana_set_filelist, start, stop  *)
(* and close on one handle, the event thread that reads the device and     *)
(* writes the capture files, and the ring of files.                        *)
(*                                                                         *)
(* The driver below is that of module UserNotify, reduced to what the      *)
(* library sees of it: a buffer or a state change waits until it is read,  *)
(* and the stop command returns when the end of the capture has been read. *)
(* Its time limits are left out: the event thread answers in time.         *)
(*                                                                         *)
(* Sizes are counted in blocks; the file header takes one.                 *)
(***************************************************************************)
EXTENDS Naturals, Sequences

CONSTANTS
    MaxFiles,    \* bound: files of one list
    FileSize,    \* ullFileSize
    DmaSize,     \* ulDMABufferSize
    MaxFill,     \* bound: buffers the driver publishes
    MaxStarts,   \* bound: calls of netana_start_capture
    Failures,    \* what may go wrong, see below
    Tidy         \* bound: no start and no close beside a left-over event thread

(* "selfStop": the firmware ends a capture; "refuse": the driver refuses a *)
(* start; "noThread", "noControl": no event thread is created, there is no *)
(* control attribute; "noMemory": the event thread gets no buffer.         *)
(* netana_set_filelist takes no file smaller than a header and a DMA buffer. *)
ASSUME LibAssumption ==
    /\ {MaxFiles, FileSize, DmaSize, MaxFill, MaxStarts} \subseteq Nat
    /\ DmaSize > 0 /\ FileSize >= DmaSize + 1
    /\ Failures \subseteq {"selfStop", "refuse", "noThread", "noControl", "noMemory"}
    /\ Tidy \in BOOLEAN

VARIABLES
    \* driver: capture state, state change not yet shown to the user, buffer
    \* and state event waiting to be read, stop command, driver error
    kState, kChange, kData, kStatus, kStop, kError, filled,
    \* struct NETANA_DEVINSTANCE_T
    ulCaptureState, fRunEventThread, iEventError, pfnData,
    fRingBuffer, fWriteToFile, ulFileCount, ulCurrentFile, atFiles,
    hPollingThread,
    \* event threads: step, ulCaptureState, revents, buffer, ulWriteError
    thread,
    \* application thread, and the return value of its last call
    api, ret, starts,
    \* history: the buffers given to the callback; filled at the last start
    seen, first

driverVars == <<kState, kChange, kData, kStatus, kStop, kError, filled>>
fileVars   == <<fRingBuffer, fWriteToFile, ulFileCount, ulCurrentFile, atFiles>>
stateVars  == <<ulCaptureState, fRunEventThread, iEventError, pfnData,
                hPollingThread>>
apiVars    == <<api, ret, starts, first>>
vars == <<driverVars, stateVars, fileVars, thread, apiVars, seen>>

Threads == 1 .. MaxStarts
Files   == 0 .. MaxFiles - 1
INVALID == FileSize + 1   \* NETANA_FILE_HEADER_SIZE_INVALID: no file is that long
Buffers == [no : 1 .. MaxFill, size : 1 .. DmaSize]

IsCaptureRunning == ulCaptureState # "OFF"

-----------------------------------------------------------------------------
Init ==
    /\ kState = "OFF" /\ kChange = FALSE /\ kData = <<>> /\ kStatus = FALSE
    /\ kStop = FALSE /\ kError = FALSE /\ filled = 0
    /\ ulCaptureState = "OFF" /\ fRunEventThread = FALSE
    /\ iEventError = FALSE /\ pfnData = FALSE /\ hPollingThread = 0
    /\ fRingBuffer = FALSE /\ fWriteToFile = FALSE
    /\ ulFileCount = 0 /\ ulCurrentFile = 0
    /\ atFiles = [f \in Files |->
                    [open |-> FALSE, offset |-> 0, size |-> INVALID,
                     data |-> <<>>, bytes |-> 0]]
    /\ thread = [t \in Threads |->
                   [pc |-> "none", state |-> "OFF", events |-> {}, buf |-> <<>>,
                    error |-> FALSE]]
    /\ api = "idle" /\ ret = "none" /\ starts = 0
    /\ seen = <<>> /\ first = 0

-----------------------------------------------------------------------------
(* The driver. *)

notDriver == <<stateVars, fileVars, thread, apiVars, seen>>

(* A buffer is published; those of the capture's end come before its state. *)
Publish ==
    /\ kState = "RUNNING" \/ kChange
    /\ kData = <<>> /\ ~kStatus
    /\ filled < MaxFill
    /\ filled' = filled + 1
    /\ \E size \in 1 .. DmaSize : kData' = <<[no |-> filled + 1, size |-> size]>>
    /\ UNCHANGED <<kState, kChange, kStatus, kStop, kError, notDriver>>

CaptureEnds ==
    /\ kState = "RUNNING"
    /\ kStop \/ kError \/ "selfStop" \in Failures
    /\ kState' = "OFF" /\ kChange' = TRUE /\ kError' = FALSE
    /\ UNCHANGED <<kData, kStatus, kStop, filled, notDriver>>

ShowState ==
    /\ kChange /\ kData = <<>> /\ ~kStatus
    /\ kChange' = FALSE /\ kStatus' = TRUE
    /\ UNCHANGED <<kState, kData, kStop, kError, filled, notDriver>>

Driver == Publish \/ CaptureEnds \/ ShowState

-----------------------------------------------------------------------------
(* Capture files. *)

(* netana_writefileheader: rewinds the file and writes the header.         *)
WriteHeader(files, f, size) ==
    [files EXCEPT ![f].offset = 1, ![f].size = size,
                  ![f].data  = IF size = INVALID THEN <<>> ELSE @,
                  ![f].bytes = IF size = INVALID THEN 0 ELSE @]

WriteData(files, f, buf) ==
    [files EXCEPT ![f].offset = @ + buf.size,
                  ![f].data   = Append(@, buf.no),
                  ![f].bytes  = @ + buf.size]

\* Mutant: the size in the header counts the header itself.
DataSizeWithHeader(files, f) == files[f].offset

DataSize(files, f) == files[f].offset - 1

\* Mutant: the last block of the file is used twice.
FitsOneMore(buf) == atFiles[ulCurrentFile].offset + buf.size <= FileSize + 1

Fits(buf) == atFiles[ulCurrentFile].offset + buf.size <= FileSize

(* netana_write_to_file; the result is "the last file is full".            *)
WriteToFile(buf, full) ==
    LET ended == WriteHeader(atFiles, ulCurrentFile,
                             DataSize(atFiles, ulCurrentFile))
        last  == ulCurrentFile + 1 >= ulFileCount
        next  == IF last THEN 0 ELSE ulCurrentFile + 1
    IN  \/ /\ Fits(buf)
           /\ atFiles' = WriteData(atFiles, ulCurrentFile, buf)
           /\ full = FALSE
           /\ UNCHANGED <<fWriteToFile, ulCurrentFile>>
        \/ /\ ~Fits(buf) /\ (~last \/ fRingBuffer)
           /\ atFiles' = WriteData(WriteHeader(ended, next, INVALID), next, buf)
           /\ ulCurrentFile' = next
           /\ full = FALSE
           /\ UNCHANGED fWriteToFile
        \/ /\ ~Fits(buf) /\ last /\ ~fRingBuffer
           /\ atFiles' = ended
           /\ fWriteToFile' = FALSE
           /\ full = TRUE
           /\ UNCHANGED ulCurrentFile

Closed(files) == [f \in Files |-> [files[f] EXCEPT !.open = FALSE]]

-----------------------------------------------------------------------------
(* netana_event_thread, thread t. *)

Goto(t, pc) == thread' = [thread EXCEPT ![t].pc = pc]

\* The next part of the loop body: the state event, then the write error.
AfterData(t) == IF "status" \in thread[t].events THEN "status" ELSE "error"

ThreadBegin(t) ==
    /\ thread[t].pc = "begin"
    /\ \/ Goto(t, "test") /\ UNCHANGED <<fRunEventThread, iEventError>>
       \/ /\ "noMemory" \in Failures
          /\ fRunEventThread' = FALSE /\ iEventError' = TRUE
          /\ Goto(t, "test")
    /\ UNCHANGED <<driverVars, ulCaptureState, pfnData, hPollingThread,
                   fileVars, apiVars, seen>>

ThreadTest(t) ==
    /\ thread[t].pc = "test"
    /\ Goto(t, IF fRunEventThread \/ thread[t].state # "OFF" THEN "poll"
                                                             ELSE "ended")
    /\ UNCHANGED <<driverVars, stateVars, fileVars, apiVars, seen>>

(* poll returns the events there are, or none after its time limit.        *)
ThreadPoll(t) ==
    /\ thread[t].pc = "poll"
    /\ LET events == {e \in {"data", "status"} :
                        IF e = "data" THEN kData # <<>> ELSE kStatus}
       IN  thread' = [thread EXCEPT
             ![t].events = events,
             ![t].pc = IF "data" \in events THEN "read"
                       ELSE IF "status" \in events THEN "status" ELSE "test"]
    /\ UNCHANGED <<driverVars, stateVars, fileVars, apiVars, seen>>

\* Mutant: the event is still there after the read.
LeaveData == UNCHANGED kData

\* netana_read takes the event and lets the DSR free the buffer.
TakeData == kData' = <<>>

(* read; another thread may have read the buffer.                          *)
ThreadRead(t) ==
    /\ thread[t].pc = "read"
    /\ TakeData
    /\ thread' = [thread EXCEPT
         ![t].buf = kData,
         ![t].pc  = IF kData = <<>> THEN AfterData(t) ELSE "write"]
    /\ UNCHANGED <<kState, kChange, kStatus, kStop, kError, filled, stateVars,
                   fileVars, apiVars, seen>>

ThreadWrite(t) ==
    /\ thread[t].pc = "write"
    /\ IF fWriteToFile
       THEN \E full \in BOOLEAN :
              /\ WriteToFile(Head(thread[t].buf), full)
              /\ thread' = [thread EXCEPT ![t].pc = "callback",
                                          ![t].error = full]
       ELSE /\ Goto(t, "callback")
            /\ UNCHANGED <<fWriteToFile, ulCurrentFile, atFiles>>
    /\ UNCHANGED <<driverVars, stateVars, fRingBuffer, ulFileCount, apiVars,
                   seen>>

ThreadCallback(t) ==
    /\ thread[t].pc = "callback"
    /\ seen' = IF pfnData THEN Append(seen, Head(thread[t].buf).no) ELSE seen
    /\ thread' = [thread EXCEPT ![t].buf = <<>>, ![t].pc = AfterData(t)]
    /\ UNCHANGED <<driverVars, stateVars, fileVars, apiVars>>

(* netana_get_state_poll: reading the state answers the event.             *)
ThreadStatus(t) ==
    /\ thread[t].pc = "status"
    /\ kStatus' = FALSE
    /\ thread' = [thread EXCEPT ![t].state = kState, ![t].pc = "set"]
    /\ UNCHANGED <<kState, kChange, kData, kStop, kError, filled, stateVars,
                   fileVars, apiVars, seen>>

(* The status callback, then the library's own copy of the state.          *)
ThreadSetState(t) ==
    /\ thread[t].pc = "set"
    /\ ulCaptureState' = thread[t].state
    /\ Goto(t, "error")
    /\ UNCHANGED <<driverVars, fRunEventThread, iEventError, pfnData,
                   hPollingThread, fileVars, apiVars, seen>>

(* netana_signal_drv_error; ulWriteError stays set.                        *)
ThreadError(t) ==
    /\ thread[t].pc = "error"
    /\ kError' = (kError \/ (thread[t].error /\ kState = "RUNNING"))
    /\ Goto(t, "test")
    /\ UNCHANGED <<kState, kChange, kData, kStatus, kStop, filled, stateVars,
                   fileVars, apiVars, seen>>

EventThread(t) ==
    \/ ThreadBegin(t) \/ ThreadTest(t) \/ ThreadPoll(t) \/ ThreadRead(t)
    \/ ThreadWrite(t) \/ ThreadCallback(t) \/ ThreadStatus(t)
    \/ ThreadSetState(t) \/ ThreadError(t)

Alive(t) == thread[t].pc \notin {"none", "ended"}

-----------------------------------------------------------------------------
(* The application thread. *)

notApp == <<thread, seen>>

Return(value) == api' = "idle" /\ ret' = value

\* The bound Tidy.
Undisturbed == Tidy => \A t \in Threads : ~Alive(t)

(* netana_set_filelist: OpenCaptureFiles rewinds the list, and no file has *)
(* a header yet.                                                           *)
SetFileList ==
    /\ api = "idle" /\ Undisturbed
    /\ ~IsCaptureRunning /\ starts < MaxStarts
    /\ ulFileCount' \in 1 .. MaxFiles
    /\ ulCurrentFile' = 0
    /\ atFiles' = [f \in Files |->
                     IF f < ulFileCount'
                     THEN [open |-> TRUE, offset |-> 0, size |-> INVALID,
                           data |-> <<>>, bytes |-> 0]
                     ELSE atFiles[f]]
    /\ ret' = "OK"
    /\ UNCHANGED <<driverVars, stateVars, fRingBuffer, fWriteToFile, notApp,
                   api, starts, first>>

(* netana_start_capture, up to the creation of the event thread.           *)
Start ==
    /\ api = "idle" /\ Undisturbed
    /\ ~IsCaptureRunning /\ starts < MaxStarts
    /\ \E pfn \in BOOLEAN : pfnData' = pfn /\ (pfn \/ ulFileCount > 0)
    /\ starts' = starts + 1 /\ first' = filled
    /\ fRingBuffer' \in BOOLEAN
    /\ fWriteToFile' = (ulFileCount > 0)
    /\ IF ulFileCount > 0
       THEN ulCurrentFile' = 0 /\ atFiles' = WriteHeader(atFiles, 0, INVALID)
       ELSE UNCHANGED <<ulCurrentFile, atFiles>>
    /\ api' = "startThread"
    /\ UNCHANGED <<driverVars, ulCaptureState, fRunEventThread, iEventError,
                   hPollingThread, ulFileCount, notApp, ret>>

StartThread ==
    /\ api = "startThread"
    /\ iEventError' = FALSE /\ fRunEventThread' = TRUE
    /\ hPollingThread' = starts
    /\ Goto(starts, "begin")
    /\ api' = "startControl"
    /\ UNCHANGED <<driverVars, ulCaptureState, pfnData, fileVars, ret, starts,
                   first, seen>>

(* pthread_create fails: the call returns what netana_driver_information   *)
(* returned before.                                                        *)
StartNoThread ==
    /\ api = "startThread" /\ "noThread" \in Failures
    /\ iEventError' = FALSE /\ fRunEventThread' = TRUE
    /\ Return("OK")
    /\ UNCHANGED <<driverVars, ulCaptureState, pfnData, hPollingThread, fileVars,
                   starts, first, notApp>>

(* The control attribute is written: the driver starts, or refuses; or the *)
(* attribute is not there, which is no error.                              *)
StartControl ==
    /\ api = "startControl"
    /\ \/ /\ kState = "OFF"
          /\ kState' = "RUNNING" /\ kChange' = TRUE
          /\ api' = "startWait"
          /\ UNCHANGED ret
       \/ /\ kState # "OFF" \/ "refuse" \in Failures
          /\ Return("FAILED")
          /\ UNCHANGED <<kState, kChange>>
       \/ /\ "noControl" \in Failures
          /\ Return("OK")
          /\ UNCHANGED <<kState, kChange>>
    /\ UNCHANGED <<kData, kStatus, kStop, kError, filled, stateVars, fileVars,
                   starts, first, notApp>>

(* The wait for the event thread to see the capture running.  For a thread *)
(* that failed netana_stop_capture is called, which does nothing while     *)
(* ulCaptureState, that only the event thread sets, is OFF.                *)
StartDone ==
    /\ api = "startWait"
    /\ \/ IsCaptureRunning /\ Return("OK")
       \/ ~IsCaptureRunning /\ iEventError /\ Return("THREAD_CREATION_FAILED")
    /\ UNCHANGED <<driverVars, stateVars, fileVars, notApp, starts, first>>

Stop ==
    /\ api = "idle"
    /\ IF IsCaptureRunning
       THEN api' = "stopControl" /\ UNCHANGED ret
       ELSE Return("NOT_ACTIVE")
    /\ UNCHANGED <<driverVars, stateVars, fileVars, notApp, starts, first>>

(* The control attribute is written; the driver fails a stop of a capture  *)
(* that is off.                                                            *)
StopControl ==
    /\ api = "stopControl"
    /\ IF kState = "OFF"
       THEN Return("FAILED") /\ UNCHANGED kStop
       ELSE kStop' = TRUE /\ api' = "stopDriver" /\ UNCHANGED ret
    /\ UNCHANGED <<kState, kChange, kData, kStatus, kError, filled, stateVars,
                   fileVars, notApp, starts, first>>

\* Mutant: the driver does not wait for the end of the capture.
StopOver == TRUE

(* The write returns: netana_stop_capture of the toolkit has seen          *)
(* hStopComplete, which the DSR sets behind all buffers and the state.     *)
StopServed == kState = "OFF" /\ ~kChange /\ kData = <<>> /\ ~kStatus

StopDriver ==
    /\ api = "stopDriver"
    /\ StopServed
    /\ kStop' = FALSE
    /\ api' = "stopFiles"
    /\ UNCHANGED <<kState, kChange, kData, kStatus, kError, filled, stateVars,
                   fileVars, notApp, ret, starts, first>>

StopFiles ==
    /\ api = "stopFiles"
    /\ atFiles' = IF ulFileCount = 0 THEN atFiles
                  ELSE Closed(IF fWriteToFile
                              THEN WriteHeader(atFiles, ulCurrentFile,
                                               DataSize(atFiles, ulCurrentFile))
                              ELSE atFiles)
    /\ ulFileCount' = 0
    /\ api' = "stopWait"
    /\ UNCHANGED <<driverVars, stateVars, fRingBuffer, fWriteToFile,
                   ulCurrentFile, notApp, ret, starts, first>>

\* Mutant: the thread is joined without being told to end.
LeaveRunning == UNCHANGED fRunEventThread

TellThread == fRunEventThread' = FALSE

StopWait ==
    /\ api = "stopWait" /\ ~IsCaptureRunning
    /\ TellThread
    /\ api' = "stopJoin"
    /\ UNCHANGED <<driverVars, ulCaptureState, iEventError, pfnData,
                   hPollingThread, fileVars, notApp, ret, starts, first>>

StopJoin ==
    /\ api = "stopJoin" /\ ~Alive(hPollingThread)
    /\ pfnData' = FALSE
    /\ Return("OK")
    /\ UNCHANGED <<driverVars, ulCaptureState, fRunEventThread, iEventError,
                   hPollingThread, fileVars, notApp, starts, first>>

(* netana_close_device asks the driver for its state, and frees the handle. *)
Close ==
    /\ api = "idle" /\ Undisturbed /\ kState = "OFF"
    /\ api' = "freed"
    /\ UNCHANGED <<driverVars, stateVars, fileVars, notApp, ret, starts, first>>

AppContinue ==
    \/ StartThread \/ StartNoThread \/ StartControl \/ StartDone
    \/ StopControl \/ StopDriver \/ StopFiles \/ StopWait \/ StopJoin

-----------------------------------------------------------------------------
Next ==
    \/ Driver \/ (\E t \in Threads : EventThread(t))
    \/ SetFileList \/ Start \/ Stop \/ Close \/ AppContinue

Spec == Init /\ [][Next]_vars

(* The driver shows what is there and ends a capture it is told to end;    *)
(* threads that can run do.  The application need not call anything.       *)
LiveSpec ==
    /\ Spec
    /\ WF_vars(ShowState) /\ WF_vars(CaptureEnds /\ (kStop \/ kError))
    /\ WF_vars(AppContinue)
    /\ \A t \in Threads : WF_vars(EventThread(t))

-----------------------------------------------------------------------------
(* Properties. *)

FileRecords == [open : BOOLEAN, offset : 0 .. FileSize, size : 0 .. INVALID,
                data : Seq(1 .. MaxFill), bytes : Nat]

Slots == {<<>>} \cup {<<b>> : b \in Buffers}

ThreadPcs == {"none", "begin", "test", "poll", "read", "write", "callback",
              "status", "set", "error", "ended"}

ThreadRecords == [pc : ThreadPcs, state : {"OFF", "RUNNING"},
                  events : SUBSET {"data", "status"}, buf : Slots,
                  error : BOOLEAN]

ApiPcs == {"idle", "freed", "startThread", "startControl", "startWait",
           "stopControl", "stopDriver", "stopFiles", "stopWait", "stopJoin"}

TypeOK ==
    /\ kState \in {"OFF", "RUNNING"} /\ ulCaptureState \in {"OFF", "RUNNING"}
    /\ {kChange, kStatus, kStop, kError, fRunEventThread, iEventError, pfnData,
        fRingBuffer, fWriteToFile} \subseteq BOOLEAN
    /\ kData \in Slots /\ filled \in 0 .. MaxFill
    /\ ulFileCount \in 0 .. MaxFiles
    /\ ulCurrentFile = 0 \/ ulCurrentFile \in Files
    /\ atFiles \in [Files -> FileRecords]
    /\ hPollingThread \in 0 .. MaxStarts
    /\ thread \in [Threads -> ThreadRecords]
    /\ api \in ApiPcs /\ starts \in 0 .. MaxStarts
    /\ seen \in Seq(1 .. MaxFill) /\ first \in 0 .. MaxFill

(* A header with a size describes what is behind it: netana_writefileheader *)
(* was given exactly the bytes written since the file was begun.           *)
HeaderDescribesFile ==
    \A f \in Files : atFiles[f].size # INVALID =>
        atFiles[f].size = atFiles[f].bytes

(* netana_stop_capture closes a file only when the event thread is done    *)
(* with it: netana_write_to_file always finds its file open.               *)
WritesOpenFile ==
    \A t \in Threads : thread[t].pc = "write" /\ fWriteToFile =>
        atFiles[ulCurrentFile].open

(* When a stop completes, the callback has got every buffer of the capture, *)
(* and the current file, if none became full, ends with the last one and   *)
(* has no gap: the driver's stop waits for what the event thread reads.    *)
EndsWith(seq, n, last) ==
    /\ Len(seq) >= n
    /\ \A i \in 1 .. n : seq[Len(seq) - n + i] = last - n + i

StopDeliversAll ==
    [][StopJoin /\ filled > first =>
         /\ pfnData => EndsWith(seen, filled - first, filled)
         /\ fWriteToFile => LET data == atFiles[ulCurrentFile].data
                            IN  data # <<>> /\ EndsWith(data, Len(data), filled)]_vars

(* With one event thread (Tidy) the callback sees the buffers in the       *)
(* driver's order, none twice.                                             *)
CallbackInOrder == \A i \in 1 .. Len(seen) - 1 : seen[i] < seen[i + 1]

(* The calls return.  A start may not: a capture that ends before the      *)
(* event thread has seen it run is waited for without a time limit.        *)
CallsReturn ==
    /\ api \in {"stopControl", "stopDriver", "stopFiles", "stopWait", "stopJoin"}
          ~> api = "idle"
    /\ api = "startWait" ~> api = "idle" \/ kState = "OFF"

=============================================================================
