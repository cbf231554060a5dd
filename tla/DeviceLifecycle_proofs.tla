----------------------- MODULE DeviceLifecycle_proofs -----------------------
(***************************************************************************)
(* Whatever fails on the way, netana_registerdevice, netana_restart_device *)
(* and netana_unregisterdevice leave nothing half done when they return,   *)
(* and the interrupt handler is never requested for a device that is not   *)
(* there.  A kthread_run that fails is among the failures, and is not seen *)
(* by the code: what is proved includes the device without a DSR thread.   *)
(*                                                                         *)
(* The two properties are not inductive: the order of the steps says what  *)
(* there is of the device in between.  LifeInv states it by four parts,    *)
(* and each has a lemma that goes through the steps.                       *)
(***************************************************************************)
EXTENDS DeviceLifecycle, TLAPS

-----------------------------------------------------------------------------
(* Types. *)

\* netana_close_device: the count stays what one handle can make it.
LEMMA CloseCount ==
    ASSUME ulOpenCnt \in {0, 1}, CloseHandle
    PROVE  ulOpenCnt' \in {0, 1} /\ hdevice' = FALSE
<1>1. CASE ulOpenCnt = 0
  BY <1>1 DEF CloseHandle
<1>2. CASE ulOpenCnt = 1
  <2>1. CASE hdevice
    BY <1>2, <2>1 DEF CloseHandle
  <2>2. CASE ~hdevice
    BY <1>2, <2>2 DEF CloseHandle
  <2>3. QED
    BY <2>1, <2>2
<1>3. QED
  BY <1>1, <1>2

(* Every step keeps the types: the open count stays 0 or 1 because         *)
(* netana_open_device refuses a second handle and netana_close_device      *)
(* counts only handles that are open.                                      *)
LEMMA TypeStep ==
    ASSUME TypeOK, [Next]_vars
    PROVE  TypeOK'
<1> USE LifecycleAssumption DEF LifecycleAssumption, TypeOK
<1>1. CASE FwStatus
  BY <1>1 DEF FwStatus, Toggle, notFirmware, irqVars, dsrVars, devVars,
     handleVars, callVars
<1>2. CASE FwClockOff
  BY <1>2 DEF FwClockOff, Toggle, notFirmware, irqVars, dsrVars, devVars,
     handleVars, callVars
<1>3. CASE Isr
  BY <1>3 DEF Isr, Snapshot, WakeUp, devVars, handleVars, callVars
<1>4. CASE DsrTest
  BY <1>4 DEF DsrTest, notDsr, devVars, handleVars, callVars
<1>5. CASE DsrClear
  BY <1>5 DEF DsrClear, notDsr, devVars, handleVars, callVars
<1>6. CASE DsrCheck
  BY <1>6 DEF DsrCheck, notDsr, devVars, handleVars, callVars
<1>7. CASE DsrHandler
  BY <1>7 DEF DsrHandler, notDsr, devVars, handleVars, callVars
<1>8. CASE DsrProcess
  BY <1>8 DEF DsrProcess, Toggle, notDsr, devVars, handleVars, callVars
<1>9. CASE DsrUnmask
  BY <1>9 DEF DsrUnmask, notDsr, devVars, handleVars, callVars
<1>10. CASE Register
  BY <1>10 DEF Register, Call, Done, Goto, fwVars, irqVars, devVars,
     handleVars
<1>11. CASE Open
  <2>1. ulOpenCnt' \in {0, 1} /\ hdevice' \in BOOLEAN /\ file' \in BOOLEAN
    BY <1>11 DEF Open
  <2>2. UNCHANGED <<fwVars, irqVars, dsrVars, devVars, registered,
                    addsucceded, lRet>>
    BY <1>11 DEF Open, notCaller
  <2>3. calls' \in 0 .. MaxCalls
    BY <1>11 DEF Open, Call
  <2>4. QED
    BY <2>1, <2>2, <2>3 DEF fwVars, irqVars, dsrVars, devVars
<1>12. CASE Release
  <2>1. ulOpenCnt' \in {0, 1} /\ hdevice' = FALSE
    BY <1>12, CloseCount DEF Release
  <2>2. QED
    BY <2>1, <1>12 DEF Release, callVars, notCaller, fwVars, irqVars,
       dsrVars, devVars
<1>13. CASE Restart
  BY <1>13 DEF Restart, Call, Goto, handleVars, notCaller, fwVars, irqVars,
     dsrVars, devVars
<1>14. CASE Unregister
  BY <1>14 DEF Unregister, Call, Goto, handleVars, notCaller, fwVars,
     irqVars, dsrVars, devVars
<1>15. CASE AddCreate
  BY <1>15 DEF AddCreate, Goto, fwVars, dsrVars, notAdd, handleVars
<1>16. CASE AddDownload
  BY <1>16 DEF AddDownload, Goto, irqVars, dsrVars, devVars, notAdd,
     handleVars
<1>17. CASE AddFlags
  BY <1>17 DEF AddFlags, Toggle, Goto, irqVars, devVars, notAdd, handleVars
<1>18. CASE AddList
  BY <1>18 DEF AddList, Goto, fwVars, irqVars, dsrVars, notAdd, handleVars
<1>19. CASE AddSnapshot
  BY <1>19 DEF AddSnapshot, Snapshot, Goto, irqVars, devVars, notAdd,
     handleVars
<1>20. CASE AddIrq
  BY <1>20 DEF AddIrq, irqVars, Goto, fwVars, dsrVars, devVars, notAdd,
     handleVars
<1>21. CASE AddFailed
  BY <1>21 DEF AddFailed, DropEvents, Goto, fwVars, irqVars, dsrVars,
     notAdd, handleVars
<1>22. CASE AddDone
  BY <1>22 DEF AddDone, Done, Goto, notCaller, fwVars, irqVars, dsrVars,
     devVars
<1>23. CASE RestartFailed
  <2>1. ulOpenCnt' \in {0, 1} /\ hdevice' = FALSE
    BY <1>23, CloseCount DEF RestartFailed
  <2>2. QED
    BY <2>1, <1>23 DEF RestartFailed, Done, notCaller, fwVars, irqVars,
       dsrVars, devVars
<1>24. CASE ClockOff
  BY <1>24 DEF ClockOff, Toggle, Goto, irqVars, dsrVars, devVars, notRemove,
     handleVars
<1>25. CASE AckWait
  BY <1>25 DEF AckWait, Goto, notCaller, notRemove, handleVars, fwVars,
     irqVars, dsrVars, devVars
<1>26. CASE Mask
  BY <1>26 DEF Mask, Goto, fwVars, dsrVars, devVars, notRemove, handleVars
<1>27. CASE FreeIrq
  BY <1>27 DEF FreeIrq, Goto, fwVars, dsrVars, devVars, notRemove,
     handleVars
<1>28. CASE DeleteEvents
  BY <1>28 DEF DeleteEvents, Goto, fwVars, irqVars, dsrVars, notRemove,
     handleVars
<1>29. CASE DeleteLock
  BY <1>29 DEF DeleteLock, Goto, fwVars, irqVars, dsrVars, notRemove,
     handleVars
<1>30. CASE Unlist
  BY <1>30 DEF Unlist, Goto, fwVars, irqVars, dsrVars, notRemove, handleVars
<1>31. CASE StopSig
  BY <1>31 DEF StopSig, Goto, fwVars, irqVars, devVars, notRemove,
     handleVars
<1>32. CASE StopFlag
  BY <1>32 DEF StopFlag, WakeUp, Goto, fwVars, irqVars, devVars, notRemove,
     handleVars
<1>33. CASE StopJoin
  BY <1>33 DEF StopJoin, Done, fwVars, irqVars, devVars
<1>34. CASE StopOops
  BY <1>34 DEF StopOops, Goto, notRemove, handleVars, notCaller, fwVars,
     irqVars, dsrVars, devVars
<1>35. CASE UNCHANGED vars
  BY <1>35 DEF vars, fwVars, irqVars, dsrVars, devVars, handleVars, callVars
<1>36. QED
  BY <1>1, <1>2, <1>3, <1>4, <1>5, <1>6, <1>7, <1>8, <1>9, <1>10, <1>11,
     <1>12, <1>13, <1>14, <1>15, <1>16, <1>17, <1>18, <1>19, <1>20, <1>21,
     <1>22, <1>23, <1>24, <1>25, <1>26, <1>27, <1>28, <1>29, <1>30, <1>31,
     <1>32, <1>33, <1>34, <1>35 DEF Next, Firmware, Dsr, Continue

-----------------------------------------------------------------------------
(* The life of the device. *)

(* Firmware, interrupt and DSR thread leave the caller, the list, the      *)
(* events, the lock and the handle alone, the thread only ends when it was *)
(* told to, and none comes in the place of one that was not created.       *)
LEMMA Beside ==
    ASSUME Firmware \/ Isr \/ Dsr \/ UNCHANGED vars
    PROVE  /\ UNCHANGED <<handler, shouldStop, devVars, handleVars, callVars>>
           /\ (dsrPc = "none") = (dsrPc' = "none")
           /\ (dsrPc = "error") = (dsrPc' = "error")
           /\ dsrPc' = "ended" => shouldStop \/ dsrPc = "ended"
<1>1. CASE FwStatus
  BY <1>1 DEF FwStatus, Toggle, notFirmware, irqVars, dsrVars, devVars,
     handleVars, callVars
<1>2. CASE FwClockOff
  BY <1>2 DEF FwClockOff, Toggle, notFirmware, irqVars, dsrVars, devVars,
     handleVars, callVars
<1>3. CASE Isr
  BY <1>3 DEF Isr, Snapshot, WakeUp, devVars, handleVars, callVars
<1>4. CASE DsrTest
  BY <1>4 DEF DsrTest, notDsr, devVars, handleVars, callVars
<1>5. CASE DsrClear
  BY <1>5 DEF DsrClear, notDsr, devVars, handleVars, callVars
<1>6. CASE DsrCheck
  BY <1>6 DEF DsrCheck, notDsr, devVars, handleVars, callVars
<1>7. CASE DsrHandler
  BY <1>7 DEF DsrHandler, notDsr, devVars, handleVars, callVars
<1>8. CASE DsrProcess
  BY <1>8 DEF DsrProcess, Toggle, notDsr, devVars, handleVars, callVars
<1>9. CASE DsrUnmask
  BY <1>9 DEF DsrUnmask, notDsr, devVars, handleVars, callVars
<1>10. CASE UNCHANGED vars
  BY <1>10 DEF vars, dsrVars, irqVars
<1>11. QED
  BY <1>1, <1>2, <1>3, <1>4, <1>5, <1>6, <1>7, <1>8, <1>9, <1>10 DEF
     Firmware, Dsr

(* Each step belongs to the function that makes it.                        *)
LEMMA StepsKept ==
    ASSUME FunctionSteps, [Next]_vars
    PROVE  FunctionSteps'
<1> USE DEF FunctionSteps, AddSteps, RemoveSteps, StopSteps
<1>1. CASE Firmware \/ Isr \/ Dsr \/ UNCHANGED vars
  BY <1>1, Beside DEF devVars, handleVars, callVars
<1>2. CASE Register
  BY <1>2 DEF Register, Call, Done, Goto, fwVars, irqVars, devVars,
     handleVars
<1>3. CASE Open
  BY <1>3 DEF Open, Call, notCaller, fwVars, irqVars, dsrVars, devVars
<1>4. CASE Release
  BY <1>4 DEF Release, CloseHandle, callVars, notCaller, fwVars, irqVars,
     dsrVars, devVars
<1>5. CASE Restart
  BY <1>5 DEF Restart, Call, Goto, handleVars, notCaller, fwVars, irqVars,
     dsrVars, devVars
<1>6. CASE Unregister
  BY <1>6 DEF Unregister, Call, Goto, handleVars, notCaller, fwVars,
     irqVars, dsrVars, devVars
<1>7. CASE AddCreate
  BY <1>7 DEF AddCreate, Goto, fwVars, dsrVars, notAdd, handleVars
<1>8. CASE AddDownload
  BY <1>8 DEF AddDownload, Goto, irqVars, dsrVars, devVars, notAdd,
     handleVars
<1>9. CASE AddFlags
  BY <1>9 DEF AddFlags, Toggle, Goto, irqVars, devVars, notAdd, handleVars
<1>10. CASE AddList
  BY <1>10 DEF AddList, Goto, fwVars, irqVars, dsrVars, notAdd, handleVars
<1>11. CASE AddSnapshot
  BY <1>11 DEF AddSnapshot, Snapshot, Goto, irqVars, devVars, notAdd,
     handleVars
<1>12. CASE AddIrq
  BY <1>12 DEF AddIrq, irqVars, Goto, fwVars, dsrVars, devVars, notAdd,
     handleVars
<1>13. CASE AddFailed
  BY <1>13 DEF AddFailed, DropEvents, Goto, fwVars, irqVars, dsrVars,
     notAdd, handleVars
<1>14. CASE AddDone
  BY <1>14 DEF AddDone, Done, Goto, notCaller, fwVars, irqVars, dsrVars,
     devVars
<1>15. CASE RestartFailed
  BY <1>15 DEF RestartFailed, CloseHandle, Done, notCaller, fwVars, irqVars,
     dsrVars, devVars
<1>16. CASE ClockOff
  BY <1>16 DEF ClockOff, Toggle, Goto, irqVars, dsrVars, devVars, notRemove,
     handleVars
<1>17. CASE AckWait
  BY <1>17 DEF AckWait, Goto, notCaller, notRemove, handleVars, fwVars,
     irqVars, dsrVars, devVars
<1>18. CASE Mask
  BY <1>18 DEF Mask, Goto, fwVars, dsrVars, devVars, notRemove, handleVars
<1>19. CASE FreeIrq
  BY <1>19 DEF FreeIrq, Goto, fwVars, dsrVars, devVars, notRemove,
     handleVars
<1>20. CASE DeleteEvents
  BY <1>20 DEF DeleteEvents, Goto, fwVars, irqVars, dsrVars, notRemove,
     handleVars
<1>21. CASE DeleteLock
  BY <1>21 DEF DeleteLock, Goto, fwVars, irqVars, dsrVars, notRemove,
     handleVars
<1>22. CASE Unlist
  BY <1>22 DEF Unlist, Goto, fwVars, irqVars, dsrVars, notRemove, handleVars
<1>23. CASE StopSig
  BY <1>23 DEF StopSig, Goto, fwVars, irqVars, devVars, notRemove,
     handleVars
<1>24. CASE StopFlag
  BY <1>24 DEF StopFlag, WakeUp, Goto, fwVars, irqVars, devVars, notRemove,
     handleVars
<1>25. CASE StopJoin
  BY <1>25 DEF StopJoin, Done, fwVars, irqVars, devVars
<1>26. CASE StopOops
  BY <1>26 DEF StopOops, Goto, notRemove, handleVars, notCaller, fwVars,
     irqVars, dsrVars, devVars
<1>27. QED
  BY <1>1, <1>2, <1>3, <1>4, <1>5, <1>6, <1>7, <1>8, <1>9, <1>10, <1>11,
     <1>12, <1>13, <1>14, <1>15, <1>16, <1>17, <1>18, <1>19, <1>20, <1>21,
     <1>22, <1>23, <1>24, <1>25, <1>26 DEF Next, Continue

(* What there is of the device follows from the step.                      *)
LEMMA PiecesKept ==
    ASSUME TypeOK, FunctionSteps, DevicePieces, Handles, [Next]_vars
    PROVE  DevicePieces'
<1> USE DEF TypeOK, FunctionSteps, DevicePieces, Handles, AddSteps, RemoveSteps, StopSteps, ListSteps, EventSteps, LockSteps, IrqSteps
<1>1. CASE Firmware \/ Isr \/ Dsr \/ UNCHANGED vars
  BY <1>1, Beside DEF devVars, handleVars, callVars
<1>2. CASE Register
  BY <1>2 DEF Register, Call, Done, Goto, fwVars, irqVars, devVars,
     handleVars
<1>3. CASE Open
  BY <1>3 DEF Open, Call, notCaller, fwVars, irqVars, dsrVars, devVars
<1>4. CASE Release
  BY <1>4 DEF Release, CloseHandle, callVars, notCaller, fwVars, irqVars,
     dsrVars, devVars
<1>5. CASE Restart
  BY <1>5 DEF Restart, Call, Goto, handleVars, notCaller, fwVars, irqVars,
     dsrVars, devVars
<1>6. CASE Unregister
  BY <1>6 DEF Unregister, Call, Goto, handleVars, notCaller, fwVars,
     irqVars, dsrVars, devVars
<1>7. CASE AddCreate
  BY <1>7 DEF AddCreate, Goto, fwVars, dsrVars, notAdd, handleVars
<1>8. CASE AddDownload
  BY <1>8 DEF AddDownload, Goto, irqVars, dsrVars, devVars, notAdd,
     handleVars
<1>9. CASE AddFlags
  BY <1>9 DEF AddFlags, Toggle, Goto, irqVars, devVars, notAdd, handleVars
<1>10. CASE AddList
  BY <1>10 DEF AddList, Goto, fwVars, irqVars, dsrVars, notAdd, handleVars
<1>11. CASE AddSnapshot
  BY <1>11 DEF AddSnapshot, Snapshot, Goto, irqVars, devVars, notAdd,
     handleVars
<1>12. CASE AddIrq
  BY <1>12 DEF AddIrq, irqVars, Goto, fwVars, dsrVars, devVars, notAdd,
     handleVars
<1>13. CASE AddFailed
  BY <1>13 DEF AddFailed, DropEvents, Goto, fwVars, irqVars, dsrVars,
     notAdd, handleVars
<1>14. CASE AddDone
  BY <1>14 DEF AddDone, Done, Goto, notCaller, fwVars, irqVars, dsrVars,
     devVars
<1>15. CASE RestartFailed
  BY <1>15 DEF RestartFailed, CloseHandle, Done, notCaller, fwVars, irqVars,
     dsrVars, devVars
<1>16. CASE ClockOff
  BY <1>16 DEF ClockOff, Toggle, Goto, irqVars, dsrVars, devVars, notRemove,
     handleVars
<1>17. CASE AckWait
  BY <1>17 DEF AckWait, Goto, notCaller, notRemove, handleVars, fwVars,
     irqVars, dsrVars, devVars
<1>18. CASE Mask
  BY <1>18 DEF Mask, Goto, fwVars, dsrVars, devVars, notRemove, handleVars
<1>19. CASE FreeIrq
  BY <1>19 DEF FreeIrq, Goto, fwVars, dsrVars, devVars, notRemove,
     handleVars
<1>20. CASE DeleteEvents
  BY <1>20 DEF DeleteEvents, Goto, fwVars, irqVars, dsrVars, notRemove,
     handleVars
<1>21. CASE DeleteLock
  BY <1>21 DEF DeleteLock, Goto, fwVars, irqVars, dsrVars, notRemove,
     handleVars
<1>22. CASE Unlist
  BY <1>22 DEF Unlist, Goto, fwVars, irqVars, dsrVars, notRemove, handleVars
<1>23. CASE StopSig
  BY <1>23 DEF StopSig, Goto, fwVars, irqVars, devVars, notRemove,
     handleVars
<1>24. CASE StopFlag
  BY <1>24 DEF StopFlag, WakeUp, Goto, fwVars, irqVars, devVars, notRemove,
     handleVars
<1>25. CASE StopJoin
  BY <1>25 DEF StopJoin, Done, fwVars, irqVars, devVars
<1>26. CASE StopOops
  BY <1>26 DEF StopOops, Goto, notRemove, handleVars, notCaller, fwVars,
     irqVars, dsrVars, devVars
<1>27. QED
  BY <1>1, <1>2, <1>3, <1>4, <1>5, <1>6, <1>7, <1>8, <1>9, <1>10, <1>11,
     <1>12, <1>13, <1>14, <1>15, <1>16, <1>17, <1>18, <1>19, <1>20, <1>21,
     <1>22, <1>23, <1>24, <1>25, <1>26 DEF Next, Continue

(* A handle is open on a registered device that was added, and the         *)
(* functions other than netana_restart_device meet none.                   *)
LEMMA HandlesKept ==
    ASSUME TypeOK, FunctionSteps, DevicePieces, Handles, [Next]_vars
    PROVE  Handles'
<1> USE DEF TypeOK, FunctionSteps, DevicePieces, Handles, AddSteps, RemoveSteps, StopSteps, ListSteps
<1>1. CASE Firmware \/ Isr \/ Dsr \/ UNCHANGED vars
  BY <1>1, Beside DEF devVars, handleVars, callVars
<1>2. CASE Register
  BY <1>2 DEF Register, Call, Done, Goto, fwVars, irqVars, devVars,
     handleVars
<1>3. CASE Open
  BY <1>3 DEF Open, Call, notCaller, fwVars, irqVars, dsrVars, devVars
<1>4. CASE Release
  BY <1>4 DEF Release, CloseHandle, callVars, notCaller, fwVars, irqVars,
     dsrVars, devVars
<1>5. CASE Restart
  BY <1>5 DEF Restart, Call, Goto, handleVars, notCaller, fwVars, irqVars,
     dsrVars, devVars
<1>6. CASE Unregister
  BY <1>6 DEF Unregister, Call, Goto, handleVars, notCaller, fwVars,
     irqVars, dsrVars, devVars
<1>7. CASE AddCreate
  BY <1>7 DEF AddCreate, Goto, fwVars, dsrVars, notAdd, handleVars
<1>8. CASE AddDownload
  BY <1>8 DEF AddDownload, Goto, irqVars, dsrVars, devVars, notAdd,
     handleVars
<1>9. CASE AddFlags
  BY <1>9 DEF AddFlags, Toggle, Goto, irqVars, devVars, notAdd, handleVars
<1>10. CASE AddList
  BY <1>10 DEF AddList, Goto, fwVars, irqVars, dsrVars, notAdd, handleVars
<1>11. CASE AddSnapshot
  BY <1>11 DEF AddSnapshot, Snapshot, Goto, irqVars, devVars, notAdd,
     handleVars
<1>12. CASE AddIrq
  BY <1>12 DEF AddIrq, irqVars, Goto, fwVars, dsrVars, devVars, notAdd,
     handleVars
<1>13. CASE AddFailed
  BY <1>13 DEF AddFailed, DropEvents, Goto, fwVars, irqVars, dsrVars,
     notAdd, handleVars
<1>14. CASE AddDone
  BY <1>14 DEF AddDone, Done, Goto, notCaller, fwVars, irqVars, dsrVars,
     devVars
<1>15. CASE RestartFailed
  BY <1>15 DEF RestartFailed, CloseHandle, Done, notCaller, fwVars, irqVars,
     dsrVars, devVars
<1>16. CASE ClockOff
  BY <1>16 DEF ClockOff, Toggle, Goto, irqVars, dsrVars, devVars, notRemove,
     handleVars
<1>17. CASE AckWait
  BY <1>17 DEF AckWait, Goto, notCaller, notRemove, handleVars, fwVars,
     irqVars, dsrVars, devVars
<1>18. CASE Mask
  BY <1>18 DEF Mask, Goto, fwVars, dsrVars, devVars, notRemove, handleVars
<1>19. CASE FreeIrq
  BY <1>19 DEF FreeIrq, Goto, fwVars, dsrVars, devVars, notRemove,
     handleVars
<1>20. CASE DeleteEvents
  BY <1>20 DEF DeleteEvents, Goto, fwVars, irqVars, dsrVars, notRemove,
     handleVars
<1>21. CASE DeleteLock
  BY <1>21 DEF DeleteLock, Goto, fwVars, irqVars, dsrVars, notRemove,
     handleVars
<1>22. CASE Unlist
  BY <1>22 DEF Unlist, Goto, fwVars, irqVars, dsrVars, notRemove, handleVars
<1>23. CASE StopSig
  BY <1>23 DEF StopSig, Goto, fwVars, irqVars, devVars, notRemove,
     handleVars
<1>24. CASE StopFlag
  BY <1>24 DEF StopFlag, WakeUp, Goto, fwVars, irqVars, devVars, notRemove,
     handleVars
<1>25. CASE StopJoin
  BY <1>25 DEF StopJoin, Done, fwVars, irqVars, devVars
<1>26. CASE StopOops
  BY <1>26 DEF StopOops, Goto, notRemove, handleVars, notCaller, fwVars,
     irqVars, dsrVars, devVars
<1>27. QED
  BY <1>1, <1>2, <1>3, <1>4, <1>5, <1>6, <1>7, <1>8, <1>9, <1>10, <1>11,
     <1>12, <1>13, <1>14, <1>15, <1>16, <1>17, <1>18, <1>19, <1>20, <1>21,
     <1>22, <1>23, <1>24, <1>25, <1>26 DEF Next, Continue

(* The DSR thread lives as long as the device is registered and ends only  *)
(* in the join of stop_dsr_thread; one that was not created stays missing  *)
(* as long.                                                                *)
LEMMA ThreadKept ==
    ASSUME TypeOK, FunctionSteps, Handles, Thread, [Next]_vars
    PROVE  Thread'
<1> USE DEF TypeOK, FunctionSteps, Handles, Thread, AddSteps, RemoveSteps, StopSteps
<1>1. CASE Firmware \/ Isr \/ Dsr \/ UNCHANGED vars
  BY <1>1, Beside DEF devVars, handleVars, callVars
<1>2. CASE Register
  BY <1>2 DEF Register, Call, Done, Goto, fwVars, irqVars, devVars,
     handleVars
<1>3. CASE Open
  BY <1>3 DEF Open, Call, notCaller, fwVars, irqVars, dsrVars, devVars
<1>4. CASE Release
  BY <1>4 DEF Release, CloseHandle, callVars, notCaller, fwVars, irqVars,
     dsrVars, devVars
<1>5. CASE Restart
  BY <1>5 DEF Restart, Call, Goto, handleVars, notCaller, fwVars, irqVars,
     dsrVars, devVars
<1>6. CASE Unregister
  BY <1>6 DEF Unregister, Call, Goto, handleVars, notCaller, fwVars,
     irqVars, dsrVars, devVars
<1>7. CASE AddCreate
  BY <1>7 DEF AddCreate, Goto, fwVars, dsrVars, notAdd, handleVars
<1>8. CASE AddDownload
  BY <1>8 DEF AddDownload, Goto, irqVars, dsrVars, devVars, notAdd,
     handleVars
<1>9. CASE AddFlags
  BY <1>9 DEF AddFlags, Toggle, Goto, irqVars, devVars, notAdd, handleVars
<1>10. CASE AddList
  BY <1>10 DEF AddList, Goto, fwVars, irqVars, dsrVars, notAdd, handleVars
<1>11. CASE AddSnapshot
  BY <1>11 DEF AddSnapshot, Snapshot, Goto, irqVars, devVars, notAdd,
     handleVars
<1>12. CASE AddIrq
  BY <1>12 DEF AddIrq, irqVars, Goto, fwVars, dsrVars, devVars, notAdd,
     handleVars
<1>13. CASE AddFailed
  BY <1>13 DEF AddFailed, DropEvents, Goto, fwVars, irqVars, dsrVars,
     notAdd, handleVars
<1>14. CASE AddDone
  BY <1>14 DEF AddDone, Done, Goto, notCaller, fwVars, irqVars, dsrVars,
     devVars
<1>15. CASE RestartFailed
  BY <1>15 DEF RestartFailed, CloseHandle, Done, notCaller, fwVars, irqVars,
     dsrVars, devVars
<1>16. CASE ClockOff
  BY <1>16 DEF ClockOff, Toggle, Goto, irqVars, dsrVars, devVars, notRemove,
     handleVars
<1>17. CASE AckWait
  BY <1>17 DEF AckWait, Goto, notCaller, notRemove, handleVars, fwVars,
     irqVars, dsrVars, devVars
<1>18. CASE Mask
  BY <1>18 DEF Mask, Goto, fwVars, dsrVars, devVars, notRemove, handleVars
<1>19. CASE FreeIrq
  BY <1>19 DEF FreeIrq, Goto, fwVars, dsrVars, devVars, notRemove,
     handleVars
<1>20. CASE DeleteEvents
  BY <1>20 DEF DeleteEvents, Goto, fwVars, irqVars, dsrVars, notRemove,
     handleVars
<1>21. CASE DeleteLock
  BY <1>21 DEF DeleteLock, Goto, fwVars, irqVars, dsrVars, notRemove,
     handleVars
<1>22. CASE Unlist
  BY <1>22 DEF Unlist, Goto, fwVars, irqVars, dsrVars, notRemove, handleVars
<1>23. CASE StopSig
  BY <1>23 DEF StopSig, Goto, fwVars, irqVars, devVars, notRemove,
     handleVars
<1>24. CASE StopFlag
  BY <1>24 DEF StopFlag, WakeUp, Goto, fwVars, irqVars, devVars, notRemove,
     handleVars
<1>25. CASE StopJoin
  BY <1>25 DEF StopJoin, Done, fwVars, irqVars, devVars
<1>26. CASE StopOops
  BY <1>26 DEF StopOops, Goto, notRemove, handleVars, notCaller, fwVars,
     irqVars, dsrVars, devVars
<1>27. QED
  BY <1>1, <1>2, <1>3, <1>4, <1>5, <1>6, <1>7, <1>8, <1>9, <1>10, <1>11,
     <1>12, <1>13, <1>14, <1>15, <1>16, <1>17, <1>18, <1>19, <1>20, <1>21,
     <1>22, <1>23, <1>24, <1>25, <1>26 DEF Next, Continue

-----------------------------------------------------------------------------
(* The theorems. *)

\* Types and life of the device together are inductive.
LEMMA Inductive == Spec => [](TypeOK /\ LifeInv)
<1>1. Init => TypeOK /\ LifeInv
  <2>1. Init => TypeOK
    <3> SUFFICES ASSUME Init PROVE TypeOK
      OBVIOUS
    <3>1. {irqPending, irqEnabled, handler, dsr_sig, shouldStop, fValid, events,
           lock, listed, registered, addsucceded, hdevice, file} \subseteq BOOLEAN
      BY DEF Init
    <3>2. indicated \in 0 .. MaxInd /\ calls \in 0 .. MaxCalls
      BY LifecycleAssumption DEF LifecycleAssumption, Init
    <3>3. QED
      BY <3>1, <3>2 DEF Init, TypeOK
  <2>2. Init => LifeInv
    BY DEF Init, LifeInv, FunctionSteps, DevicePieces, Handles, Thread,
           AddSteps, RemoveSteps, StopSteps
  <2>3. QED
    BY <2>1, <2>2
<1>2. TypeOK /\ LifeInv /\ [Next]_vars => (TypeOK /\ LifeInv)'
  BY TypeStep, StepsKept, PiecesKept, HandlesKept, ThreadKept
     DEF LifeInv
<1>3. QED
  BY <1>1, <1>2, PTL DEF Spec

(* Every reachable state is well-typed, whatever fails and however many    *)
(* calls and indications there are.                                        *)
THEOREM TypeCorrect == Spec => []TypeOK
BY Inductive, PTL

(* The order of the steps of netana_tkit_deviceadd, netana_tkit_device-    *)
(* remove and their callers determines what there is of the device.        *)
THEOREM LifeInvariant == Spec => []LifeInv
BY Inductive, PTL

(* No call that returns leaves a device half added or half removed, a DSR  *)
(* thread without its device or a handle on a device that is gone; and one *)
(* whose kthread_run failed keeps the error pointer as long as others keep *)
(* their thread.                                                           *)
THEOREM NothingHalfDone == Spec => []NoPiecesLeft
<1>1. TypeOK /\ LifeInv => NoPiecesLeft
  BY DEF TypeOK, LifeInv, DevicePieces, Handles, Thread, NoPiecesLeft
<1>2. QED
  BY <1>1, Inductive, PTL

(* netana_isr never runs for a device whose list entry, events, lock or    *)
(* DSR thread was taken away, or before they were set up; only a thread    *)
(* that kthread_run failed to create is missing under the handler.         *)
THEOREM HandlerNeverDangles == Spec => []HandlerHasDevice
<1>1. TypeOK /\ LifeInv => HandlerHasDevice
  BY DEF TypeOK, LifeInv, FunctionSteps, DevicePieces, Handles, Thread,
         HandlerHasDevice, AddSteps, RemoveSteps, StopSteps, ListSteps,
         EventSteps, LockSteps, IrqSteps
<1>2. QED
  BY <1>1, Inductive, PTL

=============================================================================
