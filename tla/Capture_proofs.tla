---------------------------- MODULE Capture_proofs ----------------------------
(***************************************************************************)
(* Proofs about Capture, for every number of buffers, fills and calls.     *)
(*                                                                         *)
(* First what holds whatever firmware, caller and time limits do: types    *)
(* and the interrupt.  Then the ring of DMA buffers, which stays           *)
(* consistent when the firmware stops only on command and the waits of the *)
(* caller do not run out.  RingInv (module CaptureInv) is the inductive    *)
(* invariant; there is one lemma per part of it.  From it follow what the  *)
(* consumer gets, what the calls return, and that the whole path           *)
(* implements the FIFO of CaptureFifo.                                     *)
(***************************************************************************)
EXTENDS CaptureInv, TLAPS

USE CaptureAssumption DEF Buffers, Bits

-----------------------------------------------------------------------------
(* Type correctness.  The three parts of TypeOK are proved separately; the *)
(* frame lemmas say which processes do not touch which part.               *)

sharedVars == <<usNetxFlags, ulCaptureState, fwVars, dmaVars, irqVars>>

dsrSideVars == <<ulHostFlags, dsrVars, ringVars, outVars, evVars>>

(* The rest of the DSR works on the driver's side only. *)
LEMMA DsrKeepsShared ==
    ASSUME
        DsrProcess \/ DsrReadFlags \/ DsrBuffer \/ DsrCheckData \/
        DsrDataCall \/ DsrError \/ DsrErrorEvent \/ DsrErrorTimeout \/
        DsrFree \/ DsrStatus \/ DsrStatusCall \/ DsrStatusAck \/
        DsrStopEvent
    PROVE  UNCHANGED sharedVars
  BY DEF
     DsrProcess, DsrReadFlags, DsrBuffer, DsrCheckData, DsrDataCall,
     DsrError, DsrErrorEvent, DsrErrorTimeout, DsrFree, DsrStatus,
     DsrStatusCall, DsrStatusAck, DsrStopEvent, sharedVars, fwVars,
     dmaVars, irqVars, dsrVars, ringVars, outVars, appVars, evVars

(* So do the calls of the user. *)
LEMMA AppKeepsShared ==
    ASSUME
        AppStart \/ AppStop \/ AppStartSetup \/ AppWaitCheck \/
        AppWaitEvent \/ AppWaitTimeout \/ AppStartToggle \/
        AppStopToggle \/ AppStopComplete \/ AppStopClear
    PROVE  UNCHANGED sharedVars
  BY DEF
     AppStart, AppStop, AppStartSetup, AppWaitCheck, AppWaitEvent,
     AppWaitTimeout, AppStartToggle, AppStopToggle, AppStopComplete,
     AppStopClear, sharedVars, othersOfApp, fwVars, dmaVars, irqVars,
     dsrVars, ringVars, outVars, appVars, evVars

(* The firmware and the interrupt leave the driver's variables alone. *)
LEMMA FirmwareKeepsDriver ==
    ASSUME
        FwFill \/ FwIndicateData \/ FwIndicateStatus \/ FwStart \/
        FwStopCommand \/ FwStopAck \/ FwOff \/ FwDriverError \/ Isr
    PROVE  UNCHANGED <<dsrSideVars, appVars>>
  BY DEF
     FwFill, FwIndicateData, FwIndicateStatus, FwStart, FwStopCommand,
     FwStopAck, FwOff, FwDriverError, Isr, dsrSideVars, fwVars, dmaVars,
     irqVars, dsrVars, ringVars, outVars, appVars, evVars

(* The DSR does not touch what the caller alone writes. *)
LEMMA DsrKeepsApp ==
    ASSUME
        DsrWake \/ DsrHandler \/ DsrProcess \/ DsrReadFlags \/ DsrBuffer \/
        DsrCheckData \/ DsrDataCall \/ DsrError \/ DsrErrorEvent \/
        DsrErrorTimeout \/ DsrFree \/ DsrStatus \/ DsrStatusCall \/
        DsrStatusAck \/ DsrStopEvent \/ DsrEnable
    PROVE  UNCHANGED appVars
  BY DEF
     DsrWake, DsrHandler, DsrProcess, DsrReadFlags, DsrBuffer,
     DsrCheckData, DsrDataCall, DsrError, DsrErrorEvent, DsrErrorTimeout,
     DsrFree, DsrStatus, DsrStatusCall, DsrStatusAck, DsrStopEvent,
     DsrEnable, fwVars, dmaVars, irqVars, dsrVars, ringVars, outVars,
     appVars, evVars

(* Most steps of the caller leave alone what it shares with the DSR. *)
LEMMA AppKeepsDsrSide ==
    ASSUME
        AppStart \/ AppStop \/ AppWaitCheck \/ AppWaitTimeout \/
        AppStopClear
    PROVE  UNCHANGED dsrSideVars
  BY DEF
     AppStart, AppStop, AppWaitCheck, AppWaitTimeout, AppStopClear,
     dsrSideVars, othersOfApp, AppWaitDone, AppReturn, fwVars, dmaVars,
     irqVars, dsrVars, ringVars, outVars, appVars, evVars

(* A step keeps the types of the shared part. *)
LEMMA SharedTypeStep == TypeOK /\ [Next]_vars => SharedTypeOK'
<1> SUFFICES ASSUME TypeOK, [Next]_vars PROVE SharedTypeOK'
  OBVIOUS
<1> USE DEF TypeOK, SharedTypeOK, DsrTypeOK, AppTypeOK, AppPcs, DsrPcs,
            fwVars, dmaVars, irqVars, dsrVars, ringVars, outVars, appVars,
            evVars
<1>1. CASE FwFill
  <2>1. fwNext' \in Buffers
    BY <1>1 DEF FwFill, Wrap
  <2>2. buf' \in [Buffers -> Nat] /\ filled' \in Nat
    BY <1>1 DEF FwFill
  <2>3. netxBufferFlags' \subseteq Buffers
    BY <1>1 DEF FwFill, Toggle
  <2>4. QED
    BY <1>1, <2>1, <2>2, <2>3 DEF FwFill
<1>2. CASE FwIndicateData
  BY <1>2 DEF FwIndicateData, FwToggle, Toggle
<1>3. CASE FwIndicateStatus
  BY <1>3 DEF FwIndicateStatus, FwToggle, Toggle
<1>4. CASE FwStart
  BY <1>4 DEF FwStart, FwToggle, Toggle
<1>5. CASE FwStopCommand
  BY <1>5 DEF FwStopCommand
<1>6. CASE FwStopAck
  BY <1>6 DEF FwStopAck, FwToggle, Toggle
<1>7. CASE FwOff
  BY <1>7 DEF FwOff
<1>8. CASE FwDriverError
  BY <1>8 DEF FwDriverError, FwToggle, Toggle
<1>9. CASE Isr
  BY <1>9 DEF Isr, Snapshot
<1>10. CASE DsrWake
  BY <1>10 DEF DsrWake
<1>11. CASE DsrHandler
  BY <1>11 DEF DsrHandler, Xor
<1>12. CASE DsrEnable
  BY <1>12 DEF DsrEnable, Unmask
<1>13. CASE
      DsrProcess \/ DsrReadFlags \/ DsrBuffer \/ DsrCheckData \/
      DsrDataCall \/ DsrError \/ DsrErrorEvent \/ DsrErrorTimeout \/
      DsrFree \/ DsrStatus \/ DsrStatusCall \/ DsrStatusAck \/ DsrStopEvent
  BY <1>13, DsrKeepsShared DEF sharedVars
<1>14. CASE
      AppStart \/ AppStop \/ AppStartSetup \/ AppWaitCheck \/
      AppWaitEvent \/ AppWaitTimeout \/ AppStartToggle \/ AppStopToggle \/
      AppStopComplete \/ AppStopClear
  BY <1>14, AppKeepsShared DEF sharedVars
<1>15. CASE UNCHANGED vars
  BY <1>15 DEF vars
<1>16. QED
  BY <1>1, <1>2, <1>3, <1>4, <1>5, <1>6, <1>7, <1>8, <1>9, <1>10, <1>11, <1>12, <1>13, <1>14, <1>15
     DEF Next, Firmware, Dsr, AppWait, AppContinue

(* A step keeps the types of the DSR's part. *)
LEMMA DsrTypeStep == TypeOK /\ [Next]_vars => DsrTypeOK'
<1> SUFFICES ASSUME TypeOK, [Next]_vars PROVE DsrTypeOK'
  OBVIOUS
<1> USE DEF TypeOK, SharedTypeOK, DsrTypeOK, AppTypeOK, AppPcs, DsrPcs,
            fwVars, dmaVars, irqVars, dsrVars, ringVars, outVars, appVars,
            evVars
<1>1. CASE DsrWake
  BY <1>1 DEF DsrWake
<1>2. CASE DsrHandler
  BY <1>2 DEF DsrHandler, Xor
<1>3. CASE DsrProcess
  BY <1>3 DEF DsrProcess, Xor, Toggle
<1>4. CASE DsrReadFlags
  BY <1>4 DEF DsrReadFlags, ReadFlags, UsedBuffers, Xor
<1>5. CASE DsrBuffer
  BY <1>5 DEF DsrBuffer
<1>6. CASE DsrCheckData
  <2>1. buf[ulCurrentBuffer] \in Nat
    OBVIOUS
  <2>2. dropped' \subseteq Nat
    BY <1>6, <2>1 DEF DsrCheckData
  <2>3. QED
    BY <1>6, <2>2 DEF DsrCheckData
<1>7. CASE DsrDataCall
  BY <1>7 DEF DsrDataCall
<1>8. CASE DsrError
  BY <1>8 DEF DsrError, Toggle
<1>9. CASE DsrErrorEvent
  BY <1>9 DEF DsrErrorEvent, Toggle
<1>10. CASE DsrErrorTimeout
  BY <1>10 DEF DsrErrorTimeout
<1>11. CASE DsrFree
  BY <1>11 DEF DsrFree, FreeBuffer, Toggle, NextBuffer
<1>12. CASE DsrStatus
  BY <1>12 DEF DsrStatus
<1>13. CASE DsrStatusCall
  BY <1>13 DEF DsrStatusCall
<1>14. CASE DsrStatusAck
  BY <1>14 DEF DsrStatusAck, Toggle
<1>15. CASE DsrStopEvent
  BY <1>15 DEF DsrStopEvent, StopEvent
<1>16. CASE DsrEnable
  BY <1>16 DEF DsrEnable, Unmask
<1>17. CASE AppStartSetup
  BY <1>17 DEF AppStartSetup, ResetRing, othersOfApp
<1>18. CASE AppWaitEvent
  BY <1>18 DEF AppWaitEvent, AppWaitDone, AfterWait, othersOfApp
<1>19. CASE AppStartToggle
  BY <1>19 DEF AppStartToggle, Toggle, othersOfApp
<1>20. CASE AppStopToggle
  BY <1>20 DEF AppStopToggle, Toggle, othersOfApp
<1>21. CASE AppStopComplete
  BY <1>21 DEF AppStopComplete, StopWaitOver, othersOfApp
<1>22. CASE
      FwFill \/ FwIndicateData \/ FwIndicateStatus \/ FwStart \/
      FwStopCommand \/ FwStopAck \/ FwOff \/ FwDriverError \/ Isr
  BY <1>22, FirmwareKeepsDriver DEF dsrSideVars
<1>23. CASE
      AppStart \/ AppStop \/ AppWaitCheck \/ AppWaitTimeout \/ AppStopClear
  BY <1>23, AppKeepsDsrSide DEF dsrSideVars
<1>24. CASE UNCHANGED vars
  BY <1>24 DEF vars
<1>25. QED
  BY <1>1, <1>2, <1>3, <1>4, <1>5, <1>6, <1>7, <1>8, <1>9, <1>10, <1>11, <1>12, <1>13, <1>14, <1>15, <1>16, <1>17, <1>18, <1>19, <1>20, <1>21, <1>22, <1>23, <1>24
     DEF Next, Firmware, Dsr, AppWait, AppContinue

(* What netana_tkit_WaitForBitState returning 1 leads to is well-typed.     *)
LEMMA WaitDoneTypes ==
    ASSUME AppTypeOK, appPc \in DOMAIN AfterWait, AppWaitDone,
           UNCHANGED <<calls, pfnData, pfnStatus>>
    PROVE  AppTypeOK'
<1> USE DEF AppTypeOK, AppPcs, AppWaitDone
<1>1. appPc' \in AppPcs
  BY DEF AfterWait
<1>2. lastRet' \in {"started", lastRet}
  BY DEF AfterWait
<1>3. QED
  BY <1>1, <1>2

(* A step keeps the types of the caller's part. *)
LEMMA AppTypeStep == TypeOK /\ [Next]_vars => AppTypeOK'
<1> SUFFICES ASSUME TypeOK, [Next]_vars PROVE AppTypeOK'
  OBVIOUS
<1> USE DEF TypeOK, SharedTypeOK, DsrTypeOK, AppTypeOK, AppPcs, DsrPcs,
            fwVars, dmaVars, irqVars, dsrVars, ringVars, outVars, appVars,
            evVars
<1>1. CASE AppStart
  <2>1. CASE ulCaptureState = "OFF"
    BY <1>1, <2>1 DEF AppStart, othersOfApp
  <2>2. CASE ulCaptureState # "OFF"
    BY <1>1, <2>2 DEF AppStart, AppReturn, othersOfApp
  <2>3. QED
    BY <2>1, <2>2
<1>2. CASE AppStop
  BY <1>2 DEF AppStop, AppReturn, othersOfApp
<1>3. CASE AppStartSetup
  BY <1>3 DEF AppStartSetup, ResetRing, othersOfApp
<1>4. CASE AppWaitCheck
  <2>1. CASE AppWaitDone
    BY <1>4, <2>1, WaitDoneTypes DEF AppWaitCheck
  <2>2. CASE UNCHANGED <<appPc, lastRet>> /\ appSleep' = TRUE
    BY <1>4, <2>2 DEF AppWaitCheck
  <2>3. QED
    BY <1>4, <2>1, <2>2 DEF AppWaitCheck
<1>5. CASE AppWaitEvent
  <2>1. CASE AppWaitDone
    BY <1>5, <2>1, WaitDoneTypes DEF AppWaitEvent
  <2>2. CASE UNCHANGED <<appPc, lastRet>> /\ appSleep' = TRUE
    BY <1>5, <2>2 DEF AppWaitEvent
  <2>3. QED
    BY <1>5, <2>1, <2>2 DEF AppWaitEvent
<1>6. CASE AppWaitTimeout
  <2>1. CASE AppWaitDone
    BY <1>6, <2>1, WaitDoneTypes DEF AppWaitTimeout
  <2>2. CASE appSleep' = FALSE /\ AppReturn("FUNCTION_FAILED")
    BY <1>6, <2>2 DEF AppWaitTimeout, AppReturn
  <2>3. QED
    BY <1>6, <2>1, <2>2 DEF AppWaitTimeout
<1>7. CASE AppStartToggle
  BY <1>7 DEF AppStartToggle, Toggle, othersOfApp
<1>8. CASE AppStopToggle
  BY <1>8 DEF AppStopToggle, Toggle, othersOfApp
<1>9. CASE AppStopComplete
  BY <1>9 DEF AppStopComplete, StopWaitOver, othersOfApp
<1>10. CASE AppStopClear
  BY <1>10 DEF AppStopClear, AppReturn, othersOfApp
<1>11. CASE
      FwFill \/ FwIndicateData \/ FwIndicateStatus \/ FwStart \/
      FwStopCommand \/ FwStopAck \/ FwOff \/ FwDriverError \/ Isr
  BY <1>11, FirmwareKeepsDriver DEF dsrSideVars
<1>12. CASE
      DsrWake \/ DsrHandler \/ DsrProcess \/ DsrReadFlags \/ DsrBuffer \/
      DsrCheckData \/ DsrDataCall \/ DsrError \/ DsrErrorEvent \/
      DsrErrorTimeout \/ DsrFree \/ DsrStatus \/ DsrStatusCall \/
      DsrStatusAck \/ DsrStopEvent \/ DsrEnable
  BY <1>12, DsrKeepsApp
<1>13. CASE UNCHANGED vars
  BY <1>13 DEF vars
<1>14. QED
  BY <1>1, <1>2, <1>3, <1>4, <1>5, <1>6, <1>7, <1>8, <1>9, <1>10, <1>11, <1>12, <1>13
     DEF Next, Firmware, Dsr, AppWait, AppContinue

(* Every reachable state of the capture path is well-typed: in particular   *)
(* ulCurrentBuffer and the firmware's position stay inside the ring.        *)
THEOREM TypeCorrect == Spec => []TypeOK
<1>1. Init => TypeOK
  BY DEF Init, TypeOK, SharedTypeOK, DsrTypeOK, AppTypeOK, AppPcs, DsrPcs
<1>2. TypeOK /\ [Next]_vars => TypeOK'
  BY SharedTypeStep, DsrTypeStep, AppTypeStep DEF TypeOK
<1>3. QED
  BY <1>1, <1>2, PTL DEF Spec

-----------------------------------------------------------------------------
(***************************************************************************)
(* The interrupt path.  The two properties are inductive together once it  *)
(* is added that the thread is signalled only while it waits: netana_isr   *)
(* runs unmasked, and the DSR unmasks as its last step.                    *)
(***************************************************************************)
SignalledOnlyWaiting == dsr_sig => dsrPc = "wait"

IrqInv == NoLostIndication /\ NeverMaskedForGood /\ SignalledOnlyWaiting

irqPathVars == <<usNetxFlags, irqVars, ulNetxFlags, dsrPc>>

(* IrqInv reads irqPathVars only.                                          *)
LEMMA IrqInvFrame ==
    ASSUME IrqInv, UNCHANGED irqPathVars
    PROVE  IrqInv'
  BY DEF IrqInv, NoLostIndication, NeverMaskedForGood, SignalledOnlyWaiting,
         NewestCopy, irqPathVars, irqVars

(* A toggle of the firmware raises the interrupt, so it cannot be lost.    *)
LEMMA FirmwareKeepsIrqInv ==
    ASSUME IrqInv, TypeOK, irqPending' \/ usNetxFlags' = usNetxFlags,
           irqPending => irqPending',
           UNCHANGED <<irqEnabled, fValid, snap, iIrq2DsrBuffer, dsr_sig,
                       ulNetxFlags, dsrPc>>
    PROVE  IrqInv'
  BY DEF IrqInv, NoLostIndication, NeverMaskedForGood, SignalledOnlyWaiting,
         NewestCopy

(* Inside its loop the DSR moves from one program point to another.        *)
LEMMA LoopKeepsIrqInv ==
    ASSUME IrqInv, UNCHANGED <<usNetxFlags, irqVars, ulNetxFlags>>,
           dsrPc \notin {"wait", "handler"}, dsrPc' \notin {"wait", "handler"}
    PROVE  IrqInv'
  BY DEF IrqInv, NoLostIndication, NeverMaskedForGood, SignalledOnlyWaiting,
         NewestCopy, irqVars

LEMMA IrqInvStep == TypeOK /\ IrqInv /\ [Next]_vars => IrqInv'
<1> SUFFICES ASSUME TypeOK, IrqInv, [Next]_vars PROVE IrqInv'
  OBVIOUS
<1> USE DEF fwVars, dmaVars, irqVars, dsrVars, ringVars, outVars, appVars,
            evVars
<1>1. CASE Firmware
  <2>1. UNCHANGED <<irqEnabled, fValid, snap, iIrq2DsrBuffer, dsr_sig,
                    ulNetxFlags, dsrPc>>
    BY <1>1 DEF Firmware, FwFill, FwIndicateData, FwIndicateStatus, FwStart,
                FwStopCommand, FwStopAck, FwOff, FwDriverError
  <2>2. irqPending' \/ UNCHANGED <<usNetxFlags, irqPending>>
    BY <1>1 DEF Firmware, FwFill, FwIndicateData, FwIndicateStatus, FwStart,
                FwStopCommand, FwStopAck, FwOff, FwDriverError, FwToggle
  <2>3. QED
    BY <2>1, <2>2, FirmwareKeepsIrqInv
<1>2. CASE Isr
  BY <1>2 DEF Isr, Snapshot, IrqInv, NoLostIndication, NeverMaskedForGood,
              SignalledOnlyWaiting, NewestCopy, TypeOK, SharedTypeOK
<1>3. CASE DsrWake
  BY <1>3 DEF DsrWake, IrqInv, NoLostIndication, NeverMaskedForGood,
              SignalledOnlyWaiting, NewestCopy
<1>4. CASE DsrHandler
  BY <1>4 DEF DsrHandler, IrqInv, NoLostIndication, NeverMaskedForGood,
              SignalledOnlyWaiting, NewestCopy, TypeOK, SharedTypeOK
<1>5. CASE DsrEnable
  BY <1>5 DEF DsrEnable, Unmask, IrqInv, NoLostIndication,
              NeverMaskedForGood, SignalledOnlyWaiting, NewestCopy
<1>6. CASE
      DsrProcess \/ DsrReadFlags \/ DsrBuffer \/ DsrCheckData \/ DsrDataCall
      \/ DsrError \/ DsrErrorEvent \/ DsrErrorTimeout \/ DsrFree
      \/ DsrStatus \/ DsrStatusCall \/ DsrStatusAck \/ DsrStopEvent
  <2>1. UNCHANGED <<usNetxFlags, irqVars, ulNetxFlags>>
    BY <1>6 DEF DsrProcess, DsrReadFlags, DsrBuffer, DsrCheckData,
                DsrDataCall, DsrError, DsrErrorEvent, DsrErrorTimeout, DsrFree,
                DsrStatus, DsrStatusCall, DsrStatusAck, DsrStopEvent
  <2>2. dsrPc \notin {"wait", "handler"} /\ dsrPc' \notin {"wait", "handler"}
    BY <1>6 DEF DsrProcess, DsrReadFlags, DsrBuffer, DsrCheckData,
                DsrDataCall, DsrError, DsrErrorEvent, DsrErrorTimeout, DsrFree,
                DsrStatus, DsrStatusCall, DsrStatusAck, DsrStopEvent
  <2>3. QED
    BY <2>1, <2>2, LoopKeepsIrqInv
<1>7. CASE AppStart \/ AppStop \/ AppContinue
  <2>1. UNCHANGED irqPathVars
    BY <1>7 DEF AppContinue, AppWait, AppStart, AppStop, AppStartSetup,
                AppWaitCheck, AppWaitEvent, AppWaitTimeout, AppStartToggle,
                AppStopToggle, AppStopComplete, AppStopClear, othersOfApp,
                irqPathVars
  <2>2. QED
    BY <2>1, IrqInvFrame
<1>8. CASE UNCHANGED vars
  BY <1>8, IrqInvFrame DEF vars, irqPathVars
<1>9. QED
  BY <1>1, <1>2, <1>3, <1>4, <1>5, <1>6, <1>7, <1>8 DEF Next, Dsr

LEMMA IrqInvCorrect == Spec => []IrqInv
<1>1. Init => IrqInv
  BY DEF Init, IrqInv, NoLostIndication, NeverMaskedForGood,
         SignalledOnlyWaiting, NewestCopy
<1>2. QED
  BY <1>1, IrqInvStep, TypeCorrect, PTL DEF Spec

(* Whatever the firmware, the caller and the time limits do, no toggle of  *)
(* the firmware is lost between netana_isr and the DSR.                    *)
THEOREM IndicationsAreNotLost == Spec => []NoLostIndication
<1>1. IrqInv => NoLostIndication
  BY DEF IrqInv
<1>2. QED
  BY <1>1, IrqInvCorrect, PTL

(* Nor is the interrupt ever left masked while the DSR sleeps unsignalled. *)
THEOREM InterruptNotLeftMasked == Spec => []NeverMaskedForGood
<1>1. IrqInv => NeverMaskedForGood
  BY DEF IrqInv
<1>2. QED
  BY <1>1, IrqInvCorrect, PTL

-----------------------------------------------------------------------------
(* The ring. *)

OnCommand == ~SelfStop /\ ~Timeouts

Inv == TypeOK /\ IrqInv /\ RingInv

-----------------------------------------------------------------------------
(* Facts about the ring. *)

LEMMA RingFacts ==
    ASSUME NEW i \in Buffers, TypeOK
    PROVE  /\ Distance(i) \in Buffers
           /\ Distance(ulCurrentBuffer) = 0
           /\ NextBuffer(i) \in Buffers
  BY DEF TypeOK, DsrTypeOK, Distance, NextBuffer

(* While the DSR is in its loop the ring is not being set up.              *)
LEMMA LoopMeansActive ==
    ASSUME Inv, dsrPc \notin {"wait", "handler", "enable"}
    PROVE  ~RingIdle
  BY DEF Inv, RingInv, CallPhase, RingIdle, Quiet

(* Filling a buffer extends the window at its end.                         *)
LEMMA FillExtendsWindow ==
    ASSUME Inv, FwFill
    PROVE  RingWindow'
<1> USE DEF TypeOK, SharedTypeOK, DsrTypeOK, irqVars, dsrVars, ringVars, outVars,
            appVars, evVars
<1>1. RingWindow /\ ~RingIdle
  BY DEF Inv, RingInv, FwFill, RingIdle
<1> DEFINE n == filled - freed
<1>2. n \in 0..NumBuffers /\ UsedBuffers = {i \in Buffers : Distance(i) < n}
      /\ fwNext = Wrap(ulCurrentBuffer + n)
  BY <1>1 DEF RingWindow
<1>3. /\ fwNext \in Buffers /\ fwNext \notin UsedBuffers /\ ulCurrentBuffer \in Buffers
      /\ filled \in Nat /\ freed \in Nat
  BY DEF Inv, FwFill
<1>4. n < NumBuffers /\ Distance(fwNext) = n
  BY <1>2, <1>3 DEF Wrap, Distance
<1>5. UNCHANGED <<hostBufferFlags, ulCurrentBuffer, freed, dsrPc, used, appPc,
                  ulCaptureState>>
  BY DEF FwFill
<1>6. UsedBuffers' = UsedBuffers \cup {fwNext}
  BY <1>3, <1>5 DEF FwFill, UsedBuffers, Xor, Toggle
<1>7. n' = n + 1 /\ filled' = filled + 1
  BY <1>3, <1>5 DEF FwFill
<1>8. \A i \in Buffers : Distance(i)' = Distance(i)
  BY <1>5 DEF Distance
<1>9. \A i \in Buffers : Distance(i) = n => i = fwNext
  BY <1>2, <1>3, <1>4 DEF Distance, Wrap
<1>10. UsedBuffers' = {i \in Buffers : Distance(i)' < n'}
  <2>1. \A i \in Buffers : Distance(i) \in Nat
    BY <1>3 DEF Distance
  <2>2. QED
    BY <1>2, <1>3, <1>4, <1>6, <1>7, <1>8, <1>9, <2>1
<1>11. \A i \in UsedBuffers' : buf'[i] = freed' + Distance(i)' + 1
  <2>1. buf' = [buf EXCEPT ![fwNext] = filled + 1] /\ buf \in [Buffers -> Nat]
    BY DEF FwFill, Inv
  <2>2. \A i \in UsedBuffers : buf[i] = freed + Distance(i) + 1
    BY <1>1 DEF RingWindow
  <2>3. UsedBuffers \subseteq Buffers
    BY <1>2
  <2>4. QED
    BY <1>3, <1>4, <1>5, <1>6, <1>8, <2>1, <2>2, <2>3
<1>12. fwNext' = Wrap(ulCurrentBuffer' + n')
  BY <1>2, <1>3, <1>4, <1>5, <1>7 DEF FwFill, Wrap
<1>13. dsrPc' \in {"buffer", "data", "dataCall", "free"} => used' \subseteq UsedBuffers'
  BY <1>1, <1>5, <1>6 DEF RingWindow
<1>14. n' \in 0..NumBuffers
  BY <1>2, <1>4, <1>7
<1>15. QED
  BY <1>10, <1>11, <1>12, <1>13, <1>14 DEF RingWindow

(* Freeing the current buffer takes the first one off the window.          *)
LEMMA FreeMovesWindow ==
    ASSUME Inv, DsrFree
    PROVE  RingWindow'
<1> USE DEF TypeOK, SharedTypeOK, DsrTypeOK, fwVars, dmaVars, irqVars, outVars,
            appVars, evVars
<1>1. RingWindow /\ ~RingIdle
  BY LoopMeansActive DEF Inv, RingInv, DsrFree
<1> DEFINE n == filled - freed
<1>2. n \in 0..NumBuffers /\ UsedBuffers = {i \in Buffers : Distance(i) < n}
      /\ fwNext = Wrap(ulCurrentBuffer + n)
  BY <1>1 DEF RingWindow
<1>3. /\ ulCurrentBuffer \in Buffers /\ filled \in Nat /\ freed \in Nat
      /\ fwNext \in Buffers
      /\ used \subseteq UsedBuffers /\ ulCurrentBuffer \in used
  BY DEF Inv, RingInv, LoopInWindow, LoopPcs, DsrFree
<1>4. n > 0
  BY <1>2, <1>3 DEF Distance
<1>5. UNCHANGED <<netxBufferFlags, buf, fwNext, filled, appPc, ulCaptureState>>
  BY DEF DsrFree
<1>6. UsedBuffers' = UsedBuffers \ {ulCurrentBuffer}
  BY <1>3, <1>5 DEF DsrFree, FreeBuffer, UsedBuffers, Xor, Toggle
<1>7. n' = n - 1 /\ freed' = freed + 1
  BY <1>3, <1>5 DEF DsrFree
<1>8. \A i \in Buffers : Distance(i)' = IF i = ulCurrentBuffer
                                        THEN NumBuffers - 1
                                        ELSE Distance(i) - 1
  BY <1>3 DEF DsrFree, FreeBuffer, NextBuffer, Distance
<1>9. UsedBuffers' = {i \in Buffers : Distance(i)' < n'}
  <2>1. \A i \in Buffers : Distance(i) \in Nat
    BY <1>3 DEF Distance
  <2>2. QED
    BY <1>2, <1>3, <1>6, <1>7, <1>8, <2>1
<1>10. \A i \in UsedBuffers' : buf'[i] = freed' + Distance(i)' + 1
  <2>1. \A i \in UsedBuffers : buf[i] = freed + Distance(i) + 1
    BY <1>1 DEF RingWindow
  <2>2. \A i \in UsedBuffers : Distance(i) \in Nat /\ i \in Buffers
    BY <1>2, <1>3 DEF Distance
  <2>3. QED
    BY <1>3, <1>5, <1>6, <1>7, <1>8, <2>1, <2>2
<1>11. fwNext' = Wrap(ulCurrentBuffer' + n')
  BY <1>2, <1>3, <1>4, <1>5, <1>7 DEF DsrFree, FreeBuffer, NextBuffer, Wrap
<1>12. used' \subseteq UsedBuffers'
  BY <1>3, <1>6 DEF DsrFree, FreeBuffer
<1>13. n' \in 0..NumBuffers
  BY <1>2, <1>4, <1>7
<1>14. QED
  BY <1>9, <1>10, <1>11, <1>12, <1>13 DEF RingWindow

(* A capture starts with an empty window at buffer 0.                      *)
LEMMA StartEmptiesWindow ==
    ASSUME Inv, FwStart
    PROVE  RingWindow'
<1> USE DEF irqVars, dsrVars, ringVars, outVars, appVars, evVars
<1>1. OpenInDpm("STARTSTOP") /\ ulCaptureState = "OFF"
  BY DEF FwStart, FwEqual, OpenInDpm
<1>2. appPc = "startAck" /\ Quiet /\ RingReset
  <2>1. appPc \in {"startAck", "stopAck"}
    BY <1>1 DEF Inv, RingInv, CallPhase, TypeOK, AppTypeOK, AppPcs
  <2>2. appPc # "stopAck"
    BY <1>1 DEF Inv, RingInv, CallPhase, FwStart
  <2>3. QED
    BY <1>1, <2>1, <2>2 DEF Inv, RingInv, CallPhase
<1>3. /\ filled' = filled /\ freed' = freed /\ hostBufferFlags' = {}
      /\ ulCurrentBuffer' = 0 /\ netxBufferFlags' = {} /\ fwNext' = 0
      /\ dsrPc' = dsrPc
  BY <1>2 DEF FwStart, RingReset
<1>4. filled' - freed' = 0
  BY <1>2, <1>3 DEF Quiet, Inv, TypeOK, SharedTypeOK, DsrTypeOK
<1>5. UsedBuffers' = {}
  BY <1>3 DEF UsedBuffers, Xor
<1>6. \A i \in Buffers : Distance(i)' \in Nat
  BY <1>3 DEF Distance
<1>7. UsedBuffers' = {i \in Buffers : Distance(i)' < filled' - freed'}
  BY <1>4, <1>5, <1>6
<1>8. fwNext' = Wrap(ulCurrentBuffer' + (filled' - freed'))
  BY <1>3, <1>4 DEF Wrap
<1>9. dsrPc' \notin {"buffer", "data", "dataCall", "free"}
  BY <1>2, <1>3 DEF Quiet
<1>10. QED
  BY <1>4, <1>5, <1>7, <1>8, <1>9 DEF RingWindow

windowVars == <<filled, freed, hostBufferFlags, netxBufferFlags,
                ulCurrentBuffer, buf, fwNext>>

(* A step that does not touch the ring keeps the window, whatever program  *)
(* point the DSR moves to.                                                 *)
LEMMA WindowFrame ==
    ASSUME Inv, UNCHANGED windowVars,
           ~RingIdle \/ RingIdle',
           dsrPc' \in LoopPcs => used' \subseteq UsedBuffers
    PROVE  RingWindow'
<1>1. CASE RingIdle'
  BY <1>1 DEF RingWindow
<1>2. CASE ~RingIdle
  <2>1. UsedBuffers' = UsedBuffers /\ \A i \in Buffers : Distance(i)' = Distance(i)
    BY DEF windowVars, UsedBuffers, Distance
  <2>2. filled' - freed' = filled - freed
    BY DEF windowVars
  <2>3. \A i \in UsedBuffers : i \in Buffers
    BY <1>2 DEF Inv, RingInv, RingWindow
  <2>4. QED
    BY <1>2, <2>1, <2>2, <2>3 DEF Inv, RingInv, RingWindow, windowVars, LoopPcs
<1>3. QED
  BY <1>1, <1>2

(* The caller leaves the setup of the ring only when the capture runs.     *)
LEMMA CallerWindow ==
    ASSUME Inv, OnCommand, AppStart \/ AppStop \/ AppContinue
    PROVE  RingWindow'
<1> USE DEF othersOfApp, dmaVars, fwVars, dsrVars, outVars
<1>1. UNCHANGED <<ulCaptureState, dsrPc, used, filled, freed, netxBufferFlags, buf,
                  fwNext>>
  BY DEF AppContinue, AppWait, AppStart, AppStop, AppStartSetup, AppWaitCheck,
         AppWaitEvent, AppWaitTimeout, AppStartToggle, AppStopToggle,
         AppStopComplete, AppStopClear
<1>2. CASE AppStartSetup
  <2>1. appPc' = "startWait" /\ ulCaptureState' = "OFF"
    BY <1>1, <1>2 DEF Inv, RingInv, CallPhase, Quiet, AppStartSetup
  <2>2. QED
    BY <2>1 DEF RingWindow, RingIdle
<1>3. CASE ~AppStartSetup
  <2>1. UNCHANGED windowVars
    BY <1>1, <1>3 DEF AppContinue, AppWait, AppStart, AppStop, AppWaitCheck,
         AppWaitEvent, AppWaitTimeout, AppStartToggle, AppStopToggle,
         AppStopComplete, AppStopClear, windowVars
  <2>2. dsrPc' \in LoopPcs => used' \subseteq UsedBuffers
    BY <1>1 DEF Inv, RingInv, LoopInWindow
  <2>3. ~RingIdle \/ RingIdle'
    <3>1. SUFFICES ASSUME RingIdle PROVE RingIdle'
      OBVIOUS
    <3>2. CASE appPc = "startToggle"
      BY <1>1, <1>3, <3>1, <3>2 DEF AppContinue, AppWait, AppStart, AppStop,
         AppWaitCheck, AppWaitEvent, AppWaitTimeout, AppStartToggle, AfterWait,
         AppStopToggle, AppStopComplete, AppStopClear, RingIdle
    <3>3. CASE appPc \in {"startWait", "startAck"}
      <4>1. AppWaitCheck \/ AppWaitEvent
        BY <1>3, <3>3 DEF AppContinue, AppWait, AppStart, AppStop, AppStartToggle,
           AppStopToggle, AppStopComplete, AppStopClear, AppWaitTimeout, OnCommand
      <4>2. CASE appPc = "startWait"
        BY <1>1, <3>1, <4>1, <4>2 DEF AppWaitCheck, AppWaitEvent, AppWaitDone,
           AfterWait, RingIdle
      <4>3. CASE appPc = "startAck"
        <5>1. OpenInDsr("STARTSTOP")
          BY <3>1, <4>3 DEF Inv, RingInv, CallPhase, CommandChain, RingIdle
        <5>2. ~BitEqual("STARTSTOP")
          BY <5>1 DEF OpenInDsr, BitEqual
        <5>3. QED
          BY <1>1, <3>1, <4>1, <4>3, <5>2 DEF AppWaitCheck, AppWaitEvent, RingIdle
      <4>4. QED
        BY <3>3, <4>2, <4>3
    <3>4. QED
      BY <3>1, <3>2, <3>3 DEF RingIdle
  <2>4. QED
    BY <2>1, <2>2, <2>3, WindowFrame
<1>4. QED
  BY <1>2, <1>3

LEMMA RingWindowStep ==
    ASSUME Inv, OnCommand, [Next]_vars
    PROVE  RingWindow'
<1> USE DEF fwVars, dmaVars, irqVars, dsrVars, ringVars, outVars, appVars,
            evVars
<1>1. CASE FwFill
  BY <1>1, FillExtendsWindow
<1>2. CASE FwStart
  BY <1>2, StartEmptiesWindow
<1>3. CASE DsrFree
  BY <1>3, FreeMovesWindow
<1>4. CASE AppStart \/ AppStop \/ AppContinue
  BY <1>4, CallerWindow
<1>5. CASE FwIndicateData \/ FwIndicateStatus \/ FwStopCommand \/ FwStopAck
           \/ FwOff \/ FwDriverError \/ Isr
  <2>1. UNCHANGED <<windowVars, dsrPc, used, appPc>>
    BY <1>5 DEF FwIndicateData, FwIndicateStatus, FwStopCommand, FwStopAck,
                FwOff, FwDriverError, Isr, windowVars
  <2>2. ~RingIdle \/ RingIdle'
    BY <1>5, <2>1 DEF FwIndicateData, FwIndicateStatus, FwStopCommand,
                FwStopAck, FwOff, FwDriverError, Isr, RingIdle
  <2>3. QED
    BY <2>1, <2>2, WindowFrame DEF Inv, RingInv, LoopInWindow
<1>6. CASE DsrReadFlags
  <2>1. UNCHANGED windowVars /\ used' = UsedBuffers
    BY <1>6 DEF DsrReadFlags, ReadFlags, windowVars
  <2>2. RingIdle' = RingIdle
    BY <1>6 DEF DsrReadFlags, RingIdle
  <2>3. QED
    BY <2>1, <2>2, WindowFrame
<1>7. CASE DsrWake \/ DsrHandler \/ DsrProcess \/ DsrBuffer \/ DsrCheckData
           \/ DsrDataCall \/ DsrError \/ DsrErrorEvent \/ DsrErrorTimeout
           \/ DsrStatus \/ DsrStatusCall \/ DsrStatusAck \/ DsrStopEvent
           \/ DsrEnable
  <2>1. UNCHANGED <<windowVars, appPc, ulCaptureState>>
    BY <1>7 DEF DsrWake, DsrHandler, DsrProcess, DsrBuffer, DsrCheckData,
                DsrDataCall, DsrError, DsrErrorEvent, DsrErrorTimeout,
                DsrStatus, DsrStatusCall, DsrStatusAck, DsrStopEvent,
                DsrEnable, windowVars
  <2>2. dsrPc' \in LoopPcs => dsrPc \in LoopPcs /\ used' = used
    BY <1>7 DEF DsrWake, DsrHandler, DsrProcess, DsrBuffer, DsrCheckData,
                DsrDataCall, DsrError, DsrErrorEvent, DsrErrorTimeout,
                DsrStatus, DsrStatusCall, DsrStatusAck, DsrStopEvent,
                DsrEnable, LoopPcs
  <2>3. QED
    BY <2>1, <2>2, WindowFrame DEF Inv, RingInv, LoopInWindow, RingIdle
<1>8. CASE UNCHANGED vars
  BY <1>8, WindowFrame
     DEF vars, windowVars, RingIdle, Inv, RingInv, LoopInWindow
<1>9. QED
  BY <1>1, <1>2, <1>3, <1>4, <1>5, <1>6, <1>7, <1>8 DEF Next, Firmware, Dsr

-----------------------------------------------------------------------------
(* The handshake. *)

(* Toggling a bit on either side flips whether the two sides differ in it, *)
(* and says nothing of other bits.                                         *)
LEMMA ToggleFlips ==
    ASSUME NEW S, NEW T, NEW b, NEW e
    PROVE  /\ e \in Xor(Toggle(S, b), T) <=> (e = b <=> e \notin Xor(S, T))
           /\ e \in Xor(S, Toggle(T, b)) <=> (e = b <=> e \notin Xor(S, T))
  BY DEF Xor, Toggle

copyVars == <<irqVars, ulNetxFlags>>

LEMMA CopiesFrame ==
    ASSUME UNCHANGED copyVars
    PROVE  NewestCopy' = NewestCopy
  BY DEF copyVars, irqVars, NewestCopy

(* A toggle of the firmware: the copies do not change.                     *)
LEMMA FwToggleFlips ==
    ASSUME NEW b, NEW e, FwToggle(b),
           UNCHANGED <<ulHostFlags, irqEnabled, fValid, snap, iIrq2DsrBuffer,
                       dsr_sig, ulNetxFlags>>
    PROVE  /\ OpenInDpm(e)' <=> (e = b <=> ~OpenInDpm(e))
           /\ OpenInCopy(e)' <=> OpenInCopy(e)
           /\ OpenInDsr(e)' <=> OpenInDsr(e)
  BY ToggleFlips DEF FwToggle, OpenInDpm, OpenInCopy, OpenInDsr, NewestCopy

(* A toggle of the host: all views of the bit flip.                        *)
LEMMA HostToggleFlips ==
    ASSUME NEW b, NEW e, ulHostFlags' = Toggle(ulHostFlags, b),
           UNCHANGED <<usNetxFlags, copyVars>>
    PROVE  /\ OpenInDpm(e)' <=> (e = b <=> ~OpenInDpm(e))
           /\ OpenInCopy(e)' <=> (e = b <=> ~OpenInCopy(e))
           /\ OpenInDsr(e)' <=> (e = b <=> ~OpenInDsr(e))
<1>1. NewestCopy' = NewestCopy /\ ulNetxFlags' = ulNetxFlags
  BY CopiesFrame DEF copyVars
<1>2. QED
  BY <1>1, ToggleFlips DEF OpenInDpm, OpenInCopy, OpenInDsr

LEMMA ViewsFrame ==
    ASSUME NEW e, UNCHANGED <<ulHostFlags, usNetxFlags, copyVars>>
    PROVE  /\ OpenInDpm(e)' <=> OpenInDpm(e)
           /\ OpenInCopy(e)' <=> OpenInCopy(e)
           /\ OpenInDsr(e)' <=> OpenInDsr(e)
<1>1. NewestCopy' = NewestCopy /\ ulNetxFlags' = ulNetxFlags
  BY CopiesFrame DEF copyVars
<1>2. QED
  BY <1>1 DEF OpenInDpm, OpenInCopy, OpenInDsr

(* netana_isr brings the newest copy up to date.                           *)
LEMMA IsrUpdatesCopy ==
    ASSUME NEW e, Inv, Isr
    PROVE  /\ OpenInDpm(e)' <=> OpenInDpm(e)
           /\ OpenInCopy(e)' <=> OpenInDpm(e)
           /\ OpenInDsr(e)' <=> OpenInDsr(e)
<1>1. NewestCopy' = usNetxFlags
  BY DEF Isr, Snapshot, NewestCopy, Inv, TypeOK, SharedTypeOK
<1>2. UNCHANGED <<usNetxFlags, ulHostFlags, ulNetxFlags>>
  BY DEF Isr, dsrVars
<1>3. QED
  BY <1>1, <1>2 DEF OpenInDpm, OpenInCopy, OpenInDsr

(* netana_tkit_dsr_handler takes the newest copy over.                     *)
LEMMA HandlerUpdatesDsr ==
    ASSUME NEW e, Inv, DsrHandler
    PROVE  /\ OpenInDpm(e)' <=> OpenInDpm(e)
           /\ OpenInCopy(e)' <=> OpenInCopy(e)
           /\ OpenInDsr(e)' <=> OpenInCopy(e)
<1>1. NewestCopy' = NewestCopy /\ ulNetxFlags' = NewestCopy
  BY DEF DsrHandler, NewestCopy, Inv, TypeOK, SharedTypeOK, IrqInv,
         NoLostIndication
<1>2. UNCHANGED <<usNetxFlags, ulHostFlags>>
  BY DEF DsrHandler
<1>3. QED
  BY <1>1, <1>2 DEF OpenInDpm, OpenInCopy, OpenInDsr

Chains == IndicationChain /\ CommandChain

LEMMA ChainsFrame ==
    ASSUME Inv, UNCHANGED <<ulHostFlags, usNetxFlags, copyVars>>
    PROVE  Chains'
  BY ViewsFrame DEF Inv, RingInv, Chains, IndicationChain, CommandChain

(* The firmware toggles a bit that is equal, or answers a command.         *)
LEMMA ChainsFirmware ==
    ASSUME Inv, Firmware
    PROVE  Chains'
<1> USE DEF irqVars, dsrVars, ringVars, outVars, appVars, evVars
<1>1. CASE FwIndicateData /\ FwEqual("NEWDATA")
  <2>1. FwToggle("NEWDATA") /\ ~OpenInDpm("NEWDATA")
    BY <1>1 DEF FwIndicateData, FwEqual, OpenInDpm
  <2>2. QED
    BY <1>1, <2>1, FwToggleFlips
       DEF FwIndicateData, Inv, RingInv, Chains, IndicationChain, CommandChain
<1>2. CASE FwIndicateStatus
  <2>1. FwToggle("NEWSTATUS") /\ ~OpenInDpm("NEWSTATUS")
    BY <1>2 DEF FwIndicateStatus, FwEqual, OpenInDpm
  <2>2. QED
    BY <1>2, <2>1, FwToggleFlips
       DEF FwIndicateStatus, Inv, RingInv, Chains, IndicationChain, CommandChain
<1>3. CASE FwStart \/ FwStopAck
  <2>1. FwToggle("STARTSTOP") /\ OpenInDpm("STARTSTOP")
    BY <1>3 DEF FwStart, FwStopAck, FwEqual, OpenInDpm, Inv, RingInv, CallPhase,
                TypeOK, AppTypeOK, AppPcs
  <2>2. QED
    BY <1>3, <2>1, FwToggleFlips DEF FwStart, FwStopAck, Inv, RingInv, Chains,
       IndicationChain, CommandChain
<1>4. CASE FwDriverError
  BY <1>4, FwToggleFlips
     DEF FwDriverError, Inv, RingInv, Chains, IndicationChain, CommandChain
<1>5. CASE FwFill \/ FwStopCommand \/ FwOff
           \/ (FwIndicateData /\ ~FwEqual("NEWDATA"))
  BY <1>5, ChainsFrame
     DEF FwFill, FwStopCommand, FwOff, FwIndicateData, copyVars
<1>6. QED
  BY <1>1, <1>2, <1>3, <1>4, <1>5 DEF Firmware

LEMMA ChainsDsr ==
    ASSUME Inv, Dsr
    PROVE  Chains'
<1> USE DEF fwVars, dmaVars, ringVars, outVars, appVars, evVars
<1>1. CASE DsrHandler
  BY <1>1, HandlerUpdatesDsr
     DEF Inv, RingInv, Chains, IndicationChain, CommandChain
<1>2. CASE DsrProcess /\ OpenInDsr("NEWDATA")
  <2>1. ulHostFlags' = Toggle(ulHostFlags, "NEWDATA")
    BY <1>2 DEF DsrProcess, OpenInDsr, Xor
  <2>2. UNCHANGED <<usNetxFlags, copyVars>>
    BY <1>2 DEF DsrProcess, copyVars
  <2>3. QED
    BY <1>2, <2>1, <2>2, HostToggleFlips
       DEF Inv, RingInv, Chains, IndicationChain, CommandChain
<1>3. CASE DsrStatusAck
  <2>1. ulHostFlags' = Toggle(ulHostFlags, "NEWSTATUS") /\ OpenInDsr("NEWSTATUS")
    BY <1>3 DEF DsrStatusAck, Inv, RingInv, AckPoints
  <2>2. UNCHANGED <<usNetxFlags, copyVars>>
    BY <1>3 DEF DsrStatusAck, copyVars
  <2>3. QED
    BY <2>1, <2>2, HostToggleFlips
       DEF Inv, RingInv, Chains, IndicationChain, CommandChain
<1>4. CASE (DsrError \/ DsrErrorEvent) /\ ulHostFlags' # ulHostFlags
  <2>1. ulHostFlags' = Toggle(ulHostFlags, "DRV_ERROR")
    BY <1>4 DEF DsrError, DsrErrorEvent
  <2>2. UNCHANGED <<usNetxFlags, copyVars>>
    BY <1>4 DEF DsrError, DsrErrorEvent, copyVars
  <2>3. QED
    BY <2>1, <2>2, HostToggleFlips
       DEF Inv, RingInv, Chains, IndicationChain, CommandChain
<1>5. CASE
      \/ DsrReadFlags \/ DsrBuffer \/ DsrCheckData \/ DsrDataCall
      \/ DsrErrorTimeout \/ DsrFree \/ DsrStatus \/ DsrStatusCall \/ DsrStopEvent
      \/ (DsrProcess /\ ~OpenInDsr("NEWDATA"))
      \/ ((DsrError \/ DsrErrorEvent) /\ ulHostFlags' = ulHostFlags)
  <2>1. UNCHANGED <<ulHostFlags, usNetxFlags, copyVars>>
    BY <1>5 DEF DsrReadFlags, DsrBuffer, DsrCheckData, DsrDataCall,
       DsrErrorTimeout, DsrFree, DsrStatus, DsrStatusCall, DsrStopEvent,
       DsrProcess, DsrError, DsrErrorEvent, copyVars, OpenInDsr, Xor
  <2>2. QED
    BY <2>1, ChainsFrame
<1>6. CASE DsrWake \/ DsrEnable
  <2>1. UNCHANGED <<ulHostFlags, usNetxFlags, ulNetxFlags>> /\ NewestCopy' = NewestCopy
    BY <1>6 DEF DsrWake, DsrEnable, NewestCopy
  <2>2. QED
    BY <2>1 DEF Inv, RingInv, Chains, IndicationChain, CommandChain, OpenInDpm,
                OpenInCopy, OpenInDsr
<1>7. QED
  BY <1>1, <1>2, <1>3, <1>4, <1>5, <1>6 DEF Dsr

(* The caller toggles STARTSTOP only when the DSR's copy is equal.         *)
LEMMA ChainsCaller ==
    ASSUME Inv, AppStart \/ AppStop \/ AppContinue
    PROVE  Chains'
<1> USE DEF othersOfApp, dsrVars
<1>1. UNCHANGED <<usNetxFlags, copyVars>>
  BY DEF AppContinue, AppWait, AppStart, AppStop, AppStartSetup, AppWaitCheck,
         AppWaitEvent, AppWaitTimeout, AppStartToggle, AppStopToggle,
         AppStopComplete, AppStopClear, copyVars
<1>2. CASE AppStartToggle \/ AppStopToggle
  <2>1. ulHostFlags' = Toggle(ulHostFlags, "STARTSTOP") /\ ~OpenInDsr("STARTSTOP")
    BY <1>2 DEF AppStartToggle, AppStopToggle, Inv, RingInv, CallPhase
  <2>2. QED
    BY <1>1, <2>1, HostToggleFlips
       DEF Inv, RingInv, Chains, IndicationChain, CommandChain
<1>3. CASE ~(AppStartToggle \/ AppStopToggle)
  <2>1. UNCHANGED ulHostFlags
    BY <1>3 DEF AppContinue, AppWait, AppStart, AppStop, AppStartSetup,
         AppWaitCheck, AppWaitEvent, AppWaitTimeout, AppStopComplete, AppStopClear
  <2>2. QED
    BY <1>1, <2>1, ChainsFrame
<1>4. QED
  BY <1>2, <1>3

LEMMA ChainsStep ==
    ASSUME Inv, [Next]_vars
    PROVE  Chains'
<1>1. CASE Isr
  BY <1>1, IsrUpdatesCopy
     DEF Inv, RingInv, Chains, IndicationChain, CommandChain
<1>2. CASE UNCHANGED vars
  BY <1>2, ChainsFrame DEF vars, copyVars, dsrVars
<1>3. QED
  BY <1>1, <1>2, ChainsFirmware, ChainsDsr, ChainsCaller DEF Next

-----------------------------------------------------------------------------
(* The DSR. *)

(* What the other processes leave alone of what the DSR decides by.        *)
LEMMA OthersKeepDsr ==
    ASSUME Inv, Firmware \/ Isr \/ AppStart \/ AppStop \/ AppContinue
    PROVE  /\ UNCHANGED dsrVars
           /\ OpenInDsr("NEWDATA")' <=> OpenInDsr("NEWDATA")
           /\ OpenInDsr("NEWSTATUS")' <=> OpenInDsr("NEWSTATUS")
<1> USE DEF dsrVars, othersOfApp
<1>1. UNCHANGED dsrVars
  BY DEF Firmware, FwFill, FwIndicateData, FwIndicateStatus, FwStart,
         FwStopCommand, FwStopAck, FwOff, FwDriverError, Isr, AppContinue,
         AppWait, AppStart, AppStop, AppStartSetup, AppWaitCheck, AppWaitEvent,
         AppWaitTimeout, AppStartToggle, AppStopToggle, AppStopComplete,
         AppStopClear
<1>2. ulHostFlags' = ulHostFlags \/ ulHostFlags' = Toggle(ulHostFlags, "STARTSTOP")
  BY DEF Firmware, FwFill, FwIndicateData, FwIndicateStatus, FwStart,
         FwStopCommand, FwStopAck, FwOff, FwDriverError, Isr, AppContinue,
         AppWait, AppStart, AppStop, AppStartSetup, AppWaitCheck, AppWaitEvent,
         AppWaitTimeout, AppStartToggle, AppStopToggle, AppStopComplete,
         AppStopClear
<1>3. QED
  BY <1>1, <1>2, ToggleFlips DEF OpenInDsr

LEMMA AckPointsOthers ==
    ASSUME Inv, Firmware \/ Isr \/ AppStart \/ AppStop \/ AppContinue
    PROVE  AckPoints'
<1>1. dsrPc \in {"statusCall", "statusAck"} => ulCaptureState' = ulCaptureState
  <2>1. SUFFICES ASSUME dsrPc \in {"statusCall", "statusAck"}
                 PROVE  ulCaptureState' = ulCaptureState
    OBVIOUS
  <2>2. ~FwOff
    BY <2>1 DEF FwOff, FwEqual, OpenInDpm, Inv, RingInv, AckPoints,
                IndicationChain
  <2>3. ~FwStart
    <3>1. SUFFICES ASSUME FwStart PROVE FALSE
      OBVIOUS
    <3>2. OpenInDpm("STARTSTOP") /\ ulCaptureState = "OFF" /\ fwStop = {}
      BY <3>1 DEF FwStart, FwEqual, OpenInDpm
    <3>3. Quiet
      BY <3>2 DEF Inv, RingInv, CallPhase, TypeOK, AppTypeOK, AppPcs
    <3>4. QED
      BY <2>1, <3>3 DEF Quiet
  <2>4. QED
    BY <2>2, <2>3 DEF Firmware, FwFill, FwIndicateData, FwIndicateStatus,
         FwStopCommand, FwStopAck, FwDriverError, Isr, AppContinue,
         AppWait, AppStart, AppStop, AppStartSetup, AppWaitCheck, AppWaitEvent,
         AppWaitTimeout, AppStartToggle, AppStopToggle, AppStopComplete,
         AppStopClear, othersOfApp
<1>2. QED
  BY <1>1, OthersKeepDsr DEF Inv, RingInv, AckPoints, dsrVars

LEMMA AckPointsDsr ==
    ASSUME Inv, Dsr
    PROVE  AckPoints'
<1> USE DEF LoopPcs, AckPoints
<1>1. CASE DsrWake \/ DsrEnable
  <2>1. UNCHANGED <<ulHostFlags, ulNetxFlags>>
    BY <1>1 DEF DsrWake, DsrEnable
  <2>2. QED
    BY <1>1, <2>1 DEF DsrWake, DsrEnable, OpenInDsr, Inv, RingInv
<1>2. CASE DsrHandler
  <2>1. dsrPc = "handler" /\ ~OpenInDsr("NEWDATA") /\ ~OpenInDsr("NEWSTATUS")
    BY <1>2 DEF DsrHandler, Inv, RingInv
  <2> DEFINE changed == Xor(ulNetxFlags, snap[iIrq2DsrBuffer])
  <2>2. NewestCopy = snap[iIrq2DsrBuffer]
    BY <1>2 DEF DsrHandler, NewestCopy
  <2>3. /\ "NEWDATA" \in changed <=> OpenInCopy("NEWDATA")
        /\ "NEWSTATUS" \in changed <=> OpenInCopy("NEWSTATUS")
    BY <2>1, <2>2 DEF OpenInDsr, OpenInCopy, Xor
  <2>4. dsrPc' = IF changed \cap {"NEWDATA", "NEWSTATUS"} # {}
                 THEN "process" ELSE "enable"
    BY <1>2 DEF DsrHandler
  <2>5. /\ OpenInDsr("NEWDATA")' <=> OpenInCopy("NEWDATA")
        /\ OpenInDsr("NEWSTATUS")' <=> OpenInCopy("NEWSTATUS")
    BY <1>2, HandlerUpdatesDsr
  <2>6. QED
    BY <2>3, <2>4, <2>5
<1>3. CASE DsrProcess
  <2>1. UNCHANGED ulNetxFlags /\ unequal' = Xor(ulNetxFlags, ulHostFlags)
    BY <1>3 DEF DsrProcess
  <2>2. CASE OpenInDsr("NEWDATA")
    <3>1. ulHostFlags' = Toggle(ulHostFlags, "NEWDATA") /\ dsrPc' = "flags"
      BY <1>3, <2>2 DEF DsrProcess, OpenInDsr, Xor
    <3>2. /\ ~OpenInDsr("NEWDATA")'
          /\ OpenInDsr("NEWSTATUS")' <=> OpenInDsr("NEWSTATUS")
      BY <2>1, <2>2, <3>1, ToggleFlips DEF OpenInDsr
    <3>3. "NEWSTATUS" \in unequal' <=> OpenInDsr("NEWSTATUS")
      BY <2>1 DEF OpenInDsr, Xor
    <3>4. QED
      BY <3>1, <3>2, <3>3
  <2>3. CASE ~OpenInDsr("NEWDATA")
    <3>1. ulHostFlags' = ulHostFlags /\ dsrPc' = "status"
      BY <1>3, <2>3 DEF DsrProcess, OpenInDsr, Xor
    <3>2. /\ ~OpenInDsr("NEWDATA")'
          /\ OpenInDsr("NEWSTATUS")' <=> OpenInDsr("NEWSTATUS")
      BY <2>1, <2>3, <3>1 DEF OpenInDsr
    <3>3. "NEWSTATUS" \in unequal' <=> OpenInDsr("NEWSTATUS")
      BY <2>1 DEF OpenInDsr, Xor
    <3>4. QED
      BY <3>1, <3>2, <3>3
  <2>4. QED
    BY <2>2, <2>3
<1>4. CASE DsrStatusAck
  <2>1. /\ ulHostFlags' = Toggle(ulHostFlags, "NEWSTATUS")
        /\ UNCHANGED ulNetxFlags /\ dsrPc' = "stopEvent"
        /\ ~OpenInDsr("NEWDATA") /\ OpenInDsr("NEWSTATUS")
    BY <1>4 DEF DsrStatusAck, Inv, RingInv
  <2>2. ~OpenInDsr("NEWDATA")' /\ ~OpenInDsr("NEWSTATUS")'
    BY <2>1, ToggleFlips DEF OpenInDsr
  <2>3. QED
    BY <2>1, <2>2
<1>5. CASE DsrReadFlags \/ DsrBuffer \/ DsrCheckData \/ DsrDataCall \/ DsrError
           \/ DsrErrorEvent \/ DsrErrorTimeout \/ DsrFree \/ DsrStatus
           \/ DsrStatusCall \/ DsrStopEvent
  <2>1. UNCHANGED ulNetxFlags
        /\ (ulHostFlags' = ulHostFlags \/ ulHostFlags' = Toggle(ulHostFlags, "DRV_ERROR"))
    BY <1>5 DEF DsrReadFlags, DsrBuffer, DsrCheckData, DsrDataCall, DsrError,
       DsrErrorEvent, DsrErrorTimeout, DsrFree, DsrStatus, DsrStatusCall,
       DsrStopEvent
  <2>2. /\ OpenInDsr("NEWDATA")' <=> OpenInDsr("NEWDATA")
        /\ OpenInDsr("NEWSTATUS")' <=> OpenInDsr("NEWSTATUS")
    BY <2>1, ToggleFlips DEF OpenInDsr
  <2>3. QED
    BY <1>5, <2>2 DEF DsrReadFlags, DsrBuffer, DsrCheckData, DsrDataCall,
       DsrError, DsrErrorEvent, DsrErrorTimeout, DsrFree, DsrStatus,
       DsrStatusCall, DsrStopEvent, Inv, RingInv
<1>6. QED
  BY <1>1, <1>2, <1>3, <1>4, <1>5 DEF Dsr

LEMMA AckPointsStep ==
    ASSUME Inv, [Next]_vars
    PROVE  AckPoints'
<1>1. CASE UNCHANGED vars
  BY <1>1 DEF vars, dsrVars, Inv, RingInv, AckPoints, OpenInDsr
<1>2. QED
  BY <1>1, AckPointsOthers, AckPointsDsr DEF Next

(* A step of another process never takes a buffer out of the driver's      *)
(* hands while the DSR works.                                              *)
LEMMA OthersKeepUsed ==
    ASSUME Inv, Firmware \/ Isr \/ AppStart \/ AppStop \/ AppContinue,
           dsrPc \in LoopPcs
    PROVE  /\ UNCHANGED <<used, ulCurrentBuffer>>
           /\ UsedBuffers \subseteq UsedBuffers'
<1> USE DEF dsrVars, ringVars, dmaVars, othersOfApp
<1>1. ~Quiet
  BY DEF Quiet, LoopPcs
<1>2. ~FwStart
  <2>1. SUFFICES ASSUME FwStart PROVE FALSE
    OBVIOUS
  <2>2. OpenInDpm("STARTSTOP") /\ ulCaptureState = "OFF" /\ fwStop = {}
    BY <2>1 DEF FwStart, FwEqual, OpenInDpm
  <2>3. QED
    BY <1>1, <2>2 DEF Inv, RingInv, CallPhase, TypeOK, AppTypeOK, AppPcs
<1>3. ~AppStartSetup
  BY <1>1 DEF AppStartSetup, Inv, RingInv, CallPhase
<1>4. UNCHANGED <<used, ulCurrentBuffer, hostBufferFlags>>
  BY <1>2, <1>3 DEF Firmware, FwFill, FwIndicateData, FwIndicateStatus,
         FwStopCommand, FwStopAck, FwOff, FwDriverError, Isr, AppContinue,
         AppWait, AppStart, AppStop, AppWaitCheck, AppWaitEvent,
         AppWaitTimeout, AppStartToggle, AppStopToggle, AppStopComplete,
         AppStopClear
<1>5. CASE FwFill
  BY <1>4, <1>5 DEF FwFill, UsedBuffers, Xor, Toggle
<1>6. CASE ~FwFill
  <2>1. UNCHANGED netxBufferFlags
    BY <1>2, <1>3, <1>6 DEF Firmware, FwIndicateData, FwIndicateStatus,
         FwStopCommand, FwStopAck, FwOff, FwDriverError, Isr, AppContinue,
         AppWait, AppStart, AppStop, AppWaitCheck, AppWaitEvent,
         AppWaitTimeout, AppStartToggle, AppStopToggle, AppStopComplete,
         AppStopClear
  <2>2. QED
    BY <1>4, <2>1 DEF UsedBuffers
<1>7. QED
  BY <1>4, <1>5, <1>6

LEMMA LoopInWindowStep ==
    ASSUME Inv, [Next]_vars
    PROVE  LoopInWindow'
<1> USE DEF LoopInWindow, LoopPcs
<1>1. CASE Firmware \/ Isr \/ AppStart \/ AppStop \/ AppContinue
  <2>1. UNCHANGED dsrVars
    BY <1>1, OthersKeepDsr
  <2>2. QED
    BY <1>1, <2>1, OthersKeepUsed DEF Inv, RingInv, dsrVars
<1>2. CASE DsrFree
  <2>1. /\ used \subseteq UsedBuffers /\ used' = used \ {ulCurrentBuffer}
        /\ dsrPc' = "buffer"
    BY <1>2 DEF DsrFree, FreeBuffer, Inv, RingInv
  <2>2. UsedBuffers \ {ulCurrentBuffer} \subseteq UsedBuffers'
    BY <1>2 DEF DsrFree, FreeBuffer, UsedBuffers, Xor, Toggle, dmaVars
  <2>3. QED
    BY <2>1, <2>2
<1>3. CASE DsrReadFlags
  <2>1. used' = UsedBuffers /\ dsrPc' = "buffer" /\ UNCHANGED <<ringVars, dmaVars>>
    BY <1>3 DEF DsrReadFlags, ReadFlags
  <2>2. UsedBuffers' = UsedBuffers
    BY <2>1 DEF UsedBuffers, ringVars, dmaVars
  <2>3. QED
    BY <2>1, <2>2
<1>4. CASE
      DsrWake \/ DsrHandler \/ DsrProcess \/ DsrBuffer \/ DsrCheckData
      \/ DsrDataCall \/ DsrError \/ DsrErrorEvent \/ DsrErrorTimeout \/ DsrStatus
      \/ DsrStatusCall \/ DsrStatusAck \/ DsrStopEvent \/ DsrEnable
  <2>1. UNCHANGED <<ringVars, dmaVars>>
    BY <1>4 DEF DsrWake, DsrHandler, DsrProcess, DsrBuffer, DsrCheckData,
       DsrDataCall, DsrError, DsrErrorEvent, DsrErrorTimeout, DsrStatus,
       DsrStatusCall, DsrStatusAck, DsrStopEvent, DsrEnable
  <2>2. UsedBuffers' = UsedBuffers /\ ulCurrentBuffer' = ulCurrentBuffer
    BY <2>1 DEF UsedBuffers, ringVars, dmaVars
  <2>3. QED
    BY <1>4, <2>2 DEF DsrWake, DsrHandler, DsrProcess, DsrBuffer, DsrCheckData,
       DsrDataCall, DsrError, DsrErrorEvent, DsrErrorTimeout, DsrStatus,
       DsrStatusCall, DsrStatusAck, DsrStopEvent, DsrEnable, Inv, RingInv
<1>5. CASE UNCHANGED vars
  BY <1>5 DEF vars, dsrVars, ringVars, dmaVars, UsedBuffers, Inv, RingInv
<1>6. QED
  BY <1>1, <1>2, <1>3, <1>4, <1>5 DEF Next, Dsr

(* When the loop ends with every flag it read worked off, and no other     *)
(* buffer is in the driver's hands, none is.                               *)
LEMMA LoopEndsEmpty ==
    ASSUME Inv, dsrPc = "buffer", ulCurrentBuffer \notin used,
           UsedBuffers \subseteq used
    PROVE  filled = freed
<1>1. ~RingIdle
  BY LoopMeansActive
<1>2. /\ filled - freed \in 0..NumBuffers
      /\ UsedBuffers = {i \in Buffers : Distance(i) < filled - freed}
  BY <1>1 DEF Inv, RingInv, RingWindow
<1>3. ulCurrentBuffer \in Buffers /\ Distance(ulCurrentBuffer) = 0
      /\ filled \in Nat /\ freed \in Nat
  BY DEF Inv, TypeOK, DsrTypeOK, SharedTypeOK, Distance
<1>4. QED
  BY <1>2, <1>3

LEMMA CoveredOthers ==
    ASSUME Inv, Firmware \/ Isr \/ AppStart \/ AppStop \/ AppContinue
    PROVE  Covered'
<1>1. CASE FwFill
  BY <1>1 DEF FwFill, Covered
<1>2. CASE FwIndicateData
  <2>1. OpenInDpm("NEWDATA")'
    <3>1. CASE FwEqual("NEWDATA")
      BY <1>2, <3>1, FwToggleFlips
         DEF FwIndicateData, FwEqual, OpenInDpm, dsrVars
    <3>2. CASE ~FwEqual("NEWDATA")
      BY <1>2, <3>2 DEF FwIndicateData, FwEqual, OpenInDpm
    <3>3. QED
      BY <3>1, <3>2
  <2>2. QED
    BY <2>1 DEF Covered
<1>3. CASE ~FwFill /\ ~FwIndicateData
  <2>1. UNCHANGED <<filled, freed, fwInd, dsrPc, used>>
    BY <1>3 DEF Firmware, FwIndicateStatus, FwStart, FwStopCommand, FwStopAck,
       FwOff, FwDriverError, Isr, AppContinue, AppWait, AppStart, AppStop,
       AppStartSetup, AppWaitCheck, AppWaitEvent, AppWaitTimeout,
       AppStartToggle, AppStopToggle, AppStopComplete, AppStopClear,
       othersOfApp, fwVars, dmaVars, ringVars, dsrVars
  <2>2. \/ UNCHANGED <<ulHostFlags, usNetxFlags>>
        \/ \E b \in {"NEWSTATUS", "STARTSTOP", "DRV_ERROR"} :
              \/ usNetxFlags' = Toggle(usNetxFlags, b) /\ ulHostFlags' = ulHostFlags
              \/ ulHostFlags' = Toggle(ulHostFlags, b) /\ usNetxFlags' = usNetxFlags
    BY <1>3 DEF Firmware, FwIndicateStatus, FwStart, FwStopCommand, FwStopAck,
       FwOff, FwDriverError, FwToggle, Isr, AppContinue, AppWait, AppStart,
       AppStop, AppStartSetup, AppWaitCheck, AppWaitEvent, AppWaitTimeout,
       AppStartToggle, AppStopToggle, AppStopComplete, AppStopClear, othersOfApp
  <2>3. OpenInDpm("NEWDATA")' <=> OpenInDpm("NEWDATA")
    BY <2>2, ToggleFlips DEF OpenInDpm
  <2>4. CASE dsrPc \in LoopPcs /\ UsedBuffers \subseteq used
    <3>1. UsedBuffers' \subseteq used'
      <4>1. UNCHANGED <<netxBufferFlags, hostBufferFlags>>
        <5>1. ~FwStart /\ ~AppStartSetup
          <6>1. ~Quiet
            BY <2>4 DEF Quiet, LoopPcs
          <6>2. ~AppStartSetup
            BY <6>1 DEF AppStartSetup, Inv, RingInv, CallPhase
          <6>3. SUFFICES ASSUME FwStart PROVE FALSE
            BY <6>2
          <6>4. OpenInDpm("STARTSTOP") /\ ulCaptureState = "OFF" /\ fwStop = {}
            BY <6>3 DEF FwStart, FwEqual, OpenInDpm
          <6>5. QED
            BY <6>1, <6>4 DEF Inv, RingInv, CallPhase, TypeOK, AppTypeOK, AppPcs
        <5>2. QED
          BY <1>3, <5>1 DEF Firmware, FwIndicateStatus, FwStopCommand,
             FwStopAck, FwOff, FwDriverError, Isr, AppContinue, AppWait,
             AppStart, AppStop, AppWaitCheck, AppWaitEvent, AppWaitTimeout,
             AppStartToggle, AppStopToggle, AppStopComplete, AppStopClear,
             othersOfApp, dmaVars, ringVars
      <4>2. QED
        BY <2>1, <2>4, <4>1 DEF UsedBuffers
    <3>2. QED
      BY <2>1, <2>4, <3>1 DEF Covered
  <2>5. CASE ~(dsrPc \in LoopPcs /\ UsedBuffers \subseteq used)
    BY <2>1, <2>3, <2>5 DEF Inv, RingInv, Covered
  <2>6. QED
    BY <2>4, <2>5
<1>4. QED
  BY <1>1, <1>2, <1>3

LEMMA CoveredDsr ==
    ASSUME Inv, Dsr
    PROVE  Covered'
<1> USE DEF LoopPcs
<1>1. CASE DsrReadFlags
  <2>1. used' = UsedBuffers /\ dsrPc' = "buffer" /\ UNCHANGED <<ringVars, dmaVars>>
    BY <1>1 DEF DsrReadFlags, ReadFlags
  <2>2. UsedBuffers' = UsedBuffers
    BY <2>1 DEF UsedBuffers, ringVars, dmaVars
  <2>3. QED
    BY <2>1, <2>2 DEF Covered
<1>2. CASE DsrProcess
  <2>1. CASE OpenInDsr("NEWDATA")
    BY <1>2, <2>1 DEF DsrProcess, OpenInDsr, Xor, Covered
  <2>2. CASE ~OpenInDsr("NEWDATA")
    BY <1>2, <2>2 DEF DsrProcess, OpenInDsr, OpenInDpm, Xor, Covered, Inv,
                      RingInv, fwVars, dmaVars, ringVars
  <2>3. QED
    BY <2>1, <2>2
<1>3. CASE DsrBuffer
  <2>1. UNCHANGED <<ulHostFlags, usNetxFlags, fwInd, filled, freed, used,
                    hostBufferFlags, netxBufferFlags>>
    BY <1>3 DEF DsrBuffer, fwVars, dmaVars, ringVars
  <2>2. (OpenInDpm("NEWDATA")' <=> OpenInDpm("NEWDATA")) /\ UsedBuffers' = UsedBuffers
    BY <2>1 DEF OpenInDpm, UsedBuffers
  <2>3. CASE ulCurrentBuffer \in used
    BY <1>3, <2>1, <2>2, <2>3 DEF DsrBuffer, Covered, Inv, RingInv
  <2>4. CASE ulCurrentBuffer \notin used
    BY <1>3, <2>1, <2>2, <2>4, LoopEndsEmpty DEF DsrBuffer, Covered, Inv, RingInv
  <2>5. QED
    BY <2>3, <2>4
<1>4. CASE DsrFree
  <2>1. UNCHANGED <<ulHostFlags, usNetxFlags, fwInd, filled>>
    BY <1>4 DEF DsrFree, fwVars, dmaVars
  <2>2. OpenInDpm("NEWDATA")' <=> OpenInDpm("NEWDATA")
    BY <2>1 DEF OpenInDpm
  <2>3. UsedBuffers' \subseteq UsedBuffers \ {ulCurrentBuffer}
    <3>1. ulCurrentBuffer \in UsedBuffers
      BY <1>4 DEF DsrFree, Inv, RingInv, LoopInWindow
    <3>2. QED
      BY <1>4, <3>1 DEF DsrFree, FreeBuffer, UsedBuffers, Xor, Toggle, dmaVars
  <2>4. dsrPc' = "buffer" /\ used' = used \ {ulCurrentBuffer} /\ dsrPc = "free"
    BY <1>4 DEF DsrFree, FreeBuffer
  <2>5. filled # freed
    <3>1. ~RingIdle /\ ulCurrentBuffer \in used /\ used \subseteq UsedBuffers
      BY <2>4, LoopMeansActive DEF Inv, RingInv, LoopInWindow
    <3>2. /\ filled - freed \in 0..NumBuffers
          /\ UsedBuffers = {i \in Buffers : Distance(i) < filled - freed}
      BY <3>1 DEF Inv, RingInv, RingWindow
    <3>3. ulCurrentBuffer \in Buffers /\ Distance(ulCurrentBuffer) = 0
          /\ filled \in Nat /\ freed \in Nat
      BY RingFacts DEF Inv, TypeOK, DsrTypeOK, SharedTypeOK
    <3>4. QED
      BY <3>1, <3>2, <3>3
  <2>6. QED
    BY <2>1, <2>2, <2>3, <2>4, <2>5 DEF Covered, Inv, RingInv
<1>5. CASE DsrCheckData \/ DsrDataCall \/ DsrError \/ DsrErrorEvent \/ DsrErrorTimeout
  <2>1. /\ UNCHANGED <<usNetxFlags, fwInd, filled, freed, used,
                       hostBufferFlags, netxBufferFlags>>
        /\ (ulHostFlags' = ulHostFlags \/ ulHostFlags' = Toggle(ulHostFlags, "DRV_ERROR"))
        /\ dsrPc \in LoopPcs /\ dsrPc' \in LoopPcs
    BY <1>5 DEF DsrCheckData, DsrDataCall, DsrError, DsrErrorEvent,
                DsrErrorTimeout, fwVars, dmaVars, ringVars
  <2>2. (OpenInDpm("NEWDATA")' <=> OpenInDpm("NEWDATA")) /\ UsedBuffers' = UsedBuffers
    BY <2>1, ToggleFlips DEF OpenInDpm, UsedBuffers
  <2>3. QED
    BY <2>1, <2>2 DEF Covered, Inv, RingInv
<1>6. CASE DsrWake \/ DsrHandler \/ DsrStatus \/ DsrStatusCall \/ DsrStatusAck
           \/ DsrStopEvent \/ DsrEnable
  <2>1. /\ UNCHANGED <<usNetxFlags, fwInd, filled, freed>>
        /\ (ulHostFlags' = ulHostFlags \/ ulHostFlags' = Toggle(ulHostFlags, "NEWSTATUS"))
        /\ dsrPc \notin LoopPcs \cup {"flags"}
    BY <1>6 DEF DsrWake, DsrHandler, DsrStatus, DsrStatusCall, DsrStatusAck,
                DsrStopEvent, DsrEnable, fwVars, dmaVars, ringVars
  <2>2. OpenInDpm("NEWDATA")' <=> OpenInDpm("NEWDATA")
    BY <2>1, ToggleFlips DEF OpenInDpm
  <2>3. QED
    BY <2>1, <2>2 DEF Covered, Inv, RingInv
<1>7. QED
  BY <1>1, <1>2, <1>3, <1>4, <1>5, <1>6 DEF Dsr

LEMMA CoveredStep ==
    ASSUME Inv, [Next]_vars
    PROVE  Covered'
<1>1. CASE UNCHANGED vars
  BY <1>1 DEF vars, dsrVars, fwVars, dmaVars, ringVars, Inv, RingInv, Covered,
     OpenInDpm, UsedBuffers
<1>2. QED
  BY <1>1, CoveredOthers, CoveredDsr DEF Next
-----------------------------------------------------------------------------
(* The end of a capture. *)

(* A step that toggles at most a bit that is no indication.                *)
LEMMA OtherBitsFrame ==
    ASSUME NEW b, b \notin {"NEWDATA", "NEWSTATUS"},
           \/ UNCHANGED <<ulHostFlags, usNetxFlags>>
           \/ ulHostFlags' = Toggle(ulHostFlags, b) /\ usNetxFlags' = usNetxFlags
           \/ usNetxFlags' = Toggle(usNetxFlags, b) /\ ulHostFlags' = ulHostFlags,
           NewestCopy' = NewestCopy, UNCHANGED ulNetxFlags,
           NEW e \in {"NEWDATA", "NEWSTATUS"}
    PROVE  /\ OpenInDpm(e)' <=> OpenInDpm(e)
           /\ OpenInCopy(e)' <=> OpenInCopy(e)
           /\ OpenInDsr(e)' <=> OpenInDsr(e)
  BY ToggleFlips DEF OpenInDpm, OpenInCopy, OpenInDsr

LEMMA StatusAfterDataFirmware ==
    ASSUME Inv, Firmware
    PROVE  StatusAfterData'
<1> USE DEF irqVars, dsrVars, dmaVars, ringVars, outVars, appVars, evVars
<1>1. CASE FwFill \/ FwIndicateData \/ FwStart \/ FwStopCommand
  <2>1. CASE FwIndicateData
    BY <2>1 DEF FwIndicateData, Inv, RingInv, StatusAfterData
  <2>2. CASE FwFill \/ FwStart \/ FwStopCommand
    BY <2>2 DEF FwFill, FwStart, FwStopCommand, StatusAfterData
  <2>3. QED
    BY <1>1, <2>1, <2>2
<1>2. CASE FwIndicateStatus
  <2>1. FwToggle("NEWSTATUS") /\ ~OpenInDpm("NEWSTATUS") /\ ~fwStatus' /\ fwInd' = fwInd
        /\ ulCaptureState' = ulCaptureState
    BY <1>2 DEF FwIndicateStatus, FwEqual, OpenInDpm
  <2>2. /\ OpenInDpm("NEWDATA")' <=> OpenInDpm("NEWDATA")
        /\ ~OpenInCopy("NEWSTATUS")' /\ ~OpenInDsr("NEWSTATUS")'
    BY <1>2, <2>1, FwToggleFlips DEF FwIndicateStatus, Inv, RingInv, IndicationChain
  <2>3. QED
    BY <2>1, <2>2 DEF Inv, RingInv, StatusAfterData
<1>3. CASE FwOff
  <2>1. ~OpenInDpm("NEWSTATUS") /\ ~fwInd /\ fwInd' = fwInd
        /\ UNCHANGED <<ulHostFlags, usNetxFlags, copyVars>>
    BY <1>3 DEF FwOff, FwEqual, OpenInDpm, copyVars
  <2>2. ~OpenInDpm("NEWSTATUS")' /\ ~OpenInCopy("NEWSTATUS")' /\ ~OpenInDsr("NEWSTATUS")'
    BY <2>1, ViewsFrame DEF Inv, RingInv, IndicationChain
  <2>3. QED
    BY <2>1, <2>2 DEF StatusAfterData
<1>4. CASE FwStopAck \/ FwDriverError
  <2>1. UNCHANGED <<ulHostFlags, ulCaptureState, fwInd, fwStatus, ulNetxFlags>>
        /\ NewestCopy' = NewestCopy
        /\ \E b \in {"STARTSTOP", "DRV_ERROR"} : usNetxFlags' = Toggle(usNetxFlags, b)
    BY <1>4 DEF FwStopAck, FwDriverError, FwToggle, NewestCopy, fwVars
  <2>2. PICK b \in {"STARTSTOP", "DRV_ERROR"} : usNetxFlags' = Toggle(usNetxFlags, b)
    BY <2>1
  <2>3. \A e \in {"NEWDATA", "NEWSTATUS"} :
           /\ OpenInDpm(e)' <=> OpenInDpm(e)
           /\ OpenInCopy(e)' <=> OpenInCopy(e)
           /\ OpenInDsr(e)' <=> OpenInDsr(e)
    BY <2>1, <2>2, OtherBitsFrame
  <2>4. QED
    BY <2>1, <2>3 DEF Inv, RingInv, StatusAfterData
<1>5. QED
  BY <1>1, <1>2, <1>3, <1>4 DEF Firmware

LEMMA StatusAfterDataDsr ==
    ASSUME Inv, Dsr
    PROVE  StatusAfterData'
<1> USE DEF fwVars
<1>0. UNCHANGED <<ulCaptureState, fwInd, fwStatus, usNetxFlags>>
  BY DEF Dsr, DsrWake, DsrHandler, DsrProcess, DsrReadFlags, DsrBuffer,
     DsrCheckData, DsrDataCall, DsrError, DsrErrorEvent, DsrErrorTimeout,
     DsrFree, DsrStatus, DsrStatusCall, DsrStatusAck, DsrStopEvent, DsrEnable
<1>1. CASE DsrHandler
  BY <1>0, <1>1, HandlerUpdatesDsr DEF Inv, RingInv, StatusAfterData
<1>2. CASE DsrProcess /\ OpenInDsr("NEWDATA")
  <2>1. ulHostFlags' = Toggle(ulHostFlags, "NEWDATA") /\ UNCHANGED copyVars
    BY <1>2 DEF DsrProcess, OpenInDsr, Xor, copyVars
  <2>2. ~OpenInDpm("NEWDATA")' /\ (OpenInDpm("NEWSTATUS")' <=> OpenInDpm("NEWSTATUS"))
    BY <1>0, <1>2, <2>1, HostToggleFlips DEF Inv, RingInv, IndicationChain
  <2>3. QED
    BY <1>0, <2>2 DEF Inv, RingInv, StatusAfterData
<1>3. CASE DsrStatusAck
  <2>1. ulHostFlags' = Toggle(ulHostFlags, "NEWSTATUS") /\ UNCHANGED copyVars
        /\ OpenInDsr("NEWSTATUS")
    BY <1>3 DEF DsrStatusAck, copyVars, Inv, RingInv, AckPoints
  <2>2. ~OpenInDpm("NEWSTATUS")' /\ ~OpenInCopy("NEWSTATUS")' /\ ~OpenInDsr("NEWSTATUS")'
    BY <1>0, <2>1, HostToggleFlips DEF Inv, RingInv, IndicationChain
  <2>3. QED
    BY <1>0, <2>2 DEF Inv, RingInv, StatusAfterData
<1>4. CASE ~DsrHandler /\ ~(DsrProcess /\ OpenInDsr("NEWDATA")) /\ ~DsrStatusAck
  <2>1. /\ ulHostFlags' = ulHostFlags \/ ulHostFlags' = Toggle(ulHostFlags, "DRV_ERROR")
        /\ UNCHANGED ulNetxFlags /\ NewestCopy' = NewestCopy
    BY <1>4 DEF Dsr, DsrWake, DsrProcess, DsrReadFlags, DsrBuffer, DsrCheckData,
       DsrDataCall, DsrError, DsrErrorEvent, DsrErrorTimeout, DsrFree,
       DsrStatus, DsrStatusCall, DsrStopEvent, DsrEnable, OpenInDsr, Xor,
       NewestCopy, irqVars
  <2>2. \A e \in {"NEWDATA", "NEWSTATUS"} :
           /\ OpenInDpm(e)' <=> OpenInDpm(e)
           /\ OpenInCopy(e)' <=> OpenInCopy(e)
           /\ OpenInDsr(e)' <=> OpenInDsr(e)
    BY <1>0, <2>1, OtherBitsFrame
  <2>3. QED
    BY <1>0, <2>2 DEF Inv, RingInv, StatusAfterData
<1>5. QED
  BY <1>1, <1>2, <1>3, <1>4

(* What the caller leaves alone.                                           *)
LEMMA CallerKeeps ==
    ASSUME Inv, AppStart \/ AppStop \/ AppContinue
    PROVE  /\ UNCHANGED <<ulCaptureState, fwInd, fwStatus, fwStop, filled, freed,
                          dsrPc, state>>
           /\ \A e \in {"NEWDATA", "NEWSTATUS"} :
                 /\ OpenInDpm(e)' <=> OpenInDpm(e)
                 /\ OpenInCopy(e)' <=> OpenInCopy(e)
                 /\ OpenInDsr(e)' <=> OpenInDsr(e)
<1> USE DEF othersOfApp, dsrVars, fwVars, dmaVars
<1>1. /\ UNCHANGED <<ulCaptureState, fwInd, fwStatus, fwStop, filled, freed, dsrPc,
                     state, usNetxFlags, copyVars>>
      /\ ulHostFlags' = ulHostFlags \/ ulHostFlags' = Toggle(ulHostFlags, "STARTSTOP")
  BY DEF AppContinue, AppWait, AppStart, AppStop, AppStartSetup, AppWaitCheck,
         AppWaitEvent, AppWaitTimeout, AppStartToggle, AppStopToggle,
         AppStopComplete, AppStopClear, copyVars
<1>2. NewestCopy' = NewestCopy /\ UNCHANGED ulNetxFlags
  BY <1>1, CopiesFrame DEF copyVars
<1>3. QED
  BY <1>1, <1>2, OtherBitsFrame

LEMMA StatusAfterDataStep ==
    ASSUME Inv, [Next]_vars
    PROVE  StatusAfterData'
<1>1. CASE Isr
  <2>1. UNCHANGED <<ulCaptureState, fwInd, fwStatus>>
    BY <1>1 DEF Isr, fwVars
  <2>2. QED
    BY <1>1, <2>1, IsrUpdatesCopy DEF Inv, RingInv, StatusAfterData
<1>2. CASE AppStart \/ AppStop \/ AppContinue
  BY <1>2, CallerKeeps DEF Inv, RingInv, StatusAfterData
<1>3. CASE UNCHANGED vars
  BY <1>3, ViewsFrame DEF vars, copyVars, dsrVars, fwVars, Inv, RingInv, StatusAfterData
<1>4. QED
  BY <1>1, <1>2, <1>3, StatusAfterDataFirmware, StatusAfterDataDsr DEF Next

-----------------------------------------------------------------------------
(* The calls. *)

(* The firmware starts a capture only for a caller that waits for it.      *)
LEMMA StartIsWaitedFor ==
    ASSUME Inv, FwStart
    PROVE  appPc = "startAck" /\ Quiet /\ RingReset
<1>1. OpenInDpm("STARTSTOP") /\ ulCaptureState = "OFF" /\ fwStop = {}
  BY DEF FwStart, FwEqual, OpenInDpm
<1>2. appPc \in {"startAck", "stopAck"}
  BY <1>1 DEF Inv, RingInv, CallPhase, TypeOK, AppTypeOK, AppPcs
<1>3. QED
  BY <1>1, <1>2 DEF Inv, RingInv, CallPhase

(* A step of the firmware that leaves the state and the command alone; it  *)
(* can only happen when the firmware is not quiet, or does not disturb it. *)
LEMMA CallPhaseFwFrame ==
    ASSUME Inv,
           UNCHANGED <<ulCaptureState, fwStop, appPc, hostBufferFlags,
                       ulCurrentBuffer>>,
           OpenInDpm("STARTSTOP")' <=> OpenInDpm("STARTSTOP"),
           OpenInDsr("STARTSTOP")' <=> OpenInDsr("STARTSTOP"),
           Quiet => Quiet'
    PROVE  CallPhase'
  BY DEF Inv, RingInv, CallPhase, RingReset

(* What the firmware and the interrupt leave alone.                        *)
LEMMA FirmwareKeeps ==
    ASSUME Inv, Firmware \/ Isr
    PROVE  /\ UNCHANGED <<appPc, dsrPc, state, hStopComplete, hostBufferFlags,
                          ulCurrentBuffer, freed, ulHostFlags, ulNetxFlags>>
           /\ \A e \in Bits : OpenInDsr(e)' <=> OpenInDsr(e)
<1>1. UNCHANGED <<appPc, dsrPc, state, hStopComplete, hostBufferFlags,
                  ulCurrentBuffer, freed, ulHostFlags, ulNetxFlags>>
  BY DEF Firmware, FwFill, FwIndicateData, FwIndicateStatus, FwStart,
         FwStopCommand, FwStopAck, FwOff, FwDriverError, Isr, dsrVars, appVars,
         ringVars, evVars
<1>2. QED
  BY <1>1 DEF OpenInDsr

LEMMA CallPhaseFirmware ==
    ASSUME Inv, OnCommand, Firmware
    PROVE  CallPhase'
<1> USE DEF irqVars, dsrVars, dmaVars, ringVars, outVars, appVars, evVars
<1>0. /\ UNCHANGED <<appPc, dsrPc, hostBufferFlags, ulCurrentBuffer, freed>>
      /\ OpenInDsr("STARTSTOP")' <=> OpenInDsr("STARTSTOP")
  BY FirmwareKeeps
<1>1. CASE FwFill \/ FwIndicateData \/ FwIndicateStatus
  <2>1. ~Quiet
    BY <1>1 DEF Quiet, FwFill, FwIndicateData, FwIndicateStatus
  <2>2. UNCHANGED <<ulCaptureState, fwStop>>
    BY <1>1 DEF FwFill, FwIndicateData, FwIndicateStatus
  <2>3. OpenInDpm("STARTSTOP")' <=> OpenInDpm("STARTSTOP")
    <3>1. ulHostFlags' = ulHostFlags
          /\ \/ usNetxFlags' = usNetxFlags
             \/ \E b \in {"NEWDATA", "NEWSTATUS"} : usNetxFlags' = Toggle(usNetxFlags, b)
      BY <1>1 DEF FwFill, FwIndicateData, FwIndicateStatus, FwToggle
    <3>2. QED
      BY <3>1, ToggleFlips DEF OpenInDpm
  <2>4. QED
    BY <1>0, <2>1, <2>2, <2>3, CallPhaseFwFrame
<1>2. CASE FwStart
  <2>1. appPc = "startAck" /\ OpenInDpm("STARTSTOP") /\ fwStop = {}
    BY <1>2, StartIsWaitedFor DEF FwStart, FwEqual, OpenInDpm
  <2>2. /\ ulCaptureState' = "RUNNING" /\ fwStop' = {} /\ appPc' = "startAck"
        /\ FwToggle("STARTSTOP")
        /\ UNCHANGED <<ulHostFlags, irqEnabled, fValid, snap, iIrq2DsrBuffer,
                       dsr_sig, ulNetxFlags>>
    BY <1>2, <2>1 DEF FwStart
  <2>3. ~OpenInDpm("STARTSTOP")'
    BY <2>1, <2>2, FwToggleFlips
  <2>4. QED
    BY <2>2, <2>3 DEF CallPhase
<1>3. CASE FwStopCommand
  <2>1. /\ ulCaptureState = "RUNNING" /\ fwStop = {} /\ OpenInDpm("STARTSTOP")
        /\ fwStop' = {"ack", "off"}
        /\ UNCHANGED <<ulCaptureState, ulHostFlags, usNetxFlags>>
    BY <1>3 DEF FwStopCommand, FwEqual, OpenInDpm
  <2>2. appPc = "stopAck"
    BY <2>1 DEF Inv, RingInv, CallPhase, TypeOK, AppTypeOK, AppPcs
  <2>3. OpenInDpm("STARTSTOP")'
    BY <2>1 DEF OpenInDpm
  <2>4. QED
    BY <1>0, <2>1, <2>2, <2>3 DEF CallPhase
<1>4. CASE FwStopAck
  <2>1. /\ "ack" \in fwStop /\ fwStop' = fwStop \ {"ack"}
        /\ ulCaptureState' = ulCaptureState
        /\ FwToggle("STARTSTOP")
        /\ UNCHANGED <<ulHostFlags, irqEnabled, fValid, snap, iIrq2DsrBuffer,
                       dsr_sig, ulNetxFlags>>
    BY <1>4 DEF FwStopAck
  <2>2. appPc = "stopAck"
    BY <2>1 DEF Inv, RingInv, CallPhase, TypeOK, AppTypeOK, AppPcs
  <2>3. ~OpenInDpm("STARTSTOP")'
    BY <2>1, <2>2, FwToggleFlips DEF Inv, RingInv, CallPhase
  <2>4. ulCaptureState = "RUNNING" <=> "off" \in fwStop
    BY <2>1, <2>2 DEF Inv, RingInv, CallPhase
  <2>5. QED
    BY <1>0, <2>1, <2>2, <2>3, <2>4 DEF CallPhase
<1>5. CASE FwOff
  <2>1. /\ "off" \in fwStop /\ fwStop' = fwStop \ {"off"}
        /\ ulCaptureState' = "OFF" /\ UNCHANGED <<ulHostFlags, usNetxFlags>>
    BY <1>5 DEF FwOff, OnCommand
  <2>2. OpenInDpm("STARTSTOP")' <=> OpenInDpm("STARTSTOP")
    BY <2>1 DEF OpenInDpm
  <2>3. appPc \in {"stopAck", "stopComplete"}
    BY <2>1 DEF Inv, RingInv, CallPhase
  <2>4. CASE appPc = "stopAck"
    <3>1. OpenInDpm("STARTSTOP") <=> "ack" \in fwStop
      BY <2>1, <2>4 DEF Inv, RingInv, CallPhase
    <3>2. QED
      BY <1>0, <2>1, <2>2, <2>4, <3>1 DEF CallPhase
  <2>5. CASE appPc = "stopComplete"
    BY <1>0, <2>1, <2>2, <2>5 DEF Inv, RingInv, CallPhase
  <2>6. QED
    BY <2>3, <2>4, <2>5
<1>6. CASE FwDriverError
  <2>1. /\ usNetxFlags' = Toggle(usNetxFlags, "DRV_ERROR")
        /\ UNCHANGED <<ulHostFlags, ulCaptureState, fwInd, fwStatus, fwStop, filled>>
    BY <1>6 DEF FwDriverError, FwToggle, fwVars
  <2>2. /\ OpenInDpm("STARTSTOP")' <=> OpenInDpm("STARTSTOP")
        /\ OpenInDpm("NEWDATA")' <=> OpenInDpm("NEWDATA")
        /\ OpenInDpm("NEWSTATUS")' <=> OpenInDpm("NEWSTATUS")
    BY <2>1, ToggleFlips DEF OpenInDpm
  <2>3. Quiet => Quiet'
    BY <1>0, <2>1, <2>2 DEF Quiet
  <2>4. QED
    BY <1>0, <2>1, <2>2, <2>3, CallPhaseFwFrame
<1>7. QED
  BY <1>1, <1>2, <1>3, <1>4, <1>5, <1>6 DEF Firmware

(* With nothing left to do the DSR goes round its loop and does nothing.   *)
LEMMA QuietDsr ==
    ASSUME Inv, Dsr, Quiet
    PROVE  Quiet' /\ UNCHANGED <<hostBufferFlags, ulCurrentBuffer, hStopComplete>>
<1>1. DsrWake \/ DsrHandler \/ DsrEnable
  BY DEF Dsr, Quiet, DsrWake, DsrHandler, DsrProcess, DsrReadFlags, DsrBuffer,
     DsrCheckData, DsrDataCall, DsrError, DsrErrorEvent, DsrErrorTimeout,
     DsrFree, DsrStatus, DsrStatusCall, DsrStatusAck, DsrStopEvent, DsrEnable
<1>2. UNCHANGED <<ulCaptureState, fwInd, fwStatus, filled, freed, usNetxFlags,
                  ulHostFlags, hostBufferFlags, ulCurrentBuffer, hStopComplete>>
  BY <1>1 DEF DsrWake, DsrHandler, DsrEnable, fwVars, dmaVars, ringVars, evVars
<1>3. /\ OpenInDpm("NEWDATA")' <=> OpenInDpm("NEWDATA")
      /\ OpenInDpm("NEWSTATUS")' <=> OpenInDpm("NEWSTATUS")
  BY <1>2 DEF OpenInDpm
<1>4. dsrPc' \in {"wait", "handler", "enable"}
  <2>1. CASE DsrHandler
    <3>1. /\ ~OpenInCopy("NEWDATA") /\ ~OpenInCopy("NEWSTATUS")
          /\ ~OpenInDsr("NEWDATA") /\ ~OpenInDsr("NEWSTATUS")
      BY DEF Quiet, Inv, RingInv, IndicationChain
    <3>2. NewestCopy = snap[iIrq2DsrBuffer]
      BY <2>1 DEF DsrHandler, NewestCopy
    <3>3. Xor(ulNetxFlags, snap[iIrq2DsrBuffer]) \cap {"NEWDATA", "NEWSTATUS"} = {}
      BY <3>1, <3>2 DEF OpenInCopy, OpenInDsr, Xor
    <3>4. QED
      BY <2>1, <3>3 DEF DsrHandler
  <2>2. CASE DsrWake \/ DsrEnable
    BY <2>2 DEF DsrWake, DsrEnable
  <2>3. QED
    BY <1>1, <2>1, <2>2
<1>5. QED
  BY <1>2, <1>3, <1>4 DEF Quiet

LEMMA CallPhaseDsr ==
    ASSUME Inv, Dsr
    PROVE  CallPhase'
<1>1. UNCHANGED <<appPc, ulCaptureState, fwStop, usNetxFlags>>
  BY DEF Dsr, DsrWake, DsrHandler, DsrProcess, DsrReadFlags, DsrBuffer,
     DsrCheckData, DsrDataCall, DsrError, DsrErrorEvent, DsrErrorTimeout,
     DsrFree, DsrStatus, DsrStatusCall, DsrStatusAck, DsrStopEvent, DsrEnable,
     fwVars, appVars
<1>2. /\ OpenInDpm("STARTSTOP")' <=> OpenInDpm("STARTSTOP")
      /\ OpenInDsr("STARTSTOP")' => OpenInDsr("STARTSTOP")
  <2>1. CASE DsrHandler
    BY <2>1, HandlerUpdatesDsr DEF Inv, RingInv, CommandChain
  <2>2. CASE ~DsrHandler
    <3>1. UNCHANGED ulNetxFlags
          /\ \/ ulHostFlags' = ulHostFlags
             \/ \E b \in {"NEWDATA", "NEWSTATUS", "DRV_ERROR"} :
                   ulHostFlags' = Toggle(ulHostFlags, b)
      BY <2>2 DEF Dsr, DsrWake, DsrProcess, DsrReadFlags, DsrBuffer,
         DsrCheckData, DsrDataCall, DsrError, DsrErrorEvent, DsrErrorTimeout,
         DsrFree, DsrStatus, DsrStatusCall, DsrStatusAck, DsrStopEvent,
         DsrEnable
    <3>2. QED
      BY <1>1, <3>1, ToggleFlips DEF OpenInDpm, OpenInDsr
  <2>3. QED
    BY <2>1, <2>2
<1>3. Quiet => Quiet' /\ UNCHANGED <<hostBufferFlags, ulCurrentBuffer>>
  BY QuietDsr
<1>4. QED
  BY <1>1, <1>2, <1>3 DEF Inv, RingInv, CallPhase, RingReset

(* The caller's own view of the bit is the DSR's, and an open command is   *)
(* open there: a wait that succeeds means the firmware has answered.       *)
LEMMA WaitMeansAnswered ==
    ASSUME Inv, BitEqual("STARTSTOP")
    PROVE  ~OpenInDsr("STARTSTOP") /\ ~OpenInDpm("STARTSTOP")
  BY DEF BitEqual, OpenInDsr, Inv, RingInv, CommandChain

LEMMA QuietCaller ==
    ASSUME Inv, AppStart \/ AppStop \/ AppContinue
    PROVE  Quiet' <=> Quiet
  BY CallerKeeps DEF Quiet

LEMMA CallPhaseWait ==
    ASSUME Inv, AppWaitCheck \/ AppWaitEvent
    PROVE  CallPhase'
<1>0. /\ UNCHANGED <<ulCaptureState, fwStop, hostBufferFlags, ulCurrentBuffer,
                     usNetxFlags, ulHostFlags, ulNetxFlags>>
      /\ Quiet' <=> Quiet
  BY QuietCaller DEF AppContinue, AppWait, AppWaitCheck, AppWaitEvent,
     othersOfApp, fwVars, dsrVars
<1>1. /\ OpenInDpm("STARTSTOP")' <=> OpenInDpm("STARTSTOP")
      /\ OpenInDsr("STARTSTOP")' <=> OpenInDsr("STARTSTOP")
      /\ RingReset' <=> RingReset
  BY <1>0 DEF OpenInDpm, OpenInDsr, RingReset
<1>2. CASE appPc' = appPc
  BY <1>0, <1>1, <1>2 DEF Inv, RingInv, CallPhase
<1>3. CASE appPc' # appPc
  <2>1. /\ BitEqual("STARTSTOP") /\ appPc \in DOMAIN AfterWait
        /\ appPc' = AfterWait[appPc]
    BY <1>3 DEF AppWaitCheck, AppWaitEvent, AppWaitDone
  <2>2. ~OpenInDpm("STARTSTOP")' /\ ~OpenInDsr("STARTSTOP")'
    BY <1>1, <2>1, WaitMeansAnswered
  <2>3. CASE appPc = "startWait"
    BY <1>0, <1>1, <2>1, <2>2, <2>3 DEF AfterWait, Inv, RingInv, CallPhase
  <2>4. CASE appPc = "startAck"
    <3>1. ulCaptureState # "OFF" /\ fwStop = {}
      BY <1>1, <2>2, <2>4 DEF Inv, RingInv, CallPhase
    <3>2. QED
      BY <1>0, <2>1, <2>2, <2>4, <3>1 DEF AfterWait, CallPhase
  <2>5. CASE appPc = "stopWait"
    BY <1>0, <1>1, <2>1, <2>2, <2>5 DEF AfterWait, Inv, RingInv, CallPhase
  <2>6. CASE appPc = "stopAck"
    <3>1. "ack" \notin fwStop /\ (ulCaptureState = "RUNNING" <=> "off" \in fwStop)
      BY <1>1, <2>2, <2>6 DEF Inv, RingInv, CallPhase
    <3>2. QED
      BY <1>0, <2>1, <2>2, <2>6, <3>1 DEF AfterWait, CallPhase
  <2>7. QED
    BY <2>1, <2>3, <2>4, <2>5, <2>6 DEF AfterWait
<1>4. QED
  BY <1>2, <1>3

LEMMA CallPhaseCaller ==
    ASSUME Inv, OnCommand, AppStart \/ AppStop \/ AppContinue
    PROVE  CallPhase'
<1>0. /\ UNCHANGED <<ulCaptureState, fwStop, usNetxFlags, ulNetxFlags>>
      /\ Quiet' <=> Quiet
  BY QuietCaller DEF AppContinue, AppWait, AppStart, AppStop, AppStartSetup,
     AppWaitCheck, AppWaitEvent, AppWaitTimeout, AppStartToggle,
     AppStopToggle, AppStopComplete, AppStopClear, othersOfApp, fwVars, dsrVars
<1>1. CASE AppWait
  BY <1>1, CallPhaseWait DEF AppWait, AppWaitTimeout, OnCommand
<1>2. CASE AppStartToggle \/ AppStopToggle
  <2>1. /\ ulHostFlags' = Toggle(ulHostFlags, "STARTSTOP")
        /\ UNCHANGED <<hostBufferFlags, ulCurrentBuffer>>
        /\ ~OpenInDpm("STARTSTOP")
    BY <1>2 DEF AppStartToggle, AppStopToggle, Inv, RingInv, CallPhase
  <2>2. OpenInDpm("STARTSTOP")'
    BY <1>0, <2>1, ToggleFlips DEF OpenInDpm
  <2>3. CASE AppStartToggle
    <3>1. appPc = "startToggle" /\ appPc' = "startAck"
      BY <2>3 DEF AppStartToggle
    <3>2. Quiet /\ RingReset /\ fwStop = {}
      BY <3>1 DEF Inv, RingInv, CallPhase
    <3>3. QED
      BY <1>0, <2>1, <2>2, <3>1, <3>2 DEF CallPhase, RingReset, Quiet
  <2>4. CASE AppStopToggle
    <3>1. appPc = "stopToggle" /\ appPc' = "stopAck"
      BY <2>4 DEF AppStopToggle
    <3>2. ulCaptureState = "RUNNING" /\ fwStop = {}
      BY <3>1 DEF Inv, RingInv, CallPhase
    <3>3. QED
      BY <1>0, <2>2, <3>1, <3>2 DEF CallPhase
  <2>5. QED
    BY <1>2, <2>3, <2>4
<1>3. CASE AppStart \/ AppStop \/ AppStartSetup \/ AppStopComplete \/ AppStopClear
  <2>1. UNCHANGED ulHostFlags
    BY <1>3 DEF AppStart, AppStop, AppStartSetup, AppStopComplete, AppStopClear
  <2>2. /\ OpenInDpm("STARTSTOP")' <=> OpenInDpm("STARTSTOP")
        /\ OpenInDsr("STARTSTOP")' <=> OpenInDsr("STARTSTOP")
    BY <1>0, <2>1 DEF OpenInDpm, OpenInDsr
  <2>3. CASE AppStart
    <3>1. appPc = "idle"
          /\ \/ ulCaptureState # "OFF" /\ appPc' = "idle"
             \/ ulCaptureState = "OFF" /\ appPc' = "startSetup"
      BY <2>3 DEF AppStart, AppReturn
    <3>2. QED
      BY <1>0, <2>2, <3>1 DEF Inv, RingInv, CallPhase
  <2>4. CASE AppStop
    <3>1. appPc = "idle"
          /\ \/ ulCaptureState = "OFF" /\ appPc' = "idle"
             \/ ulCaptureState # "OFF" /\ appPc' = "stopWait"
      BY <2>4 DEF AppStop, AppReturn
    <3>2. ulCaptureState \in {"OFF", "RUNNING"}
      BY DEF Inv, TypeOK, SharedTypeOK
    <3>3. QED
      BY <1>0, <2>2, <3>1, <3>2 DEF Inv, RingInv, CallPhase
  <2>5. CASE AppStartSetup
    <3>1. appPc = "startSetup" /\ appPc' = "startWait" /\ RingReset'
      BY <2>5 DEF AppStartSetup, ResetRing, RingReset
    <3>2. QED
      BY <1>0, <2>2, <3>1 DEF Inv, RingInv, CallPhase
  <2>6. CASE AppStopComplete
    <3>1. appPc = "stopComplete" /\ appPc' = "stopClear" /\ hStopComplete
      BY <2>6 DEF AppStopComplete, StopWaitOver, OnCommand
    <3>2. Quiet
      BY <3>1 DEF Inv, RingInv, EndOfCapture
    <3>3. fwStop = {}
      BY <3>1, <3>2 DEF Inv, RingInv, CallPhase, TypeOK, SharedTypeOK, Quiet
    <3>4. QED
      BY <1>0, <2>2, <3>1, <3>2, <3>3 DEF Inv, RingInv, CallPhase
  <2>7. CASE AppStopClear
    <3>1. appPc = "stopClear" /\ appPc' = "idle"
      BY <2>7 DEF AppStopClear, AppReturn
    <3>2. QED
      BY <1>0, <2>2, <3>1 DEF Inv, RingInv, CallPhase
  <2>8. QED
    BY <1>3, <2>3, <2>4, <2>5, <2>6, <2>7
<1>4. QED
  BY <1>1, <1>2, <1>3 DEF AppContinue

LEMMA QuietOthers ==
    ASSUME Inv, Isr \/ UNCHANGED vars
    PROVE  /\ Quiet' <=> Quiet
           /\ UNCHANGED <<appPc, ulCaptureState, fwInd, fwStatus, fwStop, filled,
                          freed, dsrPc, state, hStopComplete, hostBufferFlags,
                          ulCurrentBuffer, ulHostFlags, usNetxFlags, ulNetxFlags>>
  BY DEF Isr, vars, fwVars, dmaVars, dsrVars, ringVars, appVars, evVars, Quiet,
         OpenInDpm

LEMMA CallPhaseStep ==
    ASSUME Inv, OnCommand, [Next]_vars
    PROVE  CallPhase'
<1>1. CASE Isr \/ UNCHANGED vars
  BY <1>1, QuietOthers
     DEF Inv, RingInv, CallPhase, RingReset, OpenInDpm, OpenInDsr
<1>2. QED
  BY <1>1, CallPhaseFirmware, CallPhaseDsr, CallPhaseCaller DEF Next

(* The firmware is not quiet until the DSR has worked off the end of the   *)
(* capture, and then it has nothing left to do.                            *)
LEMMA EndOfCaptureFirmware ==
    ASSUME Inv, OnCommand, Firmware
    PROVE  EndOfCapture'
<1> USE DEF irqVars, dsrVars, dmaVars, ringVars, outVars, appVars, evVars
<1>0. UNCHANGED <<appPc, dsrPc, state, hStopComplete, freed, ulHostFlags>>
  BY FirmwareKeeps
<1>1. CASE FwFill \/ FwStopCommand \/ FwOff
  <2>1. ulCaptureState = "RUNNING"
    BY <1>1 DEF FwFill, FwStopCommand, FwOff
  <2>2. ~(dsrPc = "stopEvent" /\ state = "OFF")
    BY <2>1 DEF Inv, RingInv, EndOfCapture
  <2>3. appPc \in {"stopAck", "stopComplete"} => ~hStopComplete
    BY <2>1 DEF Inv, RingInv, EndOfCapture, Quiet
  <2>4. QED
    BY <1>0, <2>2, <2>3 DEF EndOfCapture
<1>2. CASE FwStart
  BY <1>0, <1>2, StartIsWaitedFor DEF EndOfCapture, Quiet
<1>3. CASE FwIndicateData
  <2>1. ulCaptureState # "OFF" /\ fwInd
    BY <1>3 DEF FwIndicateData, Inv, RingInv, StatusAfterData
  <2>2. ~(dsrPc = "stopEvent" /\ state = "OFF")
    BY <2>1 DEF Inv, RingInv, EndOfCapture
  <2>3. appPc \in {"stopAck", "stopComplete"} => ~hStopComplete
    BY <2>1 DEF Inv, RingInv, EndOfCapture, Quiet
  <2>4. QED
    BY <1>0, <2>2, <2>3 DEF EndOfCapture
<1>4. CASE FwIndicateStatus
  <2>1. fwStatus /\ ulCaptureState' = ulCaptureState
    BY <1>4 DEF FwIndicateStatus
  <2>2. appPc \in {"stopAck", "stopComplete"} =>
           ~hStopComplete /\ ~(dsrPc = "stopEvent" /\ state = "OFF")
    BY <2>1 DEF Inv, RingInv, EndOfCapture, Quiet
  <2>3. QED
    BY <1>0, <2>1, <2>2 DEF Inv, RingInv, EndOfCapture
<1>5. CASE FwStopAck \/ FwDriverError
  <2>1. /\ UNCHANGED <<ulCaptureState, fwInd, fwStatus, filled>>
        /\ \E b \in {"STARTSTOP", "DRV_ERROR"} : usNetxFlags' = Toggle(usNetxFlags, b)
    BY <1>5 DEF FwStopAck, FwDriverError, FwToggle, fwVars
  <2>2. /\ OpenInDpm("NEWDATA")' <=> OpenInDpm("NEWDATA")
        /\ OpenInDpm("NEWSTATUS")' <=> OpenInDpm("NEWSTATUS")
    BY <1>0, <2>1, ToggleFlips DEF OpenInDpm
  <2>3. Quiet' <=> Quiet
    BY <1>0, <2>1, <2>2 DEF Quiet
  <2>4. QED
    BY <1>0, <2>1, <2>2, <2>3 DEF Inv, RingInv, EndOfCapture
<1>6. QED
  BY <1>1, <1>2, <1>3, <1>4, <1>5 DEF Firmware

LEMMA EndOfCaptureDsr ==
    ASSUME Inv, Dsr
    PROVE  EndOfCapture'
<1>0. UNCHANGED <<appPc, ulCaptureState, fwInd, fwStatus, filled, usNetxFlags>>
  BY DEF Dsr, DsrWake, DsrHandler, DsrProcess, DsrReadFlags, DsrBuffer,
     DsrCheckData, DsrDataCall, DsrError, DsrErrorEvent, DsrErrorTimeout,
     DsrFree, DsrStatus, DsrStatusCall, DsrStatusAck, DsrStopEvent, DsrEnable,
     fwVars, appVars, dmaVars
<1>1. CASE DsrStatusAck
  <2>1. /\ dsrPc = "statusAck" /\ OpenInDsr("NEWSTATUS") /\ ~OpenInDsr("NEWDATA")
        /\ state = ulCaptureState
    BY <1>1 DEF DsrStatusAck, Inv, RingInv, AckPoints
  <2>2. /\ ulHostFlags' = Toggle(ulHostFlags, "NEWSTATUS")
        /\ UNCHANGED <<state, freed, hStopComplete, copyVars>>
    BY <1>1 DEF DsrStatusAck, copyVars, ringVars, evVars
  <2>3. OpenInCopy("NEWSTATUS") /\ OpenInDpm("NEWSTATUS")
    BY <2>1 DEF Inv, RingInv, IndicationChain
  <2>4. state = "OFF" => ~fwInd /\ ~fwStatus /\ ~OpenInDpm("NEWDATA")
    BY <2>1, <2>3 DEF Inv, RingInv, StatusAfterData
  <2>5. state = "OFF" => filled = freed
    BY <2>1, <2>4 DEF Inv, RingInv, Covered, LoopPcs
  <2>6. /\ OpenInDpm("NEWDATA")' <=> OpenInDpm("NEWDATA")
        /\ ~OpenInDpm("NEWSTATUS")'
    BY <1>0, <2>2, <2>3, ToggleFlips DEF OpenInDpm
  <2>7. appPc \in {"stopAck", "stopComplete"} => ~hStopComplete
    BY <2>1 DEF Inv, RingInv, EndOfCapture, Quiet
  <2>8. QED
    BY <1>0, <2>1, <2>2, <2>4, <2>5, <2>6, <2>7 DEF EndOfCapture
<1>2. CASE DsrStopEvent
  <2>1. /\ dsrPc = "stopEvent" /\ dsrPc' = "enable" /\ UNCHANGED <<ulHostFlags, freed>>
        /\ hStopComplete' = (hStopComplete \/ state = "OFF")
    BY <1>2 DEF DsrStopEvent, StopEvent, ringVars
  <2>2. /\ OpenInDpm("NEWDATA")' <=> OpenInDpm("NEWDATA")
        /\ OpenInDpm("NEWSTATUS")' <=> OpenInDpm("NEWSTATUS")
    BY <1>0, <2>1 DEF OpenInDpm
  <2>3. appPc \in {"stopAck", "stopComplete"} /\ hStopComplete => Quiet
    BY DEF Inv, RingInv, EndOfCapture
  <2>4. appPc \in {"stopAck", "stopComplete"} /\ state = "OFF" => Quiet'
    BY <1>0, <2>1, <2>2 DEF Inv, RingInv, EndOfCapture, StatusAfterData, Quiet
  <2>5. ~Quiet
    BY <2>1 DEF Quiet
  <2>6. QED
    BY <1>0, <2>1, <2>3, <2>4, <2>5 DEF EndOfCapture
<1>3. CASE ~DsrStatusAck /\ ~DsrStopEvent
  <2>1. dsrPc' # "stopEvent" /\ UNCHANGED hStopComplete
    BY <1>3 DEF Dsr, DsrWake, DsrHandler, DsrProcess, DsrReadFlags, DsrBuffer,
       DsrCheckData, DsrDataCall, DsrError, DsrErrorEvent, DsrErrorTimeout,
       DsrFree, DsrStatus, DsrStatusCall, DsrEnable, evVars
  <2>2. QED
    BY <1>0, <2>1, QuietDsr DEF Inv, RingInv, EndOfCapture
<1>4. QED
  BY <1>1, <1>2, <1>3

LEMMA EndOfCaptureCaller ==
    ASSUME Inv, AppStart \/ AppStop \/ AppContinue
    PROVE  EndOfCapture'
<1>0. /\ UNCHANGED <<ulCaptureState, fwInd, fwStatus, filled, freed, dsrPc, state>>
      /\ OpenInDpm("NEWDATA")' <=> OpenInDpm("NEWDATA")
      /\ OpenInDpm("NEWSTATUS")' <=> OpenInDpm("NEWSTATUS")
      /\ Quiet' <=> Quiet
  BY CallerKeeps, QuietCaller
<1>1. CASE AppStopToggle
  <2>1. ~hStopComplete' /\ ulCaptureState = "RUNNING"
    BY <1>1 DEF AppStopToggle, Inv, RingInv, CallPhase
  <2>2. QED
    BY <1>0, <2>1 DEF Inv, RingInv, EndOfCapture
<1>2. CASE ~AppStopToggle
  <2>1. appPc' \in {"stopAck", "stopComplete"} =>
           appPc \in {"stopAck", "stopComplete"} /\ hStopComplete' = hStopComplete
    BY <1>2 DEF AppContinue, AppWait, AppStart, AppStop, AppStartSetup,
       AppWaitCheck, AppWaitEvent, AppWaitTimeout, AppWaitDone, AfterWait,
       AppStartToggle, AppStopComplete, AppStopClear, AppReturn, evVars
  <2>2. QED
    BY <1>0, <2>1 DEF Inv, RingInv, EndOfCapture
<1>3. QED
  BY <1>1, <1>2

LEMMA EndOfCaptureStep ==
    ASSUME Inv, OnCommand, [Next]_vars
    PROVE  EndOfCapture'
<1>1. CASE Isr \/ UNCHANGED vars
  BY <1>1, QuietOthers DEF Inv, RingInv, EndOfCapture, OpenInDpm
<1>2. QED
  BY <1>1, EndOfCaptureFirmware, EndOfCaptureDsr, EndOfCaptureCaller DEF Next

-----------------------------------------------------------------------------
(* The theorems. *)

LEMMA InvInit ==
    ASSUME Init
    PROVE  Inv
<1>1. TypeOK /\ IrqInv
  BY DEF Init, TypeOK, SharedTypeOK, DsrTypeOK, AppTypeOK, AppPcs, DsrPcs, IrqInv,
     NoLostIndication, NeverMaskedForGood, SignalledOnlyWaiting, NewestCopy
<1>2. UsedBuffers = {} /\ filled = 0 /\ freed = 0 /\ fwNext = 0 /\ ulCurrentBuffer = 0
  BY DEF Init, UsedBuffers, Xor
<1>3. RingWindow
  <2>1. \A i \in Buffers : Distance(i) \in Nat
    BY <1>2 DEF Distance
  <2>2. QED
    BY <1>2, <2>1 DEF Init, RingWindow, Wrap
<1>4. \A e \in Bits : ~OpenInDpm(e) /\ ~OpenInCopy(e) /\ ~OpenInDsr(e)
  BY DEF Init, OpenInDpm, OpenInCopy, OpenInDsr, NewestCopy, Xor
<1>5. IndicationChain /\ CommandChain /\ AckPoints /\ Covered /\ LoopInWindow
      /\ StatusAfterData
  BY <1>2, <1>4 DEF Init, IndicationChain, CommandChain, AckPoints, Covered,
     LoopInWindow, LoopPcs, StatusAfterData
<1>6. CallPhase /\ EndOfCapture
  BY <1>2, <1>4 DEF Init, CallPhase, EndOfCapture, Quiet
<1>7. QED
  BY <1>1, <1>3, <1>5, <1>6 DEF Inv, RingInv

(* RingInv is inductive, on top of the types and of the interrupt          *)
(* invariant.                                                              *)
THEOREM RingInvariant ==
    ASSUME OnCommand
    PROVE  Spec => [](TypeOK /\ IrqInv /\ RingInv)
<1>1. Init => Inv
  BY InvInit
<1>2. Inv /\ [Next]_vars => Inv'
  <2>1. SUFFICES ASSUME Inv, [Next]_vars PROVE Inv'
    OBVIOUS
  <2>2. TypeOK'
    BY <2>1, SharedTypeStep, DsrTypeStep, AppTypeStep DEF Inv, TypeOK
  <2>3. IrqInv'
    BY <2>1, IrqInvStep DEF Inv
  <2>4. RingInv'
    BY <2>1, RingWindowStep, ChainsStep, AckPointsStep, CoveredStep,
       LoopInWindowStep, StatusAfterDataStep, CallPhaseStep, EndOfCaptureStep
       DEF RingInv, Chains
  <2>5. QED
    BY <2>2, <2>3, <2>4 DEF Inv
<1>3. Inv <=> TypeOK /\ IrqInv /\ RingInv
  BY DEF Inv
<1>4. QED
  BY <1>1, <1>2, <1>3, PTL DEF Spec

(* The firmware and netana_tkit_process always agree on which buffers are  *)
(* the driver's, in which order they were filled and where the next goes   *)
(* (netana_capture.c:85-204), across any number of captures.               *)
THEOREM RingIsConsistent ==
    ASSUME OnCommand
    PROVE  Spec => []RingWindow
<1>1. RingInv => RingWindow
  BY DEF RingInv
<1>2. QED
  BY <1>1, RingInvariant, PTL

-----------------------------------------------------------------------------
(* What the consumer gets.  A caller that is inside a call, or a capture   *)
(* that runs, has its callbacks set, and without an oversized buffer the   *)
(* DSR neither rejects one nor waits for a driver error.                   *)
AllFit == Oversize = {}

CallbacksSet ==
    appPc # "idle" \/ ulCaptureState = "RUNNING" => pfnData /\ pfnStatus

NoRejects ==
    /\ dsrPc \notin {"error", "errorWait"}
    /\ dropped = {}

Ordered ==
    /\ \A k \in 1..Len(delivered) : delivered[k] = k
    /\ Len(delivered) = IF dsrPc = "free" THEN freed + 1 ELSE freed

ReturnedState ==
    appPc = "idle" =>
        /\ lastRet \in {"started", "CAPTURE_ACTIVE"} => ulCaptureState = "RUNNING"
        /\ lastRet \in {"stopped", "CAPTURE_NOT_ACTIVE"} => ulCaptureState = "OFF"

(* A DSR at work on data or status has a capture to serve: nobody has      *)
(* cleared the callbacks.                                                  *)
LEMMA BusyMeansCallbacks ==
    ASSUME Inv, CallbacksSet, dsrPc \notin {"wait", "handler", "enable"}
    PROVE  pfnData /\ pfnStatus
  BY DEF Inv, RingInv, CallPhase, CallbacksSet, Quiet, TypeOK, SharedTypeOK

(* Only the caller and the firmware's start and end change what a call     *)
(* depends on, and none of them turns the capture off behind its back.     *)
LEMMA CallbacksSetStep ==
    ASSUME Inv, CallbacksSet, OnCommand, [Next]_vars
    PROVE  CallbacksSet'
<1>1. CASE FwStart
  <2>1. appPc = "startAck" /\ UNCHANGED <<appPc, pfnData, pfnStatus>>
    BY <1>1, StartIsWaitedFor DEF FwStart, appVars
  <2>2. QED
    BY <2>1 DEF CallbacksSet
<1>2. CASE Firmware /\ ~FwStart
  <2>1. /\ UNCHANGED <<appPc, pfnData, pfnStatus>>
        /\ ulCaptureState' = "RUNNING" => ulCaptureState = "RUNNING"
    BY <1>2 DEF Firmware, FwFill, FwIndicateData, FwIndicateStatus, FwStopCommand,
       FwStopAck, FwOff, FwDriverError, appVars
  <2>2. QED
    BY <2>1 DEF CallbacksSet
<1>3. CASE Isr \/ Dsr \/ UNCHANGED vars
  <2>1. UNCHANGED <<ulCaptureState, appVars>>
    BY <1>3, DsrKeepsApp, QuietOthers DEF Dsr, DsrWake, DsrHandler, DsrProcess,
       DsrReadFlags, DsrBuffer, DsrCheckData, DsrDataCall, DsrError, DsrErrorEvent,
       DsrErrorTimeout, DsrFree, DsrStatus, DsrStatusCall, DsrStatusAck,
       DsrStopEvent, DsrEnable, Isr, vars, appVars
  <2>2. QED
    BY <2>1 DEF CallbacksSet, appVars
<1>4. CASE AppStart \/ AppStop \/ AppContinue
  <2>1. UNCHANGED ulCaptureState
    BY <1>4, CallerKeeps
  <2>2. CASE AppStart
    BY <2>1, <2>2 DEF AppStart, AppReturn, CallbacksSet, Inv, RingInv, CallPhase
  <2>3. CASE AppStopClear
    BY <2>1, <2>3 DEF AppStopClear, AppReturn, CallbacksSet, Inv, RingInv, CallPhase,
       Quiet
  <2>4. CASE AppStop
    BY <2>1, <2>4 DEF AppStop, AppReturn, CallbacksSet, Inv, TypeOK, SharedTypeOK
  <2>5. CASE AppContinue /\ ~AppStopClear
    <3>1. UNCHANGED <<pfnData, pfnStatus>> /\ appPc # "idle"
      BY <2>5 DEF AppContinue, AppWait, AppStartSetup, AppWaitCheck, AppWaitEvent,
         AppWaitTimeout, AfterWait, AppStartToggle, AppStopToggle, AppStopComplete
    <3>2. QED
      BY <2>1, <3>1 DEF CallbacksSet
  <2>6. QED
    BY <1>4, <2>2, <2>3, <2>4, <2>5
<1>5. QED
  BY <1>1, <1>2, <1>3, <1>4 DEF Next

LEMMA NoRejectsStep ==
    ASSUME Inv, CallbacksSet, NoRejects, AllFit, [Next]_vars
    PROVE  NoRejects'
<1>1. CASE Dsr
  <2>1. CASE DsrBuffer
    BY <2>1 DEF DsrBuffer, outVars, NoRejects, AllFit
  <2>2. CASE DsrCheckData
    BY <2>2, BusyMeansCallbacks DEF DsrCheckData, NoRejects
  <2>3. CASE ~DsrBuffer /\ ~DsrCheckData
    BY <1>1, <2>3 DEF Dsr, DsrWake, DsrHandler, DsrProcess, DsrReadFlags,
       DsrDataCall, DsrError, DsrErrorEvent, DsrErrorTimeout, DsrFree, DsrStatus,
       DsrStatusCall, DsrStatusAck, DsrStopEvent, DsrEnable, outVars, NoRejects
  <2>4. QED
    BY <2>1, <2>2, <2>3
<1>2. CASE Firmware \/ Isr \/ AppStart \/ AppStop \/ AppContinue
  <2>1. UNCHANGED outVars
    BY <1>2 DEF Firmware, FwFill, FwIndicateData, FwIndicateStatus, FwStart,
       FwStopCommand, FwStopAck, FwOff, FwDriverError, Isr, AppContinue, AppWait,
       AppStart, AppStop, AppStartSetup, AppWaitCheck, AppWaitEvent,
       AppWaitTimeout, AppStartToggle, AppStopToggle, AppStopComplete,
       AppStopClear, othersOfApp
  <2>2. QED
    BY <1>2, <2>1, OthersKeepDsr DEF NoRejects, outVars, dsrVars
<1>3. CASE UNCHANGED vars
  BY <1>3 DEF vars, NoRejects, outVars, dsrVars
<1>4. QED
  BY <1>1, <1>2, <1>3 DEF Next

LEMMA OrderedStep ==
    ASSUME Inv, CallbacksSet, NoRejects, Ordered, [Next]_vars
    PROVE  Ordered'
<1> USE DEF TypeOK, DsrTypeOK
<1>1. CASE DsrDataCall
  <2>1. ulCurrentBuffer \in UsedBuffers /\ ~RingIdle
    BY <1>1, LoopMeansActive DEF DsrDataCall, Inv, RingInv, LoopInWindow, LoopPcs
  <2>2. buf[ulCurrentBuffer] = freed + 1
    <3>1. buf[ulCurrentBuffer] = freed + Distance(ulCurrentBuffer) + 1
      BY <2>1 DEF Inv, RingInv, RingWindow
    <3>2. Distance(ulCurrentBuffer) = 0 /\ freed \in Nat
      BY DEF Inv, Distance
    <3>3. QED
      BY <3>1, <3>2
  <2>3. /\ delivered' = Append(delivered, freed + 1) /\ UNCHANGED freed
        /\ dsrPc = "dataCall" /\ dsrPc' = "free"
    BY <1>1, <2>2 DEF DsrDataCall, ringVars
  <2>4. delivered \in Seq(Nat) /\ freed \in Nat /\ Len(delivered) = freed
    BY <2>3 DEF Inv, Ordered
  <2>5. Len(delivered') = freed + 1 /\ \A k \in 1..freed + 1 : delivered'[k] = k
    BY <2>3, <2>4 DEF Ordered
  <2>6. QED
    BY <2>3, <2>5 DEF Ordered
<1>2. CASE DsrFree
  BY <1>2 DEF DsrFree, Ordered, outVars, Inv
<1>3. CASE Dsr /\ ~DsrDataCall /\ ~DsrFree
  <2>1. UNCHANGED <<delivered, freed>> /\ dsrPc # "free" /\ dsrPc' # "free"
    BY <1>3, BusyMeansCallbacks DEF Dsr, DsrWake, DsrHandler, DsrProcess,
       DsrReadFlags, DsrBuffer, DsrCheckData, DsrError, DsrErrorEvent,
       DsrErrorTimeout, DsrStatus, DsrStatusCall, DsrStatusAck, DsrStopEvent,
       DsrEnable, outVars, ringVars, NoRejects
  <2>2. QED
    BY <2>1 DEF Ordered
<1>4. CASE Firmware \/ Isr \/ AppStart \/ AppStop \/ AppContinue
  <2>1. UNCHANGED <<delivered, freed>>
    BY <1>4 DEF Firmware, FwFill, FwIndicateData, FwIndicateStatus, FwStart,
       FwStopCommand, FwStopAck, FwOff, FwDriverError, Isr, AppContinue, AppWait,
       AppStart, AppStop, AppStartSetup, AppWaitCheck, AppWaitEvent,
       AppWaitTimeout, AppStartToggle, AppStopToggle, AppStopComplete,
       AppStopClear, othersOfApp, outVars, ringVars
  <2>2. QED
    BY <1>4, <2>1, OthersKeepDsr DEF Ordered, dsrVars
<1>5. CASE UNCHANGED vars
  BY <1>5 DEF vars, Ordered, outVars, ringVars, dsrVars
<1>6. QED
  BY <1>1, <1>2, <1>3, <1>4, <1>5 DEF Next

LEMMA ReturnedStateStep ==
    ASSUME Inv, ReturnedState, OnCommand, [Next]_vars
    PROVE  ReturnedState'
<1>1. CASE Firmware
  <2>1. UNCHANGED <<appPc, lastRet>>
    BY <1>1 DEF Firmware, FwFill, FwIndicateData, FwIndicateStatus, FwStart,
       FwStopCommand, FwStopAck, FwOff, FwDriverError, appVars
  <2>2. appPc = "idle" => ~FwStart /\ ~FwOff
    BY StartIsWaitedFor DEF FwOff, OnCommand, Inv, RingInv, CallPhase
  <2>3. appPc = "idle" => UNCHANGED ulCaptureState
    BY <1>1, <2>2 DEF Firmware, FwFill, FwIndicateData, FwIndicateStatus,
       FwStopCommand, FwStopAck, FwDriverError
  <2>4. QED
    BY <2>1, <2>3 DEF ReturnedState
<1>2. CASE Isr \/ Dsr \/ UNCHANGED vars
  <2>1. UNCHANGED <<ulCaptureState, appVars>>
    BY <1>2, DsrKeepsApp DEF Dsr, DsrWake, DsrHandler, DsrProcess,
       DsrReadFlags, DsrBuffer, DsrCheckData, DsrDataCall, DsrError, DsrErrorEvent,
       DsrErrorTimeout, DsrFree, DsrStatus, DsrStatusCall, DsrStatusAck,
       DsrStopEvent, DsrEnable, Isr, vars, appVars
  <2>2. QED
    BY <2>1 DEF ReturnedState, appVars
<1>3. CASE AppStart \/ AppStop \/ AppContinue
  <2>1. UNCHANGED ulCaptureState
    BY <1>3, CallerKeeps
  <2>2. CASE AppStart \/ AppStop
    BY <2>1, <2>2 DEF AppStart, AppStop, AppReturn, ReturnedState, Inv, TypeOK, SharedTypeOK
  <2>3. CASE AppStopClear
    BY <2>1, <2>3 DEF AppStopClear, AppReturn, ReturnedState, Inv, RingInv, CallPhase,
       Quiet
  <2>4. CASE AppWait
    <3>1. CASE appPc' # "idle"
      BY <3>1 DEF ReturnedState
    <3>2. CASE appPc' = "idle"
      <4>1. appPc = "startAck" /\ BitEqual("STARTSTOP") /\ lastRet' = "started"
        BY <2>4, <3>2 DEF AppWait, AppWaitCheck, AppWaitEvent, AppWaitTimeout,
           AppWaitDone, AfterWait, OnCommand
      <4>2. ulCaptureState = "RUNNING"
        BY <4>1, WaitMeansAnswered DEF Inv, RingInv, CallPhase, TypeOK, SharedTypeOK
      <4>3. QED
        BY <2>1, <4>1, <4>2 DEF ReturnedState
    <3>3. QED
      BY <3>1, <3>2
  <2>5. CASE AppStartSetup \/ AppStartToggle \/ AppStopToggle \/ AppStopComplete
    BY <2>5 DEF AppStartSetup, AppStartToggle, AppStopToggle, AppStopComplete,
       ReturnedState
  <2>6. QED
    BY <1>3, <2>2, <2>3, <2>4, <2>5 DEF AppContinue
<1>4. QED
  BY <1>1, <1>2, <1>3 DEF Next

-----------------------------------------------------------------------------
DeliveryInv == CallbacksSet /\ NoRejects /\ Ordered /\ ReturnedState

LEMMA DeliveryInvariant ==
    ASSUME OnCommand, AllFit
    PROVE  Spec => [](Inv /\ DeliveryInv)
<1>1. Init => DeliveryInv
  BY DEF Init, DeliveryInv, CallbacksSet, NoRejects, Ordered, ReturnedState
<1>2. Inv /\ DeliveryInv /\ [Next]_vars => DeliveryInv'
  BY CallbacksSetStep, NoRejectsStep, OrderedStep, ReturnedStateStep DEF DeliveryInv
<1>3. Spec => []Inv
  <2>1. TypeOK /\ IrqInv /\ RingInv <=> Inv
    BY DEF Inv
  <2>2. QED
    BY <2>1, RingInvariant, PTL
<1>4. QED
  BY <1>1, <1>2, <1>3, PTL DEF Spec

(* Every buffer the firmware fills reaches pfnData once and in order       *)
(* (netana_capture.c:111-196), for every number of buffers, fills and      *)
(* captures.                                                               *)
THEOREM DeliveredInOrder ==
    ASSUME OnCommand, AllFit
    PROVE  Spec => []InOrder
<1>1. Inv /\ DeliveryInv => InOrder
  <2>1. SUFFICES ASSUME Inv, DeliveryInv PROVE InOrder
    OBVIOUS
  <2>2. delivered \in Seq(Nat) /\ \A k \in 1..Len(delivered) : delivered[k] = k
    BY <2>1 DEF Inv, TypeOK, DsrTypeOK, DeliveryInv, Ordered
  <2>3. delivered = [k \in 1..Len(delivered) |-> k]
    BY <2>2
  <2>4. QED
    BY <2>1, <2>3 DEF InOrder, DeliveryInv, Ordered, NoRejects
<1>2. QED
  BY <1>1, DeliveryInvariant, PTL

(* netana_stop_capture clears the callbacks (netana_functions.c:1011) only *)
(* when the DSR is not about to call one, even with oversized buffers: it  *)
(* waits until the DSR has seen the capture off.                           *)
THEOREM CallbacksOutliveTheirCalls ==
    ASSUME OnCommand
    PROVE  Spec => []CallbackValid
<1>1. Init => CallbacksSet
  BY DEF Init, CallbacksSet
<1>2. Inv /\ CallbacksSet /\ [Next]_vars => CallbacksSet'
  BY CallbacksSetStep
<1>3. Inv /\ CallbacksSet => CallbackValid
  BY BusyMeansCallbacks DEF CallbackValid
<1>4. TypeOK /\ IrqInv /\ RingInv <=> Inv
  BY DEF Inv
<1>5. QED
  BY <1>1, <1>2, <1>3, <1>4, RingInvariant, PTL DEF Spec

(* The result of netana_start_capture and netana_stop_capture says what is *)
(* so (netana_functions.c:858-1018): after "started" the capture runs,     *)
(* after "stopped" it is off and nothing of it is left undelivered.        *)
THEOREM ReturnCodesAreTrue ==
    ASSUME OnCommand, AllFit
    PROVE  Spec => []ReturnMeansState
<1>1. Inv /\ DeliveryInv => ReturnMeansState
  <2>1. SUFFICES ASSUME Inv, DeliveryInv, appPc = "idle" PROVE ReturnMeansState
    BY DEF ReturnMeansState
  <2>2. ulCaptureState = "OFF" =>
           filled = freed /\ ~fwInd /\ dsrPc # "free" /\ Len(delivered) = freed
    BY <2>1 DEF Inv, RingInv, CallPhase, Quiet, DeliveryInv, Ordered
  <2>3. QED
    BY <2>1, <2>2 DEF DeliveryInv, ReturnedState, ReturnMeansState
<1>2. QED
  BY <1>1, DeliveryInvariant, PTL

-----------------------------------------------------------------------------
(* The refinement of CaptureFifo: the initial states map to its initial    *)
(* state, and every step to one of its steps or to a stutter.              *)

LEMMA FifoInit == Init => Fifo!Init
  BY DEF Init, Fifo!Init, InSession

LEMMA FifoFill ==
    ASSUME Inv, DeliveryInv, FwFill
    PROVE  Fifo!Put
<1>1. InSession /\ filled' = filled + 1 /\ filled < MaxFill
      /\ UNCHANGED <<ulCaptureState, appPc, delivered>>
  BY DEF FwFill, InSession, outVars, appVars
<1>2. filled - freed < NumBuffers
  <2>1. RingWindow /\ ~RingIdle
    BY DEF Inv, RingInv, FwFill, RingIdle
  <2>2. /\ filled - freed \in 0..NumBuffers /\ filled \in Nat /\ freed \in Nat
        /\ UsedBuffers = {i \in Buffers : Distance(i) < filled - freed}
        /\ fwNext \in Buffers /\ fwNext \notin UsedBuffers /\ ulCurrentBuffer \in Buffers
    BY <2>1 DEF RingWindow, Inv, FwFill, TypeOK, SharedTypeOK, DsrTypeOK
  <2>3. Distance(fwNext) < NumBuffers
    BY <2>2 DEF Distance
  <2>4. QED
    BY <2>2, <2>3
<1>3. Len(delivered) \in {freed, freed + 1} /\ filled \in Nat /\ freed \in Nat
  BY DEF DeliveryInv, Ordered, Inv, TypeOK, SharedTypeOK, DsrTypeOK
<1>4. filled - Len(delivered) < NumBuffers
  BY <1>2, <1>3
<1>5. QED
  BY <1>1, <1>4 DEF Fifo!Put, InSession

LEMMA FifoGet ==
    ASSUME Inv, DeliveryInv, DsrDataCall
    PROVE  Fifo!Get
<1> USE DEF TypeOK, SharedTypeOK, DsrTypeOK
<1>1. /\ dsrPc = "dataCall"
      /\ delivered' = Append(delivered, buf[ulCurrentBuffer])
      /\ UNCHANGED <<filled, ulCaptureState, appPc>>
  BY DEF DsrDataCall, dmaVars, appVars
<1>2. InSession
  BY <1>1 DEF InSession, Inv, RingInv, CallPhase, Quiet, AppTypeOK, AppPcs
<1>3. ulCurrentBuffer \in UsedBuffers /\ RingWindow /\ ~RingIdle
  BY <1>1, LoopMeansActive DEF Inv, RingInv, LoopInWindow, LoopPcs
<1>4. Distance(ulCurrentBuffer) = 0 /\ freed \in Nat /\ filled \in Nat
  BY DEF Inv, Distance
<1>5. 0 < filled - freed /\ buf[ulCurrentBuffer] = freed + 1
  BY <1>3, <1>4 DEF RingWindow
<1>6. Len(delivered) = freed
  BY <1>1 DEF DeliveryInv, Ordered
<1>7. QED
  BY <1>1, <1>2, <1>4, <1>5, <1>6 DEF Fifo!Get, InSession

(* The other steps of firmware and DSR.                                    *)
LEMMA FifoFirmware ==
    ASSUME Inv, OnCommand, Firmware, ~FwFill
    PROVE  Fifo!Start \/ UNCHANGED Fifo!fifo
<1>1. UNCHANGED <<filled, delivered, appPc>>
  BY DEF Firmware, FwIndicateData, FwIndicateStatus, FwStart, FwStopCommand,
     FwStopAck, FwOff, FwDriverError, dmaVars, outVars, appVars
<1>2. CASE FwStart
  <2>1. ulCaptureState = "OFF" /\ ulCaptureState' = "RUNNING" /\ appPc = "startAck"
    BY <1>2, StartIsWaitedFor DEF FwStart
  <2>2. QED
    BY <1>1, <2>1 DEF Fifo!Start, InSession
<1>3. CASE FwOff
  <2>1. appPc \in {"stopAck", "stopComplete"}
    BY <1>3 DEF FwOff, OnCommand, Inv, RingInv, CallPhase
  <2>2. QED
    BY <1>1, <2>1 DEF Fifo!fifo, InSession
<1>4. CASE ~FwStart /\ ~FwOff
  <2>1. UNCHANGED ulCaptureState
    BY <1>4 DEF Firmware, FwIndicateData, FwIndicateStatus, FwStopCommand,
       FwStopAck, FwDriverError
  <2>2. QED
    BY <1>1, <2>1 DEF Fifo!fifo, InSession
<1>5. QED
  BY <1>2, <1>3, <1>4

LEMMA FifoDsr ==
    ASSUME Dsr, ~DsrDataCall
    PROVE  UNCHANGED Fifo!fifo
<1>1. UNCHANGED <<filled, delivered, ulCaptureState, appPc>>
  BY DEF Dsr, DsrWake, DsrHandler, DsrProcess, DsrReadFlags, DsrBuffer,
     DsrCheckData, DsrError, DsrErrorEvent, DsrErrorTimeout, DsrFree, DsrStatus,
     DsrStatusCall, DsrStatusAck, DsrStopEvent, DsrEnable, dmaVars, outVars, appVars
<1>2. QED
  BY <1>1 DEF Fifo!fifo, InSession

(* A call ends the session where it clears the callbacks, with everything  *)
(* delivered.                                                              *)
LEMMA FifoCaller ==
    ASSUME Inv, DeliveryInv, OnCommand, AppStart \/ AppStop \/ AppContinue
    PROVE  Fifo!Stop \/ UNCHANGED Fifo!fifo
<1>1. UNCHANGED <<ulCaptureState, filled>>
  BY CallerKeeps
<1>2. UNCHANGED delivered
  BY DEF AppStart, AppStop, AppContinue, AppWait, AppStartSetup, AppWaitCheck,
     AppWaitEvent, AppWaitTimeout, AppStartToggle, AppStopToggle, AppStopComplete,
     AppStopClear, othersOfApp, outVars
<1>3. CASE AppStopClear
  <2>1. /\ appPc = "stopClear" /\ appPc' = "idle" /\ ulCaptureState = "OFF"
        /\ filled = freed /\ dsrPc # "free"
    BY <1>3 DEF AppStopClear, AppReturn, Inv, RingInv, CallPhase, Quiet
  <2>2. Len(delivered) = filled
    BY <2>1 DEF DeliveryInv, Ordered
  <2>3. QED
    BY <1>1, <1>2, <2>1, <2>2 DEF Fifo!Stop, InSession
<1>4. CASE ~AppStopClear
  <2>1. appPc \in {"stopAck", "stopComplete", "stopClear"} =>
           appPc' \in {"stopAck", "stopComplete", "stopClear"}
    BY <1>4 DEF AppStart, AppStop, AppContinue, AppWait, AppStartSetup,
       AppWaitCheck, AppWaitEvent, AppWaitTimeout, AppWaitDone, AfterWait,
       AppReturn, AppStartToggle, AppStopToggle, AppStopComplete, OnCommand
  <2>2. appPc \notin {"stopAck", "stopComplete", "stopClear"}
        /\ appPc' \in {"stopAck", "stopComplete", "stopClear"}
           => ulCaptureState = "RUNNING"
    BY <1>4 DEF AppStart, AppStop, AppContinue, AppWait, AppStartSetup,
       AppWaitCheck, AppWaitEvent, AppWaitTimeout, AppWaitDone, AfterWait,
       AppReturn, AppStartToggle, AppStopToggle, AppStopComplete, Inv, RingInv,
       CallPhase
  <2>3. QED
    BY <1>1, <1>2, <2>1, <2>2 DEF Fifo!fifo, InSession
<1>5. QED
  BY <1>3, <1>4

LEMMA FifoStep ==
    ASSUME Inv, DeliveryInv, OnCommand, [Next]_vars
    PROVE  [Fifo!Next]_(Fifo!fifo)
<1>1. CASE Isr \/ UNCHANGED vars
  <2>1. UNCHANGED <<filled, delivered, ulCaptureState, appPc>>
    BY <1>1 DEF Isr, vars, dmaVars, outVars, appVars
  <2>2. QED
    BY <2>1 DEF Fifo!fifo, InSession
<1>2. QED
  BY <1>1, FifoFill, FifoGet, FifoFirmware, FifoDsr, FifoCaller
     DEF Next, Fifo!Next

(* To the consumer of the data, firmware, ring, interrupt, DSR and calls   *)
(* together are the bounded FIFO of CaptureFifo, whatever their number of  *)
(* buffers, fills and calls.                                               *)
THEOREM CaptureIsAFifo ==
    ASSUME OnCommand, AllFit
    PROVE  Spec => ImplementsFifo
<1>1. Inv /\ DeliveryInv /\ [Next]_vars => [Fifo!Next]_(Fifo!fifo)
  BY FifoStep
<1>2. QED
  BY <1>1, FifoInit, DeliveryInvariant, PTL DEF Spec, ImplementsFifo, Fifo!Spec
=============================================================================
