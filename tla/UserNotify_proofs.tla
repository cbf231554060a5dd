-------------------------- MODULE UserNotify_proofs ---------------------------
(***************************************************************************)
(* Proofs about UserNotify, for every number of buffers, fills, calls and  *)
(* opens: what netana_read copies is the buffer the DSR holds for it, and  *)
(* the whole is the hand-over of BufferHandover.                           *)
(***************************************************************************)
EXTENDS UserNotify, TLAPS

USE NotifyAssumption

-----------------------------------------------------------------------------
(* The invariant. *)

\* The buffers of a round lie between those given back and those filled.
RoundInv ==
    /\ todo <= filled
    /\ dsrPc # "wait" => freed <= todo
    /\ dsrPc \in {"publish", "count", "dataWait"} => freed < todo

\* Between the reset of the counters on open and the last signal of a close.
InUse == ctl \notin {"closed", "opening", "relData", "relStatus", "relClose"}

(* Where the close is, and what it has already switched off.               *)
CloseInv ==
    /\ ctl \in {"relFlags", "relData", "relStatus", "relClose"} => inRelease
    /\ ~InUse => ~captureactive
    /\ rd # "idle" => InUse /\ ~inRelease

(* While the device is in use, an event that nobody has taken, a read that *)
(* is under way and a signal not yet consumed exclude each other, and each *)
(* finds the DSR waiting with its buffer.                                  *)
HandoverInv ==
    /\ dsrPc = "count" => data = freed + 1
    /\ InUse /\ data_read_sig =>
           dsrPc = "dataWait" /\ rd = "idle" /\ data_event = data_read
    /\ InUse /\ data_event # data_read =>
           dsrPc = "dataWait" /\ rd = "idle" /\ data = freed + 1
    /\ rd # "idle" =>
           /\ dsrPc = "dataWait" /\ data_event = data_read
           /\ data = IF rd = "signal" THEN 0 ELSE freed + 1

(* The user has nothing newer than the buffer the DSR holds, and has that  *)
(* one only when it is no longer published.                                *)
GotInv ==
    /\ \A i \in 1 .. Len(got) :
          \/ got[i] <= freed
          \/ got[i] = freed + 1 /\ dsrPc = "dataWait" /\ data = 0
    /\ ReadsAdvance

(* A signal that lets the DSR go comes from a read of its buffer or from a *)
(* close.                                                                  *)
HasRead == \E i \in 1 .. Len(got) : got[i] = freed + 1

SignalInv ==
    /\ rd = "signal" => HasRead
    /\ dsrPc \in {"publish", "count", "dataWait"} /\ data_read_sig =>
           closedSince \/ (dsrPc = "dataWait" /\ HasRead)

NotifyInv == RoundInv /\ CloseInv /\ HandoverInv /\ GotInv /\ SignalInv

Flags == {newStatus, pfnData, pfnStatus, hStopComplete, stat, captureactive,
          notify_interrupts, hdevice, data_read_sig, status_read_sig, inRelease,
          closedSince}

(* Facts about sequences of buffer numbers. *)
LEMMA SeqElement ==
    ASSUME NEW s \in Seq(Nat), NEW i \in 1 .. Len(s)
    PROVE  s[i] \in Nat
  OBVIOUS

LEMMA AppendFacts ==
    ASSUME NEW s \in Seq(Nat), NEW e \in Nat
    PROVE  /\ Len(s) \in Nat
           /\ Len(Append(s, e)) = Len(s) + 1 /\ Append(s, e)[Len(s) + 1] = e
           /\ \A i \in 1 .. Len(s) : Append(s, e)[i] = s[i]
  OBVIOUS

(* A greater element keeps a sequence increasing. *)
LEMMA IncreasingAppend ==
    ASSUME NEW s \in Seq(Nat), NEW e \in Nat,
           \A i \in 1 .. Len(s) : s[i] < e,
           \A i \in 1 .. Len(s) - 1 : s[i] < s[i + 1]
    PROVE  \A i \in 1 .. Len(Append(s, e)) - 1 : Append(s, e)[i] < Append(s, e)[i + 1]
<1>1. Len(Append(s, e)) - 1 = Len(s)
  BY AppendFacts
<1>2. SUFFICES ASSUME NEW i \in 1 .. Len(s)
               PROVE  Append(s, e)[i] < Append(s, e)[i + 1]
  BY <1>1
<1>3. CASE i = Len(s)
  BY <1>3, AppendFacts
<1>4. CASE i # Len(s)
  <2>1. i \in 1 .. Len(s) - 1 /\ i + 1 \in 1 .. Len(s)
    BY <1>4
  <2>2. QED
    BY <2>1, AppendFacts
<1>5. QED
  BY <1>3, <1>4

(* The types. *)
LEMMA TypeStep ==
    ASSUME TypeOK, RoundInv, [Next]_vars
    PROVE  TypeOK'
<1> USE DEF TypeOK, RoundInv, tkVars, pfnVars, dsrVars, flagVars,
            dataVars, statVars, ctlVars, rdVars, notCtl, notReader
<1>1. CASE FwFill
  BY <1>1 DEF FwFill
<1>2. CASE FwAnswer
  BY <1>2 DEF FwAnswer
<1>3. CASE DsrTake
  BY <1>3 DEF DsrTake, RoundBuffers
<1>4. CASE DsrBuffer
  <2>1. CASE pfnData /\ captureactive /\ notify_interrupts
    BY <1>4, <2>1 DEF DsrBuffer
  <2>2. CASE ~(pfnData /\ captureactive /\ notify_interrupts)
    BY <1>4, <2>2 DEF DsrBuffer, FreeBuffer
  <2>3. QED
    BY <2>1, <2>2
<1>5. CASE DsrPublish
  BY <1>5 DEF DsrPublish
<1>6. CASE DsrCount
  BY <1>6 DEF DsrCount
<1>7. CASE DsrDataRead
  <2>1. freed' = freed + 1 /\ UNCHANGED filled /\ freed < filled
    BY <1>7 DEF DsrDataRead, FreeBuffer
  <2>2. freed' \in Nat /\ freed' <= filled' /\ filled' - freed' <= NumBuffers
    BY <2>1
  <2>3. Flags' \subseteq BOOLEAN
    BY <1>7 DEF DsrDataRead, DataWaitOver, Flags
  <2>4. QED
    BY <1>7, <2>2, <2>3 DEF DsrDataRead, Flags
<1>8. CASE DsrStatus
  BY <1>8 DEF DsrStatus
<1>9. CASE DsrNotifyState
  BY <1>9 DEF DsrNotifyState
<1>10. CASE DsrStatusRead
  BY <1>10 DEF DsrStatusRead, StatusWaitOver
<1>11. CASE DsrStatusAck
  BY <1>11 DEF DsrStatusAck
<1>12. CASE Open
  BY <1>12 DEF Open
<1>13. CASE Start
  BY <1>13 DEF Start
<1>14. CASE Stop
  <2>1. ctl' \in {"open", "relFlags", "stopWait"}
    BY <1>14 DEF Stop, StopCall
  <2>2. Flags' \subseteq BOOLEAN
    BY <1>14 DEF Stop, Flags
  <2>3. QED
    BY <1>14, <2>1, <2>2 DEF Stop, Flags
<1>15. CASE Release
  BY <1>15 DEF Release, StopCall
<1>16. CASE OpenReset
  BY <1>16 DEF OpenReset
<1>17. CASE StartCommand
  BY <1>17 DEF StartCommand
<1>18. CASE StartAck
  BY <1>18 DEF StartAck
<1>19. CASE StartActive
  BY <1>19 DEF StartActive
<1>20. CASE StopCommand
  BY <1>20 DEF StopCommand
<1>21. CASE StopAck
  BY <1>21 DEF StopAck
<1>22. CASE StopComplete
  BY <1>22 DEF StopComplete, StopReturns
<1>23. CASE BitWaitTimeout
  BY <1>23 DEF BitWaitTimeout, StopReturns
<1>24. CASE ReleaseFlags
  BY <1>24 DEF ReleaseFlags, ReleaseDisables
<1>25. CASE ReleaseData
  BY <1>25 DEF ReleaseData
<1>26. CASE ReleaseStatus
  BY <1>26 DEF ReleaseStatus
<1>27. CASE ReleaseClose
  BY <1>27 DEF ReleaseClose
<1>28. CASE ReadTake
  BY <1>28 DEF ReadTake, FileOpen
<1>29. CASE ReadLook
  BY <1>29 DEF ReadLook
<1>30. CASE ReadCopy
  BY <1>30 DEF ReadCopy
<1>31. CASE ReadSignal
  BY <1>31 DEF ReadSignal
<1>32. CASE ShowCheck
  BY <1>32 DEF ShowCheck
<1>33. CASE ShowSignal
  <2>1. CASE status_read # status_event
    BY <1>33, <2>1 DEF ShowSignal
  <2>2. CASE status_read = status_event
    BY <1>33, <2>2 DEF ShowSignal
  <2>3. QED
    BY <2>1, <2>2
<1>34. CASE UNCHANGED vars
  BY <1>34 DEF vars
<1>35. QED
  BY <1>1, <1>2, <1>3, <1>4, <1>5, <1>6, <1>7, <1>8, <1>9, <1>10, <1>11, <1>12,
     <1>13, <1>14, <1>15, <1>16, <1>17, <1>18, <1>19, <1>20, <1>21, <1>22,
     <1>23, <1>24, <1>25, <1>26, <1>27, <1>28, <1>29, <1>30, <1>31, <1>32,
     <1>33, <1>34 DEF Next, Dsr, CtlContinue, ReadContinue

(* The copy: the buffer is newer than all the user has.                    *)
LEMMA CopyStep ==
    ASSUME TypeOK, NotifyInv, ReadCopy
    PROVE  NotifyInv'
<1>1. /\ rd = "copy" /\ rd' = "signal" /\ data = freed + 1 /\ data' = 0
      /\ got' = Append(got, freed + 1) /\ dsrPc = "dataWait"
      /\ UNCHANGED <<todo, filled, freed, ctl, inRelease, captureactive, dsrPc,
                     data_event, data_read, data_read_sig, closedSince>>
  BY DEF ReadCopy, notReader, NotifyInv, HandoverInv, tkVars, dsrVars, ctlVars,
     flagVars
<1>2. RoundInv' /\ CloseInv' /\ HandoverInv'
  BY <1>1 DEF NotifyInv, RoundInv, CloseInv, HandoverInv, InUse
<1>3. got \in Seq(Nat) /\ freed \in Nat
  BY DEF TypeOK
<1>4. /\ Len(got') = Len(got) + 1 /\ got'[Len(got) + 1] = freed + 1
      /\ \A i \in 1 .. Len(got) : got'[i] = got[i]
      /\ Len(got) \in Nat
  BY <1>1, <1>3, AppendFacts
<1>5. \A i \in 1 .. Len(got) : got[i] \in Nat /\ got[i] <= freed
  BY <1>1, <1>3, SeqElement DEF NotifyInv, GotInv
<1>6. \A i \in 1 .. Len(got') : got'[i] <= freed \/ got'[i] = freed + 1
  <2>1. SUFFICES ASSUME NEW i \in 1 .. Len(got')
                 PROVE  got'[i] <= freed \/ got'[i] = freed + 1
    OBVIOUS
  <2>2. i \in 1 .. Len(got) \/ i = Len(got) + 1
    BY <1>4
  <2>3. QED
    BY <1>4, <1>5, <2>2
<1>7. ReadsAdvance'
  <2>1. \A i \in 1 .. Len(got) : got[i] < freed + 1
    BY <1>3, <1>5
  <2>2. \A i \in 1 .. Len(got) - 1 : got[i] < got[i + 1]
    BY DEF NotifyInv, GotInv, ReadsAdvance
  <2>3. freed + 1 \in Nat
    BY <1>3
  <2>4. QED
    BY <1>1, <1>3, <2>1, <2>2, <2>3, IncreasingAppend DEF ReadsAdvance
<1>8. GotInv'
  BY <1>1, <1>6, <1>7 DEF GotInv
<1>9. HasRead'
  <2>1. Len(got) + 1 \in 1 .. Len(got')
    BY <1>4
  <2>2. QED
    BY <1>1, <1>4, <2>1 DEF HasRead
<1>10. QED
  BY <1>1, <1>2, <1>8, <1>9 DEF NotifyInv, SignalInv

(* Every step keeps the invariant. *)
LEMMA NotifyStep ==
    ASSUME TypeOK, NotifyInv, [Next]_vars
    PROVE  NotifyInv'
<1> USE DEF TypeOK, NotifyInv, RoundInv, CloseInv, HandoverInv, GotInv,
   SignalInv, InUse, HasRead,
            ReadsAdvance, tkVars, pfnVars, dsrVars, flagVars,
            dataVars, statVars, ctlVars, rdVars, notCtl, notReader
<1>1. CASE FwFill
  BY <1>1 DEF FwFill
<1>2. CASE FwAnswer
  BY <1>2 DEF FwAnswer
<1>3. CASE DsrTake
  BY <1>3 DEF DsrTake, RoundBuffers
<1>4. CASE DsrBuffer
  BY <1>4 DEF DsrBuffer, FreeBuffer
<1>5. CASE DsrPublish
  BY <1>5 DEF DsrPublish
<1>6. CASE DsrCount
  BY <1>6 DEF DsrCount
<1>7. CASE DsrDataRead
  <2>1. /\ dsrPc = "dataWait" /\ dsrPc' = "loop" /\ freed' = freed + 1
        /\ data_read_sig = TRUE /\ data_read_sig' = FALSE
        /\ UNCHANGED <<todo, filled, ctl, inRelease, captureactive, rd, data,
                       data_event, data_read, got>>
    BY <1>7 DEF DsrDataRead, FreeBuffer, DataWaitOver
  <2>2. RoundInv' /\ CloseInv'
    BY <2>1
  <2>3. rd = "idle" /\ (InUse => data_event = data_read)
    BY <2>1
  <2>4. HandoverInv' /\ SignalInv'
    BY <2>1, <2>3
  <2>5. GotInv'
    <3>1. \A i \in 1 .. Len(got) : got[i] \in Nat
      BY SeqElement
    <3>2. \A i \in 1 .. Len(got) : got[i] <= freed'
      BY <2>1, <3>1
    <3>3. QED
      BY <2>1, <3>2
  <2>6. QED
    BY <2>2, <2>4, <2>5
<1>8. CASE DsrStatus
  BY <1>8 DEF DsrStatus
<1>9. CASE DsrNotifyState
  BY <1>9 DEF DsrNotifyState
<1>10. CASE DsrStatusRead
  BY <1>10 DEF DsrStatusRead, StatusWaitOver
<1>11. CASE DsrStatusAck
  BY <1>11 DEF DsrStatusAck
<1>12. CASE Open
  BY <1>12 DEF Open
<1>13. CASE Start
  BY <1>13 DEF Start
<1>14. CASE Stop
  BY <1>14 DEF Stop, StopCall
<1>15. CASE Release
  BY <1>15 DEF Release, StopCall
<1>16. CASE OpenReset
  BY <1>16 DEF OpenReset
<1>17. CASE StartCommand
  BY <1>17 DEF StartCommand
<1>18. CASE StartAck
  BY <1>18 DEF StartAck
<1>19. CASE StartActive
  BY <1>19 DEF StartActive
<1>20. CASE StopCommand
  BY <1>20 DEF StopCommand
<1>21. CASE StopAck
  BY <1>21 DEF StopAck
<1>22. CASE StopComplete
  BY <1>22 DEF StopComplete, StopReturns
<1>23. CASE BitWaitTimeout
  BY <1>23 DEF BitWaitTimeout, StopReturns
<1>24. CASE ReleaseFlags
  BY <1>24 DEF ReleaseFlags, ReleaseDisables
<1>25. CASE ReleaseData
  BY <1>25 DEF ReleaseData
<1>26. CASE ReleaseStatus
  BY <1>26 DEF ReleaseStatus
<1>27. CASE ReleaseClose
  BY <1>27 DEF ReleaseClose
<1>28. CASE ReadTake
  BY <1>28 DEF ReadTake, FileOpen
<1>29. CASE ReadLook
  BY <1>29 DEF ReadLook
<1>30. CASE ReadCopy
  BY <1>30, CopyStep
<1>31. CASE ReadSignal
  BY <1>31 DEF ReadSignal
<1>32. CASE ShowCheck
  BY <1>32 DEF ShowCheck
<1>33. CASE ShowSignal
  BY <1>33 DEF ShowSignal
<1>34. CASE UNCHANGED vars
  BY <1>34 DEF vars
<1>35. QED
  BY <1>1, <1>2, <1>3, <1>4, <1>5, <1>6, <1>7, <1>8, <1>9, <1>10, <1>11, <1>12,
     <1>13, <1>14, <1>15, <1>16, <1>17, <1>18, <1>19, <1>20, <1>21, <1>22,
     <1>23, <1>24, <1>25, <1>26, <1>27, <1>28, <1>29, <1>30, <1>31, <1>32,
     <1>33, <1>34 DEF Next, Dsr, CtlContinue, ReadContinue

-----------------------------------------------------------------------------
(* The theorems. *)

(* NotifyInv is inductive, on top of the types.                            *)
THEOREM NotifyInvariant == Spec => [](TypeOK /\ NotifyInv)
<1>1. Init => TypeOK /\ NotifyInv
  <2>1. Init => TypeOK
    <3>1. Init => Flags \subseteq BOOLEAN
      BY DEF Init, Flags
    <3>2. QED
      BY <3>1 DEF Init, TypeOK, Flags
  <2>2. Init => RoundInv /\ CloseInv /\ HandoverInv
    BY DEF Init, RoundInv, CloseInv, HandoverInv, InUse
  <2>3. Init => GotInv /\ SignalInv
    BY DEF Init, GotInv, SignalInv, ReadsAdvance
  <2>4. QED
    BY <2>1, <2>2, <2>3 DEF NotifyInv
<1>2. TypeOK /\ NotifyInv /\ [Next]_vars => (TypeOK /\ NotifyInv)'
  BY TypeStep, NotifyStep DEF NotifyInv
<1>3. QED
  BY <1>1, <1>2, PTL DEF Spec

(* netana_read copies from a buffer the DSR holds for it (netana.c:583):   *)
(* whatever is closed, reopened, stopped or times out meanwhile, the       *)
(* buffer has not gone back to the firmware.                               *)
THEOREM CopiedBufferIsHeld == Spec => []ReadIsHeld
<1>1. NotifyInv => ReadIsHeld
  BY DEF NotifyInv, HandoverInv, ReadIsHeld
<1>2. QED
  BY <1>1, NotifyInvariant, PTL

(* No buffer is read twice and none after a newer one.                     *)
THEOREM ReadsAreInOrder == Spec => []ReadsAdvance
<1>1. NotifyInv => ReadsAdvance
  BY DEF NotifyInv, GotInv
<1>2. QED
  BY <1>1, NotifyInvariant, PTL

-----------------------------------------------------------------------------
(* The refinement of BufferHandover: a fill, the DSR's look at a buffer    *)
(* and its return from the notification, the copy and the close are steps  *)
(* of it; the other actions leave what it sees alone.                      *)

\* The DSR holds a buffer for the user.
Holding == dsrPc \in {"publish", "count", "dataWait"}

\* The actions the user's side does not notice.
Unseen ==
    \/ FwAnswer \/ DsrTake \/ DsrPublish \/ DsrCount \/ DsrStatus
    \/ DsrNotifyState \/ DsrStatusRead \/ DsrStatusAck
    \/ Open \/ OpenReset \/ Start \/ StartCommand \/ StartAck \/ StartActive
    \/ Stop \/ StopCommand \/ StopAck \/ StopComplete \/ BitWaitTimeout
    \/ Release \/ ReleaseFlags \/ ReleaseStatus \/ ReleaseClose
    \/ ReadTake \/ ReadLook \/ ReadSignal \/ ShowCheck \/ ShowSignal

LEMMA UnseenStutters ==
    ASSUME Unseen
    PROVE  UNCHANGED Handover!handover
<1>1. UNCHANGED <<filled, freed, closedSince, got>> /\ Holding' = Holding
  <2> USE DEF Holding, notCtl, notReader, tkVars, dsrVars, rdVars
  <2>1. CASE FwAnswer
    BY <2>1 DEF FwAnswer
  <2>2. CASE DsrTake
    BY <2>2 DEF DsrTake
  <2>3. CASE DsrCount
    BY <2>3 DEF DsrCount
  <2>4. CASE DsrStatus
    BY <2>4 DEF DsrStatus
  <2>5. CASE DsrNotifyState
    BY <2>5 DEF DsrNotifyState
  <2>6. CASE DsrStatusRead
    BY <2>6 DEF DsrStatusRead
  <2>7. CASE DsrStatusAck
    BY <2>7 DEF DsrStatusAck
  <2>8. CASE Open
    BY <2>8 DEF Open
  <2>9. CASE Start
    BY <2>9 DEF Start
  <2>10. CASE Stop
    BY <2>10 DEF Stop
  <2>11. CASE Release
    BY <2>11 DEF Release
  <2>12. CASE OpenReset
    BY <2>12 DEF OpenReset
  <2>13. CASE StartCommand
    BY <2>13 DEF StartCommand
  <2>14. CASE StartAck
    BY <2>14 DEF StartAck
  <2>15. CASE StartActive
    BY <2>15 DEF StartActive
  <2>16. CASE StopCommand
    BY <2>16 DEF StopCommand
  <2>17. CASE StopAck
    BY <2>17 DEF StopAck
  <2>18. CASE StopComplete
    BY <2>18 DEF StopComplete
  <2>19. CASE BitWaitTimeout
    BY <2>19 DEF BitWaitTimeout
  <2>20. CASE ReleaseFlags
    BY <2>20 DEF ReleaseFlags
  <2>21. CASE ReleaseStatus
    BY <2>21 DEF ReleaseStatus
  <2>22. CASE ReleaseClose
    BY <2>22 DEF ReleaseClose
  <2>23. CASE ReadTake
    BY <2>23 DEF ReadTake
  <2>24. CASE ReadLook
    BY <2>24 DEF ReadLook
  <2>25. CASE ReadSignal
    BY <2>25 DEF ReadSignal
  <2>26. CASE ShowCheck
    BY <2>26 DEF ShowCheck
  <2>27. CASE ShowSignal
    BY <2>27 DEF ShowSignal
  <2>28. CASE DsrPublish
    BY <2>28 DEF DsrPublish
  <2>29. QED
    BY <2>1, <2>2, <2>3, <2>4, <2>5, <2>6, <2>7, <2>8, <2>9, <2>10, <2>11,
       <2>12, <2>13, <2>14, <2>15, <2>16, <2>17, <2>18, <2>19, <2>20,
       <2>21, <2>22, <2>23, <2>24, <2>25, <2>26, <2>27, <2>28
       DEF Unseen
<1>2. QED
  BY <1>1 DEF Holding, Handover!handover

(* A fill, and what the DSR does with a buffer. *)
LEMMA FillIsFill ==
    ASSUME FwFill
    PROVE  Handover!Fill
  BY DEF FwFill, Handover!Fill, rdVars, dsrVars

LEMMA BufferIsHeldOrSkipped ==
    ASSUME TypeOK, NotifyInv, DsrBuffer
    PROVE  Handover!Hold \/ Handover!Skip
<1>1. /\ dsrPc = "loop" /\ freed < filled
      /\ UNCHANGED <<filled, got>>
  BY DEF DsrBuffer, TypeOK, NotifyInv, RoundInv, rdVars
<1>2. CASE pfnData /\ captureactive /\ notify_interrupts
  <2>1. dsrPc' = "publish" /\ closedSince' = FALSE /\ freed' = freed
    BY <1>2 DEF DsrBuffer
  <2>2. QED
    BY <1>1, <2>1 DEF Handover!Hold
<1>3. CASE ~(pfnData /\ captureactive /\ notify_interrupts)
  <2>1. dsrPc' = dsrPc /\ closedSince' = closedSince /\ freed' = freed + 1
    BY <1>3 DEF DsrBuffer, FreeBuffer
  <2>2. QED
    BY <1>1, <2>1 DEF Handover!Skip
<1>4. QED
  BY <1>2, <1>3

(* netana_notify_data goes on: its buffer was read, or the device closed. *)
LEMMA DataReadIsGiveBack ==
    ASSUME NotifyInv, DsrDataRead
    PROVE  Handover!GiveBack
<1>1. /\ dsrPc = "dataWait" /\ dsrPc' = "loop" /\ freed' = freed + 1
      /\ data_read_sig
      /\ UNCHANGED <<filled, closedSince, got>>
  BY DEF DsrDataRead, DataWaitOver, FreeBuffer, rdVars
<1>2. closedSince \/ HasRead
  BY <1>1 DEF NotifyInv, SignalInv
<1>3. QED
  BY <1>1, <1>2 DEF Handover!GiveBack, Handover!IsRead, HasRead

LEMMA ReleaseIsClose ==
    ASSUME ReleaseData
    PROVE  Handover!Close
  BY DEF ReleaseData, Handover!Close, notCtl, dsrVars, rdVars, tkVars

(* The copy of netana_read: its buffer is held, and the user has not yet   *)
(* got it, because it is still published.                                  *)
LEMMA CopyIsRead ==
    ASSUME TypeOK, NotifyInv, ReadCopy
    PROVE  Handover!Read
<1>1. /\ dsrPc = "dataWait" /\ data = freed + 1 /\ freed \in Nat
      /\ got' = Append(got, data)
      /\ UNCHANGED <<filled, freed, dsrPc, closedSince>>
  BY DEF ReadCopy, TypeOK, NotifyInv, HandoverInv, notReader, tkVars, dsrVars
<1>2. \A i \in 1 .. Len(got) : got[i] <= freed
  BY <1>1 DEF NotifyInv, GotInv
<1>3. QED
  BY <1>1, <1>2 DEF Handover!Read

LEMMA HandoverStep ==
    ASSUME TypeOK, NotifyInv, [Next]_vars
    PROVE  [Handover!Next]_(Handover!handover)
<1>1. CASE Unseen
  BY <1>1, UnseenStutters
<1>2. CASE FwFill
  BY <1>2, FillIsFill DEF Handover!Next
<1>3. CASE DsrBuffer
  BY <1>3, BufferIsHeldOrSkipped DEF Handover!Next
<1>4. CASE DsrDataRead
  BY <1>4, DataReadIsGiveBack DEF Handover!Next
<1>5. CASE ReleaseData
  BY <1>5, ReleaseIsClose DEF Handover!Next
<1>6. CASE ReadCopy
  BY <1>6, CopyIsRead DEF Handover!Next
<1>7. CASE UNCHANGED vars
  BY <1>7 DEF vars, tkVars, dsrVars, rdVars, Handover!handover
<1>8. QED
  BY <1>1, <1>2, <1>3, <1>4, <1>5, <1>6, <1>7
     DEF Next, Dsr, CtlContinue, ReadContinue, Unseen

(* The five processes implement the hand-over of BufferHandover, whatever  *)
(* is closed, reopened, stopped or times out: netana_notify_data           *)
(* (netana.c:89) holds or skips a buffer and gives it back only when it    *)
(* was read or the device was closed since, netana_read reads it once.     *)
THEOREM UserGetsBuffersHandedOver == Spec => ImplementsHandover
<1>1. Init => Handover!Init
  BY DEF Init, Handover!Init
<1>2. TypeOK /\ NotifyInv /\ [Next]_vars => [Handover!Next]_(Handover!handover)
  BY HandoverStep
<1>3. QED
  BY <1>1, <1>2, NotifyInvariant, PTL DEF Spec, ImplementsHandover, Handover!Spec

=============================================================================
