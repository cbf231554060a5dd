----------------------------- MODULE CaptureFifo -----------------------------
(***************************************************************************)
(* What the capture path promises to the consumer of the data: while a     *)
(* capture is on, a bounded FIFO from the firmware to the data callback.   *)
(* Nothing is lost, duplicated or reordered, the firmware is never more    *)
(* than Capacity buffers ahead, and a capture ends only when the consumer  *)
(* has got everything.  Fill number k carries the value k.                 *)
(***************************************************************************)
EXTENDS Naturals, Sequences

CONSTANTS
    Capacity,   \* number of DMA buffers
    MaxPut      \* bound: fills in one behaviour

VARIABLES on, put, got

fifo == <<on, put, got>>

Init == on = FALSE /\ put = 0 /\ got = <<>>

Start == ~on /\ on' = TRUE /\ UNCHANGED <<put, got>>

Put ==
    /\ on
    /\ put < MaxPut
    /\ put - Len(got) < Capacity
    /\ put' = put + 1
    /\ UNCHANGED <<on, got>>

Get ==
    /\ on
    /\ Len(got) < put
    /\ got' = Append(got, Len(got) + 1)
    /\ UNCHANGED <<on, put>>

Stop ==
    /\ on
    /\ Len(got) = put
    /\ on' = FALSE
    /\ UNCHANGED <<put, got>>

Next == Start \/ Put \/ Get \/ Stop

Spec == Init /\ [][Next]_fifo

=============================================================================
