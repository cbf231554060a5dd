--------------------------- MODULE BufferHandover ----------------------------
(***************************************************************************)
(* What the driver promises a user who reads the device file: the buffers  *)
(* of the firmware are given back in order, each is either skipped or held *)
(* for the user; one that is held can be read, once, and goes back only    *)
(* when it was read or the device was closed.  Buffer k carries the value  *)
(* k.                                                                      *)
(***************************************************************************)
EXTENDS Naturals, Sequences

CONSTANTS
    Capacity,   \* number of DMA buffers
    MaxPut      \* bound: buffers filled in one behaviour

VARIABLES
    put, back,  \* buffers filled, and given back to the firmware
    held,       \* the oldest of them is held for the user
    closed,     \* the device was closed since
    got         \* what the user has read

handover == <<put, back, held, closed, got>>

Init == put = 0 /\ back = 0 /\ held = FALSE /\ closed = FALSE /\ got = <<>>

Fill ==
    /\ put < MaxPut
    /\ put - back < Capacity
    /\ put' = put + 1
    /\ UNCHANGED <<back, held, closed, got>>

\* The oldest buffer was read.
IsRead == \E i \in 1 .. Len(got) : got[i] = back + 1

Hold ==
    /\ ~held
    /\ back < put
    /\ held' = TRUE
    /\ closed' = FALSE
    /\ UNCHANGED <<put, back, got>>

Skip ==
    /\ ~held
    /\ back < put
    /\ back' = back + 1
    /\ UNCHANGED <<put, held, closed, got>>

Read ==
    /\ held
    /\ \A i \in 1 .. Len(got) : got[i] <= back
    /\ got' = Append(got, back + 1)
    /\ UNCHANGED <<put, back, held, closed>>

Close ==
    /\ closed' = TRUE
    /\ UNCHANGED <<put, back, held, got>>

GiveBack ==
    /\ held
    /\ IsRead \/ closed
    /\ held' = FALSE
    /\ back' = back + 1
    /\ UNCHANGED <<put, closed, got>>

Next == Fill \/ Hold \/ Skip \/ Read \/ Close \/ GiveBack

Spec == Init /\ [][Next]_handover

=============================================================================
