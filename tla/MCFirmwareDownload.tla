------------------------- MODULE MCFirmwareDownload -------------------------
(* The classes of the devices of FirmwareDownload, for TLC. *)
EXTENDS FirmwareDownload

SameClass == [d \in Devices |-> "NANL"]
=============================================================================
