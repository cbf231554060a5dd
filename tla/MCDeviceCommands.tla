-------------------------- MODULE MCDeviceCommands --------------------------
(* The calls of a behaviour use one resource, so that three of them can    *)
(* meet there; the third of the configuration, where there are many to     *)
(* choose from, opens the device.  Commands, the mailboxes and the         *)
(* configuration share nothing but ulCaptureState, which only the          *)
(* configuration reads.                                                    *)
EXTENDS DeviceCommands

Part(op) == IF op \in {"PUT", "GET"} THEN op ELSE Resource(op)
Used == {Part(r.op) : r \in ({req[t] : t \in Threads} \cup {req'[t] : t \in Threads})
                                \ {NoRequest}}
OneResource ==
    /\ Cardinality(Used) <= 1
    /\ Used = {"configuration"} /\ calls' # calls =>
          calls' <= 2 \/ \A t \in Threads : id'[t] = calls' => req'[t].op = "OPEN"
    /\ running' # running => Used = {"configuration"}
    /\ offered' # offered => Used = {"GET"}
=============================================================================
