------------------------------ MODULE MCSysfsCalls -----------------------------
(* A process with two threads and the calls they make.                       *)
EXTENDS SysfsCalls

\* one call of each function, more where its parameters lead elsewhere
MCCalls ==
    [op : {"enum_device", "open", "close", "pi", "set_ident"}]
      \cup {[op |-> "device_info", short |-> FALSE]}
      \cup [op : {"set_mode"}, obj : {0}]
      \cup [op : {"read_phy"}, obj : {2}, tag : {1}]
      \cup {[op |-> "get_filter", obj |-> 0, a |-> TRUE, b |-> FALSE]}
      \cup {[op |-> "set_filter", obj |-> o, a |-> TRUE, b |-> o = 0, tag |-> 1, long |-> FALSE] :
               o \in {0, 1}}
      \cup {[op |-> "set_filter", obj |-> 0, a |-> FALSE, b |-> TRUE, tag |-> 2, long |-> l] :
               l \in BOOLEAN}
      \cup [op : {"check_ident"}, tag : {1}]
      \cup [op : {"transfer"}, tag : {2}]
=============================================================================
