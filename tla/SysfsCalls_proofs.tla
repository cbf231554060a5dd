--------------------------- MODULE SysfsCalls_proofs ---------------------------
(***************************************************************************)
(* Proofs about SysfsCalls, for any threads, calls and objects.  Whatever  *)
(* the calls, every access of the library meets a handler of the driver    *)
(* and every result is one of its errors.  A call is served with its own   *)
(* parameters, and a filter that was set without error is in effect,       *)
(* unless another thread stored the same parameter meanwhile.  A call      *)
(* reports its own error while nobody closes or restarts the device.       *)
(***************************************************************************)
EXTENDS SysfsCalls, Integers, TLAPS

-----------------------------------------------------------------------------
(* The handlers. *)

(* In which of the tables an attribute is. *)
LEMMA AttributeIs ==
    ASSUME NEW o, NEW n
    PROVE  /\ n \in {"dma_buffersize", "dma_buffercnt", "driver_version", "device_class", "dsr"}
                => Attribute(n, o) = DriverInformation(o)[n]
           /\ n \in {"ident_info", "device_state", "device_state_poll", "device_features",
                     "fw_error"} => Attribute(n, o) = DeviceInformation(o)[n]
           /\ n \in {"relation", "gpio_status", "level", "voltage", "set_voltage",
                     "port_status"} => Attribute(n, o) = HwResources(o)[n]
           /\ n = "regval" => Attribute(n, o) = PhyRegisters(o)[n]
           /\ n \in {"identify", "pi_config", "time_config", "timeout_config",
                     "mailbox_status"} => Attribute(n, o) = DeviceControl(o)[n]
           /\ n \in {"device_info", "ident_check", "mailbox"}
                => Attribute(n, o) = BinaryFiles(o)[n]
           /\ n \in Parts => Attribute(n, o) = FilterFiles(o)[n]
BY DEF Attribute, Parts

(* The handlers of the tables whose attributes need not be there.          *)
LEMMA ResourceHandlers ==
    ASSUME NEW o
    PROVE  /\ HwResources(o)["relation"].show = get_relation(o)
           /\ HwResources(o)["relation"].store = set_filter(o)
           /\ HwResources(o)["relation"].there = (o < GpioCnt)
           /\ HwResources(o)["gpio_status"].show = netana_gpio_get_reg_val(o)
           /\ HwResources(o)["gpio_status"].store = netana_store_gpio_mode
           /\ HwResources(o)["level"].store = netana_store_gpio_level
           /\ HwResources(o)["voltage"].show = netana_get_gpiovoltage(o)
           /\ HwResources(o)["set_voltage"].store = netana_set_gpiovoltage
           /\ HwResources(o)["port_status"].show = netana_port_get_reg_val(o)
           /\ PhyRegisters(o)["regval"].show = netana_phy_get_reg_val
           /\ PhyRegisters(o)["regval"].store = netana_phy_set_reg_val
           /\ \A p \in Parts : /\ FilterFiles(o)[p].show = show_filter(o)
                               /\ FilterFiles(o)[p].store = store_filter
                               /\ FilterFiles(o)[p].there = (o < GpioCnt)
BY DEF HwResources, PhyRegisters, FilterFiles

(* What a handler may return; "EINVAL", which leaves nothing in the list,  *)
(* only that of the priority.                                              *)
LEMMA ShowResults ==
    ASSUME SysfsAssumption, NEW o,
           NEW n \in Shown
    PROVE  /\ netana_attr_show(n, o) \subseteq Results \ {"EINVAL"}
           /\ n = "ident_info" => netana_attr_show(n, o) \subseteq {OK, "INVALID_HANDLE"}
<1> USE DEF netana_attr_show, CheckDevice, OK, Results
<1>1. CASE n \in {"dma_buffersize", "dma_buffercnt", "driver_version"}
  BY <1>1, AttributeIs DEF DriverInformation, netana_show_drvvers, netana_show_dma_buffercnt,
                           netana_show_dma_buffersize
<1>2. CASE n \in {"device_state", "device_state_poll", "device_features", "ident_info"}
  BY <1>2, AttributeIs DEF DeviceInformation, devstate_show, devstate_show_poll,
                           devfeature_show, netana_show_ident_info
<1>3. CASE n \in {"relation", "port_status"}
  BY <1>3, AttributeIs, ResourceHandlers DEF get_relation, netana_port_get_reg_val, tk_get_filter
<1>4. CASE n \in {"gpio_status", "voltage"}
  BY <1>4, AttributeIs, ResourceHandlers DEF netana_gpio_get_reg_val, netana_get_gpiovoltage,
                           tk_get_gpio_mode, tk_get_gpio_voltage
<1>7. CASE n = "regval"
  BY <1>7, AttributeIs, ResourceHandlers DEF netana_phy_get_reg_val
<1>8. CASE n = "mailbox_status"
  BY <1>8, AttributeIs DEF DeviceControl, netana_read_mbx_status, tk_get_mbx_state
<1>5. CASE n \in {"device_info", "ident_check", "mailbox"}
  BY <1>5, AttributeIs DEF BinaryFiles, show_device_info, tk_enum_device, netana_read_ident,
        netana_read_mbx_packet_bin, tk_get_packet
<1>6. CASE n \in Parts
  BY <1>6, AttributeIs, ResourceHandlers DEF show_filter, tk_get_filter, Parts
<1> QED
  BY <1>1, <1>2, <1>3, <1>4, <1>5, <1>6, <1>7, <1>8 DEF Shown

LEMMA StoreResults ==
    ASSUME SysfsAssumption, NEW o,
           NEW n \in Stored
    PROVE  /\ netana_attr_store(n, o) \subseteq Results
           /\ "EINVAL" \in netana_attr_store(n, o) => n = "dsr"
           /\ n = "relation" /\ OK \in netana_attr_store(n, o) => o < PortCnt
<1> USE DEF netana_attr_store, CheckDevice, OK, Results
<1>1. CASE n \in {"dsr", "device_class"}
  BY <1>1, AttributeIs DEF DriverInformation, netana_set_device_class, netana_set_dsr_prio
<1>2. CASE n \in {"ident_info", "fw_error"}
  BY <1>2, AttributeIs DEF DeviceInformation, netana_ident_update, fwerror_store
<1>3. CASE n = "relation"
  BY <1>3, AttributeIs, ResourceHandlers DEF set_filter, tk_set_filter
<1>4. CASE n \in {"gpio_status", "level", "set_voltage"}
  BY <1>4, AttributeIs, ResourceHandlers DEF netana_store_gpio_mode, netana_store_gpio_level,
                           netana_set_gpiovoltage
<1>7. CASE n = "regval"
  BY <1>7, AttributeIs, ResourceHandlers DEF netana_phy_set_reg_val
<1>8. CASE n \in {"identify", "pi_config", "time_config", "timeout_config"}
  BY <1>8, AttributeIs DEF DeviceControl, netana_blink_device, tk_blink, netana_pi_config,
                           netana_time_config, netana_timeout_config
<1>5. CASE n \in {"ident_check", "mailbox"}
  BY <1>5, AttributeIs DEF BinaryFiles, netana_write_ident, netana_write_mbx_packet_bin,
        tk_put_packet
<1>6. CASE n \in Parts
  BY <1>6, AttributeIs, ResourceHandlers DEF store_filter, Parts
<1> QED
  BY <1>1, <1>2, <1>3, <1>4, <1>5, <1>6, <1>7, <1>8 DEF Stored

-----------------------------------------------------------------------------
(* The library's accesses. *)

(* What kind of access a function may make.                                *)
Suits(q, a) ==
    /\ a \in AccessRecords
    /\ a.attr = "dsr" => a.refused = OK
    /\ "go on" \in {a.absent, a.refused} => a.attr = "device_state"
    /\ a.attr = "close" => q.op = "close"
    /\ a.attr = "ident_info" /\ a.write => q.op = "set_ident"
    /\ a.attr \in {"timeout_config", "regval", "mailbox"} => UsesTimeout(q)
    /\ a.attr = "ident_check" => q.op = "check_ident"
    /\ a.attr \in Parts \cup {"relation"} /\ a.write => q.op = "set_filter"
    /\ q.op = "set_filter" =>
          /\ a.write /\ a.attr \in Parts \cup {"relation"} /\ a.refused = "get_error"
          /\ a.attr = "relation" => a.absent # OK

\* An access that uses the time limit, or reads the ident block back.
Timed(a) == a.attr \in {"regval", "mailbox"}
ReadsBlock(a) == a.attr = "ident_check" /\ ~a.write
WritesBlock(a) == a.attr = "ident_check" /\ a.write

\* Such an access comes right behind the one that brings its parameter.
Ordered(s) ==
    \A i \in 1 .. Len(s) :
       /\ Timed(s[i]) => i > 1 /\ s[i - 1].attr = "timeout_config"
       /\ ReadsBlock(s[i]) => i > 1 /\ WritesBlock(s[i - 1])

Fits(q, s) ==
    /\ s \in Seq(AccessRecords)
    /\ \A i \in 1 .. Len(s) : Suits(q, s[i])
    /\ Ordered(s)

LEMMA FitsNone == ASSUME NEW q PROVE Fits(q, <<>>) /\ Len(<<>>) = 0
BY DEF Fits, Ordered

LEMMA Single ==
    ASSUME NEW S, NEW a \in S
    PROVE  <<a>> \in Seq(S) /\ Len(<<a>>) = 1 /\ <<a>>[1] = a
OBVIOUS

LEMMA Joined ==
    ASSUME NEW S, NEW s \in Seq(S), NEW u \in Seq(S)
    PROVE  /\ s \o u \in Seq(S) /\ Len(s \o u) = Len(s) + Len(u)
           /\ Len(s) \in Nat /\ Len(u) \in Nat
           /\ \A i \in 1 .. Len(s) + Len(u) :
                 (s \o u)[i] = IF i <= Len(s) THEN s[i] ELSE u[i - Len(s)]
OBVIOUS

LEMMA FitsOne ==
    ASSUME NEW q, NEW a, Suits(q, a), ~Timed(a), ~ReadsBlock(a)
    PROVE  Fits(q, <<a>>) /\ Len(<<a>>) = 1
<1> DEFINE s == <<a>>
<1>1. s \in Seq(AccessRecords) /\ Len(s) = 1 /\ s[1] = a
  <2>1. a \in AccessRecords
    BY DEF Suits
  <2> QED
    BY <2>1, Single
<1> HIDE DEF s
<1>2. \A i \in 1 .. Len(s) : s[i] = a
  BY <1>1
<1>3. Fits(q, s)
  BY <1>1, <1>2 DEF Fits, Ordered
<1> QED
  BY <1>1, <1>3 DEF s

LEMMA FitsTwo ==
    ASSUME NEW q, NEW a, NEW b, NEW s \in Seq(AccessRecords), Len(s) = 2, s[1] = a, s[2] = b,
           Suits(q, a), Suits(q, b), ~Timed(a), ~ReadsBlock(a),
           Timed(b) => a.attr = "timeout_config", ReadsBlock(b) => WritesBlock(a)
    PROVE  Fits(q, s)
<1>1. \A i \in 1 .. Len(s) : \/ i = 1 /\ s[i] = a
                             \/ i = 2 /\ s[i] = b /\ s[i - 1] = a
  OBVIOUS
<1> QED
  BY <1>1 DEF Fits, Ordered

LEMMA FitsJoined ==
    ASSUME NEW q, NEW s, NEW u, Fits(q, s), Fits(q, u)
    PROVE  Fits(q, s \o u) /\ Len(s \o u) = Len(s) + Len(u)
<1>1. /\ s \o u \in Seq(AccessRecords) /\ Len(s \o u) = Len(s) + Len(u)
      /\ \A i \in 1 .. Len(s) + Len(u) :
            (s \o u)[i] = IF i <= Len(s) THEN s[i] ELSE u[i - Len(s)]
  BY Joined DEF Fits
<1>2. Len(s) \in Nat /\ Len(u) \in Nat
  BY DEF Fits
<1>3. ASSUME NEW i \in 1 .. Len(s \o u)
      PROVE  /\ Suits(q, (s \o u)[i])
             /\ Timed((s \o u)[i]) => i > 1 /\ (s \o u)[i - 1].attr = "timeout_config"
             /\ ReadsBlock((s \o u)[i]) => i > 1 /\ WritesBlock((s \o u)[i - 1])
  <2>1. CASE i <= Len(s)
    <3>1. i \in 1 .. Len(s) /\ (s \o u)[i] = s[i]
      BY <1>1, <1>2, <2>1
    <3>2. i > 1 => (s \o u)[i - 1] = s[i - 1]
      BY <1>1, <1>2, <2>1
    <3> QED
      BY <3>1, <3>2 DEF Fits, Ordered
  <2>2. CASE i > Len(s)
    <3>1. i - Len(s) \in 1 .. Len(u) /\ (s \o u)[i] = u[i - Len(s)]
      BY <1>1, <1>2, <2>2
    <3>2. i - Len(s) > 1 => i > 1 /\ (s \o u)[i - 1] = u[(i - Len(s)) - 1]
      BY <1>1, <1>2, <2>2
    <3> QED
      BY <3>1, <3>2 DEF Fits, Ordered
  <2> QED
    BY <1>1, <1>2, <2>1, <2>2
<1> QED
  BY <1>1, <1>3 DEF Fits, Ordered

LEMMA FitsTail ==
    ASSUME NEW q, NEW s, s # <<>>, s \in Seq(AccessRecords)
    PROVE  /\ Len(s) \in Nat /\ Len(s) >= 1 /\ Head(s) = s[1]
           /\ Tail(s) \in Seq(AccessRecords) /\ Len(Tail(s)) = Len(s) - 1
           /\ \A i \in 1 .. Len(Tail(s)) : i + 1 \in 1 .. Len(s) /\ Tail(s)[i] = s[i + 1]
OBVIOUS

(* netana_get_packet, netana_put_packet and netana_access_phy_reg bring    *)
(* the time limit first.                                                   *)
LEMMA WithTimeout ==
    ASSUME NEW q, NEW a, Suits(q, a), UsesTimeout(q)
    PROVE  Fits(q, update_timeout \o <<a>>) /\ Len(update_timeout \o <<a>>) = 2
<1> DEFINE w == Write("timeout_config", "INVALID_HANDLE")
<1>1. Suits(q, w) /\ w.attr = "timeout_config"
  BY DEF Suits, Write, AccessRecords, Results, Stored, Parts, OK, UsesTimeout
<1> DEFINE s == update_timeout
           u == <<a>>
<1>2. w \in AccessRecords /\ a \in AccessRecords
  BY <1>1 DEF Suits
<1>3. s = <<w>>
  BY DEF update_timeout
<1> HIDE DEF w
<1>4. /\ s \in Seq(AccessRecords) /\ Len(s) = 1 /\ s[1] = w
      /\ u \in Seq(AccessRecords) /\ Len(u) = 1 /\ u[1] = a
  BY <1>2, <1>3, Single
<1> HIDE DEF s, u
<1>5. /\ s \o u \in Seq(AccessRecords) /\ Len(s \o u) = Len(s) + Len(u)
      /\ \A i \in 1 .. Len(s) + Len(u) :
            (s \o u)[i] = IF i <= Len(s) THEN s[i] ELSE u[i - Len(s)]
  <2>1. s \in Seq(AccessRecords) /\ u \in Seq(AccessRecords)
    BY <1>4
  <2> QED
    BY ONLY <2>1, Joined
<1>6. Len(s \o u) = 2
  BY <1>4, <1>5
<1>7. (s \o u)[1] = w /\ (s \o u)[2] = a
  BY <1>4, <1>5
<1>8. ~Timed(w) /\ ~ReadsBlock(w) /\ ~ReadsBlock(a)
  BY <1>1 DEF Timed, ReadsBlock, Suits, UsesTimeout
<1>9. Fits(q, s \o u)
  BY <1>1, <1>5, <1>6, <1>7, <1>8, FitsTwo
<1> QED
  BY <1>6, <1>9 DEF s, u

(* The fields of an access.                                                *)
LEMMA Fields ==
    ASSUME NEW n, NEW e
    PROVE  /\ Read(n, e).attr = n /\ ~Read(n, e).write
           /\ Read(n, e).absent = e /\ Read(n, e).refused = "get_error"
           /\ Write(n, e).attr = n /\ Write(n, e).write
           /\ Write(n, e).absent = e /\ Write(n, e).refused = "get_error"
           /\ e \in Results /\ n \in Shown => Read(n, e) \in AccessRecords
           /\ e \in Results /\ n \in Stored \cup {"open", "close"}
                => Write(n, e) \in AccessRecords
BY DEF Read, Write, AccessRecords

\* An access of one of the functions that make no other.
LEMMA FitsRead ==
    ASSUME NEW q, q.op # "set_filter", NEW e \in Results,
           NEW n \in Shown \ {"regval", "mailbox", "ident_check"}
    PROVE  /\ Suits(q, Read(n, e))
           /\ Fits(q, <<Read(n, e)>>) /\ Len(<<Read(n, e)>>) = 1
<1> DEFINE a == Read(n, e)
<1>1. /\ a.attr = n /\ ~a.write /\ a.absent = e /\ a.refused = "get_error"
      /\ a \in AccessRecords
  BY Fields
<1> HIDE DEF a
<1>2. Suits(q, a) /\ ~Timed(a) /\ ~ReadsBlock(a)
  BY <1>1 DEF Suits, Timed, ReadsBlock, Results, OK, Shown, Parts
<1>3. Fits(q, <<a>>) /\ Len(<<a>>) = 1
  BY <1>2, FitsOne
<1> QED
  BY <1>2, <1>3 DEF a

LEMMA FitsWrite ==
    ASSUME NEW q, q.op # "set_filter", NEW e \in Results,
           NEW n \in {"gpio_status", "level", "identify", "device_class", "pi_config",
                      "time_config", "set_voltage", "fw_error", "open"}
    PROVE  /\ Suits(q, Write(n, e))
           /\ Fits(q, <<Write(n, e)>>) /\ Len(<<Write(n, e)>>) = 1
<1> DEFINE a == Write(n, e)
<1>1. /\ a.attr = n /\ a.write /\ a.absent = e /\ a.refused = "get_error"
      /\ a \in AccessRecords
  BY Fields DEF Stored
<1> HIDE DEF a
<1>2. Suits(q, a) /\ ~Timed(a) /\ ~ReadsBlock(a)
  BY <1>1 DEF Suits, Timed, ReadsBlock, Results, OK, Parts
<1>3. Fits(q, <<a>>) /\ Len(<<a>>) = 1
  BY <1>2, FitsOne
<1> QED
  BY <1>2, <1>3 DEF a

\* The functions that make one access.
LEMMA SingleReads ==
    ASSUME NEW q, q.op \in {"enum_device", "device_info", "get_state",
                             "get_state_poll", "portstat", "get_mode", "features",
                             "get_ident", "get_voltage", "mbx_state"}
    PROVE  Fits(q, Accesses(q)) /\ Len(Accesses(q)) = 1
<1>1. CASE q.op = "enum_device"
  BY <1>1, FitsRead DEF Accesses, netana_enum_device, Shown, Results
<1>2. CASE q.op = "device_info"
  BY <1>2, FitsRead DEF Accesses, netana_device_info, Shown, Results
<1>3. CASE q.op = "get_state"
  BY <1>3, FitsRead DEF Accesses, netana_get_state, Shown, Results
<1>4. CASE q.op = "get_state_poll"
  BY <1>4, FitsRead DEF Accesses, netana_get_state_poll, Shown, Results
<1>5. CASE q.op = "portstat"
  BY <1>5, FitsRead DEF Accesses, netana_get_portstat, Shown, Results
<1>6. CASE q.op = "get_mode"
  BY <1>6, FitsRead DEF Accesses, netana_get_gpio_mode, Shown, Results
<1>7. CASE q.op = "features"
  BY <1>7, FitsRead DEF Accesses, MngmtFeatures, Shown, Results
<1>8. CASE q.op = "get_ident"
  BY <1>8, FitsRead DEF Accesses, netana_get_device_ident, Shown, Results
<1>9. CASE q.op = "get_voltage"
  BY <1>9, FitsRead DEF Accesses, netana_get_gpio_voltage, Shown, Results
<1>10. CASE q.op = "mbx_state"
  BY <1>10, FitsRead DEF Accesses, netana_get_mbx_state, Shown, Results
<1> QED
  BY <1>1, <1>2, <1>3, <1>4, <1>5, <1>6, <1>7, <1>8, <1>9, <1>10

LEMMA SingleWrites ==
    ASSUME NEW q, q.op \in {"set_mode", "output", "class", "resync", "pi",
                             "set_voltage", "signal_drv_error"}
    PROVE  Fits(q, Accesses(q)) /\ Len(Accesses(q)) = 1
<1>1. CASE q.op = "set_mode"
  BY <1>1, FitsWrite DEF Accesses, netana_set_gpio_mode, Results
<1>2. CASE q.op = "output"
  BY <1>2, FitsWrite DEF Accesses, netana_set_gpio_output, Results
<1>3. CASE q.op = "class"
  BY <1>3, FitsWrite DEF Accesses, MngmtClassFilter, Results
<1>4. CASE q.op = "resync"
  BY <1>4, FitsWrite DEF Accesses, netana_resync_time, Results
<1>5. CASE q.op = "pi"
  BY <1>5, FitsWrite DEF Accesses, netana_config_pi_controller, Results
<1>6. CASE q.op = "set_voltage"
  BY <1>6, FitsWrite DEF Accesses, netana_set_gpio_voltage, Results
<1>7. CASE q.op = "signal_drv_error"
  BY <1>7, FitsWrite DEF Accesses, netana_signal_drv_error, Results
<1> QED
  BY <1>1, <1>2, <1>3, <1>4, <1>5, <1>6, <1>7

LEMMA SingleIdent ==
    ASSUME NEW q, q.op = "set_ident"
    PROVE  Fits(q, Accesses(q)) /\ Len(Accesses(q)) = 1
<1> DEFINE a == Write("ident_info", "INVALID_PARAMETER")
<1>1. Accesses(q) = <<a>>
  BY DEF Accesses, netana_set_device_ident
<1>2. /\ a.attr = "ident_info" /\ a.write /\ a.absent = "INVALID_PARAMETER"
      /\ a.refused = "get_error" /\ a \in AccessRecords
  BY Fields DEF Stored, Results
<1> HIDE DEF a
<1>3. Suits(q, a) /\ ~Timed(a) /\ ~ReadsBlock(a)
  BY <1>2 DEF Suits, Timed, ReadsBlock, OK, Parts
<1> QED
  BY <1>1, <1>3, FitsOne

LEMMA Pair ==
    ASSUME NEW S, NEW a \in S, NEW b \in S
    PROVE  <<a, b>> \in Seq(S) /\ Len(<<a, b>>) = 2 /\ <<a, b>>[1] = a /\ <<a, b>>[2] = b
OBVIOUS

LEMMA FitsPair ==
    ASSUME NEW q, NEW a, NEW b, Suits(q, a), Suits(q, b), ~Timed(a), ~ReadsBlock(a),
           ~Timed(b), ReadsBlock(b) => WritesBlock(a)
    PROVE  Fits(q, <<a, b>>) /\ Len(<<a, b>>) = 2
<1> DEFINE s == <<a, b>>
<1>1. a \in AccessRecords /\ b \in AccessRecords
  BY DEF Suits
<1>2. s \in Seq(AccessRecords) /\ Len(s) = 2 /\ s[1] = a /\ s[2] = b
  BY <1>1, Pair
<1> HIDE DEF s
<1>3. Fits(q, s)
  BY <1>2, FitsTwo
<1> QED
  BY <1>2, <1>3 DEF s

LEMMA FitsIdent ==
    ASSUME NEW q, q.op = "check_ident"
    PROVE  Fits(q, Accesses(q)) /\ Len(Accesses(q)) = 2
<1> DEFINE a == Write("ident_check", "INVALID_PARAMETER")
           b == Read("ident_check", "INVALID_PARAMETER")
<1>1. Accesses(q) = <<a, b>>
  BY DEF Accesses, netana_check_device_ident
<1>2. /\ a.attr = "ident_check" /\ a.write /\ a.absent = "INVALID_PARAMETER"
      /\ a.refused = "get_error" /\ a \in AccessRecords
      /\ b.attr = "ident_check" /\ ~b.write /\ b.absent = "INVALID_PARAMETER"
      /\ b.refused = "get_error" /\ b \in AccessRecords
  BY Fields DEF Stored, Shown, Results
<1> HIDE DEF a, b
<1>3. /\ Suits(q, a) /\ ~Timed(a) /\ ~ReadsBlock(a) /\ WritesBlock(a)
      /\ Suits(q, b) /\ ~Timed(b)
  BY <1>2 DEF Suits, Timed, ReadsBlock, WritesBlock, OK, Parts
<1> QED
  BY <1>1, <1>3, FitsPair

LEMMA FitsClose ==
    ASSUME NEW q, q.op = "close"
    PROVE  Fits(q, Accesses(q)) /\ Len(Accesses(q)) = 2
<1> DEFINE a == Ignoring(Read("device_state", "go on"), "go on")
           b == Write("close", OK)
<1>1. Accesses(q) = <<a, b>>
  BY DEF Accesses, netana_close_device
<1>2. /\ a.attr = "device_state" /\ ~a.write /\ a \in AccessRecords
  BY DEF Ignoring, Read, AccessRecords, Shown
<1>3. /\ b.attr = "close" /\ b.write /\ b.absent = OK
      /\ b.refused = "get_error" /\ b \in AccessRecords
  BY Fields DEF Results
<1> HIDE DEF a, b
<1>4. Suits(q, a) /\ ~Timed(a) /\ ~ReadsBlock(a) /\ Suits(q, b) /\ ~Timed(b) /\ ~ReadsBlock(b)
  BY <1>2, <1>3 DEF Suits, Timed, ReadsBlock, OK, Parts
<1> QED
  BY <1>1, <1>4, FitsPair

LEMMA FitsBlink ==
    ASSUME NEW q, q.op = "blink"
    PROVE  Fits(q, Accesses(q)) /\ Len(Accesses(q)) = 2
<1> DEFINE a == Ignoring(Read("device_info", "DEVICE_NOT_FOUND"), "DEVICE_NOT_FOUND")
           b == Write("identify", "INVALID_PARAMETER")
<1>1. Accesses(q) = <<a, b>>
  BY DEF Accesses, MngmtBlink
<1>2. /\ a.attr = "device_info" /\ ~a.write /\ a \in AccessRecords
      /\ a.refused = "DEVICE_NOT_FOUND" /\ a.absent = "DEVICE_NOT_FOUND"
  BY DEF Ignoring, Read, AccessRecords, Shown, Results
<1> HIDE DEF a
<1>3. Suits(q, a) /\ ~Timed(a) /\ ~ReadsBlock(a)
  BY <1>2 DEF Suits, Timed, ReadsBlock, OK, Parts
<1>4. Suits(q, b) /\ ~Timed(b) /\ ~ReadsBlock(b)
  <2>1. Suits(q, b)
    BY FitsWrite DEF Results
  <2> QED
    BY <2>1, Fields DEF Timed, ReadsBlock
<1> HIDE DEF b
<1> QED
  BY <1>1, <1>3, <1>4, FitsPair

(* netana_driver_information, with which netana_open_device and the scan   *)
(* of netana_mngmt_exec_cmd begin.                                         *)
LEMMA FitsInformation ==
    ASSUME NEW q, q.op # "set_filter"
    PROVE  Fits(q, netana_driver_information) /\ Len(netana_driver_information) = 3
<1> DEFINE a == Read("dma_buffersize", "DRIVER_NOT_RUNNING")
           b == Read("dma_buffercnt", "INVALID_PARAMETER")
           c == Read("driver_version", "INVALID_PARAMETER")
           s == netana_driver_information
<1>1. s = <<a, b, c>>
  BY DEF netana_driver_information
<1>2. /\ Suits(q, a) /\ ~Timed(a) /\ ~ReadsBlock(a)
      /\ Suits(q, b) /\ ~Timed(b) /\ ~ReadsBlock(b)
      /\ Suits(q, c) /\ ~Timed(c) /\ ~ReadsBlock(c)
  <2>1. Suits(q, a) /\ Suits(q, b) /\ Suits(q, c)
    BY FitsRead DEF Results, Shown
  <2> QED
    BY <2>1, Fields DEF Timed, ReadsBlock
<1> HIDE DEF a, b, c, s
<1>3. a \in AccessRecords /\ b \in AccessRecords /\ c \in AccessRecords
  BY <1>2 DEF Suits
<1>4. s \in Seq(AccessRecords) /\ Len(s) = 3 /\ s[1] = a /\ s[2] = b /\ s[3] = c
  BY <1>1, <1>3
<1>5. \A i \in 1 .. Len(s) : s[i] \in {a, b, c}
  BY <1>4
<1>6. Fits(q, s)
  BY <1>2, <1>4, <1>5 DEF Fits, Ordered
<1> QED
  BY <1>4, <1>6 DEF s

LEMMA FitsScan ==
    ASSUME NEW q, q.op = "scan"
    PROVE  Fits(q, Accesses(q)) /\ Len(Accesses(q)) = 4
<1> DEFINE a == Ignoring(Read("device_info", OK), OK)
<1>1. Accesses(q) = netana_driver_information \o <<a>>
  BY DEF Accesses, MngmtScan
<1>2. a.attr = "device_info" /\ ~a.write /\ a \in AccessRecords /\ a.refused = OK /\ a.absent = OK
  BY DEF Ignoring, Read, AccessRecords, Shown, Results
<1> HIDE DEF a
<1>3. Suits(q, a) /\ ~Timed(a) /\ ~ReadsBlock(a)
  BY <1>2 DEF Suits, Timed, ReadsBlock, OK, Parts
<1>4. Fits(q, <<a>>) /\ Len(<<a>>) = 1
  BY <1>3, FitsOne
<1> QED
  BY <1>1, <1>4, FitsInformation, FitsJoined

LEMMA FitsOpen ==
    ASSUME NEW q, q.op = "open"
    PROVE  Fits(q, Accesses(q)) /\ Len(Accesses(q)) = 5
<1> DEFINE a == Write("open", "FUNCTION_FAILED")
           b == Ignoring(Write("dsr", OK), OK)
<1>1. Accesses(q) = netana_driver_information \o <<a, b>>
  BY DEF Accesses, netana_open_device, check_driver
<1>2. b.attr = "dsr" /\ b.write /\ b \in AccessRecords /\ b.refused = OK /\ b.absent = OK
  BY DEF Ignoring, Write, AccessRecords, Stored, Results
<1>3. Suits(q, a) /\ ~Timed(a) /\ ~ReadsBlock(a)
  BY FitsWrite, Fields DEF Timed, ReadsBlock, Results
<1> HIDE DEF a, b
<1>4. Suits(q, b) /\ ~Timed(b) /\ ~ReadsBlock(b)
  BY <1>2 DEF Suits, Timed, ReadsBlock, OK, Parts
<1>5. Fits(q, <<a, b>>) /\ Len(<<a, b>>) = 2
  BY <1>3, <1>4, FitsPair
<1> DEFINE u == <<a, b>>
<1>6. Accesses(q) = netana_driver_information \o u /\ Fits(q, u) /\ Len(u) = 2
  BY <1>1, <1>5
<1> HIDE DEF u
<1>7. Fits(q, netana_driver_information) /\ Len(netana_driver_information) = 3
  BY FitsInformation
<1>8. Fits(q, netana_driver_information \o u)
      /\ Len(netana_driver_information \o u) = Len(netana_driver_information) + Len(u)
  BY <1>6, <1>7, FitsJoined
<1> QED
  BY <1>6, <1>7, <1>8

LEMMA FitsPhy ==
    ASSUME NEW q, q.op \in {"read_phy", "write_phy"}
    PROVE  Fits(q, Accesses(q)) /\ Len(Accesses(q)) = 2
<1> DEFINE a == IF q.op = "read_phy" THEN Read("regval", OK) ELSE Write("regval", OK)
<1>1. Accesses(q) = update_timeout \o <<a>>
  BY DEF Accesses, netana_access_phy_reg
<1>2. /\ a.attr = "regval" /\ a \in AccessRecords /\ a.refused = "get_error" /\ a.absent = OK
  BY Fields DEF Stored, Shown, Results
<1> HIDE DEF a
<1>3. UsesTimeout(q)
  BY DEF UsesTimeout
<1>4. Suits(q, a)
  BY <1>2, <1>3 DEF Suits, OK, Parts
<1> QED
  BY <1>1, <1>3, <1>4, WithTimeout

LEMMA FitsPacket ==
    ASSUME NEW q, q.op \in {"get_packet", "put_packet", "transfer"}
    PROVE  /\ Fits(q, netana_get_packet) /\ Len(netana_get_packet) = 2
           /\ Fits(q, netana_put_packet) /\ Len(netana_put_packet) = 2
<1> DEFINE a == Read("mailbox", OK)
           b == Write("mailbox", OK)
<1>1. netana_get_packet = update_timeout \o <<a>> /\ netana_put_packet = update_timeout \o <<b>>
  BY DEF netana_get_packet, netana_put_packet
<1>2. /\ a.attr = "mailbox" /\ a \in AccessRecords /\ a.refused = "get_error" /\ a.absent = OK
      /\ b.attr = "mailbox" /\ b \in AccessRecords /\ b.refused = "get_error" /\ b.absent = OK
  BY Fields DEF Stored, Shown, Results
<1> HIDE DEF a, b
<1>3. UsesTimeout(q)
  BY DEF UsesTimeout
<1>4. Suits(q, a) /\ Suits(q, b)
  BY <1>2, <1>3 DEF Suits, OK, Parts
<1> QED
  BY <1>1, <1>3, <1>4, WithTimeout

LEMMA FitsMailbox ==
    ASSUME NEW q, q.op \in {"get_packet", "put_packet", "transfer"}
    PROVE  Fits(q, Accesses(q)) /\ Len(Accesses(q)) \in {2, 4}
<1>1. CASE q.op = "get_packet"
  <2>1. Accesses(q) = netana_get_packet
    BY <1>1 DEF Accesses
  <2> QED
    BY <2>1, FitsPacket
<1>2. CASE q.op = "put_packet"
  <2>1. Accesses(q) = netana_put_packet
    BY <1>2 DEF Accesses
  <2> QED
    BY <2>1, FitsPacket
<1>3. CASE q.op = "transfer"
  <2>1. Accesses(q) = netana_put_packet \o netana_get_packet
    BY <1>3 DEF Accesses, netana_transfer_packet
  <2>2. /\ Fits(q, netana_get_packet) /\ Len(netana_get_packet) = 2
        /\ Fits(q, netana_put_packet) /\ Len(netana_put_packet) = 2
    BY FitsPacket
  <2>3. Fits(q, netana_put_packet \o netana_get_packet)
        /\ Len(netana_put_packet \o netana_get_packet)
             = Len(netana_put_packet) + Len(netana_get_packet)
    BY <2>2, FitsJoined
  <2> QED
    BY <2>1, <2>2, <2>3
<1> QED
  BY <1>1, <1>2, <1>3

LEMMA FitsGetFilter ==
    ASSUME NEW q, q.op = "get_filter"
    PROVE  Fits(q, Accesses(q)) /\ Len(Accesses(q)) >= 1
<1> DEFINE a == Ignoring(Read("relation", "INVALID_PARAMETER"), "IOCTL_FAILED")
           s == <<a>>
           u == IF q.a THEN <<Read("maska", "INVALID_PARAMETER"),
                              Read("vala", "INVALID_PARAMETER")>> ELSE <<>>
           w == IF q.b THEN <<Read("maskb", "INVALID_PARAMETER"),
                              Read("valb", "INVALID_PARAMETER")>> ELSE <<>>
<1>1. Accesses(q) = (s \o u) \o w
  <2>1. Accesses(q) = netana_get_filter(q)
    BY DEF Accesses
  <2> QED
    BY <2>1 DEF netana_get_filter
<1>2. Fits(q, s) /\ Len(s) = 1
  <2>1. /\ a.attr = "relation" /\ ~a.write /\ a \in AccessRecords
        /\ a.refused = "IOCTL_FAILED" /\ a.absent = "INVALID_PARAMETER"
    BY DEF Ignoring, Read, AccessRecords, Shown, Results
  <2> HIDE DEF a
  <2>2. Suits(q, a) /\ ~Timed(a) /\ ~ReadsBlock(a)
    BY <2>1 DEF Suits, Timed, ReadsBlock, OK, Parts
  <2> QED
    BY <2>2, FitsOne
<1>3. ASSUME NEW n \in Parts, NEW m \in Parts
      PROVE  LET v == <<Read(n, "INVALID_PARAMETER"), Read(m, "INVALID_PARAMETER")>>
             IN Fits(q, v) /\ Len(v) = 2
  <2> DEFINE b == Read(n, "INVALID_PARAMETER")
             c == Read(m, "INVALID_PARAMETER")
  <2>1. Suits(q, b) /\ Suits(q, c)
    BY FitsRead DEF Results, Shown, Parts
  <2>2. ~Timed(b) /\ ~ReadsBlock(b) /\ ~Timed(c) /\ ~ReadsBlock(c)
    BY Fields DEF Timed, ReadsBlock, Parts
  <2> HIDE DEF b, c
  <2>3. Fits(q, <<b, c>>) /\ Len(<<b, c>>) = 2
    BY <2>1, <2>2, FitsPair
  <2> QED
    BY <2>3 DEF b, c
<1>4. Fits(q, u) /\ Len(u) \in Nat
  BY <1>3, FitsNone DEF Parts
<1>5. Fits(q, w) /\ Len(w) \in Nat
  BY <1>3, FitsNone DEF Parts
<1> HIDE DEF s, u, w
<1>6. Fits(q, s \o u) /\ Len(s \o u) = Len(s) + Len(u)
  BY <1>2, <1>4, FitsJoined
<1>7. Fits(q, (s \o u) \o w) /\ Len((s \o u) \o w) = Len(s \o u) + Len(w)
  BY <1>5, <1>6, FitsJoined
<1> QED
  BY <1>1, <1>2, <1>4, <1>5, <1>6, <1>7

\* The parts of a filter come before the access that takes them over.
PartsFirst(q, s) ==
    /\ \A i \in 1 .. Len(s) : s[i].attr = "relation" <=> i = Len(s)
    /\ \A p \in Given(q) : \E i \in 1 .. Len(s) : s[i].attr = p

LEMMA FitsSetFilter ==
    ASSUME NEW q, q.op = "set_filter"
    PROVE  /\ Fits(q, Accesses(q)) /\ Len(Accesses(q)) >= 1
           /\ PartsFirst(q, Accesses(q))
<1> DEFINE a == Write("relation", "INVALID_PARAMETER")
           s == IF q.a THEN <<Write("maska", OK), Write("vala", OK)>> ELSE <<>>
           u == IF q.b THEN <<Write("maskb", OK), Write("valb", OK)>> ELSE <<>>
           w == <<a>>
           Holds(x, P) == /\ Fits(q, x) /\ Len(x) \in Nat
                          /\ \A i \in 1 .. Len(x) : x[i].attr \in Parts
                          /\ \A p \in P : \E i \in 1 .. Len(x) : x[i].attr = p
<1>1. Accesses(q) = (s \o u) \o w
  <2>1. Accesses(q) = netana_set_filter(q)
    BY DEF Accesses
  <2> QED
    BY <2>1 DEF netana_set_filter
<1>2. ASSUME NEW n \in Parts, NEW m \in Parts
      PROVE  Holds(<<Write(n, OK), Write(m, OK)>>, {n, m})
  <2> DEFINE b == Write(n, OK)
             c == Write(m, OK)
             v == <<b, c>>
  <2>1. /\ b.attr = n /\ b.write /\ b.absent = OK /\ b.refused = "get_error"
        /\ b \in AccessRecords
        /\ c.attr = m /\ c.write /\ c.absent = OK /\ c.refused = "get_error"
        /\ c \in AccessRecords
    BY Fields DEF Stored, Results
  <2> HIDE DEF b, c
  <2>2. /\ Suits(q, b) /\ ~Timed(b) /\ ~ReadsBlock(b)
        /\ Suits(q, c) /\ ~Timed(c) /\ ~ReadsBlock(c)
    BY <2>1 DEF Suits, Timed, ReadsBlock, OK, Parts
  <2>3. Fits(q, v) /\ Len(v) = 2
    BY <2>2, FitsPair
  <2>4. v[1] = b /\ v[2] = c
    OBVIOUS
  <2> HIDE DEF v
  <2>5. \A i \in 1 .. Len(v) : v[i].attr \in Parts
    BY <2>1, <2>3, <2>4
  <2>6. \A p \in {n, m} : \E i \in 1 .. Len(v) : v[i].attr = p
    BY <2>1, <2>3, <2>4
  <2>7. Holds(v, {n, m})
    BY <2>3, <2>5, <2>6
  <2> HIDE DEF Holds
  <2> QED
    BY <2>7 DEF v, b, c
<1>3. Holds(<<>>, {})
  BY FitsNone
<1> DEFINE P == IF q.a THEN {"maska", "vala"} ELSE {}
           R == IF q.b THEN {"maskb", "valb"} ELSE {}
<1>4. P \cup R = Given(q)
  BY DEF Given
<1> HIDE DEF Holds
<1>5. Holds(s, P) /\ Holds(u, R)
  BY <1>2, <1>3 DEF Parts
<1> HIDE DEF s, u, P, R
<1>6. /\ Fits(q, s \o u) /\ Len(s \o u) = Len(s) + Len(u)
      /\ s \in Seq(AccessRecords) /\ u \in Seq(AccessRecords)
      /\ Len(s) \in Nat /\ Len(u) \in Nat
  <2>1. Fits(q, s) /\ Fits(q, u) /\ Len(s) \in Nat /\ Len(u) \in Nat
    BY <1>5 DEF Holds
  <2>2. Fits(q, s \o u) /\ Len(s \o u) = Len(s) + Len(u)
    BY <2>1, FitsJoined
  <2> QED
    BY <2>1, <2>2 DEF Fits
<1> DEFINE v == s \o u
<1>7. \A i \in 1 .. Len(s) + Len(u) : v[i] = IF i <= Len(s) THEN s[i] ELSE u[i - Len(s)]
  BY <1>6, Joined
<1>8. \A i \in 1 .. Len(v) : v[i].attr \in Parts
  <2>1. SUFFICES ASSUME NEW i \in 1 .. Len(v) PROVE v[i].attr \in Parts
    OBVIOUS
  <2>2. \/ i \in 1 .. Len(s) /\ v[i] = s[i]
        \/ i - Len(s) \in 1 .. Len(u) /\ v[i] = u[i - Len(s)]
    BY <1>6, <1>7
  <2> QED
    BY <1>5, <2>2 DEF Holds
<1>9. \A p \in Given(q) : \E i \in 1 .. Len(v) : v[i].attr = p
  <2>1. SUFFICES ASSUME NEW p \in P \cup R PROVE \E i \in 1 .. Len(v) : v[i].attr = p
    BY <1>4
  <2>2. CASE p \in P
    <3>1. PICK i \in 1 .. Len(s) : s[i].attr = p
      BY <1>5, <2>2 DEF Holds
    <3>2. i \in 1 .. Len(v) /\ v[i] = s[i]
      BY <1>6, <1>7
    <3> QED
      BY <3>1, <3>2
  <2>3. CASE p \in R
    <3>1. PICK i \in 1 .. Len(u) : u[i].attr = p
      BY <1>5, <2>3 DEF Holds
    <3>2. i + Len(s) \in 1 .. Len(v) /\ v[i + Len(s)] = u[i]
      BY <1>6, <1>7
    <3> QED
      BY <3>1, <3>2
  <2> QED
    BY <2>2, <2>3
<1>10. /\ a.attr = "relation" /\ Fits(q, w) /\ Len(w) = 1 /\ w[1] = a
  <2>1. /\ a.attr = "relation" /\ a.write /\ a.absent = "INVALID_PARAMETER"
        /\ a.refused = "get_error" /\ a \in AccessRecords
    BY Fields DEF Stored, Results
  <2> HIDE DEF a
  <2>2. Suits(q, a) /\ ~Timed(a) /\ ~ReadsBlock(a)
    BY <2>1 DEF Suits, Timed, ReadsBlock, OK, Parts
  <2> QED
    BY <2>1, <2>2, FitsOne
<1> HIDE DEF v, w, a
<1>11. /\ Fits(q, v) /\ Len(v) \in Nat
       /\ v \in Seq(AccessRecords) /\ w \in Seq(AccessRecords)
  BY <1>6, <1>10 DEF v, Fits
<1>12. Fits(q, v \o w) /\ Len(v \o w) = Len(v) + 1
  <2>1. Fits(q, v \o w) /\ Len(v \o w) = Len(v) + Len(w)
    BY <1>10, <1>11, FitsJoined
  <2> QED
    BY <1>10, <2>1
<1>13. \A i \in 1 .. Len(v) + Len(w) : (v \o w)[i] = IF i <= Len(v) THEN v[i] ELSE w[i - Len(v)]
  BY <1>11, Joined
<1>14. (v \o w)[Len(v) + 1] = a /\ \A i \in 1 .. Len(v) : (v \o w)[i] = v[i]
  BY <1>10, <1>11, <1>13
<1>15. PartsFirst(q, v \o w)
  <2>1. "relation" \notin Parts
    BY DEF Parts
  <2>2. \A i \in 1 .. Len(v) + 1 : (v \o w)[i].attr = "relation" <=> i = Len(v) + 1
    <3>1. SUFFICES ASSUME NEW i \in 1 .. Len(v) + 1
                   PROVE  (v \o w)[i].attr = "relation" <=> i = Len(v) + 1
      OBVIOUS
    <3>2. CASE i = Len(v) + 1
      BY <1>10, <1>14, <3>2
    <3>3. CASE i # Len(v) + 1
      <4>1. i \in 1 .. Len(v)
        BY <1>11, <3>3
      <4> QED
        BY <1>8, <1>14, <2>1, <3>3, <4>1
    <3> QED
      BY <3>2, <3>3
  <2>3. \A p \in Given(q) : \E i \in 1 .. Len(v) + 1 : (v \o w)[i].attr = p
    BY <1>9, <1>11, <1>14
  <2> QED
    BY <1>12, <2>2, <2>3 DEF PartsFirst
<1> QED
  BY <1>1, <1>11, <1>12, <1>15 DEF v

(* Of every function.                                                      *)
LEMMA AccessesFit ==
    ASSUME SysfsAssumption, NEW q \in Calls
    PROVE  /\ Fits(q, Accesses(q)) /\ Len(Accesses(q)) >= 1
           /\ q.op = "set_filter" => PartsFirst(q, Accesses(q))
<1>1. q \in Requests
  BY DEF SysfsAssumption
<1>2. q.op \in {"driver_information", "enum_device", "open", "close", "get_state",
                "get_state_poll", "features", "blink", "scan", "class", "signal_drv_error",
                "resync", "pi", "set_ident", "get_ident", "set_voltage", "mbx_state",
                "device_info", "portstat", "get_mode", "set_mode", "output", "get_voltage",
                "read_phy", "write_phy", "get_filter", "set_filter", "check_ident",
                "get_packet", "put_packet", "transfer"}
  BY <1>1 DEF Requests
<1>3. CASE q.op = "driver_information"
  <2>1. Accesses(q) = netana_driver_information
    BY <1>3 DEF Accesses
  <2> QED
    BY <1>3, <2>1, FitsInformation
<1>4. CASE q.op \in {"enum_device", "device_info", "get_state", "get_state_poll", "portstat",
                    "get_mode", "features", "get_ident", "get_voltage", "mbx_state"}
  BY <1>4, SingleReads
<1>5. CASE q.op \in {"set_mode", "output", "class", "resync", "pi", "set_voltage",
                    "signal_drv_error"}
  BY <1>5, SingleWrites
<1>6. CASE q.op \in {"get_packet", "put_packet", "transfer"}
  BY <1>6, FitsMailbox
<1>7. CASE q.op \in {"read_phy", "write_phy"}
  BY <1>7, FitsPhy
<1>8. CASE q.op \in {"set_ident", "check_ident", "close", "blink", "scan", "open"}
  BY <1>8, SingleIdent, FitsIdent, FitsClose, FitsBlink, FitsScan, FitsOpen
<1>9. CASE q.op \in {"get_filter", "set_filter"}
  BY <1>9, FitsGetFilter, FitsSetFilter
<1> QED
  BY <1>2, <1>3, <1>4, <1>5, <1>6, <1>7, <1>8, <1>9

-----------------------------------------------------------------------------
(* Types, and what a thread's call has left to do. *)

Under(r) == r.step \in {"access", "get_error"}
Well(r) ==
    /\ r.step # "idle" => r.call \in Calls
    /\ Under(r) => Len(r.todo) >= 1 /\ \A i \in 1 .. Len(r.todo) : Suits(r.call, r.todo[i])
Shape == \A t \in Threads : Well(run[t])

LEMMA Gone ==
    ASSUME TypeOK, NEW t \in Threads, NEW r \in RunRecords, Go(t, r)
    PROVE  /\ run' \in [Threads -> RunRecords]
           /\ run'[t] = r /\ \A u \in Threads \ {t} : run'[u] = run[u]
BY DEF TypeOK, Go

LEMMA CurrentIs ==
    ASSUME TypeOK, Shape, NEW t \in Threads, Under(run[t])
    PROVE  /\ run[t].todo \in Seq(AccessRecords) /\ Len(run[t].todo) \in Nat
           /\ Len(run[t].todo) >= 1 /\ run[t].todo # <<>>
           /\ Current(t) = run[t].todo[1] /\ Current(t) \in AccessRecords
           /\ run[t].call \in Calls /\ Suits(run[t].call, Current(t))
<1>1. run[t] \in RunRecords
  BY DEF TypeOK
<1>2. run[t].todo \in Seq(AccessRecords)
  BY <1>1 DEF RunRecords
<1>3. Len(run[t].todo) \in Nat /\ Len(run[t].todo) >= 1
  BY <1>2 DEF Shape, Well
<1>4. run[t].todo # <<>>
  BY <1>2, <1>3
<1>5. Current(t) = run[t].todo[1] /\ Current(t) \in AccessRecords
  BY <1>2, <1>3, <1>4, FitsTail DEF Current
<1>6. run[t].call \in Calls /\ Suits(run[t].call, run[t].todo[1])
  BY <1>3 DEF Shape, Well, Under
<1> QED
  BY <1>2, <1>3, <1>4, <1>5, <1>6

LEMMA AccessKinds ==
    ASSUME NEW a \in AccessRecords
    PROVE  /\ a.write \in BOOLEAN
           /\ a.attr \in (IF a.write THEN Stored \cup {"open", "close"} ELSE Shown)
           /\ a.absent \in Results \cup {"go on"}
           /\ a.refused \in Results \cup {"get_error", "go on"}
BY DEF AccessRecords

LEMMA OutcomesAre ==
    ASSUME SysfsAssumption, TypeOK, Shape, NEW t \in Threads, Under(run[t]), IsFile(Current(t))
    PROVE  /\ Outcomes(t) \subseteq Results
           /\ "EINVAL" \in Outcomes(t) => Current(t).attr = "dsr"
           /\ Current(t).attr = "relation" /\ Current(t).write /\ OK \in Outcomes(t)
                => Obj(t) < PortCnt
           /\ Current(t).attr = "ident_info" /\ ~Current(t).write
                => Outcomes(t) \subseteq {OK, "INVALID_HANDLE"}
<1> DEFINE a == Current(t)
<1>1. a \in AccessRecords
  BY CurrentIs
<1>2. CASE a.write
  <2>1. a.attr \in Stored
    BY <1>1, <1>2, AccessKinds DEF IsFile
  <2>2. Outcomes(t) = netana_attr_store(a.attr, Obj(t))
    BY <1>2 DEF Outcomes
  <2> HIDE DEF a
  <2>3. /\ netana_attr_store(a.attr, Obj(t)) \subseteq Results
        /\ "EINVAL" \in netana_attr_store(a.attr, Obj(t)) => a.attr = "dsr"
        /\ a.attr = "relation" /\ OK \in netana_attr_store(a.attr, Obj(t)) => Obj(t) < PortCnt
    BY <2>1, StoreResults
  <2> QED
    BY <1>2, <2>2, <2>3 DEF a
<1>3. CASE ~a.write
  <2>1. a.attr \in Shown
    BY <1>1, <1>3, AccessKinds DEF IsFile
  <2>2. Outcomes(t) = netana_attr_show(a.attr, Obj(t))
    BY <1>3 DEF Outcomes
  <2> HIDE DEF a
  <2>3. /\ netana_attr_show(a.attr, Obj(t)) \subseteq Results \ {"EINVAL"}
        /\ a.attr = "ident_info"
             => netana_attr_show(a.attr, Obj(t)) \subseteq {OK, "INVALID_HANDLE"}
    BY <2>1, ShowResults
  <2> QED
    BY <1>3, <2>2, <2>3 DEF a
<1> QED
  BY <1>2, <1>3

(* Obj and Tag of a call.                                                  *)
LEMMA CallContents ==
    ASSUME SysfsAssumption, TypeOK, NEW t \in Threads, run[t].call \in Calls
    PROVE  /\ Tag(t) \in Contents
           /\ run[t].call.op = "set_filter" => /\ Tag(t) = run[t].call.tag
                                               /\ Obj(t) = run[t].call.obj
<1> DEFINE q == run[t].call
<1>1. q \in Requests
  BY DEF SysfsAssumption
<1> HIDE DEF q
<1>2. "tag" \in DOMAIN q => q.tag \in Tags
  BY <1>1 DEF Requests
<1>3. q.op = "set_filter" => "tag" \in DOMAIN q /\ "obj" \in DOMAIN q
  BY <1>1 DEF Requests
<1> QED
  BY <1>2, <1>3 DEF Tag, Obj, Contents, q

(* What a thread does after an access that was served.                     *)
LEMMA TailSuits ==
    ASSUME TypeOK, Shape, NEW t \in Threads, Under(run[t]), Len(run[t].todo) > 1
    PROVE  /\ Tail(run[t].todo) \in Seq(AccessRecords)
           /\ Len(Tail(run[t].todo)) = Len(run[t].todo) - 1
           /\ \A i \in 1 .. Len(Tail(run[t].todo)) :
                 /\ i + 1 \in 1 .. Len(run[t].todo)
                 /\ Tail(run[t].todo)[i] = run[t].todo[i + 1]
                 /\ Suits(run[t].call, Tail(run[t].todo)[i])
<1> DEFINE s == run[t].todo
<1>1. s \in Seq(AccessRecords) /\ s # <<>> /\ Len(s) \in Nat
  BY CurrentIs
<1>2. \A i \in 1 .. Len(s) : Suits(run[t].call, s[i])
  BY DEF Shape, Well
<1> HIDE DEF s
<1>3. /\ Tail(s) \in Seq(AccessRecords) /\ Len(Tail(s)) = Len(s) - 1
      /\ \A i \in 1 .. Len(Tail(s)) : i + 1 \in 1 .. Len(s) /\ Tail(s)[i] = s[i + 1]
  BY <1>1, FitsTail
<1> QED
  BY <1>2, <1>3 DEF s

LEMMA ServedIs ==
    ASSUME TypeOK, Shape, NEW t \in Threads, Under(run[t])
    PROVE  /\ Served(t) \in RunRecords /\ Well(Served(t))
           /\ Served(t).call = run[t].call /\ Served(t).refusal = run[t].refusal
           /\ Served(t).used = run[t].used /\ Served(t).tries = run[t].tries
           /\ \/ /\ Len(run[t].todo) > 1
                 /\ Served(t).step = "access" /\ Served(t).todo = Tail(run[t].todo)
              \/ /\ Len(run[t].todo) = 1
                 /\ Served(t).step = "return" /\ Served(t).result = OK
              \/ /\ Len(run[t].todo) = 1 /\ run[t].call.op = "device_info"
                 /\ run[t].call.short
                 /\ Served(t).step = "get_error" /\ Served(t).todo = run[t].todo
<1>1. /\ run[t] \in RunRecords /\ Len(run[t].todo) \in Nat /\ Len(run[t].todo) >= 1
      /\ run[t].call \in Calls /\ Well(run[t])
  BY CurrentIs DEF TypeOK, Shape
<1>2. CASE Len(run[t].todo) > 1
  <2> DEFINE s == Tail(run[t].todo)
  <2>1. /\ s \in Seq(AccessRecords) /\ Len(s) >= 1
        /\ \A i \in 1 .. Len(s) : Suits(run[t].call, s[i])
    BY <1>1, <1>2, TailSuits
  <2>2. Served(t) = [run[t] EXCEPT !.step = "access", !.todo = s]
    BY <1>2 DEF Served
  <2> HIDE DEF s
  <2>3. /\ Served(t) \in RunRecords
        /\ Served(t).call = run[t].call /\ Served(t).refusal = run[t].refusal
        /\ Served(t).used = run[t].used /\ Served(t).tries = run[t].tries
        /\ Served(t).step = "access" /\ Served(t).todo = s
    BY <1>1, <2>1, <2>2 DEF RunRecords, Steps
  <2>4. Well(Served(t))
    BY <1>1, <2>1, <2>3 DEF Well
  <2> QED
    BY <1>2, <2>3, <2>4 DEF s
<1>3. CASE Len(run[t].todo) = 1 /\ run[t].call.op = "device_info" /\ run[t].call.short
  <2>1. Served(t) = [run[t] EXCEPT !.step = "get_error"]
    BY <1>3 DEF Served
  <2>2. /\ Served(t) \in RunRecords
        /\ Served(t).call = run[t].call /\ Served(t).refusal = run[t].refusal
        /\ Served(t).used = run[t].used /\ Served(t).tries = run[t].tries
        /\ Served(t).step = "get_error" /\ Served(t).todo = run[t].todo
    BY <1>1, <2>1 DEF RunRecords, Steps
  <2>3. Well(Served(t))
    BY <1>1, <2>2 DEF Well, Under
  <2> QED
    BY <1>3, <2>2, <2>3
<1>4. CASE Len(run[t].todo) = 1 /\ ~(run[t].call.op = "device_info" /\ run[t].call.short)
  <2>1. Served(t) = [run[t] EXCEPT !.step = "return", !.result = OK]
    BY <1>4 DEF Served, Finish
  <2>2. /\ Served(t) \in RunRecords
        /\ Served(t).call = run[t].call /\ Served(t).refusal = run[t].refusal
        /\ Served(t).used = run[t].used /\ Served(t).tries = run[t].tries
        /\ Served(t).step = "return" /\ Served(t).result = OK
    BY <1>1, <2>1 DEF RunRecords, Steps, Results
  <2>3. Well(Served(t))
    BY <1>1, <2>2 DEF Well, Under
  <2> QED
    BY <1>4, <2>2, <2>3
<1>5. Len(run[t].todo) > 1 \/ Len(run[t].todo) = 1
  <2>1. \A n \in Nat : n >= 1 => n > 1 \/ n = 1
    OBVIOUS
  <2> QED
    BY <1>1, <2>1, Zenon
<1> QED
  BY <1>2, <1>3, <1>4, <1>5, Zenon

LEMMA FinishIs ==
    ASSUME TypeOK, Shape, NEW t \in Threads, Under(run[t]), NEW e \in Results
    PROVE  /\ Finish(t, e) \in RunRecords /\ Well(Finish(t, e))
           /\ Finish(t, e).call = run[t].call /\ Finish(t, e).refusal = run[t].refusal
           /\ Finish(t, e).used = run[t].used /\ Finish(t, e).tries = run[t].tries
           /\ Finish(t, e).step = "return" /\ Finish(t, e).result = e
<1>1. run[t] \in RunRecords /\ run[t].call \in Calls
  BY CurrentIs DEF TypeOK
<1>2. /\ Finish(t, e) \in RunRecords
      /\ Finish(t, e).call = run[t].call /\ Finish(t, e).refusal = run[t].refusal
      /\ Finish(t, e).used = run[t].used /\ Finish(t, e).tries = run[t].tries
      /\ Finish(t, e).step = "return" /\ Finish(t, e).result = e
  BY <1>1 DEF Finish, RunRecords, Steps
<1> QED
  BY <1>1, <1>2 DEF Well, Under

(* The parameters of an access are typed.                                  *)
LEMMA PassedTyped ==
    ASSUME SysfsAssumption, TypeOK, NEW a
    PROVE  Passed(a) \subseteq Contents
<1>1. get_timeout \in Contents
  BY DEF TypeOK, get_timeout, Contents
<1>2. block \in Contents
  BY DEF TypeOK
<1> QED
  BY <1>1, <1>2 DEF Passed

LEMMA ServedByIs ==
    ASSUME SysfsAssumption, TypeOK, Shape, NEW t \in Threads, Under(run[t])
    PROVE  /\ ServedBy(t) \in RunRecords /\ Well(ServedBy(t))
           /\ ServedBy(t).call = run[t].call /\ ServedBy(t).refusal = run[t].refusal
           /\ ServedBy(t).used = run[t].used \cup Passed(Current(t))
           /\ ServedBy(t).tries = run[t].tries
           /\ ServedBy(t).step = Served(t).step /\ ServedBy(t).todo = Served(t).todo
           /\ ServedBy(t).result = Served(t).result
<1> DEFINE r == Served(t)
           s == ServedBy(t)
<1>1. /\ r \in RunRecords /\ Well(r) /\ r.call = run[t].call /\ r.refusal = run[t].refusal
      /\ r.used = run[t].used /\ r.tries = run[t].tries
  BY ServedIs
<1>2. s = [r EXCEPT !.used = r.used \cup Passed(Current(t))]
  BY DEF ServedBy
<1>3. Passed(Current(t)) \subseteq Contents
  BY PassedTyped
<1> HIDE DEF r, s
<1>4. /\ s \in RunRecords /\ s.call = r.call /\ s.refusal = r.refusal /\ s.tries = r.tries
      /\ s.used = r.used \cup Passed(Current(t))
      /\ s.step = r.step /\ s.todo = r.todo /\ s.result = r.result
  BY <1>1, <1>2, <1>3 DEF RunRecords
<1>5. Well(s)
  BY <1>1, <1>4 DEF Well, Under
<1> QED
  BY <1>1, <1>4, <1>5 DEF r, s

\* What a step makes of the thread's record.
Moves(t, r) ==
    /\ r \in RunRecords /\ Well(r) /\ Go(t, r)
    /\ \/ run[t].step # "idle" /\ r.step # "idle" /\ r.call = run[t].call
       \/ run[t].step # "idle" /\ r.step = "idle"
       \/ Begin(t)

LEMMA IdleTyped == Idle \in RunRecords /\ Well(Idle) /\ Idle.step = "idle"
<1>1. Idle \in RunRecords /\ Idle.step = "idle"
  <2>1. <<>> \in Seq(AccessRecords)
    OBVIOUS
  <2> QED
    BY <2>1 DEF Idle, RunRecords, Steps, Results, Contents
<1> QED
  BY <1>1 DEF Well, Under

LEMMA BeginMoves ==
    ASSUME SysfsAssumption, TypeOK, Shape, NEW t \in Threads, Begin(t)
    PROVE  \E r : Moves(t, r)
<1>1. PICK q \in Calls :
          \/ /\ UsesHandle(q) => handle
             /\ Go(t, [Idle EXCEPT !.step = "access", !.call = q, !.todo = Accesses(q)])
          \/ \E e \in Unasked(q) :
                Go(t, [Idle EXCEPT !.step = "return", !.call = q, !.result = e])
  BY DEF Begin
<1>2. CASE Go(t, [Idle EXCEPT !.step = "access", !.call = q, !.todo = Accesses(q)])
  <2> DEFINE s == Accesses(q)
             r == [Idle EXCEPT !.step = "access", !.call = q, !.todo = s]
  <2>1. /\ s \in Seq(AccessRecords) /\ Len(s) >= 1
        /\ \A i \in 1 .. Len(s) : Suits(q, s[i])
    BY AccessesFit DEF Fits
  <2> HIDE DEF s
  <2>2. r \in RunRecords /\ r.call = q /\ r.todo = s /\ r.step = "access"
    BY <2>1 DEF Idle, RunRecords, Steps, Results, Contents
  <2>3. Go(t, r)
    BY <1>2 DEF s
  <2> HIDE DEF r
  <2>4. Well(r)
    BY <2>1, <2>2 DEF Well
  <2> QED
    BY <2>2, <2>3, <2>4 DEF Moves
<1>3. CASE \E e \in Unasked(q) :
              Go(t, [Idle EXCEPT !.step = "return", !.call = q, !.result = e])
  <2>1. PICK e \in Unasked(q) :
              Go(t, [Idle EXCEPT !.step = "return", !.call = q, !.result = e])
    BY <1>3
  <2>2. e \in Results
    BY DEF Unasked, CheckDeviceHandle, IsCaptureRunning, Results
  <2> DEFINE r == [Idle EXCEPT !.step = "return", !.call = q, !.result = e]
  <2>3. r \in RunRecords /\ r.call = q /\ r.step = "return"
    <3>1. <<>> \in Seq(AccessRecords)
      OBVIOUS
    <3> QED
      BY <2>2, <3>1 DEF Idle, RunRecords, Steps, Results, Contents
  <2>4. Go(t, r)
    BY <2>1
  <2> HIDE DEF r
  <2> QED
    BY <2>3, <2>4 DEF Moves, Well, Under
<1> QED
  BY <1>1, <1>2, <1>3

LEMMA NotThereMoves ==
    ASSUME SysfsAssumption, TypeOK, Shape, NEW t \in Threads, NotThere(t)
    PROVE  \E r : Moves(t, r)
<1>1. /\ run[t].step = "access" /\ Under(run[t])
      /\ Go(t, IF Current(t).absent = "go on" THEN Served(t)
               ELSE Finish(t, Current(t).absent))
  BY DEF NotThere, Under
<1>2. CASE Current(t).absent = "go on"
  BY <1>1, <1>2, ServedIs DEF Moves
<1>3. CASE Current(t).absent # "go on"
  <2>1. Current(t).absent \in Results
    BY <1>1, <1>3, CurrentIs, AccessKinds
  <2> DEFINE r == Finish(t, Current(t).absent)
  <2>2. /\ r \in RunRecords /\ Well(r) /\ r.call = run[t].call /\ r.step = "return"
        /\ Go(t, r)
    BY <1>1, <1>3, <2>1, FinishIs
  <2> HIDE DEF r
  <2> QED
    BY <1>1, <2>2 DEF Moves
<1> QED
  BY <1>2, <1>3

LEMMA RefusedIs ==
    ASSUME SysfsAssumption, TypeOK, Shape, NEW t \in Threads, Refused(t)
    PROVE  /\ run[t].step = "access" /\ Under(run[t]) /\ IsFile(Current(t))
           /\ \E e \in Results \ {OK}, r \in RunRecords :
                 /\ e \in Outcomes(t)
                 /\ Go(t, r) /\ Well(r) /\ r.call = run[t].call /\ r.refusal = e
                 /\ r.todo = run[t].todo
                 /\ r.used = run[t].used \cup Passed(Current(t))
                 /\ \/ /\ TooLong(t) /\ r.step = "return" /\ r.result = "INVALID_BUFFERSIZE"
                    \/ /\ ~TooLong(t) /\ Current(t).refused \in {"get_error", "go on"}
                       /\ r.step = "get_error"
                    \/ /\ ~TooLong(t) /\ Current(t).refused \in Results
                       /\ r.step = "return" /\ r.result = Current(t).refused
                 /\ IF e = "EINVAL" THEN UNCHANGED tasks ELSE store_err(t, e)
                 /\ filters' = IF Current(t).attr = "ident_info" /\ Restarted(e)
                               THEN [o \in DOMAIN filters |-> NoFilter] ELSE filters
                 /\ block' = IF WritesBlock(Current(t)) /\ e # "INVALID_HANDLE"
                             THEN Tag(t) ELSE block
                 /\ IF WritesBlock(Current(t)) /\ e # "INVALID_HANDLE"
                    THEN Disturb(t) ELSE UNCHANGED disturbed
                 /\ lost' \in BOOLEAN
                 /\ UNCHANGED <<handle, stage, calls>>
<1> DEFINE a == Current(t)
           r0(e) == [run[t] EXCEPT !.refusal = e, !.used = @ \cup Passed(a)]
           r1(e) == IF TooLong(t)
                    THEN [r0(e) EXCEPT !.step = "return", !.result = "INVALID_BUFFERSIZE"]
                    ELSE IF a.refused \in {"get_error", "go on"}
                    THEN [r0(e) EXCEPT !.step = "get_error"]
                    ELSE [r0(e) EXCEPT !.step = "return", !.result = a.refused]
<1>1. run[t].step = "access" /\ Under(run[t]) /\ IsFile(a)
  BY DEF Refused, There, Under
<1>2. PICK e \in Outcomes(t) \ {OK} :
          /\ IF e = "EINVAL" THEN UNCHANGED tasks ELSE store_err(t, e)
          /\ lost' = (lost \/ e = "HWRESET_ERROR")
          /\ filters' = IF a.attr = "ident_info" /\ Restarted(e)
                        THEN [o \in DOMAIN filters |-> NoFilter] ELSE filters
          /\ block' = IF a.attr = "ident_check" /\ a.write /\ e # "INVALID_HANDLE"
                      THEN Tag(t) ELSE block
          /\ IF a.attr = "ident_check" /\ a.write /\ e # "INVALID_HANDLE"
             THEN Disturb(t) ELSE UNCHANGED disturbed
          /\ Go(t, r1(e))
  BY DEF Refused
<1>3. e \in Results
  BY <1>1, OutcomesAre
<1>4. Passed(a) \subseteq Contents
  BY PassedTyped
<1>5. a.refused \in Results \cup {"get_error", "go on"} /\ run[t].call \in Calls
  BY <1>1, CurrentIs, AccessKinds
<1>6. run[t] \in RunRecords /\ Well(run[t])
  BY DEF TypeOK, Shape
<1>7. UNCHANGED <<handle, stage, calls>>
  BY DEF Refused
<1>8. lost' \in BOOLEAN
  BY <1>2
<1> DEFINE r == r1(e)
           p == Passed(a)
<1>9. Go(t, r)
  BY <1>2
<1> HIDE DEF a, p
<1>10. /\ r0(e) \in RunRecords /\ r0(e).call = run[t].call /\ r0(e).refusal = e
       /\ r0(e).todo = run[t].todo /\ r0(e).used = run[t].used \cup p
  BY <1>3, <1>4, <1>6 DEF RunRecords, p
<1> HIDE DEF r0
<1>11. /\ r \in RunRecords /\ r.call = run[t].call /\ r.refusal = e
       /\ r.todo = run[t].todo /\ r.used = run[t].used \cup p
       /\ \/ /\ TooLong(t) /\ r.step = "return" /\ r.result = "INVALID_BUFFERSIZE"
          \/ /\ ~TooLong(t) /\ a.refused \in {"get_error", "go on"}
             /\ r.step = "get_error"
          \/ /\ ~TooLong(t) /\ a.refused \in Results
             /\ r.step = "return" /\ r.result = a.refused
  <2>1. CASE TooLong(t)
    BY <1>10, <2>1 DEF RunRecords, Steps, Results
  <2>2. CASE ~TooLong(t) /\ a.refused \in {"get_error", "go on"}
    BY <1>10, <2>2 DEF RunRecords, Steps
  <2>3. CASE ~TooLong(t) /\ a.refused \notin {"get_error", "go on"}
    BY <1>5, <1>10, <2>3 DEF RunRecords, Steps
  <2> QED
    BY <2>1, <2>2, <2>3
<1> HIDE DEF r
<1>12. Well(r)
  BY <1>1, <1>5, <1>6, <1>11 DEF Well, Under
<1> QED
  BY <1>1, <1>2, <1>3, <1>7, <1>8, <1>9, <1>11, <1>12 DEF a, p, WritesBlock

LEMMA ErrorTyped ==
    ASSUME TypeOK, NEW t
    PROVE  get_err(t) \in Results
BY DEF TypeOK, get_err, Results

LEMMA GetErrorMoves ==
    ASSUME SysfsAssumption, TypeOK, Shape, NEW t \in Threads, GetError(t)
    PROVE  \E r : Moves(t, r)
<1>1. /\ run[t].step = "get_error" /\ Under(run[t])
      /\ Go(t, IF Current(t).refused = "go on" THEN Served(t) ELSE Finish(t, get_err(t)))
  BY DEF GetError, Under
<1>2. CASE Current(t).refused = "go on"
  BY <1>1, <1>2, ServedIs DEF Moves
<1>3. CASE Current(t).refused # "go on"
  <2> DEFINE r == Finish(t, get_err(t))
  <2>0. get_err(t) \in Results
    BY ErrorTyped
  <2>1. /\ r \in RunRecords /\ Well(r) /\ r.call = run[t].call /\ r.step = "return"
        /\ Go(t, r)
    BY <1>1, <1>3, <2>0, FinishIs
  <2> HIDE DEF r
  <2> QED
    BY <1>1, <2>1 DEF Moves
<1> QED
  BY <1>2, <1>3

(* netana_transfer_packet asks for the next packet.                        *)
Again(t) == [ServedBy(t) EXCEPT !.step = "access", !.todo = netana_get_packet,
                                !.result = OK, !.tries = @ + 1]
LEMMA AgainIs ==
    ASSUME SysfsAssumption, TypeOK, Shape, NEW t \in Threads, Under(run[t]),
           run[t].call.op = "transfer"
    PROVE  /\ Again(t) \in RunRecords /\ Well(Again(t)) /\ Again(t).call = run[t].call
           /\ Again(t).refusal = run[t].refusal /\ Again(t).step = "access"
           /\ Again(t).used = run[t].used \cup Passed(Current(t))
           /\ Again(t).todo = netana_get_packet
<1> DEFINE r == ServedBy(t)
           s == netana_get_packet
           x == [r EXCEPT !.step = "access", !.todo = s, !.result = OK, !.tries = @ + 1]
<1>1. /\ r \in RunRecords /\ r.call = run[t].call /\ r.refusal = run[t].refusal
      /\ r.used = run[t].used \cup Passed(Current(t)) /\ run[t].call \in Calls
  BY ServedByIs, CurrentIs
<1>2. /\ s \in Seq(AccessRecords) /\ Len(s) = 2
      /\ \A i \in 1 .. Len(s) : Suits(run[t].call, s[i])
  BY FitsPacket DEF Fits
<1> HIDE DEF r, s
<1>3. /\ x \in RunRecords /\ x.call = r.call /\ x.refusal = r.refusal /\ x.used = r.used
      /\ x.step = "access" /\ x.todo = s
  <2>1. r.tries + 1 \in Nat
    BY <1>1 DEF RunRecords
  <2> QED
    BY <1>1, <1>2, <2>1 DEF RunRecords, Steps, Results
<1>4. x = Again(t)
  BY DEF Again, r, s
<1> HIDE DEF x
<1>5. Well(x)
  <2>1. x.call \in Calls /\ x.call = run[t].call
    BY <1>1, <1>3
  <2>2. Len(s) >= 1
    BY <1>2
  <2>3. Len(x.todo) >= 1 /\ \A i \in 1 .. Len(x.todo) : Suits(x.call, x.todo[i])
    BY <1>2, <1>3, <2>1, <2>2, Zenon
  <2> QED
    BY <2>1, <2>3 DEF Well
<1> QED
  BY <1>1, <1>3, <1>4, <1>5 DEF s

LEMMA AnswerIs ==
    ASSUME SysfsAssumption, TypeOK, Shape, NEW t \in Threads, Answer(t)
    PROVE  /\ run[t].step = "access" /\ Under(run[t]) /\ run[t].call.op = "transfer"
           /\ \E r \in RunRecords :
                 /\ Go(t, r) /\ Well(r) /\ r.call = run[t].call /\ r.refusal = run[t].refusal
                 /\ r.used = run[t].used \cup Passed(Current(t))
                 /\ \/ r.step = "return"
                    \/ r.step = "access" /\ r.todo = netana_get_packet
           /\ UNCHANGED <<device, calls>>
<1>1. /\ run[t].step = "access" /\ Under(run[t]) /\ run[t].call.op = "transfer"
      /\ Len(run[t].todo) = 1 /\ UNCHANGED <<device, calls>>
  BY DEF Answer, Granted, There, Under
<1> DEFINE r == ServedBy(t)
<1>2. /\ r \in RunRecords /\ Well(r) /\ r.call = run[t].call /\ r.refusal = run[t].refusal
      /\ r.used = run[t].used \cup Passed(Current(t))
      /\ r.step = Served(t).step
  BY <1>1, ServedByIs
<1>3. r.step = "return"
  <2>1. ~(Len(run[t].todo) > 1) /\ run[t].call.op # "device_info"
    BY <1>1
  <2> QED
    BY <1>1, <1>2, <2>1, ServedIs, Zenon
<1>4. \/ Go(t, r) \/ Go(t, Again(t)) \/ Go(t, [r EXCEPT !.result = "TRANSFER_TIMEOUT"])
  BY DEF Answer, Again
<1> HIDE DEF r
<1>5. CASE Go(t, r)
  BY <1>1, <1>2, <1>3, <1>5
<1>6. CASE Go(t, Again(t))
  BY <1>1, <1>6, AgainIs
<1>7. CASE Go(t, [r EXCEPT !.result = "TRANSFER_TIMEOUT"])
  <2> DEFINE x == [r EXCEPT !.result = "TRANSFER_TIMEOUT"]
  <2>1. /\ x \in RunRecords /\ x.call = r.call /\ x.refusal = r.refusal /\ x.used = r.used
        /\ x.step = r.step /\ x.todo = r.todo
    BY <1>2 DEF RunRecords, Results
  <2>2. Go(t, x)
    BY <1>7
  <2> HIDE DEF x
  <2>3. Well(x)
    BY <1>2, <2>1 DEF Well, Under
  <2> QED
    BY <1>1, <1>2, <1>3, <2>1, <2>2, <2>3
<1> QED
  BY <1>4, <1>5, <1>6, <1>7

(* The steps after which the call goes on as after any access that was     *)
(* served, or ends.                                                        *)
LEMMA AfterStore ==
    ASSUME SysfsAssumption, TypeOK, Shape, NEW t \in Threads,
           \/ SetTimeout(t) \/ SetFilter(t) \/ WriteIdent(t) \/ IdentUpdate(t)
    PROVE  run[t].step = "access" /\ Under(run[t]) /\ Go(t, Served(t))
BY DEF SetTimeout, SetFilter, WriteIdent, IdentUpdate, Stores, Granted, There, Under

LEMMA AfterRead ==
    ASSUME SysfsAssumption, TypeOK, Shape, NEW t \in Threads, Plain(t) \/ ReadIdent(t)
    PROVE  run[t].step = "access" /\ Under(run[t]) /\ Go(t, ServedBy(t))
BY DEF Plain, ReadIdent, Granted, There, Under

LEMMA EndMoves ==
    ASSUME SysfsAssumption, TypeOK, Shape, NEW t \in Threads, run[t].step = "access",
           NEW e \in Results, Go(t, Finish(t, e))
    PROVE  \E r : Moves(t, r)
<1> DEFINE r == Finish(t, e)
<1>1. /\ r \in RunRecords /\ Well(r) /\ r.call = run[t].call /\ r.step = "return"
      /\ Go(t, r)
  BY FinishIs DEF Under
<1> HIDE DEF r
<1> QED
  BY <1>1 DEF Moves

LEMMA ServedMoves ==
    ASSUME SysfsAssumption, TypeOK, Shape, NEW t \in Threads, run[t].step = "access",
           Go(t, Served(t)) \/ Go(t, ServedBy(t))
    PROVE  \E r : Moves(t, r)
<1>1. Under(run[t])
  BY DEF Under
<1>2. CASE Go(t, Served(t))
  BY <1>1, <1>2, ServedIs DEF Moves
<1>3. CASE Go(t, ServedBy(t))
  BY <1>1, <1>3, ServedIs, ServedByIs DEF Moves
<1> QED
  BY <1>2, <1>3

LEMMA StepMoves ==
    ASSUME SysfsAssumption, TypeOK, Shape, NEW t \in Threads, Step(t)
    PROVE  \E r : Moves(t, r)
<1>1. CASE Begin(t)
  BY <1>1, BeginMoves
<1>2. CASE NotThere(t)
  BY <1>2, NotThereMoves
<1>3. CASE Refused(t)
  BY <1>3, RefusedIs DEF Moves, Under
<1>4. CASE GetError(t)
  BY <1>4, GetErrorMoves
<1>5. CASE Plain(t) \/ ReadIdent(t)
  BY <1>5, AfterRead, ServedMoves
<1>6. CASE SetTimeout(t) \/ SetFilter(t) \/ WriteIdent(t) \/ IdentUpdate(t)
  BY <1>6, AfterStore, ServedMoves
<1>7. CASE StoreFilter(t)
  <2>1. run[t].step = "access"
    BY <1>7 DEF StoreFilter, Stores, Granted, There
  <2>2. Go(t, Finish(t, "INVALID_BUFFERSIZE")) \/ Go(t, Served(t))
    BY <1>7 DEF StoreFilter
  <2>3. "INVALID_BUFFERSIZE" \in Results
    BY DEF Results
  <2> QED
    BY <2>1, <2>2, <2>3, EndMoves, ServedMoves
<1>8. CASE Answer(t)
  <2>1. PICK r \in RunRecords :
           Go(t, r) /\ Well(r) /\ r.call = run[t].call /\ r.step \in {"return", "access"}
    BY <1>8, AnswerIs
  <2>2. run[t].step = "access"
    BY <1>8, AnswerIs
  <2> QED
    BY <2>1, <2>2 DEF Moves
<1>9. CASE OpenFile(t)
  <2>1. run[t].step = "access"
    BY <1>9 DEF OpenFile
  <2>2. \/ Go(t, Finish(t, "DEVICE_STILL_OPEN")) \/ Go(t, Finish(t, "FUNCTION_FAILED"))
        \/ Go(t, Served(t))
    BY <1>9 DEF OpenFile
  <2>3. "DEVICE_STILL_OPEN" \in Results /\ "FUNCTION_FAILED" \in Results
    BY DEF Results
  <2> QED
    BY <2>1, <2>2, <2>3, EndMoves, ServedMoves
<1>10. CASE CloseFile(t)
  <2>1. run[t].step = "access"
    BY <1>10 DEF CloseFile
  <2>2. Go(t, Finish(t, "CAPTURE_ACTIVE")) \/ Go(t, Served(t))
    BY <1>10 DEF CloseFile
  <2>3. "CAPTURE_ACTIVE" \in Results
    BY DEF Results
  <2> QED
    BY <2>1, <2>2, <2>3, EndMoves, ServedMoves
<1>11. CASE Return(t)
  BY <1>11, IdleTyped DEF Return, Moves
<1> QED
  BY <1>1, <1>2, <1>3, <1>4, <1>5, <1>6, <1>7, <1>8, <1>9, <1>10, <1>11 DEF Step

Entries == [lasterror : Results, timeout : Contents]
DeviceTyped ==
    /\ handle \in BOOLEAN /\ lost \in BOOLEAN
    /\ tasks \in [DOMAIN tasks -> Entries]
    /\ stage \in [Parts -> Contents]
    /\ filters \in [0 .. PortCnt - 1 -> [Parts -> Contents]]
    /\ block \in Contents
    /\ calls \in Nat

(* The list of tasks keeps its types, and what it has of other threads.    *)
LEMMA KeepIs ==
    ASSUME TypeOK, NEW t, NEW e \in Entries, Keep(t, e)
    PROVE  /\ tasks' \in [DOMAIN tasks' -> Entries]
           /\ DOMAIN tasks' = DOMAIN tasks \cup {t}
           /\ \A u \in DOMAIN tasks' : tasks'[u] = IF u = t THEN e ELSE tasks[u]
BY DEF TypeOK, Entries, Keep

LEMMA EntryTyped ==
    ASSUME TypeOK, NEW t
    PROVE  Entry(t) \in Entries
BY DEF TypeOK, Entries, Entry, Results, Contents

LEMMA StoreErrIs ==
    ASSUME TypeOK, NEW t, NEW e \in Results, store_err(t, e)
    PROVE  /\ tasks' \in [DOMAIN tasks' -> Entries]
           /\ get_err(t)' = e
           /\ \A u : u # t => get_err(u)' = get_err(u)
           /\ get_timeout' = get_timeout
<1> DEFINE x == Entry(t)
           y == [x EXCEPT !.lasterror = e]
<1>1. x \in Entries /\ Keep(t, y)
  BY EntryTyped DEF store_err
<1>2. x.timeout = IF t \in DOMAIN tasks THEN tasks[t].timeout ELSE 0
  BY DEF Entry
<1> HIDE DEF x
<1>3. y \in Entries /\ y.lasterror = e /\ y.timeout = x.timeout
  BY <1>1 DEF Entries
<1> HIDE DEF y
<1>4. /\ tasks' \in [DOMAIN tasks' -> Entries]
      /\ DOMAIN tasks' = DOMAIN tasks \cup {t}
      /\ \A u \in DOMAIN tasks' : tasks'[u] = IF u = t THEN y ELSE tasks[u]
  BY <1>1, <1>3, KeepIs
<1>5. get_err(t)' = e
  BY <1>3, <1>4 DEF get_err
<1>6. \A u : u # t => get_err(u)' = get_err(u)
  BY <1>4 DEF get_err
<1>7. get_timeout' = get_timeout
  BY <1>2, <1>3, <1>4 DEF get_timeout
<1> QED
  BY <1>4, <1>5, <1>6, <1>7

LEMMA StoreTimeoutIs ==
    ASSUME TypeOK, NEW x \in Contents, store_timeout(x)
    PROVE  /\ tasks' \in [DOMAIN tasks' -> Entries]
           /\ \A u : get_err(u)' = get_err(u)
           /\ get_timeout' = x
<1> DEFINE e == Entry(Leader)
           y == [e EXCEPT !.timeout = x]
<1>1. e \in Entries /\ Keep(Leader, y)
  BY EntryTyped DEF store_timeout
<1>2. e.lasterror = IF Leader \in DOMAIN tasks THEN tasks[Leader].lasterror ELSE OK
  BY DEF Entry
<1> HIDE DEF e
<1>3. y \in Entries /\ y.lasterror = e.lasterror /\ y.timeout = x
  BY <1>1 DEF Entries
<1> HIDE DEF y
<1>4. /\ tasks' \in [DOMAIN tasks' -> Entries]
      /\ DOMAIN tasks' = DOMAIN tasks \cup {Leader}
      /\ \A u \in DOMAIN tasks' : tasks'[u] = IF u = Leader THEN y ELSE tasks[u]
  BY <1>1, <1>3, KeepIs
<1>5. \A u : get_err(u)' = get_err(u)
  BY <1>2, <1>3, <1>4 DEF get_err
<1>6. get_timeout' = x
  BY <1>3, <1>4 DEF get_timeout
<1> QED
  BY <1>4, <1>5, <1>6

LEMMA NoFilterTyped == NoFilter \in [Parts -> Contents]
BY DEF NoFilter, Contents

LEMMA DeviceStep ==
    ASSUME SysfsAssumption, TypeOK, Shape, NEW t \in Threads, Step(t)
    PROVE  DeviceTyped'
<1>1. DeviceTyped
  BY DEF TypeOK, DeviceTyped, Entries
<1>2. Under(run[t]) => Tag(t) \in Contents
  BY CurrentIs, CallContents
<1>3. CASE Begin(t)
  <2>1. calls' = calls + 1 /\ UNCHANGED device
    BY <1>3 DEF Begin
  <2>2. calls' \in Nat
    BY <1>1, <2>1 DEF DeviceTyped
  <2> QED
    BY <1>1, <2>1, <2>2 DEF device, DeviceTyped
<1>4. CASE \/ NotThere(t) \/ GetError(t) \/ Plain(t) \/ Answer(t) \/ Return(t)
  BY <1>1, <1>4 DEF NotThere, GetError, Plain, Answer, Return, device, DeviceTyped
<1>5. CASE Refused(t)
  <2>1. PICK e \in Results \ {OK} :
           /\ IF e = "EINVAL" THEN UNCHANGED tasks ELSE store_err(t, e)
           /\ filters' = IF Current(t).attr = "ident_info" /\ Restarted(e)
                         THEN [o \in DOMAIN filters |-> NoFilter] ELSE filters
           /\ block' = IF WritesBlock(Current(t)) /\ e # "INVALID_HANDLE"
                       THEN Tag(t) ELSE block
           /\ lost' \in BOOLEAN
           /\ UNCHANGED <<handle, stage, calls>>
    BY <1>5, RefusedIs
  <2>2. tasks' \in [DOMAIN tasks' -> Entries]
    <3>1. CASE e = "EINVAL"
      <4>1. tasks' = tasks
        BY <2>1, <3>1
      <4> QED
        BY <1>1, <4>1 DEF DeviceTyped
    <3>2. CASE e # "EINVAL"
      BY <2>1, <3>2, StoreErrIs
    <3> QED
      BY <3>1, <3>2
  <2>3. filters' \in [0 .. PortCnt - 1 -> [Parts -> Contents]]
    BY <1>1, <2>1, NoFilterTyped DEF DeviceTyped
  <2>4. block' \in Contents
    BY <1>1, <1>2, <1>5, <2>1, RefusedIs DEF DeviceTyped
  <2> QED
    BY <1>1, <2>1, <2>2, <2>3, <2>4 DEF DeviceTyped
<1>6. CASE SetTimeout(t)
  <2>1. store_timeout(Tag(t)) /\ UNCHANGED <<handle, lost, stage, filters, block, calls>>
    BY <1>6 DEF SetTimeout
  <2>2. Tag(t) \in Contents
    BY <1>2, <1>6, AfterStore
  <2>3. tasks' \in [DOMAIN tasks' -> Entries]
    BY <2>1, <2>2, StoreTimeoutIs
  <2> QED
    BY <1>1, <2>1, <2>3 DEF DeviceTyped
<1>7. CASE StoreFilter(t)
  <2>1. Tag(t) \in Contents
    BY <1>2, <1>7 DEF StoreFilter, Stores, Granted, There, Under
  <2> QED
    BY <1>1, <1>7, <2>1 DEF StoreFilter, DeviceTyped
<1>8. CASE SetFilter(t)
  BY <1>1, <1>8 DEF SetFilter, DeviceTyped, Contents
<1>9. CASE WriteIdent(t)
  BY <1>1, <1>2, <1>9, AfterStore DEF WriteIdent, DeviceTyped
<1>10. CASE ReadIdent(t)
  BY <1>1, <1>10 DEF ReadIdent, DeviceTyped, Contents
<1>11. CASE IdentUpdate(t)
  BY <1>1, <1>11, NoFilterTyped DEF IdentUpdate, DeviceTyped
<1>12. CASE OpenFile(t)
  BY <1>1, <1>12, NoFilterTyped DEF OpenFile, DeviceTyped
<1>13. CASE CloseFile(t)
  <2>1. tasks' = tasks \/ cleanlist
    BY <1>13 DEF CloseFile
  <2>2. tasks' \in [DOMAIN tasks' -> Entries]
    BY <1>1, <2>1 DEF DeviceTyped, cleanlist
  <2> QED
    BY <1>1, <1>13, <2>2 DEF CloseFile, DeviceTyped
<1> QED
  BY <1>3, <1>4, <1>5, <1>6, <1>7, <1>8, <1>9, <1>10, <1>11, <1>12, <1>13 DEF Step

(* Who is disturbed.                                                       *)
LEMMA DisturbIs ==
    ASSUME TypeOK, NEW t \in Threads, Disturb(t)
    PROVE  /\ disturbed' \in [Threads -> BOOLEAN]
           /\ \A u \in Threads : ~disturbed'[u] =>
                 /\ ~disturbed[u]
                 /\ u # t => ~Passes(run[u].call, Current(t).attr, Obj(t))
<1> DEFINE new(u) == disturbed[u] \/ (u # t /\ Passes(run[u].call, Current(t).attr, Obj(t)))
<1>1. disturbed' = [u \in Threads |-> new(u)]
  BY DEF Disturb
<1>2. \A u \in Threads : new(u) \in BOOLEAN
  BY DEF TypeOK
<1>3. \A u \in Threads : ~new(u) =>
         /\ ~disturbed[u]
         /\ u # t => ~Passes(run[u].call, Current(t).attr, Obj(t))
  OBVIOUS
<1> HIDE DEF new
<1> QED
  BY <1>1, <1>2, <1>3

LEMMA DisturbedStep ==
    ASSUME SysfsAssumption, TypeOK, Shape, NEW t \in Threads, Step(t)
    PROVE  /\ disturbed' \in [Threads -> BOOLEAN]
           /\ \A u \in Threads : ~disturbed'[u] => ~disturbed[u] \/ (u = t /\ Return(t))
<1>1. CASE Return(t)
  BY <1>1 DEF Return, TypeOK
<1>2. CASE Disturb(t)
  BY <1>2, DisturbIs
<1>3. CASE disturbed' = disturbed
  BY <1>3 DEF TypeOK
<1>4. Return(t) \/ Disturb(t) \/ disturbed' = disturbed
  <2>1. CASE Refused(t)
    BY <2>1, RefusedIs
  <2>2. CASE ~Refused(t)
    BY <2>2 DEF Step, Begin, NotThere, GetError, Plain, SetTimeout, StoreFilter, SetFilter,
          WriteIdent, ReadIdent, IdentUpdate, Answer, OpenFile, CloseFile
  <2> QED
    BY <2>1, <2>2
<1> QED
  BY <1>1, <1>2, <1>3, <1>4

(* No two threads are in calls that must not be at once.                   *)
Apart ==
    \A t \in Threads : \A u \in Threads \ {t} :
       run[t].step # "idle" /\ run[u].step # "idle" => Compatible(run[t].call, run[u].call)
CallsInv == TypeOK /\ Shape /\ Apart

LEMMA CompatibleBoth ==
    ASSUME NEW q, NEW p, Compatible(q, p)
    PROVE  Compatible(p, q)
BY DEF Compatible

LEMMA CallsStep ==
    ASSUME SysfsAssumption, CallsInv, [Next]_vars
    PROVE  CallsInv'
<1>1. CASE UNCHANGED vars
  BY <1>1 DEF CallsInv, TypeOK, Shape, Apart, vars, device
<1>2. ASSUME NEW t \in Threads, Step(t)
      PROVE  CallsInv'
  <2>1. PICK r : Moves(t, r)
    BY <1>2, StepMoves DEF CallsInv
  <2>2. /\ run' \in [Threads -> RunRecords]
        /\ run'[t] = r /\ \A u \in Threads \ {t} : run'[u] = run[u]
    BY <2>1, Gone DEF CallsInv, Moves
  <2>3. TypeOK'
    BY <1>2, <2>2, DeviceStep, DisturbedStep DEF CallsInv, TypeOK, DeviceTyped, Entries
  <2>4. Shape'
    BY <2>1, <2>2 DEF CallsInv, Shape, Moves, Well, Under
  <2>5. Apart'
    <3>1. SUFFICES ASSUME NEW u \in Threads \ {t}, r.step # "idle", run[u].step # "idle"
                   PROVE  Compatible(r.call, run[u].call)
      BY <2>2, CompatibleBoth DEF CallsInv, Apart
    <3>2. CASE run[t].step # "idle" /\ r.call = run[t].call
      BY <3>1, <3>2 DEF CallsInv, Apart
    <3>3. CASE Begin(t)
      <4>1. PICK q \in Calls :
               /\ \A v \in Threads \ {t} : run[v].step # "idle" => Compatible(q, run[v].call)
               /\ \/ Go(t, [Idle EXCEPT !.step = "access", !.call = q, !.todo = Accesses(q)])
                  \/ \E e \in Unasked(q) :
                        Go(t, [Idle EXCEPT !.step = "return", !.call = q, !.result = e])
        BY <3>3 DEF Begin
      <4>2. run'[t].call = q
        BY <4>1 DEF Go, CallsInv, TypeOK, Idle
      <4> QED
        BY <2>2, <3>1, <4>1, <4>2
    <3> QED
      BY <2>1, <3>1, <3>2, <3>3 DEF Moves
  <2> QED
    BY <2>3, <2>4, <2>5 DEF CallsInv
<1> QED
  BY <1>1, <1>2 DEF Next

LEMMA CallsInit ==
    ASSUME SysfsAssumption, Init
    PROVE  CallsInv
<1>1. run \in [Threads -> RunRecords] /\ \A t \in Threads : run[t] = Idle
  BY IdleTyped DEF Init
<1>2. TypeOK
  BY <1>1, NoFilterTyped DEF Init, TypeOK, SysfsAssumption, Contents
<1>3. Shape /\ Apart
  BY <1>1, IdleTyped DEF Shape, Apart
<1> QED
  BY <1>2, <1>3 DEF CallsInv

(* Every access meets a handler, and every thread, the list and the device *)
(* keep their types, whatever calls the threads make.                      *)
THEOREM TypeCorrect == Spec => []TypeOK
<1>1. Init => CallsInv
  BY CallsInit, SysfsAssumption
<1>2. CallsInv /\ [Next]_vars => CallsInv'
  BY CallsStep, SysfsAssumption
<1>3. CallsInv => TypeOK
  BY DEF CallsInv
<1> QED
  BY <1>1, <1>2, <1>3, PTL DEF Spec

-----------------------------------------------------------------------------
(* What a step of another thread may change. *)

LEMMA Separate ==
    ASSUME CallsInv, NEW t \in Threads, NEW u \in Threads \ {t},
           run[t].step # "idle", run[u].step # "idle", Exclusive(run[t].call)
    PROVE  ~UsesHandle(run[u].call) /\ ~Serial
BY DEF CallsInv, Apart, Compatible

LEMMA CloseIsExclusive ==
    ASSUME CallsInv, NEW t \in Threads, CloseFile(t)
    PROVE  run[t].step # "idle" /\ Exclusive(run[t].call)
<1>1. Under(run[t]) /\ Current(t).attr = "close"
  BY DEF CloseFile, Under
<1> QED
  BY <1>1, CurrentIs DEF CallsInv, Suits, Exclusive, Under

(* The list of results: who may change an entry, or the time limit.        *)
LEMMA OthersTasks ==
    ASSUME SysfsAssumption, CallsInv, NEW t \in Threads, Step(t),
           NEW u \in Threads \ {t}, run[u].step # "idle", Serial \/ UsesHandle(run[u].call)
    PROVE  /\ get_err(u)' = get_err(u)
           /\ UsesTimeout(run[u].call) /\ ~disturbed'[u] => get_timeout' = get_timeout
<1>1. tasks' = tasks => get_err(u)' = get_err(u) /\ get_timeout' = get_timeout
  BY DEF get_err, get_timeout
<1>2. CASE Refused(t)
  <2>1. PICK e \in Results \ {OK} : tasks' = tasks \/ store_err(t, e)
    BY <1>2, RefusedIs DEF CallsInv
  <2> QED
    BY <1>1, <2>1, StoreErrIs DEF CallsInv
<1>3. CASE SetTimeout(t)
  <2>1. /\ Under(run[t]) /\ store_timeout(Tag(t)) /\ Current(t).attr = "timeout_config"
        /\ Disturb(t)
    BY <1>3, AfterStore DEF CallsInv, SetTimeout, Stores
  <2>2. run[t].call \in Calls
    BY <2>1, CurrentIs DEF CallsInv
  <2>3. Tag(t) \in Contents
    BY <2>2, CallContents DEF CallsInv
  <2>4. get_err(u)' = get_err(u)
    BY <2>1, <2>3, StoreTimeoutIs DEF CallsInv
  <2>5. ~disturbed'[u] => ~UsesTimeout(run[u].call)
    BY <2>1, DisturbIs DEF CallsInv, Passes
  <2> QED
    BY <2>4, <2>5
<1>4. CASE CloseFile(t)
  BY <1>4, CloseIsExclusive, Separate
<1>5. CASE ~(Refused(t) \/ SetTimeout(t) \/ CloseFile(t))
  BY <1>1, <1>5 DEF Step, Begin, NotThere, GetError, Plain, StoreFilter, SetFilter,
        WriteIdent, ReadIdent, IdentUpdate, Answer, OpenFile, Return, device
<1> QED
  BY <1>2, <1>3, <1>4, <1>5

LEMMA NoShortAnswer ==
    ASSUME SysfsAssumption, CallsInv, NEW t \in Threads, Under(run[t]),
           ~ShortInfo \/ run[t].call.op # "device_info"
    PROVE  /\ Served(t).step # "get_error" /\ ServedBy(t).step # "get_error"
           /\ \/ /\ Len(run[t].todo) > 1
                 /\ Served(t).step = "access" /\ Served(t).todo = Tail(run[t].todo)
              \/ /\ Len(run[t].todo) = 1
                 /\ Served(t).step = "return" /\ Served(t).result = OK
<1>1. run[t].call \in Calls
  BY CurrentIs DEF CallsInv
<1>2. ~(run[t].call.op = "device_info" /\ run[t].call.short)
  BY <1>1 DEF SysfsAssumption
<1>3. \/ /\ Len(run[t].todo) > 1
         /\ Served(t).step = "access" /\ Served(t).todo = Tail(run[t].todo)
      \/ /\ Len(run[t].todo) = 1
         /\ Served(t).step = "return" /\ Served(t).result = OK
  BY <1>2, ServedIs, Zenon DEF CallsInv
<1>4. ServedBy(t).step = Served(t).step
  BY ServedByIs DEF CallsInv
<1> QED
  BY <1>3, <1>4

(* A thread asks for the error right behind the access that was refused.   *)
LEMMA GetErrorComes ==
    ASSUME SysfsAssumption, CallsInv, NEW t \in Threads, Step(t),
           run'[t].step = "get_error", ~ShortInfo \/ run[t].call.op # "device_info"
    PROVE  Refused(t) /\ run'[t].refusal # OK /\ get_err(t)' = run'[t].refusal
<1> USE DEF CallsInv
<1>0. \A r \in RunRecords : Go(t, r) => run'[t] = r
  BY Gone
<1>1. CASE Begin(t)
  <2>1. PICK q \in Calls :
           \/ Go(t, [Idle EXCEPT !.step = "access", !.call = q, !.todo = Accesses(q)])
           \/ \E e \in Unasked(q) :
                 Go(t, [Idle EXCEPT !.step = "return", !.call = q, !.result = e])
    BY <1>1 DEF Begin
  <2> QED
    BY <2>1 DEF Go, TypeOK, Idle
<1>2. CASE Return(t)
  BY <1>2 DEF Return, Go, TypeOK, Idle
<1>3. CASE NotThere(t) \/ GetError(t) \/ StoreFilter(t) \/ OpenFile(t) \/ CloseFile(t)
  <2>1. Under(run[t])
    BY <1>3 DEF NotThere, GetError, StoreFilter, OpenFile, CloseFile, Under, Stores, Granted, There
  <2>2. Go(t, Served(t)) \/ \E e : Go(t, Finish(t, e))
    BY <1>3 DEF NotThere, GetError, StoreFilter, OpenFile, CloseFile
  <2>3. CASE Go(t, Served(t))
    BY <1>0, <2>1, <2>3, ServedIs, NoShortAnswer
  <2>4. ASSUME NEW e, Go(t, Finish(t, e))
        PROVE  FALSE
    BY <2>4 DEF Go, TypeOK, Finish, RunRecords
  <2> QED
    BY <2>2, <2>3, <2>4
<1>4. CASE \/ SetTimeout(t) \/ SetFilter(t) \/ WriteIdent(t) \/ IdentUpdate(t)
           \/ Plain(t) \/ ReadIdent(t)
  <2>1. Under(run[t]) /\ (Go(t, Served(t)) \/ Go(t, ServedBy(t)))
    BY <1>4, AfterStore, AfterRead
  <2> QED
    BY <1>0, <2>1, ServedIs, ServedByIs, NoShortAnswer
<1>5. CASE Answer(t)
  BY <1>0, <1>5, AnswerIs
<1>6. CASE Refused(t)
  <2>1. Under(run[t]) /\ IsFile(Current(t))
    BY <1>6, RefusedIs
  <2>2. PICK e \in Results \ {OK}, r \in RunRecords :
           /\ e \in Outcomes(t) /\ Go(t, r) /\ r.refusal = e
           /\ r.step = "get_error" => Current(t).refused \in {"get_error", "go on"}
           /\ IF e = "EINVAL" THEN UNCHANGED tasks ELSE store_err(t, e)
    BY <1>6, RefusedIs
  <2>3. run'[t] = r
    BY <1>0, <2>2
  <2>4. e # "EINVAL"
    BY <2>1, <2>2, <2>3, OutcomesAre, CurrentIs DEF Suits, OK
  <2>5. get_err(t)' = e
    BY <2>2, <2>4, StoreErrIs
  <2> QED
    BY <1>6, <2>2, <2>3, <2>5
<1> QED
  BY <1>1, <1>2, <1>3, <1>4, <1>5, <1>6 DEF Step

LEMMA ErrorStep ==
    ASSUME SysfsAssumption, Serial, ~ShortInfo, CallsInv, ErrorIsOwn, [Next]_vars
    PROVE  ErrorIsOwn'
<1>1. CASE UNCHANGED vars
  BY <1>1 DEF ErrorIsOwn, vars, device, get_err
<1>2. ASSUME NEW t \in Threads, Step(t), NEW u \in Threads, run'[u].step = "get_error"
      PROVE  run'[u].refusal # OK /\ get_err(u)' = run'[u].refusal
  <2>1. CASE u = t
    BY <1>2, <2>1, GetErrorComes
  <2>2. CASE u # t
    <3>1. run'[u] = run[u]
      <4>1. PICK r : Moves(t, r)
        BY <1>2, StepMoves DEF CallsInv
      <4> QED
        BY <2>2, <4>1, Gone DEF CallsInv, Moves
    <3>2. run[u].refusal # OK /\ get_err(u) = run[u].refusal
      BY <1>2, <3>1 DEF ErrorIsOwn
    <3>3. run[u].step # "idle"
      BY <1>2, <3>1
    <3>4. get_err(u)' = get_err(u)
      BY <1>2, <2>2, <3>3, OthersTasks
    <3> QED
      BY <3>1, <3>2, <3>4
  <2> QED
    BY <2>1, <2>2
<1> QED
  BY <1>1, <1>2 DEF ErrorIsOwn, Next

(* The error a call reports is the one that the driver had for this thread *)
(* in this call (get_err, store_err, get_error of the library), when       *)
(* nobody closes or restarts the device beside a call and callers ask for  *)
(* whole device information.                                               *)
THEOREM ErrorsAreOwn ==
    ASSUME Serial, ~ShortInfo
    PROVE  Spec => []ErrorIsOwn
<1>1. Init => CallsInv /\ ErrorIsOwn
  <2>1. Init => CallsInv
    BY CallsInit, SysfsAssumption
  <2>2. ASSUME Init, NEW t \in Threads
        PROVE  run[t].step = "idle"
    BY <2>2 DEF Init, Idle
  <2>3. Init => ErrorIsOwn
    BY <2>2 DEF ErrorIsOwn
  <2> QED
    BY <2>1, <2>3
<1>2. (CallsInv /\ ErrorIsOwn) /\ [Next]_vars => (CallsInv /\ ErrorIsOwn)'
  BY CallsStep, ErrorStep, SysfsAssumption
<1> QED
  BY <1>1, <1>2, PTL DEF Spec

-----------------------------------------------------------------------------
(* The parameters that a call brings in an access of their own. *)

TagOf(q) == IF "tag" \in DOMAIN q THEN q.tag ELSE 0

\* A thread that is about to make an access with a parameter, with time limit
\* x and block b in the driver, finds there the k of its own call.
Bring(r, x, b, k) ==
    \A i \in 1 .. Len(r.todo) :
       /\ Timed(r.todo[i])
            => (i > 1 /\ r.todo[i - 1].attr = "timeout_config") \/ (i = 1 /\ x = k)
       /\ ReadsBlock(r.todo[i])
            => (i > 1 /\ WritesBlock(r.todo[i - 1])) \/ (i = 1 /\ b = k)
ParamInv ==
    \A t \in Threads : ~disturbed[t] =>
       /\ run[t].used \subseteq {Tag(t)}
       /\ Under(run[t]) => Bring(run[t], get_timeout, block, Tag(t))

LEMMA BringFresh ==
    ASSUME NEW r, NEW x, NEW b, NEW k, Ordered(r.todo)
    PROVE  Bring(r, x, b, k)
BY DEF Ordered, Bring

LEMMA BringTail ==
    ASSUME NEW r, r.todo \in Seq(AccessRecords), Len(r.todo) > 1,
           NEW x, NEW b, NEW k, Bring(r, x, b, k),
           NEW s, s.todo = Tail(r.todo), NEW y, NEW c,
           r.todo[1].attr = "timeout_config" => y = k,
           WritesBlock(r.todo[1]) => c = k
    PROVE  Bring(s, y, c, k)
<1> DEFINE old == r.todo
           new == s.todo
<1>1. /\ Len(old) \in Nat /\ Len(new) = Len(old) - 1
      /\ \A i \in 1 .. Len(new) : i + 1 \in 1 .. Len(old) /\ new[i] = old[i + 1]
  <2>1. old # <<>>
    OBVIOUS
  <2> QED
    BY <2>1, FitsTail
<1>2. ASSUME NEW i \in 1 .. Len(new)
      PROVE  /\ Timed(new[i])
                  => (i > 1 /\ new[i - 1].attr = "timeout_config") \/ (i = 1 /\ y = k)
             /\ ReadsBlock(new[i])
                  => (i > 1 /\ WritesBlock(new[i - 1])) \/ (i = 1 /\ c = k)
  <2>1. /\ Timed(new[i]) => old[i].attr = "timeout_config"
        /\ ReadsBlock(new[i]) => WritesBlock(old[i])
    <3>1. /\ Timed(old[i + 1])
               => \/ i + 1 > 1 /\ old[(i + 1) - 1].attr = "timeout_config"
                  \/ i + 1 = 1 /\ x = k
          /\ ReadsBlock(old[i + 1])
               => (i + 1 > 1 /\ WritesBlock(old[(i + 1) - 1])) \/ (i + 1 = 1 /\ b = k)
      BY <1>1 DEF Bring
    <3>2. (i + 1) - 1 = i /\ i + 1 # 1
      BY <1>1
    <3>3. new[i] = old[i + 1]
      BY <1>1
    <3> HIDE DEF old, new
    <3> QED
      BY <3>1, <3>2, <3>3
  <2>2. CASE i = 1
    BY <2>1, <2>2
  <2>3. CASE i > 1
    <3>1. i - 1 \in 1 .. Len(new) /\ (i - 1) + 1 = i
      BY <1>1, <2>3
    <3>2. new[i - 1] = old[i]
      BY <1>1, <3>1
    <3> QED
      BY <2>1, <2>3, <3>2
  <2> QED
    BY <1>1, <2>2, <2>3
<1> QED
  BY <1>2 DEF Bring

LEMMA BringSame ==
    ASSUME NEW r, NEW x, NEW b, NEW k, Bring(r, x, b, k),
           NEW s, s.todo = r.todo, NEW y, NEW c,
           Timed(r.todo[1]) => y = x, ReadsBlock(r.todo[1]) => c = b
    PROVE  Bring(s, y, c, k)
BY DEF Bring

\* The two lists of accesses that a call starts or goes on with.
LEMMA FreshOrdered ==
    ASSUME SysfsAssumption, NEW q \in Calls
    PROVE  /\ Ordered(Accesses(q))
           /\ q.op = "transfer" => Ordered(netana_get_packet)
BY AccessesFit, FitsPacket DEF Fits

\* What stands in the driver for the access that comes next.
GoesOn(t) ==
    /\ Len(run[t].todo) > 1 /\ run'[t].todo = Tail(run[t].todo)
    /\ Current(t).attr = "timeout_config" => get_timeout' = Tag(t)
    /\ WritesBlock(Current(t)) => block' = Tag(t)
Stays(t) ==
    /\ run'[t].todo = run[t].todo
    /\ get_timeout' = get_timeout
    /\ ReadsBlock(Current(t)) => block' = block

LEMMA OwnServed ==
    ASSUME SysfsAssumption, CallsInv, NEW t \in Threads, Under(run[t]),
           run'[t] = Served(t) \/ run'[t] = ServedBy(t), Under(run'[t]),
           Current(t).attr = "timeout_config" => get_timeout' = Tag(t),
           WritesBlock(Current(t)) => block' = Tag(t),
           run[t].call.op = "device_info" => UNCHANGED <<tasks, block>>
    PROVE  GoesOn(t) \/ Stays(t)
<1>1. run'[t].step = Served(t).step /\ run'[t].todo = Served(t).todo
  BY ServedByIs DEF CallsInv
<1>2. \/ Len(run[t].todo) > 1 /\ Served(t).todo = Tail(run[t].todo)
      \/ Served(t).step = "return"
      \/ run[t].call.op = "device_info" /\ Served(t).todo = run[t].todo
  BY ServedIs DEF CallsInv
<1>3. Served(t).step # "return"
  BY <1>1 DEF Under
<1>4. UNCHANGED tasks => get_timeout' = get_timeout
  BY DEF get_timeout
<1> QED
  BY <1>1, <1>2, <1>3, <1>4 DEF GoesOn, Stays

LEMMA OwnNext ==
    ASSUME SysfsAssumption, CallsInv, NEW t \in Threads, Step(t), Under(run'[t])
    PROVE  \/ Ordered(run'[t].todo)
           \/ Under(run[t]) /\ (GoesOn(t) \/ Stays(t))
<1> USE DEF CallsInv
<1>0. \A r \in RunRecords : Go(t, r) => run'[t] = r
  BY Gone
<1>1. CASE Begin(t)
  <2>1. PICK q \in Calls :
           \/ Go(t, [Idle EXCEPT !.step = "access", !.call = q, !.todo = Accesses(q)])
           \/ \E e \in Unasked(q) :
                 Go(t, [Idle EXCEPT !.step = "return", !.call = q, !.result = e])
    BY <1>1 DEF Begin
  <2>2. run'[t].todo = Accesses(q)
    BY <2>1 DEF Go, TypeOK, Idle, Under
  <2> QED
    BY <2>2, FreshOrdered
<1>2. CASE Return(t)
  BY <1>2 DEF Return, Go, TypeOK, Idle, Under
<1>3. CASE Refused(t)
  <2>1. Under(run[t])
    BY <1>3, RefusedIs
  <2>2. PICK e \in Results \ {OK}, r \in RunRecords :
           /\ Go(t, r) /\ r.todo = run[t].todo
           /\ IF e = "EINVAL" THEN UNCHANGED tasks ELSE store_err(t, e)
           /\ block' = IF WritesBlock(Current(t)) /\ e # "INVALID_HANDLE"
                       THEN Tag(t) ELSE block
    BY <1>3, RefusedIs
  <2>3. run'[t].todo = run[t].todo
    BY <1>0, <2>2
  <2>4. get_timeout' = get_timeout
    BY <2>2, StoreErrIs DEF get_timeout
  <2>5. ReadsBlock(Current(t)) => block' = block
    BY <2>2 DEF ReadsBlock, WritesBlock
  <2> QED
    BY <2>1, <2>3, <2>4, <2>5 DEF Stays
<1>4. CASE Answer(t)
  <2>1. /\ run[t].step = "access" /\ Under(run[t]) /\ run[t].call.op = "transfer"
    BY <1>4, AnswerIs
  <2>2. PICK r \in RunRecords :
           /\ Go(t, r)
           /\ \/ r.step = "return"
              \/ r.step = "access" /\ r.todo = netana_get_packet
    BY <1>4, AnswerIs
  <2>3. run'[t].todo = netana_get_packet
    BY <1>0, <2>2 DEF Under
  <2>4. run[t].call \in Calls
    BY <2>1, CurrentIs
  <2> QED
    BY <2>1, <2>3, <2>4, FreshOrdered
<1>5. CASE \/ NotThere(t) \/ GetError(t) \/ StoreFilter(t) \/ OpenFile(t) \/ CloseFile(t)
           \/ SetTimeout(t) \/ SetFilter(t) \/ WriteIdent(t) \/ IdentUpdate(t)
           \/ Plain(t) \/ ReadIdent(t)
  <2>1. Under(run[t])
    <3>1. CASE NotThere(t) \/ GetError(t) \/ StoreFilter(t) \/ OpenFile(t) \/ CloseFile(t)
      BY <3>1 DEF NotThere, GetError, StoreFilter, OpenFile, CloseFile, Under, Stores,
                  Granted, There
    <3> QED
      BY <1>5, <3>1, AfterStore, AfterRead
  <2>2. run'[t] = Served(t) \/ run'[t] = ServedBy(t)
    <3>1. Served(t) \in RunRecords /\ ServedBy(t) \in RunRecords
      BY <2>1, ServedIs, ServedByIs
    <3>2. Go(t, Served(t)) \/ Go(t, ServedBy(t)) \/ \E e : Go(t, Finish(t, e))
      BY <1>5 DEF NotThere, GetError, StoreFilter, OpenFile, CloseFile, SetTimeout,
                  SetFilter, WriteIdent, IdentUpdate, Plain, ReadIdent
    <3>3. ASSUME NEW e, Go(t, Finish(t, e))
          PROVE  FALSE
      BY <3>3 DEF Go, TypeOK, Finish, RunRecords, Under
    <3> QED
      BY <1>0, <3>1, <3>2, <3>3
  <2>3. Suits(run[t].call, Current(t)) /\ Current(t) \in AccessRecords /\ run[t].call \in Calls
    BY <2>1, CurrentIs
  <2>4. /\ Current(t).attr = "timeout_config" => get_timeout' = Tag(t)
        /\ WritesBlock(Current(t)) => block' = Tag(t)
        /\ run[t].call.op = "device_info" => UNCHANGED <<tasks, block>>
    <3>1. CASE SetTimeout(t)
      <4>1. store_timeout(Tag(t)) /\ Current(t).attr = "timeout_config"
        BY <3>1 DEF SetTimeout, Stores
      <4>2. Tag(t) \in Contents
        BY <2>3, CallContents
      <4>3. get_timeout' = Tag(t)
        BY <4>1, <4>2, StoreTimeoutIs
      <4> QED
        BY <2>3, <4>1, <4>3 DEF Suits, WritesBlock, UsesTimeout
    <3>2. CASE NotThere(t) \/ GetError(t)
      <4>1. UNCHANGED <<tasks, block>>
        BY <3>2 DEF NotThere, GetError, device
      <4>2. Current(t).attr = "device_state"
        <5>1. \/ "go on" \in {Current(t).absent, Current(t).refused}
              \/ \E e : Go(t, Finish(t, e))
          BY <3>2 DEF NotThere, GetError
        <5>2. ASSUME NEW e, Go(t, Finish(t, e))
              PROVE  FALSE
          BY <5>2 DEF Go, TypeOK, Finish, RunRecords, Under
        <5> QED
          BY <2>3, <5>1, <5>2 DEF Suits
      <4> QED
        BY <4>1, <4>2 DEF WritesBlock
    <3>3. CASE StoreFilter(t) \/ SetFilter(t) \/ IdentUpdate(t) \/ OpenFile(t)
      <4>1. UNCHANGED <<tasks, block>>
        BY <3>3 DEF StoreFilter, SetFilter, IdentUpdate, OpenFile
      <4>2. Current(t).attr \notin {"timeout_config", "ident_check"}
        BY <3>3 DEF StoreFilter, SetFilter, IdentUpdate, OpenFile, Stores, Parts
      <4> QED
        BY <4>1, <4>2 DEF WritesBlock
    <3>4. CASE CloseFile(t)
      <4>1. Current(t).attr = "close" /\ UNCHANGED block
        BY <3>4 DEF CloseFile
      <4> QED
        BY <2>3, <4>1 DEF WritesBlock, Suits
    <3>5. CASE WriteIdent(t)
      <4>1. Current(t).attr = "ident_check" /\ block' = Tag(t)
        BY <3>5 DEF WriteIdent, Stores
      <4> QED
        BY <2>3, <4>1 DEF WritesBlock, Suits, UsesTimeout
    <3>6. CASE ReadIdent(t)
      <4>1. Current(t).attr = "ident_check" /\ ~Current(t).write
        BY <3>6 DEF ReadIdent
      <4> QED
        BY <2>3, <4>1 DEF WritesBlock, Suits, UsesTimeout
    <3>7. CASE Plain(t)
      <4>1. ~HasEffect(Current(t)) /\ Current(t).attr # "ident_check"
            /\ UNCHANGED <<tasks, block>>
        BY <3>7 DEF Plain, device
      <4>2. Current(t).attr # "timeout_config"
        BY <2>3, <4>1, AccessKinds DEF HasEffect, Shown, Parts
      <4> QED
        BY <4>1, <4>2 DEF WritesBlock
    <3> QED
      BY <1>5, <3>1, <3>2, <3>3, <3>4, <3>5, <3>6, <3>7
  <2> QED
    BY <2>1, <2>2, <2>4, OwnServed
<1> QED
  BY <1>1, <1>2, <1>3, <1>4, <1>5 DEF Step

LEMMA OwnUsed ==
    ASSUME SysfsAssumption, CallsInv, NEW t \in Threads, Step(t)
    PROVE  \/ run'[t].used = {}
           \/ /\ Under(run[t]) /\ run'[t].call = run[t].call
              /\ run'[t].used \subseteq run[t].used \cup Passed(Current(t))
           \/ run'[t].call = run[t].call /\ run'[t].used = run[t].used
<1> USE DEF CallsInv
<1>0. \A r \in RunRecords : Go(t, r) => run'[t] = r
  BY Gone
<1>1. CASE Begin(t)
  <2>1. PICK q \in Calls :
           \/ Go(t, [Idle EXCEPT !.step = "access", !.call = q, !.todo = Accesses(q)])
           \/ \E e \in Unasked(q) :
                 Go(t, [Idle EXCEPT !.step = "return", !.call = q, !.result = e])
    BY <1>1 DEF Begin
  <2>2. run'[t].used = {}
    BY <2>1 DEF Go, TypeOK, Idle
  <2> QED
    BY <2>2
<1>5. CASE Return(t)
  BY <1>5 DEF Return, Go, TypeOK, Idle
<1>2. CASE Refused(t)
  BY <1>0, <1>2, RefusedIs
<1>3. CASE Answer(t)
  BY <1>0, <1>3, AnswerIs
<1>4. CASE \/ NotThere(t) \/ GetError(t) \/ StoreFilter(t) \/ OpenFile(t) \/ CloseFile(t)
           \/ SetTimeout(t) \/ SetFilter(t) \/ WriteIdent(t) \/ IdentUpdate(t)
           \/ Plain(t) \/ ReadIdent(t)
  <2>1. Under(run[t])
    <3>1. CASE NotThere(t) \/ GetError(t) \/ StoreFilter(t) \/ OpenFile(t) \/ CloseFile(t)
      BY <3>1 DEF NotThere, GetError, StoreFilter, OpenFile, CloseFile, Under, Stores,
                  Granted, There
    <3> QED
      BY <1>4, <3>1, AfterStore, AfterRead
  <2>2. Go(t, Served(t)) \/ Go(t, ServedBy(t)) \/ \E e : Go(t, Finish(t, e))
    BY <1>4 DEF NotThere, GetError, StoreFilter, OpenFile, CloseFile, SetTimeout,
                SetFilter, WriteIdent, IdentUpdate, Plain, ReadIdent
  <2>3. CASE Go(t, Served(t)) \/ Go(t, ServedBy(t))
    BY <1>0, <2>1, <2>3, ServedIs, ServedByIs
  <2>4. ASSUME NEW e, Go(t, Finish(t, e))
        PROVE  run'[t].call = run[t].call /\ run'[t].used = run[t].used
    BY <2>4 DEF Go, TypeOK, Finish, RunRecords
  <2> QED
    BY <2>2, <2>3, <2>4
<1> QED
  BY <1>1, <1>2, <1>3, <1>4, <1>5 DEF Step

\* What another thread may do to the ident block.
LEMMA OthersBlock ==
    ASSUME SysfsAssumption, CallsInv, NEW t \in Threads, Step(t),
           NEW u \in Threads \ {t}, run[u].call.op = "check_ident", ~disturbed'[u]
    PROVE  block' = block
<1>1. Disturb(t) => Current(t).attr # "ident_check"
  BY DisturbIs DEF CallsInv, Passes
<1>2. CASE Refused(t)
  <2>1. PICK e \in Results \ {OK} :
           /\ block' = IF WritesBlock(Current(t)) /\ e # "INVALID_HANDLE" THEN Tag(t) ELSE block
           /\ IF WritesBlock(Current(t)) /\ e # "INVALID_HANDLE"
              THEN Disturb(t) ELSE UNCHANGED disturbed
    BY <1>2, RefusedIs DEF CallsInv
  <2> QED
    BY <1>1, <2>1 DEF WritesBlock
<1>3. CASE WriteIdent(t) \/ ReadIdent(t)
  BY <1>1, <1>3 DEF WriteIdent, ReadIdent, Stores
<1>4. CASE ~(Refused(t) \/ WriteIdent(t) \/ ReadIdent(t))
  BY <1>4 DEF Step, Begin, NotThere, GetError, Plain, StoreFilter, SetFilter, SetTimeout,
        IdentUpdate, Answer, OpenFile, CloseFile, Return, device
<1> QED
  BY <1>2, <1>3, <1>4

LEMMA BringPassed ==
    ASSUME CallsInv, NEW t \in Threads, Under(run[t]),
           Bring(run[t], get_timeout, block, Tag(t))
    PROVE  Passed(Current(t)) \subseteq {Tag(t)}
<1>1. Current(t) = run[t].todo[1] /\ 1 \in 1 .. Len(run[t].todo)
  BY CurrentIs DEF CallsInv
<1>2. /\ Timed(Current(t)) => get_timeout = Tag(t)
      /\ ReadsBlock(Current(t)) => block = Tag(t)
  BY <1>1 DEF Bring
<1> QED
  BY <1>2 DEF Passed, Timed, ReadsBlock

LEMMA ParamStep ==
    ASSUME SysfsAssumption, CallsInv, ParamInv, [Next]_vars
    PROVE  ParamInv'
<1>1. CASE UNCHANGED vars
  BY <1>1 DEF ParamInv, Bring, vars, device, get_timeout, Tag
<1>2. ASSUME NEW t \in Threads, Step(t)
      PROVE  ParamInv'
  <2>0. \A u \in Threads : ~disturbed'[u] => ~disturbed[u] \/ (u = t /\ Return(t))
    BY <1>2, DisturbedStep DEF CallsInv
  <2>1. ~Return(t) /\ ~disturbed'[t] => run'[t].used \subseteq {TagOf(run'[t].call)}
    <3> SUFFICES ASSUME ~Return(t), ~disturbed'[t]
                 PROVE  run'[t].used \subseteq {TagOf(run'[t].call)}
      OBVIOUS
    <3>0. ~disturbed[t]
      BY <2>0
    <3>1. \A q : run[t].call = q => Tag(t) = TagOf(q)
      BY DEF Tag, TagOf
    <3>2. run[t].used \subseteq {Tag(t)}
      BY <3>0 DEF ParamInv
    <3>3. Under(run[t]) => Passed(Current(t)) \subseteq {Tag(t)}
      BY <3>0, BringPassed DEF ParamInv
    <3> QED
      BY <1>2, <3>1, <3>2, <3>3, OwnUsed
  <2>2. ASSUME Under(run'[t]), ~Return(t), ~disturbed'[t]
        PROVE  Bring(run'[t], get_timeout', block', TagOf(run'[t].call))
    <3>1. CASE Ordered(run'[t].todo)
      BY <3>1, BringFresh
    <3>2. CASE ~Ordered(run'[t].todo)
      <4>1. Under(run[t]) /\ (GoesOn(t) \/ Stays(t))
        BY <1>2, <2>2, <3>2, OwnNext
      <4>2. /\ Bring(run[t], get_timeout, block, Tag(t))
            /\ run[t].todo \in Seq(AccessRecords) /\ Current(t) = run[t].todo[1]
        BY <2>0, <2>2, <4>1, CurrentIs DEF ParamInv, CallsInv
      <4>3. TagOf(run'[t].call) = Tag(t)
        <5>1. PICK r : Moves(t, r)
          BY <1>2, StepMoves DEF CallsInv
        <5>2. run'[t] = r
          BY <5>1, Gone DEF CallsInv, Moves
        <5>3. run[t].step # "idle" /\ r.step # "idle"
          BY <2>2, <4>1, <5>2 DEF Under
        <5>4. run'[t].call = run[t].call
          BY <5>1, <5>2, <5>3 DEF Moves, Begin
        <5> QED
          BY <5>4 DEF Tag, TagOf
      <4>4. CASE GoesOn(t)
        <5>1. /\ Len(run[t].todo) > 1 /\ run'[t].todo = Tail(run[t].todo)
              /\ run[t].todo[1].attr = "timeout_config" => get_timeout' = Tag(t)
              /\ WritesBlock(run[t].todo[1]) => block' = Tag(t)
          BY <4>2, <4>4 DEF GoesOn
        <5>2. Bring(run'[t], get_timeout', block', Tag(t))
          BY <4>2, <5>1, BringTail
        <5> QED
          BY <4>3, <5>2
      <4>5. CASE Stays(t)
        <5>1. /\ run'[t].todo = run[t].todo /\ get_timeout' = get_timeout
              /\ ReadsBlock(run[t].todo[1]) => block' = block
          BY <4>2, <4>5 DEF Stays
        <5>2. Bring(run'[t], get_timeout', block', Tag(t))
          BY <4>2, <5>1, BringSame
        <5> QED
          BY <4>3, <5>2
      <4> QED
        BY <4>1, <4>4, <4>5
    <3> QED
      BY <3>1, <3>2
  <2>3. \A u \in Threads \ {t} : run'[u] = run[u]
    <3>1. PICK r : Moves(t, r)
      BY <1>2, StepMoves DEF CallsInv
    <3> QED
      BY <3>1, Gone DEF CallsInv, Moves
  <2>4. ASSUME NEW u \in Threads \ {t}, Under(run[u]), ~disturbed'[u]
        PROVE  Bring(run[u], get_timeout', block', Tag(u))
    <3>1. /\ Bring(run[u], get_timeout, block, Tag(u))
          /\ Suits(run[u].call, Current(u)) /\ Current(u) = run[u].todo[1]
      BY <2>0, <2>4, CurrentIs DEF ParamInv, CallsInv
    <3>2. run[u].step # "idle"
      BY <2>4 DEF Under
    <3>3. Timed(run[u].todo[1]) => get_timeout' = get_timeout
      <4>1. SUFFICES ASSUME Timed(run[u].todo[1]) PROVE get_timeout' = get_timeout
        OBVIOUS
      <4>2. UsesTimeout(run[u].call) /\ UsesHandle(run[u].call)
        BY <3>1, <4>1 DEF Timed, Suits, UsesTimeout, UsesHandle
      <4> QED
        BY <1>2, <2>4, <3>2, <4>2, OthersTasks
    <3>4. ReadsBlock(run[u].todo[1]) => block' = block
      BY <1>2, <2>4, <3>1, OthersBlock DEF ReadsBlock, Suits
    <3> QED
      BY <3>1, <3>3, <3>4, BringSame
  <2>5. ASSUME NEW u \in Threads, ~disturbed'[u]
        PROVE  /\ run'[u].used \subseteq {TagOf(run'[u].call)}
               /\ Under(run'[u]) => Bring(run'[u], get_timeout', block', TagOf(run'[u].call))
    <3>1. CASE u = t
      <4>1. CASE Return(t)
        <5>1. run'[t] = Idle
          BY <4>1, IdleTyped, Gone DEF Return, CallsInv
        <5> QED
          BY <3>1, <5>1 DEF Idle, Under
      <4>2. CASE ~Return(t)
        BY <2>1, <2>2, <2>5, <3>1, <4>2
      <4> QED
        BY <4>1, <4>2
    <3>2. CASE u # t
      <4>1. run'[u] = run[u] /\ run[u].used \subseteq {Tag(u)}
        BY <2>0, <2>3, <2>5, <3>2 DEF ParamInv
      <4>2. Tag(u) = TagOf(run[u].call)
        BY DEF Tag, TagOf
      <4> QED
        BY <2>4, <2>5, <3>2, <4>1, <4>2
    <3> QED
      BY <3>1, <3>2
  <2>6. \A u : Tag(u)' = TagOf(run'[u].call)
    BY DEF Tag, TagOf
  <2> QED
    BY <2>5, <2>6 DEF ParamInv
<1> QED
  BY <1>1, <1>2 DEF Next

LEMMA ParamInit ==
    ASSUME Init
    PROVE  ParamInv
<1>1. \A t \in Threads : run[t].step = "idle" /\ run[t].used = {}
  BY DEF Init, Idle
<1> QED
  BY <1>1 DEF ParamInv, Under

(* A call waits by the time limit that it set, and checks the ident block  *)
(* that it wrote (netana_timeout_config, netana_write_ident), unless       *)
(* another thread stored its own one while the call was under way.  The    *)
(* calls beside it, before it and its own repetitions are no matter.       *)
THEOREM ParametersKept == Spec => []ParametersAreOwn
<1>1. Init => CallsInv /\ ParamInv
  BY CallsInit, ParamInit, SysfsAssumption
<1>2. (CallsInv /\ ParamInv) /\ [Next]_vars => (CallsInv /\ ParamInv)'
  BY CallsStep, ParamStep, SysfsAssumption
<1>3. ParamInv => ParametersAreOwn
  BY DEF ParamInv, ParametersAreOwn
<1> QED
  BY <1>1, <1>2, <1>3, PTL DEF Spec

-----------------------------------------------------------------------------
(* netana_set_filter. *)

AsAsked(q) == [p \in Parts |-> IF p \in Given(q) THEN q.tag ELSE 0]
\* The parts that the call names are in the driver or still to be written, and
\* only then they are taken over; what was taken over stays.
FilterOf(r) ==
    r.call.op = "set_filter" =>
       /\ Under(r) =>
             /\ handle
             /\ \A i \in 1 .. Len(r.todo) : r.todo[i].attr = "relation" <=> i = Len(r.todo)
             /\ \A p \in Given(r.call) :
                   stage[p] = r.call.tag \/ \E i \in 1 .. Len(r.todo) : r.todo[i].attr = p
       /\ r.step = "return" /\ r.result = OK /\ r.call.obj < GpioCnt =>
             /\ handle /\ r.call.obj \in 0 .. PortCnt - 1
             /\ filters[r.call.obj] = AsAsked(r.call)
\* And a call that asks for its error is told one, disturbed or not.
Told(t) == run[t].call.op = "set_filter" /\ run[t].step = "get_error" => get_err(t) # OK
FilterInv ==
    \A t \in Threads : run[t].step # "idle" => Told(t) /\ (~disturbed[t] => FilterOf(run[t]))

LEMMA OthersFilter ==
    ASSUME SysfsAssumption, CallsInv, NEW t \in Threads, Step(t),
           NEW u \in Threads \ {t}, run[u].step # "idle", run[u].call.op = "set_filter",
           run[u].call \in Calls, handle, ~disturbed'[u]
    PROVE  /\ handle'
           /\ \A p \in Given(run[u].call) : stage'[p] = stage[p]
           /\ run[u].call.obj \in 0 .. PortCnt - 1
                => filters'[run[u].call.obj] = filters[run[u].call.obj]
<1> USE DEF CallsInv
<1>1. /\ run[t].step # "idle" => ~Exclusive(run[t].call)
      /\ \A p \in Given(run[u].call) : p \in Parts
  BY Separate DEF UsesHandle, Given, Parts
<1>2. Under(run[t]) => /\ ~(Current(t).attr = "ident_info" /\ Current(t).write)
                       /\ Current(t).attr # "close"
  BY <1>1, CurrentIs DEF Suits, Exclusive, Under
<1>3. stage \in [Parts -> Contents] /\ filters \in [0 .. PortCnt - 1 -> [Parts -> Contents]]
  BY DEF TypeOK
<1>4. CASE Refused(t)
  <2>1. Under(run[t]) /\ IsFile(Current(t))
    BY <1>4, RefusedIs
  <2>2. PICK e \in Results \ {OK} :
           /\ e \in Outcomes(t)
           /\ filters' = IF Current(t).attr = "ident_info" /\ Restarted(e)
                         THEN [o \in DOMAIN filters |-> NoFilter] ELSE filters
           /\ UNCHANGED <<handle, stage>>
    BY <1>4, RefusedIs
  <2>3. ~(Current(t).attr = "ident_info" /\ Restarted(e))
    BY <1>2, <2>1, <2>2, OutcomesAre DEF Restarted
  <2> QED
    BY <2>2, <2>3
<1>5. CASE StoreFilter(t)
  <2>1. PICK p \in Parts :
           /\ Current(t).attr = p /\ stage' = [stage EXCEPT ![p] = Tag(t)] /\ Disturb(t)
           /\ UNCHANGED <<handle, filters>>
    BY <1>5 DEF StoreFilter, Stores
  <2>2. p \notin Given(run[u].call)
    BY <2>1, DisturbIs DEF Passes
  <2> QED
    BY <1>1, <1>3, <2>1, <2>2
<1>6. CASE SetFilter(t)
  <2> DEFINE new == [p \in Parts |-> IF p \in Given(run[t].call) THEN stage[p] ELSE 0]
  <2>1. /\ Current(t).attr = "relation" /\ Disturb(t)
        /\ filters' = [filters EXCEPT ![Obj(t)] = new]
        /\ UNCHANGED <<handle, stage>>
    BY <1>6 DEF SetFilter, Stores
  <2>2. run[u].call.obj # Obj(t)
    BY <2>1, DisturbIs DEF Passes
  <2> HIDE DEF new
  <2> QED
    BY <1>3, <2>1, <2>2
<1>7. CASE IdentUpdate(t) \/ CloseFile(t)
  <2>1. Under(run[t])
    BY <1>7 DEF IdentUpdate, CloseFile, Stores, Granted, There, Under
  <2>2. \/ Current(t).attr = "ident_info" /\ Current(t).write
        \/ Current(t).attr = "close"
    BY <1>7 DEF IdentUpdate, CloseFile, Stores
  <2> QED
    BY <1>2, <2>1, <2>2
<1>8. CASE OpenFile(t)
  BY <1>8 DEF OpenFile
<1>9. CASE ~(\/ Refused(t) \/ StoreFilter(t) \/ SetFilter(t) \/ IdentUpdate(t)
             \/ CloseFile(t) \/ OpenFile(t))
  BY <1>9 DEF Step, Begin, NotThere, GetError, Plain, SetTimeout, WriteIdent, ReadIdent,
        Answer, Return, device
<1> QED
  BY <1>4, <1>5, <1>6, <1>7, <1>8, <1>9

\* Of a call of netana_set_filter only these steps are left.
LEMMA FilterSteps ==
    ASSUME SysfsAssumption, CallsInv, NEW t \in Threads, Step(t), Under(run[t]),
           run[t].call.op = "set_filter"
    PROVE  /\ \/ Refused(t) \/ GetError(t) \/ NotThere(t) \/ StoreFilter(t) \/ SetFilter(t)
           /\ Current(t).attr \in Parts \cup {"relation"} /\ Current(t).write
           /\ Current(t).refused = "get_error"
           /\ Current(t).attr = "relation" => Current(t).absent # OK
<1>1. Suits(run[t].call, Current(t))
  BY CurrentIs DEF CallsInv
<1>2. /\ Current(t).attr \in Parts \cup {"relation"} /\ Current(t).write
      /\ Current(t).refused = "get_error"
      /\ Current(t).attr = "relation" => Current(t).absent # OK
  BY <1>1 DEF Suits
<1>3. ~Begin(t) /\ ~Return(t) /\ ~Answer(t)
  BY DEF Begin, Return, Answer, Under
<1>4. ~Plain(t) /\ ~SetTimeout(t) /\ ~WriteIdent(t) /\ ~ReadIdent(t) /\ ~IdentUpdate(t)
      /\ ~OpenFile(t) /\ ~CloseFile(t)
  BY <1>2 DEF Plain, HasEffect, SetTimeout, WriteIdent, ReadIdent, IdentUpdate, OpenFile,
              CloseFile, Stores, Parts
<1> QED
  BY <1>2, <1>3, <1>4 DEF Step

LEMMA PartsThere ==
    ASSUME NEW n \in Parts \cup {"relation"}, NEW o
    PROVE  Attribute(n, o).there = (o < GpioCnt)
<1>1. CASE n = "relation"
  BY <1>1, AttributeIs, ResourceHandlers
<1>2. CASE n \in Parts
  <2>1. Attribute(n, o) = FilterFiles(o)[n]
    BY <1>2, AttributeIs
  <2> QED
    BY <1>2, <2>1 DEF FilterFiles
<1> QED
  BY <1>1, <1>2

LEMMA BeginFilter ==
    ASSUME SysfsAssumption, CallsInv, NEW t \in Threads, Begin(t)
    PROVE  FilterOf(run[t])'
<1>1. PICK q \in Calls :
          \/ /\ UsesHandle(q) => handle
             /\ Go(t, [Idle EXCEPT !.step = "access", !.call = q, !.todo = Accesses(q)])
          \/ \E e \in Unasked(q) :
                Go(t, [Idle EXCEPT !.step = "return", !.call = q, !.result = e])
  BY DEF Begin
<1>2. UNCHANGED <<handle, stage, filters>>
  BY DEF Begin, device
<1>3. CASE /\ UsesHandle(q) => handle
           /\ Go(t, [Idle EXCEPT !.step = "access", !.call = q, !.todo = Accesses(q)])
  <2>1. /\ run'[t].call = q /\ run'[t].step = "access" /\ run'[t].todo = Accesses(q)
    BY <1>3 DEF Go, CallsInv, TypeOK, Idle
  <2>2. q.op = "set_filter" => handle /\ PartsFirst(q, Accesses(q))
    BY <1>3, AccessesFit DEF UsesHandle
  <2> QED
    BY <1>2, <2>1, <2>2 DEF FilterOf, PartsFirst
<1>4. CASE \E e \in Unasked(q) :
                Go(t, [Idle EXCEPT !.step = "return", !.call = q, !.result = e])
  <2>1. PICK e \in Unasked(q) :
                Go(t, [Idle EXCEPT !.step = "return", !.call = q, !.result = e])
    BY <1>4
  <2>2. e # OK
    BY DEF Unasked, CheckDeviceHandle, IsCaptureRunning, OK
  <2>3. run'[t].step = "return" /\ run'[t].result = e
    BY <2>1 DEF Go, CallsInv, TypeOK, Idle
  <2> QED
    BY <2>2, <2>3 DEF FilterOf, Under
<1> QED
  BY <1>1, <1>3, <1>4

\* A call of netana_set_filter that is over after an error.
LEMMA FailedFilter ==
    ASSUME SysfsAssumption, CallsInv, NEW t \in Threads, Under(run[t]), NEW e \in Results,
           Go(t, Finish(t, e)), e # OK
    PROVE  FilterOf(run[t])'
<1>1. run'[t] = Finish(t, e) /\ Finish(t, e).step = "return" /\ Finish(t, e).result = e
  BY FinishIs, Gone DEF CallsInv
<1> QED
  BY <1>1 DEF FilterOf, Under

LEMMA StorePart ==
    ASSUME SysfsAssumption, CallsInv, NEW t \in Threads, StoreFilter(t),
           FilterOf(run[t]), run[t].call.op = "set_filter"
    PROVE  FilterOf(run[t])'
<1>1. PICK p \in Parts :
          /\ Current(t).attr = p /\ run[t].step = "access" /\ Under(run[t])
          /\ stage' = [stage EXCEPT ![p] = Tag(t)]
          /\ Go(t, IF TooLong(t) THEN Finish(t, "INVALID_BUFFERSIZE") ELSE Served(t))
          /\ UNCHANGED <<handle, filters>>
  BY DEF StoreFilter, Stores, Granted, There, Under
<1> DEFINE old == run[t].todo
           new == run'[t].todo
           q == run[t].call
<1>2. /\ old \in Seq(AccessRecords) /\ Len(old) \in Nat /\ Len(old) >= 1
      /\ Current(t) = old[1] /\ q \in Calls /\ Tag(t) = q.tag
  BY <1>1, CurrentIs, CallContents DEF CallsInv
<1>3. /\ handle
      /\ \A i \in 1 .. Len(old) : old[i].attr = "relation" <=> i = Len(old)
      /\ \A x \in Given(q) : stage[x] = q.tag \/ \E i \in 1 .. Len(old) : old[i].attr = x
  BY <1>1 DEF FilterOf
<1>4. CASE TooLong(t)
  <2>1. "INVALID_BUFFERSIZE" \in Results /\ "INVALID_BUFFERSIZE" # OK
    BY DEF Results, OK
  <2> QED
    BY <1>1, <1>4, <2>1, FailedFilter
<1>5. CASE ~TooLong(t)
  <2>1. Len(old) > 1
    <3>1. old[1].attr # "relation"
      BY <1>1, <1>2 DEF Parts
    <3>2. 1 \in 1 .. Len(old) /\ 1 # Len(old)
      BY <1>2, <1>3, <3>1
    <3>3. \A n \in Nat : n >= 1 /\ n # 1 => n > 1
      OBVIOUS
    <3> QED
      BY <1>2, <3>2, <3>3, Zenon
  <2>2. /\ run'[t].step = "access" /\ new = Tail(old) /\ run'[t].call = q
    <3>1. /\ Served(t) \in RunRecords /\ Served(t).call = q
          /\ Served(t).step = "access" /\ Served(t).todo = Tail(old)
      <4>1. ~(Len(old) = 1)
        <5>1. \A n \in Nat : n > 1 => n # 1
          OBVIOUS
        <5> QED
          BY <1>2, <2>1, <5>1, Zenon
      <4> QED
        BY <1>1, <4>1, ServedIs, Zenon DEF CallsInv
    <3>2. Go(t, Served(t))
      BY <1>1, <1>5
    <3> QED
      BY <3>1, <3>2, Gone DEF CallsInv
  <2>3. /\ Len(new) = Len(old) - 1 /\ Len(old) \in Nat
        /\ \A i \in 1 .. Len(new) : i + 1 \in 1 .. Len(old) /\ new[i] = old[i + 1]
    <3>1. old # <<>>
      BY <1>2
    <3> QED
      BY <1>2, <2>2, <3>1, FitsTail
  <2> HIDE DEF old, new, q
  <2>4. \A i \in 1 .. Len(new) : new[i].attr = "relation" <=> i = Len(new)
    <3>1. \A i \in 1 .. Len(new) : i + 1 = Len(old) <=> i = Len(new)
      BY <2>3
    <3> QED
      BY <1>3, <2>3, <3>1
  <2>5. ASSUME NEW x \in Given(q)
        PROVE  stage'[x] = q.tag \/ \E i \in 1 .. Len(new) : new[i].attr = x
    <3>1. x \in Parts /\ stage \in [Parts -> Contents]
      BY DEF Given, Parts, CallsInv, TypeOK
    <3>2. CASE x = p
      BY <1>1, <1>2, <3>1, <3>2
    <3>3. CASE x # p /\ stage[x] = q.tag
      BY <1>1, <3>1, <3>3
    <3>4. CASE x # p /\ \E i \in 1 .. Len(old) : old[i].attr = x
      <4>1. PICK i \in 1 .. Len(old) : old[i].attr = x
        BY <3>4
      <4>2. i # 1
        BY <1>1, <1>2, <3>4, <4>1
      <4>3. i - 1 \in 1 .. Len(new) /\ (i - 1) + 1 = i
        BY <2>3, <4>2
      <4>4. new[i - 1].attr = x
        BY <2>3, <4>1, <4>3
      <4> QED
        BY <4>3, <4>4
    <3> QED
      BY <1>3, <3>2, <3>3, <3>4
  <2> QED
    BY <1>1, <1>3, <2>2, <2>4, <2>5 DEF FilterOf, Under, new, q
<1> QED
  BY <1>4, <1>5

LEMMA TakeOver ==
    ASSUME SysfsAssumption, CallsInv, NEW t \in Threads, SetFilter(t),
           FilterOf(run[t]), run[t].call.op = "set_filter"
    PROVE  FilterOf(run[t])'
<1> DEFINE q == run[t].call
           old == run[t].todo
<1>1. /\ run[t].step = "access" /\ Under(run[t]) /\ Current(t).attr = "relation"
      /\ Current(t).write /\ OK \in Outcomes(t)
      /\ filters' = [filters EXCEPT ![Obj(t)] =
                       [p \in Parts |-> IF p \in Given(q) THEN stage[p] ELSE 0]]
      /\ Go(t, Served(t)) /\ UNCHANGED handle
  BY DEF SetFilter, Stores, Granted, There, Under
<1>2. /\ Len(old) \in Nat /\ Len(old) >= 1
      /\ Current(t) = old[1] /\ q \in Calls /\ Obj(t) = q.obj
  BY <1>1, CurrentIs, CallContents DEF CallsInv
<1>3. /\ handle
      /\ \A i \in 1 .. Len(old) : old[i].attr = "relation" <=> i = Len(old)
      /\ \A p \in Given(q) : stage[p] = q.tag \/ \E i \in 1 .. Len(old) : old[i].attr = p
  BY <1>1 DEF FilterOf
<1>4. Len(old) = 1
  <2>1. 1 \in 1 .. Len(old)
    BY <1>2
  <2> QED
    BY <1>1, <1>2, <1>3, <2>1
<1>5. \A p \in Given(q) : stage[p] = q.tag
  <2>1. \A p \in Given(q) : p # "relation"
    BY DEF Given
  <2>2. \A i \in 1 .. Len(old) : old[i].attr = "relation"
    BY <1>1, <1>2, <1>4
  <2> QED
    BY <1>3, <2>1, <2>2
<1>6. q.obj \in 0 .. PortCnt - 1
  <2>1. Obj(t) < PortCnt
    BY <1>1, OutcomesAre DEF IsFile, CallsInv
  <2>2. q.obj \in Nat
    BY <1>2 DEF SysfsAssumption, Requests
  <2> QED
    BY <1>2, <2>1, <2>2 DEF SysfsAssumption
<1>7. filters'[q.obj] = AsAsked(q)
  <2>1. [p \in Parts |-> IF p \in Given(q) THEN stage[p] ELSE 0] = AsAsked(q)
    BY <1>5 DEF AsAsked
  <2> HIDE DEF q
  <2>2. filters \in [0 .. PortCnt - 1 -> [Parts -> Contents]]
    BY DEF CallsInv, TypeOK
  <2> QED
    BY <1>1, <1>2, <1>6, <2>1, <2>2
<1>8. run'[t].step = "return" /\ run'[t].call = q
  <2>1. ~(Len(old) > 1) /\ q.op # "device_info"
    BY <1>4
  <2> QED
    BY <1>1, <2>1, ServedIs, Gone DEF CallsInv
<1> QED
  BY <1>1, <1>3, <1>6, <1>7, <1>8 DEF FilterOf, Under

LEMMA OwnFilter ==
    ASSUME SysfsAssumption, CallsInv, NEW t \in Threads, Step(t), Under(run[t]),
           Told(t), FilterOf(run[t])
    PROVE  FilterOf(run[t])'
<1> USE DEF CallsInv
<1>1. PICK r : Moves(t, r)
  BY StepMoves
<1>2. run'[t] = r
  BY <1>1, Gone DEF Moves
<1>3. r.step = "idle" \/ run'[t].call = run[t].call
  BY <1>1, <1>2 DEF Moves, Begin, Under
<1>4. CASE run[t].call.op # "set_filter" \/ r.step = "idle"
  BY <1>2, <1>3, <1>4 DEF FilterOf, Under
<1>5. CASE run[t].call.op = "set_filter" /\ r.step # "idle"
  <2>1. /\ \/ Refused(t) \/ GetError(t) \/ NotThere(t) \/ StoreFilter(t) \/ SetFilter(t)
        /\ Current(t).attr \in Parts \cup {"relation"} /\ Current(t).write
        /\ Current(t).refused = "get_error"
        /\ Current(t).attr = "relation" => Current(t).absent # OK
    BY <1>5, FilterSteps
  <2>2. CASE Refused(t)
    <3>1. PICK e \in Results \ {OK}, s \in RunRecords :
             /\ Go(t, s) /\ s.call = run[t].call /\ s.todo = run[t].todo
             /\ \/ s.step = "return" /\ s.result = "INVALID_BUFFERSIZE"
                \/ s.step = "get_error"
                \/ Current(t).refused \in Results
             /\ UNCHANGED <<handle, stage>>
      BY <2>2, RefusedIs
    <3>2. run'[t] = s
      BY <3>1, Gone
    <3>3. (s.step = "return" /\ s.result # OK) \/ s.step = "get_error"
      BY <2>1, <3>1 DEF Results, OK
    <3> QED
      BY <3>1, <3>2, <3>3 DEF FilterOf, Under
  <2>3. CASE GetError(t)
    <3>1. run[t].step = "get_error" /\ Go(t, Finish(t, get_err(t)))
      BY <2>1, <2>3 DEF GetError
    <3>2. get_err(t) # OK /\ get_err(t) \in Results
      BY <1>5, <3>1 DEF Told, get_err, TypeOK, RunRecords
    <3> QED
      BY <3>1, <3>2, FailedFilter
  <2>4. CASE NotThere(t)
    <3>1. Suits(run[t].call, Current(t))
      BY CurrentIs
    <3>2. /\ Go(t, Finish(t, Current(t).absent))
          /\ ~Attribute(Current(t).attr, Obj(t)).there
      BY <2>1, <2>4, <3>1 DEF NotThere, Suits, Parts
    <3>3. Current(t).absent \in Results
      BY <2>1, CurrentIs DEF AccessRecords
    <3>4. CASE Current(t).absent # OK
      BY <3>2, <3>3, <3>4, FailedFilter
    <3>5. CASE Current(t).absent = OK
      <4>1. ~(Obj(t) < GpioCnt)
        BY <2>1, <3>2, PartsThere
      <4>2. Obj(t) = run[t].call.obj
        BY <1>5, CurrentIs, CallContents
      <4>3. run'[t].step = "return" /\ run'[t].call = run[t].call
        BY <3>2, <3>3, FinishIs, Gone
      <4> QED
        BY <4>1, <4>2, <4>3 DEF FilterOf, Under
    <3> QED
      BY <3>4, <3>5
  <2> QED
    BY <1>5, <2>1, <2>2, <2>3, <2>4, StorePart, TakeOver
<1> QED
  BY <1>4, <1>5

LEMMA ToldStep ==
    ASSUME SysfsAssumption, CallsInv, NEW t \in Threads, Step(t),
           NEW u \in Threads, run[u].step # "idle" => Told(u)
    PROVE  Told(u)'
<1>1. SUFFICES ASSUME run'[u].call.op = "set_filter", run'[u].step = "get_error"
               PROVE  get_err(u)' # OK
  BY DEF Told
<1>2. PICK r : Moves(t, r)
  BY StepMoves DEF CallsInv
<1>3. run'[t] = r /\ \A v \in Threads \ {t} : run'[v] = run[v]
  BY <1>2, Gone DEF CallsInv, Moves
<1>4. CASE u = t
  <2>1. run[t].call.op # "device_info"
    <3>1. CASE Begin(t)
      <4>1. PICK q \in Calls :
               \/ Go(t, [Idle EXCEPT !.step = "access", !.call = q, !.todo = Accesses(q)])
               \/ \E e \in Unasked(q) :
                     Go(t, [Idle EXCEPT !.step = "return", !.call = q, !.result = e])
        BY <3>1 DEF Begin
      <4> QED
        BY <1>1, <1>4, <4>1 DEF Go, CallsInv, TypeOK, Idle
    <3>2. CASE ~Begin(t)
      BY <1>1, <1>2, <1>3, <1>4, <3>2 DEF Moves
    <3> QED
      BY <3>1, <3>2
  <2> QED
    BY <1>1, <1>4, <2>1, GetErrorComes
<1>5. CASE u # t
  <2>1. run[u].call.op = "set_filter" /\ run[u].step = "get_error" /\ get_err(u) # OK
    BY <1>1, <1>3, <1>5 DEF Told
  <2>2. UsesHandle(run[u].call) /\ run[u].step # "idle"
    BY <2>1 DEF UsesHandle
  <2>3. get_err(u)' = get_err(u)
    BY <1>5, <2>2, OthersTasks
  <2> QED
    BY <2>1, <2>3
<1> QED
  BY <1>4, <1>5

LEMMA FilterStep ==
    ASSUME SysfsAssumption, CallsInv, FilterInv, [Next]_vars
    PROVE  FilterInv'
<1>1. CASE UNCHANGED vars
  BY <1>1 DEF FilterInv, FilterOf, Told, get_err, vars, device
<1>2. ASSUME NEW t \in Threads, Step(t)
      PROVE  FilterInv'
  <2>1. PICK r : Moves(t, r)
    BY <1>2, StepMoves DEF CallsInv
  <2>2. run'[t] = r /\ \A u \in Threads \ {t} : run'[u] = run[u]
    BY <2>1, Gone DEF CallsInv, Moves
  <2>3. ASSUME NEW u \in Threads
        PROVE  Told(u)'
    BY <1>2, ToldStep DEF FilterInv
  <2>4. \A u \in Threads : ~disturbed'[u] => ~disturbed[u] \/ (u = t /\ Return(t))
    BY <1>2, DisturbedStep DEF CallsInv
  <2>5. r.step # "idle" /\ ~disturbed'[t] => FilterOf(run[t])'
    <3>1. CASE Begin(t)
      BY <3>1, BeginFilter
    <3>2. CASE Return(t)
      <4>1. r = Idle
        BY <2>2, <3>2, IdleTyped, Gone DEF Return, CallsInv
      <4> QED
        BY <4>1, IdleTyped
    <3>3. CASE Under(run[t]) /\ ~Return(t)
      BY <1>2, <2>4, <3>3, OwnFilter DEF FilterInv, Under
    <3>4. CASE ~Begin(t) /\ ~Return(t) /\ ~Under(run[t])
      BY <1>2, <3>4, AfterStore, AfterRead, RefusedIs, AnswerIs
         DEF CallsInv, Step, NotThere, GetError, StoreFilter, OpenFile, CloseFile, Under,
             Stores, Granted, There
    <3> QED
      BY <3>1, <3>2, <3>3, <3>4
  <2>6. ASSUME NEW u \in Threads \ {t}, run[u].step # "idle", ~disturbed'[u]
        PROVE  FilterOf(run[u])'
    <3>1. FilterOf(run[u]) /\ run'[u] = run[u]
      BY <2>2, <2>4, <2>6 DEF FilterInv
    <3>2. CASE run[u].call.op = "set_filter" /\ handle
      <4>1. run[u].call \in Calls
        BY <3>2 DEF CallsInv, TypeOK, RunRecords
      <4>2. /\ handle'
            /\ \A p \in Given(run[u].call) : stage'[p] = stage[p]
            /\ run[u].call.obj \in 0 .. PortCnt - 1
                 => filters'[run[u].call.obj] = filters[run[u].call.obj]
        BY <1>2, <2>6, <3>2, <4>1, OthersFilter
      <4> QED
        BY <3>1, <4>2 DEF FilterOf
    <3>3. CASE ~(run[u].call.op = "set_filter" /\ handle)
      BY <3>1, <3>3 DEF FilterOf
    <3> QED
      BY <3>2, <3>3
  <2> QED
    BY <2>2, <2>3, <2>5, <2>6 DEF FilterInv
<1> QED
  BY <1>1, <1>2 DEF Next

LEMMA FilterInit ==
    ASSUME Init
    PROVE  FilterInv
<1>1. \A t \in Threads : run[t].step = "idle"
  BY DEF Init, Idle
<1> QED
  BY <1>1 DEF FilterInv

(* After netana_set_filter without error the port has the filters of this  *)
(* call and none that the call leaves out (store_filter, set_filter of the *)
(* driver), unless another thread stored one of these parts, or took       *)
(* filters over for this port, while the call was under way.               *)
THEOREM FiltersInEffect == Spec => []FilterIsAsAsked
<1>1. Init => CallsInv /\ FilterInv
  BY CallsInit, FilterInit, SysfsAssumption
<1>2. (CallsInv /\ FilterInv) /\ [Next]_vars => (CallsInv /\ FilterInv)'
  BY CallsStep, FilterStep, SysfsAssumption
<1>3. FilterInv => FilterIsAsAsked
  BY DEF FilterInv, FilterOf, FilterIsAsAsked, FilterSet, AsAsked
<1> QED
  BY <1>1, <1>2, <1>3, PTL DEF Spec
=============================================================================
