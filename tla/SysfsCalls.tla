------------------------------ MODULE SysfsCalls ------------------------------
(***************************************************************************)
(* The library's calls to an open device.  A call of libnetana is a        *)
(* sequence of reads and writes of attributes in sysfs.  A handler of the  *)
(* driver that refuses an access leaves its error in a list, under the     *)
(* thread that asked; the library then reads the attribute "error".  The   *)
(* time limit of a call, the parts of a filter and the ident block pass    *)
(* through the driver in accesses of their own.                            *)
(*                                                                         *)
(* The threads are those of the one process that has the device open.      *)
(* What the toolkit does behind a handler is in DeviceCommands and, for    *)
(* start and stop, in LibCapture; here a handler gives one of its errors.  *)
(***************************************************************************)
EXTENDS Naturals, Sequences

CONSTANTS
    Threads, Leader,   \* threads of the process, its group_leader
    PortCnt, GpioCnt,  \* ulPortCnt, ulGpioCnt
    Objects,           \* numbers that callers give for a port, a GPIO, a PHY
    Tags,              \* contents of filters and ident blocks, time limits
    Calls,             \* the calls that are made, see Requests
    Serial,            \* whether nobody closes or restarts the device beside a call
    ShortInfo,         \* whether a caller's device information may be shorter
    MaxTries,          \* answers netana_transfer_packet looks at (10)
    MaxCalls           \* bound: calls

Parts == {"maska", "vala", "maskb", "valb"}
Requests ==
    [op : {"driver_information", "enum_device", "open", "close", "get_state",
           "get_state_poll", "features", "blink", "scan", "class",
           "signal_drv_error", "resync", "pi", "set_ident", "get_ident",
           "set_voltage", "mbx_state"}]
      \cup [op : {"device_info"}, short : BOOLEAN]
      \cup [op : {"portstat", "get_mode", "set_mode", "output", "get_voltage"}, obj : Objects]
      \cup [op : {"read_phy", "write_phy"}, obj : Objects, tag : Tags]
      \cup [op : {"get_filter"}, obj : Objects, a : BOOLEAN, b : BOOLEAN]
      \cup [op : {"set_filter"}, obj : Objects, a : BOOLEAN, b : BOOLEAN,
            tag : Tags, long : BOOLEAN]
      \cup [op : {"check_ident", "get_packet", "put_packet", "transfer"}, tag : Tags]

ASSUME SysfsAssumption ==
    /\ Leader \in Threads /\ Calls \subseteq Requests
    /\ PortCnt \in Nat /\ GpioCnt \in Nat /\ Objects \subseteq Nat
    /\ 0 \notin Tags /\ Serial \in BOOLEAN /\ ShortInfo \in BOOLEAN
    /\ MaxTries \in Nat \ {0} /\ MaxCalls \in Nat
    /\ ~ShortInfo => \A q \in Calls : q.op = "device_info" => ~q.short

VARIABLES
    handle,    \* the library has the device open, the driver a file
    lost,      \* addsucceded is 0 and hdevice NULL after a failed restart
    tasks,     \* act_task_list: thread -> its last error and time limit
    stage,     \* maska, vala, maskb, valb of the netana_tk_device
    filters,   \* filters of the device, by port
    block,     \* identinfoblock
    run,       \* thread -> its call, see Idle
    calls,     \* calls made
    disturbed  \* history: the threads in whose call another thread's access
               \* changed what the call passes through the driver

device == <<handle, lost, tasks, stage, filters, block>>
vars == <<device, run, calls, disturbed>>

OK == "NO_ERROR"
NoFilter == [p \in Parts |-> 0]
\* todo: the accesses left; refusal, used: history, the last error the driver
\* had for the call, the time limits or ident block it was served with
Idle == [step |-> "idle", call |-> [op |-> "none"], todo |-> <<>>, tries |-> 0,
         result |-> OK, refusal |-> OK, used |-> {}]

-----------------------------------------------------------------------------
(* The list of results. *)

get_err_process(t) == IF Leader \in DOMAIN tasks THEN tasks[Leader].lasterror ELSE OK
get_err(t) == IF t \in DOMAIN tasks THEN tasks[t].lasterror ELSE OK
get_timeout == IF Leader \in DOMAIN tasks THEN tasks[Leader].timeout ELSE 0

\* kzalloc is taken to succeed
Entry(t) == IF t \in DOMAIN tasks THEN tasks[t] ELSE [lasterror |-> OK, timeout |-> 0]
Keep(t, e) == tasks' = [u \in DOMAIN tasks \cup {t} |-> IF u = t THEN e ELSE tasks[u]]
store_err(t, e) == Keep(t, [Entry(t) EXCEPT !.lasterror = e])
store_timeout_new(x) ==
    IF Leader \in DOMAIN tasks THEN UNCHANGED tasks
    ELSE Keep(Leader, [Entry(Leader) EXCEPT !.timeout = x])
store_timeout(x) == Keep(Leader, [Entry(Leader) EXCEPT !.timeout = x])
cleanlist == tasks' = [u \in {} |-> Entry(u)]

-----------------------------------------------------------------------------
(* The handlers of the attributes: what each may return, by the number of  *)
(* its port or GPIO.                                                       *)

hdevice == handle /\ ~lost
CheckDevice(R) == IF hdevice THEN R ELSE {"INVALID_HANDLE"}

\* toolkit
tk_get_filter(o) == IF o < PortCnt THEN {OK} ELSE {"INVALID_PORT"}
tk_set_filter(o) == IF o < PortCnt THEN {OK, "CAPTURE_ACTIVE"}
                                   ELSE {"INVALID_PORT", "CAPTURE_ACTIVE"}
tk_get_gpio_mode(o) == IF o < GpioCnt THEN {OK} ELSE {"INVALID_PARAMETER"}
tk_get_gpio_voltage(o) == IF o < GpioCnt THEN {OK} ELSE {"INVALID_PARAMETER"}
tk_enum_device == IF lost THEN {"DEVICE_NOT_FOUND"} ELSE {OK, "ACCESS_DENIED"}
tk_get_mbx_state == {OK, "FUNCTION_NOT_AVAILABLE"}
tk_blink == IF lost THEN {"DEVICE_NOT_FOUND"} ELSE {OK, "DEVICE_NOT_FOUND"}
tk_get_packet == {OK, "DRV_CMD_ACTIVE", "DEV_GET_NO_PACKET", "BUFFER_TOO_SHORT"}
tk_put_packet == {OK, "DRV_CMD_ACTIVE", "DEV_MAILBOX_FULL", "DEV_MAILBOX_TOO_SHORT"}

\* netana_tk_interface.c
netana_show_drvvers        == {OK}
netana_show_dma_buffercnt  == {OK}
netana_show_dma_buffersize == {OK}
netana_set_device_class    == {OK, "INVALID_PARAMETER"}
netana_get_device_class    == {OK}
netana_set_dsr_prio        == {OK, "EINVAL"}
devstate_show              == CheckDevice({OK})
devstate_show_poll         == CheckDevice({OK})
devfeature_show            == CheckDevice({OK})
fwerror_store              == CheckDevice({OK, "FUNCTION_FAILED"})
show_device_info           == tk_enum_device
netana_store_gpio_mode     == CheckDevice({OK, "CAPTURE_ACTIVE", "INVALID_PARAMETER",
                                           "FUNCTION_FAILED"})
netana_store_gpio_level    == CheckDevice({OK, "INVALID_PARAMETER", "FUNCTION_FAILED"})
netana_gpio_get_reg_val(o) == CheckDevice(tk_get_gpio_mode(o))
netana_set_gpiovoltage     == CheckDevice({OK, "INVALID_PARAMETER"})
netana_get_gpiovoltage(o)  == CheckDevice(tk_get_gpio_voltage(o))
netana_port_get_reg_val(o) == CheckDevice({OK, "FUNCTION_FAILED"})
netana_phy_get_reg_val     == CheckDevice({OK, "FUNCTION_FAILED"})
netana_phy_set_reg_val     == CheckDevice({OK, "FUNCTION_FAILED"})
get_relation(o)            == CheckDevice(tk_get_filter(o))
set_filter(o)              == CheckDevice(tk_set_filter(o))
show_filter(o)             == CheckDevice(tk_get_filter(o))
store_filter               == CheckDevice({OK})
netana_blink_device        == tk_blink
netana_pi_config           == CheckDevice({OK})
netana_time_config         == CheckDevice({OK, "FUNCTION_FAILED"})
netana_timeout_config      == CheckDevice({OK})
netana_show_ident_info     == CheckDevice({OK})
netana_ident_update        == CheckDevice({OK, "CAPTURE_ACTIVE", "HWRESET_ERROR", "FILE_OPEN_ERROR"})
netana_write_ident         == CheckDevice({OK, "FUNCTION_FAILED"})
netana_read_ident          == CheckDevice({OK})
netana_read_mbx_status     == CheckDevice(tk_get_mbx_state)
netana_read_mbx_packet_bin  == CheckDevice(tk_get_packet)
netana_write_mbx_packet_bin == CheckDevice(tk_put_packet)

-----------------------------------------------------------------------------
(* The attributes: directories exist for every port, GPIO or, the filters, *)
(* for every GPIO; an attribute has a handler to show or to store it.      *)

DriverInformation(o) ==
    [dma_buffersize |-> [there |-> TRUE, show |-> netana_show_dma_buffersize],
     dma_buffercnt  |-> [there |-> TRUE, show |-> netana_show_dma_buffercnt],
     driver_version |-> [there |-> TRUE, show |-> netana_show_drvvers],
     device_class   |-> [there |-> TRUE, show |-> netana_get_device_class,
                         store |-> netana_set_device_class],
     dsr            |-> [there |-> TRUE, store |-> netana_set_dsr_prio]]
DeviceInformation(o) ==
    [ident_info        |-> [there |-> TRUE, show |-> netana_show_ident_info,
                            store |-> netana_ident_update],
     device_state      |-> [there |-> TRUE, show |-> devstate_show],
     device_state_poll |-> [there |-> TRUE, show |-> devstate_show_poll],
     device_features   |-> [there |-> TRUE, show |-> devfeature_show],
     fw_error          |-> [there |-> TRUE, store |-> fwerror_store]]
HwResources(o) ==
    [relation     |-> [there |-> o < GpioCnt, show |-> get_relation(o), store |-> set_filter(o)],
     gpio_status  |-> [there |-> o < GpioCnt, show |-> netana_gpio_get_reg_val(o),
                       store |-> netana_store_gpio_mode],
     level        |-> [there |-> o < GpioCnt, store |-> netana_store_gpio_level],
     voltage      |-> [there |-> o < GpioCnt, show |-> netana_get_gpiovoltage(o)],
     set_voltage  |-> [there |-> GpioCnt > 0, store |-> netana_set_gpiovoltage],
     port_status  |-> [there |-> o < PortCnt, show |-> netana_port_get_reg_val(o)]]
PhyRegisters(o) ==
    [regval |-> [there |-> o < PortCnt, show |-> netana_phy_get_reg_val,
                 store |-> netana_phy_set_reg_val]]
DeviceControl(o) ==
    [identify       |-> [there |-> TRUE, store |-> netana_blink_device],
     pi_config      |-> [there |-> TRUE, store |-> netana_pi_config],
     time_config    |-> [there |-> TRUE, store |-> netana_time_config],
     timeout_config |-> [there |-> TRUE, store |-> netana_timeout_config],
     mailbox_status |-> [there |-> TRUE, show |-> netana_read_mbx_status]]
BinaryFiles(o) ==
    [device_info |-> [there |-> TRUE, show |-> show_device_info],
     ident_check |-> [there |-> TRUE, show |-> netana_read_ident, store |-> netana_write_ident],
     mailbox     |-> [there |-> TRUE, show |-> netana_read_mbx_packet_bin,
                      store |-> netana_write_mbx_packet_bin]]
FilterFiles(o) ==
    [p \in Parts |-> [there |-> o < GpioCnt, show |-> show_filter(o), store |-> store_filter]]
Attribute(n, o) ==
    CASE n \in {"dma_buffersize", "dma_buffercnt", "driver_version", "device_class", "dsr"}
              -> DriverInformation(o)[n]
      [] n \in {"ident_info", "device_state", "device_state_poll", "device_features",
                "fw_error"} -> DeviceInformation(o)[n]
      [] n \in {"relation", "gpio_status", "level", "voltage", "set_voltage", "port_status"}
              -> HwResources(o)[n]
      [] n = "regval" -> PhyRegisters(o)[n]
      [] n \in {"identify", "pi_config", "time_config", "timeout_config", "mailbox_status"}
              -> DeviceControl(o)[n]
      [] n \in {"device_info", "ident_check", "mailbox"} -> BinaryFiles(o)[n]
      [] n \in Parts -> FilterFiles(o)[n]
netana_attr_show(n, o) == Attribute(n, o).show
netana_attr_store(n, o) == Attribute(n, o).store

-----------------------------------------------------------------------------
(* The library: the accesses of every function.  absent is its result      *)
(* when there is no such attribute; refused its result when the driver     *)
(* refuses, "get_error" where the driver is asked for its error.           *)

Read(n, e)  == [attr |-> n, write |-> FALSE, absent |-> e, refused |-> "get_error"]
Write(n, e) == [attr |-> n, write |-> TRUE, absent |-> e, refused |-> "get_error"]
Ignoring(a, e) == [a EXCEPT !.refused = e]

netana_driver_information ==
    <<Read("dma_buffersize", "DRIVER_NOT_RUNNING"),
      Read("dma_buffercnt", "INVALID_PARAMETER"),
      Read("driver_version", "INVALID_PARAMETER")>>
netana_enum_device == <<Read("device_info", "DEVICE_NOT_FOUND")>>
netana_device_info == <<Read("device_info", "DEVICE_NOT_FOUND")>>
\* check_driver, /dev, and the priority of the DSR thread where one is set
check_driver == netana_driver_information
netana_open_device ==
    check_driver \o <<Write("open", "FUNCTION_FAILED"), Ignoring(Write("dsr", OK), OK)>>
netana_get_state == <<Read("device_state", "INVALID_HANDLE")>>
netana_get_state_poll == <<Read("device_state_poll", "INVALID_HANDLE")>>
\* netana_get_state, whose error only lets the device be closed at once
netana_close_device ==
    <<Ignoring(Read("device_state", "go on"), "go on"), Write("close", OK)>>
netana_get_filter(q) ==
    <<Ignoring(Read("relation", "INVALID_PARAMETER"), "IOCTL_FAILED")>>
      \o (IF q.a THEN <<Read("maska", "INVALID_PARAMETER"),
                       Read("vala", "INVALID_PARAMETER")>> ELSE <<>>)
      \o (IF q.b THEN <<Read("maskb", "INVALID_PARAMETER"),
                       Read("valb", "INVALID_PARAMETER")>> ELSE <<>>)
\* a port without filter directory is no error (lRet is NO_ERROR there)
netana_set_filter(q) ==
    (IF q.a THEN <<Write("maska", OK), Write("vala", OK)>> ELSE <<>>)
      \o (IF q.b THEN <<Write("maskb", OK), Write("valb", OK)>> ELSE <<>>)
      \o <<Write("relation", "INVALID_PARAMETER")>>
netana_get_portstat == <<Read("port_status", "INVALID_PORT")>>
update_timeout == <<Write("timeout_config", "INVALID_HANDLE")>>
\* after update_timeout lRet is NO_ERROR, also for a missing attribute
netana_access_phy_reg(q) ==
    update_timeout \o
      <<IF q.op = "read_phy" THEN Read("regval", OK) ELSE Write("regval", OK)>>
netana_get_gpio_mode == <<Read("gpio_status", "INVALID_PARAMETER")>>
netana_set_gpio_mode == <<Write("gpio_status", "INVALID_PARAMETER")>>
netana_set_gpio_output == <<Write("level", "INVALID_PARAMETER")>>
\* netana_mngmt_exec_cmd; BLINK goes on to the next card, which there is not
MngmtBlink ==
    <<Ignoring(Read("device_info", "DEVICE_NOT_FOUND"), "DEVICE_NOT_FOUND"),
      Write("identify", "INVALID_PARAMETER")>>
MngmtScan == netana_driver_information \o <<Ignoring(Read("device_info", OK), OK)>>
MngmtFeatures == <<Read("device_features", "INVALID_PARAMETER")>>
MngmtClassFilter == <<Write("device_class", "INVALID_PARAMETER")>>
netana_resync_time == <<Write("time_config", "INVALID_PARAMETER")>>
netana_config_pi_controller == <<Write("pi_config", "INVALID_PARAMETER")>>
netana_set_device_ident == <<Write("ident_info", "INVALID_PARAMETER")>>
netana_get_device_ident == <<Read("ident_info", "INVALID_PARAMETER")>>
netana_check_device_ident ==
    <<Write("ident_check", "INVALID_PARAMETER"), Read("ident_check", "INVALID_PARAMETER")>>
netana_set_gpio_voltage == <<Write("set_voltage", "INVALID_PARAMETER")>>
netana_get_gpio_voltage == <<Read("voltage", "INVALID_PARAMETER")>>
netana_signal_drv_error == <<Write("fw_error", "INVALID_PARAMETER")>>
netana_get_mbx_state == <<Read("mailbox_status", "INVALID_PARAMETER")>>
netana_get_packet == update_timeout \o <<Read("mailbox", OK)>>
netana_put_packet == update_timeout \o <<Write("mailbox", OK)>>
netana_transfer_packet == netana_put_packet \o netana_get_packet

Accesses(q) ==
    CASE q.op = "driver_information" -> netana_driver_information
      [] q.op = "enum_device" -> netana_enum_device
      [] q.op = "device_info" -> netana_device_info
      [] q.op = "open" -> netana_open_device
      [] q.op = "close" -> netana_close_device
      [] q.op = "get_state" -> netana_get_state
      [] q.op = "get_state_poll" -> netana_get_state_poll
      [] q.op = "get_filter" -> netana_get_filter(q)
      [] q.op = "set_filter" -> netana_set_filter(q)
      [] q.op = "portstat" -> netana_get_portstat
      [] q.op \in {"read_phy", "write_phy"} -> netana_access_phy_reg(q)
      [] q.op = "get_mode" -> netana_get_gpio_mode
      [] q.op = "set_mode" -> netana_set_gpio_mode
      [] q.op = "output" -> netana_set_gpio_output
      [] q.op = "blink" -> MngmtBlink
      [] q.op = "scan" -> MngmtScan
      [] q.op = "features" -> MngmtFeatures
      [] q.op = "class" -> MngmtClassFilter
      [] q.op = "resync" -> netana_resync_time
      [] q.op = "pi" -> netana_config_pi_controller
      [] q.op = "set_ident" -> netana_set_device_ident
      [] q.op = "get_ident" -> netana_get_device_ident
      [] q.op = "check_ident" -> netana_check_device_ident
      [] q.op = "set_voltage" -> netana_set_gpio_voltage
      [] q.op = "get_voltage" -> netana_get_gpio_voltage
      [] q.op = "signal_drv_error" -> netana_signal_drv_error
      [] q.op = "mbx_state" -> netana_get_mbx_state
      [] q.op = "get_packet" -> netana_get_packet
      [] q.op = "put_packet" -> netana_put_packet
      [] q.op = "transfer" -> netana_transfer_packet

-----------------------------------------------------------------------------
(* A thread in its call. *)

Init ==
    /\ handle = TRUE /\ lost = FALSE
    /\ tasks = [u \in {} |-> 0]
    /\ stage = NoFilter /\ filters = [o \in 0 .. PortCnt - 1 |-> NoFilter]
    /\ block = 0
    /\ run = [t \in Threads |-> Idle] /\ calls = 0
    /\ disturbed = [t \in Threads |-> FALSE]

Go(t, r) == run' = [run EXCEPT ![t] = r]
Obj(t) == IF "obj" \in DOMAIN run[t].call THEN run[t].call.obj ELSE 0
Tag(t) == IF "tag" \in DOMAIN run[t].call THEN run[t].call.tag ELSE 0
Current(t) == Head(run[t].todo)
IsFile(a) == a.attr \notin {"open", "close"}

UsesHandle(q) == q.op \notin {"driver_information", "enum_device", "open",
                              "blink", "scan", "class"}
\* the other calls with the handle must be over before it is closed, and
\* before the device restarts
Exclusive(q) == q.op \in {"close", "set_ident"}
Compatible(q, p) ==
    /\ Exclusive(q) => ~UsesHandle(p)
    /\ Exclusive(p) => ~UsesHandle(q)
    /\ Serial => ~Exclusive(q) /\ ~Exclusive(p)

\* what a function returns before its first access
CheckDeviceHandle(q) == IF UsesHandle(q) /\ ~handle THEN {"INVALID_HANDLE"} ELSE {}
IsCaptureRunning(q) ==
    IF q.op \in {"set_filter", "get_mode", "set_mode", "pi"} THEN {"CAPTURE_ACTIVE"} ELSE {}
Unasked(q) ==
    IF CheckDeviceHandle(q) # {} THEN CheckDeviceHandle(q)
    ELSE IsCaptureRunning(q)            \* and stat of the ident file
           \cup (IF q.op = "set_ident" THEN {"FILE_OPEN_ERROR"} ELSE {})

Begin(t) ==
    /\ run[t].step = "idle" /\ calls < MaxCalls
    /\ \E q \in Calls :
          /\ \A u \in Threads \ {t} : run[u].step # "idle" => Compatible(q, run[u].call)
          /\ \/ /\ UsesHandle(q) => handle
                /\ Go(t, [Idle EXCEPT !.step = "access", !.call = q, !.todo = Accesses(q)])
             \/ \E e \in Unasked(q) :
                   Go(t, [Idle EXCEPT !.step = "return", !.call = q, !.result = e])
    /\ calls' = calls + 1
    /\ UNCHANGED <<device, disturbed>>

Finish(t, e) == [run[t] EXCEPT !.step = "return", !.result = e]
\* netana_device_info compares what it read with the size of the whole
\* structure, whatever the size it asked for
Served(t) ==
    IF Len(run[t].todo) > 1 THEN [run[t] EXCEPT !.step = "access", !.todo = Tail(@)]
    ELSE IF run[t].call.op = "device_info" /\ run[t].call.short
         THEN [run[t] EXCEPT !.step = "get_error"]
    ELSE Finish(t, OK)
\* the parameter that another access brought to the driver
Passed(a) ==
    CASE a.attr \in {"regval", "mailbox"} -> {get_timeout}
      [] a.attr = "ident_check" /\ ~a.write -> {block}
      [] OTHER -> {}
ServedBy(t) == [Served(t) EXCEPT !.used = @ \cup Passed(Current(t))]

There(t) ==
    /\ run[t].step = "access" /\ IsFile(Current(t))
    /\ Attribute(Current(t).attr, Obj(t)).there
Outcomes(t) ==
    LET a == Current(t)
    IN IF a.write THEN netana_attr_store(a.attr, Obj(t)) ELSE netana_attr_show(a.attr, Obj(t))
Granted(t) == There(t) /\ OK \in Outcomes(t)
Stores(t, n) == Granted(t) /\ Current(t).attr = n /\ Current(t).write

\* What a call passes through the driver: parts of a filter and the filters
\* of its port, the time limit, the ident block
GivenAll(q) == Parts   \* mutant: also the parts that the call leaves out
Given(q) == (IF q.a THEN {"maska", "vala"} ELSE {}) \cup (IF q.b THEN {"maskb", "valb"} ELSE {})
UsesTimeout(q) == q.op \in {"read_phy", "write_phy", "get_packet", "put_packet", "transfer"}
Passes(q, n, o) ==
    \/ n \in Parts /\ q.op = "set_filter" /\ n \in Given(q)
    \/ n = "relation" /\ q.op = "set_filter" /\ q.obj = o
    \/ n = "timeout_config" /\ UsesTimeout(q)
    \/ n = "ident_check" /\ q.op = "check_ident"
Disturb(t) ==
    disturbed' = [u \in Threads |->
        disturbed[u] \/ (u # t /\ Passes(run[u].call, Current(t).attr, Obj(t)))]

\* get_attribute_handle returns NULL
NotThere(t) ==
    /\ run[t].step = "access" /\ IsFile(Current(t))
    /\ ~Attribute(Current(t).attr, Obj(t)).there
    /\ Go(t, IF Current(t).absent = "go on" THEN Served(t) ELSE Finish(t, Current(t).absent))
    /\ UNCHANGED <<device, calls, disturbed>>

\* netana_ident_update restarts the device before these two errors
Restarted(e) == e \in {"HWRESET_ERROR", "FILE_OPEN_ERROR"}
\* a filter longer than the file is no question of the driver's error
TooLong(t) == run[t].call.op = "set_filter" /\ run[t].call.long /\ Current(t).attr \in Parts
Refused(t) ==
    /\ There(t)
    /\ \E e \in Outcomes(t) \ {OK} :
          LET a == Current(t)
              r == [run[t] EXCEPT !.refusal = e, !.used = @ \cup Passed(a)]
              wrote == a.attr = "ident_check" /\ a.write /\ e # "INVALID_HANDLE"
          IN /\ IF e = "EINVAL" THEN UNCHANGED tasks ELSE store_err(t, e)
             /\ lost' = (lost \/ e = "HWRESET_ERROR")
             /\ filters' = IF a.attr = "ident_info" /\ Restarted(e)
                           THEN [o \in DOMAIN filters |-> NoFilter] ELSE filters
             /\ block' = IF wrote THEN Tag(t) ELSE block
             /\ IF wrote THEN Disturb(t) ELSE UNCHANGED disturbed
             /\ Go(t, IF TooLong(t)
                      THEN [r EXCEPT !.step = "return", !.result = "INVALID_BUFFERSIZE"]
                      ELSE IF a.refused \in {"get_error", "go on"}
                      THEN [r EXCEPT !.step = "get_error"]
                      ELSE [r EXCEPT !.step = "return", !.result = a.refused])
    /\ UNCHANGED <<handle, stage, calls>>

\* get_error, which reads the attribute "error" (netana_get_last_error)
GetError(t) ==
    /\ run[t].step = "get_error"
    /\ Go(t, IF Current(t).refused = "go on" THEN Served(t) ELSE Finish(t, get_err(t)))
    /\ UNCHANGED <<device, calls, disturbed>>

\* an access without effect on the driver's or the device's state here
HasEffect(a) == a.write /\ a.attr \in Parts \cup {"timeout_config", "relation",
                                              "ident_check", "ident_info"}
Plain(t) ==
    /\ Granted(t) /\ ~HasEffect(Current(t))
    /\ ~(Current(t).attr = "ident_check")
    /\ ~(run[t].call.op = "transfer" /\ Len(run[t].todo) = 1)
    /\ Go(t, ServedBy(t))
    /\ UNCHANGED <<device, calls, disturbed>>

\* netana_timeout_config
SetTimeout(t) ==
    /\ Stores(t, "timeout_config")
    /\ store_timeout(Tag(t)) /\ Disturb(t)
    /\ Go(t, Served(t))
    /\ UNCHANGED <<handle, lost, stage, filters, block, calls>>

\* store_filter; what exceeds the file is not written
StoreFilter(t) ==
    \E p \in Parts :
       /\ Stores(t, p)
       /\ stage' = [stage EXCEPT ![p] = Tag(t)] /\ Disturb(t)
       /\ Go(t, IF TooLong(t) THEN Finish(t, "INVALID_BUFFERSIZE") ELSE Served(t))
       /\ UNCHANGED <<handle, lost, tasks, filters, block, calls>>

\* the parts that the call names sizes for, the others cleared
SetFilter(t) ==
    /\ Stores(t, "relation")
    /\ filters' = [filters EXCEPT ![Obj(t)] =
                     [p \in Parts |-> IF p \in Given(run[t].call) THEN stage[p] ELSE 0]]
    /\ Disturb(t)
    /\ Go(t, Served(t))
    /\ UNCHANGED <<handle, lost, tasks, stage, block, calls>>

\* netana_write_ident, whose check works in the block
WriteIdent(t) ==
    /\ Stores(t, "ident_check")
    /\ block' = Tag(t) /\ Disturb(t)
    /\ Go(t, Served(t))
    /\ UNCHANGED <<handle, lost, tasks, stage, filters, calls>>

\* netana_read_ident
ReadIdent(t) ==
    /\ Granted(t) /\ Current(t).attr = "ident_check" /\ ~Current(t).write
    /\ block' = 0 /\ Disturb(t)
    /\ Go(t, ServedBy(t))
    /\ UNCHANGED <<handle, lost, tasks, stage, filters, calls>>

\* netana_ident_update, whose restart brings the default filters
IdentUpdate(t) ==
    /\ Stores(t, "ident_info")
    /\ filters' = [o \in DOMAIN filters |-> NoFilter]
    /\ Go(t, Served(t))
    /\ UNCHANGED <<handle, lost, tasks, stage, block, calls, disturbed>>

\* netana_transfer_packet looks at what netana_get_packet brought
Answer(t) ==
    /\ Granted(t) /\ run[t].call.op = "transfer" /\ Len(run[t].todo) = 1
    /\ \/ Go(t, ServedBy(t))
       \/ Go(t, IF run[t].tries + 1 < MaxTries
                THEN [ServedBy(t) EXCEPT !.step = "access", !.todo = netana_get_packet,
                                         !.result = OK, !.tries = @ + 1]
                ELSE [ServedBy(t) EXCEPT !.result = "TRANSFER_TIMEOUT"])
    /\ UNCHANGED <<device, calls, disturbed>>

\* open of /dev/netanalyzer_x and netana_open_device of the toolkit
OpenFile(t) ==
    /\ run[t].step = "access" /\ Current(t).attr = "open"
    /\ \/ /\ ~handle /\ ~lost
          /\ handle' = TRUE /\ filters' = [o \in DOMAIN filters |-> NoFilter]
          /\ Go(t, Served(t))
       \/ /\ Go(t, Finish(t, IF handle THEN "DEVICE_STILL_OPEN" ELSE "FUNCTION_FAILED"))
          /\ UNCHANGED <<handle, filters>>
    /\ UNCHANGED <<lost, tasks, stage, block, calls, disturbed>>

\* close and netana_release; after a state that the driver told the capture
\* may be on, and the call ends without
CloseFile(t) ==
    /\ run[t].step = "access" /\ Current(t).attr = "close"
    /\ \/ /\ handle' = FALSE /\ cleanlist
          /\ Go(t, Served(t))
       \/ /\ run[t].refusal = OK
          /\ Go(t, Finish(t, "CAPTURE_ACTIVE"))
          /\ UNCHANGED <<handle, tasks>>
    /\ UNCHANGED <<lost, stage, filters, block, calls, disturbed>>

Return(t) ==
    /\ run[t].step = "return"
    /\ Go(t, Idle)
    /\ disturbed' = [disturbed EXCEPT ![t] = FALSE]
    /\ UNCHANGED <<device, calls>>

Step(t) ==
    \/ Begin(t) \/ NotThere(t) \/ Refused(t) \/ GetError(t) \/ Plain(t)
    \/ SetTimeout(t) \/ StoreFilter(t) \/ SetFilter(t) \/ WriteIdent(t) \/ ReadIdent(t)
    \/ IdentUpdate(t) \/ Answer(t) \/ OpenFile(t) \/ CloseFile(t) \/ Return(t)
Next == \E t \in Threads : Step(t)
Spec == Init /\ [][Next]_vars

-----------------------------------------------------------------------------
(* Properties. *)

\* Types, for the reader and the proofs.  The library reads only what the
\* driver shows and writes only what it stores.
Steps == {"idle", "access", "get_error", "return"}
Results ==
    {OK, "ACCESS_DENIED", "BUFFER_TOO_SHORT", "CAPTURE_ACTIVE", "DEVICE_NOT_FOUND",
     "DEVICE_STILL_OPEN", "DEV_GET_NO_PACKET", "DEV_MAILBOX_FULL", "DEV_MAILBOX_TOO_SHORT",
     "DRIVER_NOT_RUNNING", "DRV_CMD_ACTIVE", "EINVAL", "FILE_OPEN_ERROR",
     "FUNCTION_FAILED", "FUNCTION_NOT_AVAILABLE", "HWRESET_ERROR", "INVALID_BUFFERSIZE",
     "INVALID_HANDLE", "INVALID_PARAMETER", "INVALID_PORT", "IOCTL_FAILED",
     "TRANSFER_TIMEOUT"}
Shown ==
    {"dma_buffersize", "dma_buffercnt", "driver_version", "device_state",
     "device_state_poll", "device_features", "device_info", "relation", "port_status",
     "regval", "gpio_status", "ident_info", "ident_check", "voltage", "mailbox_status",
     "mailbox"} \cup Parts
Stored ==
    {"dsr", "relation", "timeout_config", "regval", "gpio_status", "level", "identify",
     "device_class", "time_config", "pi_config", "ident_info", "ident_check",
     "set_voltage", "fw_error", "mailbox"} \cup Parts
AccessRecords ==
    [attr : Shown, write : {FALSE}, absent : Results \cup {"go on"},
     refused : Results \cup {"get_error", "go on"}]
      \cup [attr : Stored \cup {"open", "close"}, write : {TRUE}, absent : Results,
            refused : Results \cup {"get_error"}]
Contents == Tags \cup {0}
RunRecords ==
    [step : Steps, call : Calls \cup {[op |-> "none"]}, todo : Seq(AccessRecords),
     tries : Nat, result : Results, refusal : Results, used : SUBSET Contents]
TypeOK ==
    /\ handle \in BOOLEAN /\ lost \in BOOLEAN
    /\ tasks \in [DOMAIN tasks -> [lasterror : Results, timeout : Contents]]
    /\ stage \in [Parts -> Contents]
    /\ filters \in [0 .. PortCnt - 1 -> [Parts -> Contents]]
    /\ block \in Contents
    /\ run \in [Threads -> RunRecords]
    /\ calls \in Nat
    /\ disturbed \in [Threads -> BOOLEAN]

\* get_error of the library is called for a refusal, and reads the error
\* that the driver had for this thread in this call: no other thread, no
\* later access and no clean-up of the list comes between.
ErrorIsOwn ==
    \A t \in Threads :
       run[t].step = "get_error" => run[t].refusal # OK /\ get_err(t) = run[t].refusal

\* The driver keeps time limit, parts of a filter and ident block between two
\* accesses and has no lock for them (netana_tk_interface.c:702, 893, 949), so
\* that calls beside each other mix them up.  Nothing else does.  What a call is
\* served with is its own, time limit and ident block, whatever other calls
\* come before it and beside it, unless another thread stored one of the very
\* things it passes through the driver while it was under way.
ParametersAreOwn == \A t \in Threads : ~disturbed[t] => run[t].used \subseteq {Tag(t)}

\* The port has the filters of this call and of no other, and none in place
\* of those that the call leaves out.
FilterSet(t) ==
    LET q == run[t].call
    IN run[t].step = "return" /\ run[t].result = OK /\ q.op = "set_filter"
         /\ q.obj < GpioCnt
       => filters[q.obj] = [p \in Parts |-> IF p \in Given(q) THEN q.tag ELSE 0]

\* A netana_set_filter that returns without error has had effect, unless
\* another thread stored a part of a filter in between.
FilterIsAsAsked == \A t \in Threads : ~disturbed[t] => FilterSet(t)

=============================================================================
