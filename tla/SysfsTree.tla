------------------------------- MODULE SysfsTree -------------------------------
(***************************************************************************)
(* What the registration of a PCI device builds and how it is taken down:  *)
(* resources of the PCI device, DMA buffers, directories in sysfs.  Every  *)
(* allocation and every creation may fail, and the rest of what was built  *)
(* is then given back by the error paths of the functions that are under   *)
(* way.  The code is sequential; a step creates one object, an error path  *)
(* or a removal is one step.  A reference that the owner of an object      *)
(* holds is counted, not those that children in sysfs have to parents.     *)
(* The interplay of the bring-up with interrupt and DSR thread is in       *)
(* DeviceLifecycle.                                                        *)
(***************************************************************************)
EXTENDS Naturals, Sequences

CONSTANTS
    GpioCnts, PortCnts,  \* ulGpioCnt, ulPortCnt that devices may have
    DmaCnt               \* g_ulDMABufferCount

ASSUME TreeAssumption ==
    GpioCnts \subseteq Nat /\ PortCnts \subseteq Nat /\ DmaCnt \in Nat

VARIABLES
    mode,      \* "building", "bound" (what the PCI core takes it for), "absent",
               \* "oops": kthread_stop of an error pointer, from which no call returns
    device,    \* [gpios, ports] of the device
    pos,       \* objects of Tree that are built
    tree,      \* see NoTree
    unseen     \* history: objects never created, whose failure was not seen

vars == <<mode, device, pos, tree, unseen>>

\* held: objects whose owner has not given them back
\* refs: directories and group sets that netana_info points to
\* cnt: attcnt of the groups; misused: history, objects that were used or
\* given back when they were no more
Groups == {"filter", "gpio", "port", "phy"}
NoTree == [held |-> {}, refs |-> {}, cnt |-> [g \in Groups |-> 0], misused |-> {}]

Frame(n)    == <<"frame", n, 0>>
Top(n)      == <<"top", n, 0>>
Dir(n)      == <<"dir", n, 0>>
Set(g)      == <<"set", g, 0>>
Array(g)    == <<"array", g, 0>>
Entry(g, i) == <<"entry", g, i>>
Entries(g, n) == [i \in 1 .. n |-> Entry(g, i - 1)]
FilterBuffers == <<"values", "filter", 0>>
\* memory of directory dev_info and of its type, which has no release
InfoMemory == <<"memory", "dev_info", 0>>
\* dmainfo, the places for the infos of the buffers
DmaMemory == <<"infos", "dma", 0>>
DmaBuffer(i) == <<"buffer", "dma", i>>
DmaInfo(i)   == <<"info", "dma", i>>

-----------------------------------------------------------------------------
(* The objects in the order in which they are created. *)

PciFrames == <<Frame("info"), Frame("enabled"), Frame("regions"), Frame("dpm")>>
RegisterFrames == <<Frame("class"), Frame("tkdevice"), Frame("minor"), Frame("device")>>
netana_create_dma ==
    <<DmaMemory, Top("drv_info"), Top("dma_dir")>> \o [i \in 1 .. DmaCnt |-> DmaBuffer(i)]
                                        \o [i \in 1 .. DmaCnt |-> DmaInfo(i)]
BringUp == <<Frame("thread"), Frame("toolkit")>>
DeviceInformation ==
    <<Top("dev_info_dir"), Dir("dev_state"), Dir("dev_info"), Dir("ident_info"),
      Dir("dev_features"), Dir("fw_error")>>
nasysfs_create_filter_dir(n) ==
    IF n = 0 THEN <<>>
    ELSE <<Set("filter"), Array("filter"), FilterBuffers>> \o Entries("filter", n)
\* one entry more for the voltage
nasysfs_create_gpio_dir(n) == IF n = 0 THEN <<>> ELSE <<Set("gpio")>> \o Entries("gpio", n + 1)
\* without ports the result is still -ENOMEM, Absent stands for that
Absent(g) == <<"absent", g, 0>>
nasysfs_create_port_dir(n) ==
    IF n = 0 THEN <<Absent("port")>> ELSE <<Set("port")>> \o Entries("port", n)
nasysfs_create_phy_dir(n) ==
    IF n = 0 THEN <<Absent("phy")>> ELSE <<Set("phy")>> \o Entries("phy", n)
DeviceControl ==
    <<Top("ctl_dir"), Dir("capture_ctl"), Dir("exec_cmd"), Dir("pi"), Dir("time"), Dir("mbx")>>
netana_create_sysfsentries ==
    <<Dir("drv_info")>> \o DeviceInformation
      \o <<Top("hw_dir")>> \o nasysfs_create_filter_dir(device.gpios)
      \o nasysfs_create_gpio_dir(device.gpios) \o nasysfs_create_port_dir(device.ports)
      \o nasysfs_create_phy_dir(device.ports)
      \o <<Top("conf_dir"), Dir("timeout")>> \o DeviceControl
Tree == PciFrames \o RegisterFrames \o netana_create_dma \o BringUp
          \o netana_create_sysfsentries
BeforeThread == PciFrames \o RegisterFrames \o netana_create_dma

Built(s) == {s[i] : i \in 1 .. Len(s)}
Frames == Built(PciFrames \o RegisterFrames \o BringUp)
Dirs(T) == {x \in T.refs : x[1] = "dir"}

-----------------------------------------------------------------------------
(* Giving back. *)

\* kobject_put, kfree
Put(T, X) == [T EXCEPT !.held = @ \ X, !.misused = @ \cup (X \ T.held)]
Use(T, X) == [T EXCEPT !.misused = @ \cup (X \ T.held)]
kfree(T, x) == [T EXCEPT !.held = @ \ {x}]

\* while (--objcnt > 0)
cleanup_objset(T, g) ==
    IF Array(g) \in T.held
    THEN [kfree(Put(T, {Entry(g, i) : i \in 1 .. T.cnt[g] - 1}), Array(g))
            EXCEPT !.cnt[g] = 0]
    ELSE [T EXCEPT !.cnt[g] = 0]

\* four places of the array of the filters are read, however long it is
remove_bin_files(T) ==
    LET S == Use(T, Dirs(T) \cap {Dir("dev_info"), Dir("ident_info"), Dir("mbx")})
    IN IF Array("filter") \in T.held /\ device.gpios < 4
       THEN [S EXCEPT !.misused = @ \cup {Array("filter")}] ELSE S

CleanGroup(T, g) ==
    IF Set(g) \in T.refs THEN Put(cleanup_objset(T, g), {Set(g)}) ELSE T
CleanGroupsButPhy(T) == CleanGroup(CleanGroup(CleanGroup(T, "gpio"), "port"), "filter")
CleanGroups(T) == CleanGroup(CleanGroup(CleanGroup(CleanGroup(T, "gpio"), "port"), "phy"), "filter")
clean_up_sysfs(T) ==
    LET S == remove_bin_files(T)
    IN kfree(CleanGroups(Put(S, Dirs(S))), FilterBuffers)
\* kobject_put accepts NULL
TopDirs(T) ==
    Put(T, T.held \cap {Top("ctl_dir"), Top("conf_dir"), Top("hw_dir"), Top("dev_info_dir")})

\* all pointers are still set after a failure of netana_create_dma that was
\* not seen, but the places of infos that were not created are NULL
netana_free_dma(T) == Put(T, Built(netana_create_dma) \ unseen)

\* the error labels of netana_registerdevice and of netana_pci_probe
Unwind(T) == [Put(T, T.held \cap Frames) EXCEPT !.refs = {}, !.cnt = NoTree.cnt]

\* stop_dsr_thread gets the error pointer if kthread_run failed
HasThread(T) == Frame("thread") \in T.held
stop_dsr_thread(T) == Use(T, {Frame("thread")})
\* err_add_to_toolkit and the labels behind it
GiveUp(T) == IF HasThread(T) THEN Unwind(netana_free_dma(T)) ELSE stop_dsr_thread(T)
netana_unregisterdevice(T) ==
    IF HasThread(T) THEN Unwind(TopDirs(clean_up_sysfs(netana_free_dma(T))))
    ELSE stop_dsr_thread(T)

-----------------------------------------------------------------------------
(* A creation that fails. *)

DirFailsPut(T, x) == {T, [T EXCEPT !.refs = @ \cup {x}]}
\* what the function that creates a directory leaves behind
DirFails(T, x) ==
    CASE x = Dir("dev_info") -> {T, [T EXCEPT !.refs = @ \cup {x}]}  \* kfree, still referred to
      [] x = Dir("mbx") -> {T, [T EXCEPT !.refs = @ \cup {x}]}       \* likewise, if its file fails
      [] x = Dir("ident_info") -> {T, [T EXCEPT !.refs = @ \cup {x}, !.held = @ \cup {x}]}
      [] OTHER -> {T}

\* err_filter, err_gpio, err_port, err_phy
GroupFails(T, g) ==
    LET S == Put([cleanup_objset(T, g) EXCEPT !.refs = @ \ {Set(g)}], {Set(g)})
    IN {IF g = "filter" THEN kfree(S, FilterBuffers) ELSE S}
\* the entries' arrays other than the filters' are taken to be allocated
EntryFails(T, x) ==
    GroupFails(T, x[2])
      \cup (IF x = Entry("filter", device.gpios - 1)         \* its last file
            THEN {[T EXCEPT !.held = @ \cup {x}, !.cnt["filter"] = device.gpios]} ELSE {})
\* err_filter_mem keeps the array, err_group has none
FilterFails(T) == {Put(T, {Set("filter")})}
SysfsFails(T, x) ==
    CASE x[1] = "dir" -> DirFails(T, x)
      [] x[1] = "entry" -> EntryFails(T, x)
      [] x[1] \in {"array", "values"} -> FilterFails(T)
      [] OTHER -> {T}

\* the labels of netana_create_dma, which keep kobj_drv_info; a directory
\* of a buffer is freed after the put that frees it
DmaFails(T, x) ==
    LET put == IF x[1] \in {"infos", "top"} THEN {} ELSE {Top("dma_dir")}
        infos == {y \in T.held : y[1] = "info"}
        S == Put(T, put \cup infos \cup {y \in T.held : y[1] = "buffer"})
    IN {[kfree(S, DmaMemory) EXCEPT !.misused = @ \cup infos]}

Failed(T, x) ==
    IF x \in Built(netana_create_dma) THEN {Unwind(S) : S \in DmaFails(T, x)}
    ELSE IF x \in Built(PciFrames \o RegisterFrames) THEN {Unwind(T)}
    ELSE IF x \in Built(BringUp) THEN {GiveUp(T)}
    ELSE {GiveUp(TopDirs(clean_up_sysfs(S))) : S \in SysfsFails(T, x)}

\* netana_pci_probe returns 0 when there is no memory to map, and a positive
\* number when device_create fails: the PCI core takes both for success
TakenForSuccess(x) == x \in {Frame("dpm"), Frame("device")}

-----------------------------------------------------------------------------

\* netana_pci_probe begins
Init ==
    /\ mode = "building" /\ device \in [gpios : GpioCnts, ports : PortCnts]
    /\ pos = 0 /\ tree = NoTree /\ unseen = {}

\* what comes with an object: the group sets other than the filters' have
\* their array at once
With(x) ==
    {x} \cup (IF x[1] = "set" /\ x[2] # "filter" THEN {Array(x[2])}
             ELSE IF x = Dir("dev_info") THEN {InfoMemory} ELSE {})
\* what netana_info points to then
Referred(x) ==
    IF x[1] = "dir" \/ (x[1] = "set" /\ x[2] # "filter") THEN {x}
    ELSE IF x = FilterBuffers THEN {Set("filter")} ELSE {}
\* attcnt counts one less for the GPIOs, until the voltage is there
Count(x) == IF x[2] = "gpio" /\ x[3] < device.gpios THEN x[3] ELSE x[3] + 1

Create ==
    /\ mode = "building" /\ pos < Len(Tree)
    /\ LET x == Tree[pos + 1]
       IN /\ x[1] # "absent"
          /\ tree' = [tree EXCEPT
                        !.held = @ \cup With(x), !.refs = @ \cup Referred(x),
                        !.cnt = IF x[1] = "entry" THEN [@ EXCEPT ![x[2]] = Count(x)] ELSE @]
    /\ pos' = pos + 1
    /\ mode' = IF pos' = Len(Tree) THEN "bound" ELSE "building"
    /\ UNCHANGED <<device, unseen>>

\* the failure is seen; kthread_run is compared with NULL, which it never
\* answers
Fail ==
    /\ mode = "building" /\ pos < Len(Tree)
    /\ LET x == Tree[pos + 1]
       IN /\ x # Frame("thread")
          /\ tree' \in Failed(tree, x)
          /\ mode' = IF TakenForSuccess(x) THEN "bound"
                     ELSE IF x \in Built(BeforeThread) \/ HasThread(tree) THEN "absent"
                     ELSE "oops"
    /\ UNCHANGED <<device, pos, unseen>>

\* kthread_run fails, and the registration goes on
NoThread ==
    /\ mode = "building" /\ pos < Len(Tree) /\ Tree[pos + 1] = Frame("thread")
    /\ pos' = pos + 1
    /\ unseen' = unseen \cup {Frame("thread")}
    /\ UNCHANGED <<mode, device, tree>>

\* No memory for an info but the first: netana_create_dma gives everything
\* back and returns what kobject_add had returned for the info before.  It
\* was 0, and the registration goes on, or else the failure is seen (Fail).
NoInfo ==
    /\ mode = "building" /\ pos < Len(Tree)
    /\ \E i \in 2 .. DmaCnt :
          /\ Tree[pos + 1] = DmaInfo(i)
          /\ tree' \in DmaFails(tree, DmaInfo(i))
          /\ unseen' = unseen \cup {DmaInfo(j) : j \in i .. DmaCnt}
    /\ pos' = Len(BeforeThread)
    /\ UNCHANGED <<mode, device>>

\* netana_pci_remove, netana_unregisterdevice; without driver data it goes
\* on with the information there is not
Remove ==
    /\ mode = "bound"
    /\ IF pos = Len(Tree)
       THEN /\ tree' = netana_unregisterdevice(tree)
            /\ mode' = IF HasThread(tree) THEN "absent" ELSE "oops"
       ELSE /\ tree' = Use(tree, {Frame("regions"), Frame("enabled"), Frame("info")})
            /\ mode' = "absent"
    /\ UNCHANGED <<device, pos, unseen>>

Next == Create \/ Fail \/ NoThread \/ NoInfo \/ Remove
Spec == Init /\ [][Next]_vars

-----------------------------------------------------------------------------
(* Properties. *)

\* After a removal nothing of the device is left but entry 0 of each group,
\* which cleanup_objset never gives back, and the memory of device_info.
\* After a failed probe it may be more: the last GPIO, the directory for
\* driver information if netana_create_dma fails after it, the filters'
\* array without the values.  Whatever fails, all else is given back, also
\* after failures that were not seen, unless kthread_stop of the missing
\* thread keeps the rest from being given back at all.
FirstEntries == {Entry(g, 0) : g \in Groups}
Forgotten ==
    FirstEntries \cup {InfoMemory}
      \cup IF pos = Len(Tree) THEN {}
          ELSE {Top("drv_info"), Array("filter")}
                 \cup {Entry("gpio", i) : i \in 1 .. device.gpios - 1}
NothingElseLeft == mode = "absent" => tree.held \subseteq Forgotten

\* Nothing is given back twice or used when it is no more.  Known to the
\* contrary are, for any device with less than four filters, the four
\* places of their array; after failures, directories whose creation fails
\* when netana_info points to them already, the directories of DMA buffers,
\* which are put and freed, and what the removal finds of a device whose
\* probe failed with the result of a success; after failures that were not
\* seen, the DSR thread and whatever netana_create_dma had given back.
KnownMisuse ==
    (IF device.gpios < 4 THEN {Array("filter")} ELSE {})
      \cup (IF pos = Len(Tree) THEN {}
            ELSE {Dir("dev_info"), Dir("mbx"), Frame("info"), Frame("regions"), Frame("enabled")}
                   \cup {DmaInfo(i) : i \in 1 .. DmaCnt - 1})
      \cup (unseen \cap {Frame("thread")})
      \cup (IF unseen \subseteq {Frame("thread")} THEN {}
            ELSE Built(netana_create_dma) \ ({Top("drv_info")} \cup unseen))
GivenBackOnce == tree.misused \subseteq KnownMisuse

=============================================================================
