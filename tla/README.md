# A verification development for the netANALYZER Linux driver

The netANALYZER driver stack captures Ethernet frames: a netX card fills DMA
buffers in host memory, a kernel driver hands them to user space, a user
library writes them to files or passes them to a callback. These modules model
the stack's own logic in TLA+, check it with TLC on small instances, and prove
the central results with TLAPS. Paths below are relative to the repository.

## 1. Inventory

| Part | Source | State it keeps | Operations | Talks to |
|---|---|---|---|---|
| Firmware (external) | dual-port memory layout, `toolkit/netana_dpmlayout.h` | netX halves of handshake bits and buffer flags, capture state | fill a buffer, indicate data and status, serve STARTSTOP | driver, through the DPM and the interrupt |
| Toolkit: capture path | `toolkit/netana_capture.c`, `netana_interrupt.c`, `netana_functions.c` (start/stop) | host handshake bits, copy of the netX bits, current buffer, callbacks, events | ISR, DSR handler, `netana_tkit_process`, `netana_start_capture`, `netana_stop_capture` | firmware, DSR thread, callbacks |
| Toolkit: commands | `toolkit/netana_functions.c` | one handshake bit per command, shared DPM blocks | MDIO, GPIO, filters, resync, device information | firmware, DSR events |
| Toolkit: mailbox | `toolkit/netana_toolkit.c`, `netana_functions.c` | send and receive mailbox, two mutexes | put, get, transfer, management commands | firmware, DSR events |
| Toolkit: files | `toolkit/netana_capture.c`, `netana_functions.c` | file ring, offsets, header | open, write, switch, close | OS files |
| Toolkit: life cycle | `toolkit/netana_toolkit.c` | card list, open counts, per-device resources | init, add, remove, restart, reset, download | everything |
| Kernel driver | `netana.c`, `netana_enum.c` | DSR thread, wait queues, `notify_interrupts`, counters | open, release, read, poll, notify, register, ISR | toolkit, user space |
| sysfs interface | `netana_tk_interface.c`, `netana_sysfs.c` | task list of results, staged filter and ident block, directories and groups of attributes | one show/store per toolkit function; create and remove the tree | toolkit, library |
| OS layer | `OS_Linux.c`, `USER_Linux.c` | events, mutexes, locks | create, set, reset, wait | Linux |
| User library | `libnetana/*.c` | device list, event thread, file ring | driver init, open, start, stop, event thread | sysfs and character device |
| Demo, scripts, images | `example`, `tools`, `bsl`, `firmware` | - | - | library |

Hard behaviour: four processes (firmware, hard interrupt, DSR thread, caller)
share handshake bits, each holding copies of different age; the DSR runs user
callbacks that block; waits have time limits after which the code goes on;
several calls test a state and act on it later. `PROJECT.json` lists the
hazards at their lines.

What makes each part correct:

* capture path: every filled buffer is delivered once and in order, no
  indication is lost, the interrupt is not left masked, the return codes of
  start and stop say what is so, callbacks are not cleared under the DSR;
* notification: a buffer is shown to the reader while it is valid and the DSR
  is let go by a close;
* files: data is never written past the file size and a header describes what is
  behind it;
* commands and mailbox: an answer belongs to the request of the caller that gets
  it;
* life cycle: a device in the list has its resources, an open handle has a device,
  an interrupt handler finds both, and a removal ends;
* start-up: only a complete firmware file of the right class is started, a lost
  licence is reported, every bring-up ends;
* sysfs: an error, a filter, a time limit and an ident block are those of the
  call they are used for; a registration that fails, or a removal, gives back
  what was built, once;
* library: one event thread per running capture, no call after its end.

## 2. What is modelled

### 2.1 `Capture`: the capture path of the toolkit

Four processes: the firmware (external), the hard interrupt, the DSR thread and
one caller of `netana_start_capture` and `netana_stop_capture`.

| TLA+ | Code |
|---|---|
| `usNetxFlags`, `ulHostFlags` | the two halves of handshake cell 0 in the dual-port memory; the driver's own `ulHostFlags` and the host half are one variable because both are written under `pvLock` |
| `ulNetxFlags` | the copy the DSR makes in `netana_tkit_dsr_handler`, and every wait of the driver compares with |
| `netxBufferFlags`, `hostBufferFlags` | `ulBufferFlags` of the two control blocks; a buffer is the driver's while its two bits differ |
| `snap`, `fValid`, `iIrq2DsrBuffer` | the two `NETANA_IRQ2DSR_BUFFER_T` between interrupt and DSR |
| `events`, `hStopComplete` | the latching events of `OS_Linux.c` |
| `Isr` | `netana_isr` with `netana_tkit_isr_handler` |
| `DsrWake` ... `DsrEnable` | one pass of `netana_dsrhandler`: `DsrHandler`, then `netana_tkit_process` in the order of the code: acknowledge NEWDATA, read the buffer flags, per buffer check, callback (test and call are two steps), free; state, status callback, acknowledge, `hStopComplete`; unmask |
| `AppStart`, `AppStartSetup`, `AppStartToggle`, `AppStop`, `AppStopToggle`, `AppStopComplete`, `AppStopClear`, `AppWait` | the two calls, cut where another thread can see or change something; `AppWait` is `netana_tkit_WaitForBitState` |
| `Fw...` | what the driver relies on from the firmware |

Bits are sets of names, `^` is the symmetric difference. Buffer contents are
the number of the fill. `Timeouts`, `SelfStop` and `Oversize` switch the
adverse cases on: waits that run out, a capture the firmware ends, and fills
that report a size larger than a buffer.

`CaptureFifo` is what the path promises the consumer: a bounded FIFO that a
stop drains. `Capture` implements it with `put` = fills, `got` = what the data
callback received, `on` = from the firmware's start to the end of
`netana_stop_capture`. `CaptureInv` holds the inductive invariant of section 5.

### 2.2 `UserNotify`: hand-over to user space

`netana_notify_data` and `netana_notify_state` stop the DSR until the reader
(`netana_read`) or the reader of the sysfs state file (`devstate_show_poll`)
signals. Five processes: firmware, DSR, a control thread (open, start, stop,
release), a reader and a state reader. The toolkit below is `Capture` reduced to
what the hand-over sees: a buffer or a status waits to be taken, a call waits
for the DSR. Each signal, flag and counter of `struct netana_info` is a variable
of the same name. The calls' time limits are enabled only while the DSR stands
in a notification or no answer will come (`DsrHeld`, `NothingComes`).

`BufferHandover` is what this promises the user: buffers go back to the firmware in
order; each is skipped or held; one that is held can be read once, and goes back
only when it was read or the device was closed since. `UserNotify` implements it
with `held` = the DSR is in `netana_notify_data` past its checks.

### 2.3 `LibCapture`: the user library

`netana_set_filelist`, `netana_start_capture`, `netana_stop_capture` and
`netana_close_device` on one handle, beside the event thread, which polls,
reads, writes the ring of files (`netana_write_to_file`, headers, wrap) and
calls back. The driver below is `UserNotify` reduced to one buffer and one state
change waiting to be read and a stop that returns when the end has been read.
`thread` is a function because a start can create a second event thread beside
one that was left over. `Failures` are captures that end on their own, a start the
driver refuses, a thread that gets no memory, and two that are not noticed: a
`pthread_create` that fails and a control attribute that is not there, after which
the start reports success and nothing captures.

### 2.4 `DeviceLifecycle`: adding, restarting and removing a device

`netana_registerdevice`, `netana_tkit_deviceadd`, `netana_tkit_deviceremove`,
`netana_restart_device` (through `netana_ident_update`) and
`netana_unregisterdevice`, one action per statement that another process can meet,
beside the interrupt, the DSR thread with its own `dsr_sig` / `kthread_should_stop`
loop, and the firmware. Interrupt masking and handshake copies are those of
`Capture` reduced to CLKOFF and NEWSTATUS. `Failures` names what may go wrong: no
lock or event, a failed reset or download, sysfs attributes, all of which are
handled; `request_irq`, which is only printed; no clock-off acknowledge; and
`kthread_run`, whose failure is *not* noticed: the code compares an error pointer
with NULL and goes on. `dsrPc = "error"` is that pointer in place of a thread: the
device is registered and gets its interrupt, nobody serves it, and an unregistration
hands the pointer to `kthread_stop`, step "oops", after which nothing more is said.
The parts of `netana_registerdevice` before the thread is created allocate and are
undone in order; they share nothing with another process and are one step.

### 2.5 `FirmwareDownload`: getting a device to run

What `DeviceLifecycle` has as one step that may fail: reset, second stage boot
loader, device class, licence and firmware files, start. `Download` is
`DownloadFile` with its local variables in `dl` (state, offset, block size,
packet sequence, id, checksum), `TransferPacket` polls the one-packet mailboxes
of the boot loader, `File` is `OS_FileOpen` with the global `s_pdeviceinstance`
that tells it the device. File contents are counted in units, so "complete" and
"in order" are visible; `Width` stands for 2^32 in the block counter; the boot
loader (external) refuses packets, answers late, or answers a block size it
likes. `Slow` lets every wait run out.

### 2.6 `DeviceCommands`: the commands of a running device

Any number of callers in the functions of the toolkit that are not a capture:
the commands with a handshake bit (`CommandReady` ... `CommandResult`: wait until
the bit is free, copy the request, toggle, wait, read the answer), `BLINK`, which
does not wait, both mailboxes under their mutexes (`WaitMutex`, with the sleepers
nobody wakes), filters, GPIO modes and levels, voltage, open and close. Each wait
is `netana_tkit_WaitForBitState`: first look, event, time limit. A call carries
a ticket that stands for its contents; the firmware answers with the ticket of
the request it finds. `Serial` states the discipline that commands need: no two callers
in the same one at once. Mailboxes and the configuration (filters, GPIOs, open and
close) are under no discipline; `raced` records that a GPIO was given another mode
while a caller stood between its look at the others and its write.

### 2.7 `SysfsCalls`: a library call through sysfs

A call of libnetana is a sequence of accesses to attributes (`Accesses`), each
served by the handler of `netana_tk_interface.c`. A refused access leaves its
error in the list of tasks under the thread's number, and the library reads
the attribute `error` next. Filters are staged in four binary files and taken
over by a fifth write, an ident block is written and read back, the time limit is
stored under the process. What the toolkit does behind a handler is one of its
results. A close or a restart beside a call that uses the handle does not
happen in the model (`Compatible`); `Serial` keeps them away from the other calls
too, and does nothing else. Filters, time limits and ident blocks of several threads
interleave access by access; `disturbed` records the threads in whose call another
one stored the very thing that the call passes through the driver (`Passes`).

### 2.8 `SysfsTree`: registration and removal as owners of objects

`Tree` lists, for a device with given numbers of GPIOs and ports, every object
in the order in which `netana_pci_probe`, `netana_registerdevice`,
`netana_create_dma` and `netana_create_sysfsentries` create it. `Create` adds the
next, `Fail` lets it fail and runs the error paths of all functions under way
(`GroupFails`, `DmaFails`, `clean_up_sysfs`, ...), `Remove` is
`netana_pci_remove`. `tree` records who still holds what, what `netana_info`
points to, the groups' counts, and whether anything was given back or used when
it was no more. Two failures go unseen and the registration goes on, which
`unseen` records: `kthread_run` (`NoThread`), and the memory for an info behind the
first in `netana_create_dma` (`NoInfo`), where `ret` still holds the 0 of the
`kobject_add` before, so that everything is given back and the result is success. A
failing `kobject_add` in that function is never one for the code, since `ret` is
unsigned; the info is kept as if it had been added, and a later failure is then
seen, with that result. Any other failure ends the registration. A
removal or an error path that reaches `kthread_stop` without a thread ends in mode
"oops". The interplay of the same functions with interrupt and DSR thread is
`DeviceLifecycle`.

### 2.9 How the modules fit

`UserNotify` and `LibCapture` restate the layer below in reduced form; so does
`DeviceLifecycle` with `FirmwareDownload` (one step that may fail),
`SysfsCalls` with `DeviceCommands` (one result per handler). `MCCapture`,
`MCDeviceCommands`, `MCFirmwareDownload` and `MCSysfsCalls` hold definitions for
single runs: a bound on fills against calls, one resource per behaviour, classes
of devices, one call per shape of access.

## 3. Runs

| Run | Bounds | Question |
|---|---|---|
| `capture_safety` | 2 buffers, 4 fills, 5 calls, nothing adverse | ring window, order, return codes, callbacks, interrupt hand-over, `RingInv`, refinement of `CaptureFifo` |
| `capture_live` | 2 buffers, 2 fills, 3 calls, firmware answers | every buffer is freed, calls return |
| `capture_dead_firmware` | 1 buffer, 3 oversized fills or 2 calls, firmware need not answer | calls return and the interrupt is unmasked by the time limits |
| `notify` | 2 buffers, 2 fills, 2 captures, 2 opens | hand-over of buffers and states, closing, reopening, refinement of `BufferHandover` |
| `lib_capture` | up to 2 files of 4 blocks, buffers up to 2 blocks, 2 buffers, 2 starts; captures that end on their own, every other failure | headers, file ring, stop, callbacks |
| `lifecycle` | 6 calls, 2 indications, every failure but "noAck" | nothing half done, handler and device, status acknowledged, calls proceed |
| `lifecycle_stop` | 2 calls, 1 indication, no failure | violated: see section 6 |
| `firmware_download` | 1 device, 2 bring-ups, files of 3 units, block sizes 0, 1, 2, 4, every failure, every wait may run out | only complete firmware runs, a lost licence is told, bring-ups end |
| `device_commands` | 2 callers, 3 calls on one resource (on the configuration the third is an open), 2 packets of the device, waits may run out | answers, packets, a second PWM output only by a race, calls end |
| `commands_race` | two callers of the configuration, 2 calls | violated: see section 6 |
| `sysfs_calls` | 2 threads, 3 calls, one call per shape of access, 1 port, 2 GPIOs and an object that is neither | errors; time limits, ident blocks and filters but for another thread's write in between |
| `sysfs_tree` | 0, 1, 2 or 4 GPIOs, 0 to 2 ports, 3 DMA buffers, a failure anywhere, seen or not | what is left, given back twice, used too late |

Why the bounds are enough. With two buffers the ring wraps, is empty, partly full
and full; four fills go round it twice and can be spread over two captures, and five
calls are two full captures and a call too many. One indication is raised,
acknowledged and overtaken by the next with two fills; the third oversized fill
meets the latched event of the first. Two opens are a device used, closed with the
DSR held, and used again. Buffers of one or two blocks fill a file of four blocks
with and without a gap and make the next one begin; with a list of one file the
second buffer wraps the ring. Six calls register, open, restart, release and
unregister a device with one to spare, so that what one life leaves behind is met by
the next. Three units in blocks of 1, 2 and 4 are a download of three packets, of
two with a short last one, and of one; two bring-ups are the first and the one of an
identity update. Of three calls on a command two race and the third meets the late
answer of one of them; commands, mailboxes and configuration share nothing that
would need them in one behaviour. Three library calls are one staged in parts, one
that disturbs it and one that finds what both left. With three DMA buffers an info
fails first, in the middle and last. In the tree, four GPIOs are what
`remove_bin_files` expects, fewer are not; groups of 0, 1 and 2 entries are the
cases of the loop in `cleanup_objset`. Where a parameter could hide something
larger, the theorems of section 5 do not depend on it.

Deadlock is checked in the runs of `Capture`, where somebody can always call or
look. It is not checked where the bounds end all activity: opens (`UserNotify`),
calls (`DeviceLifecycle`, `DeviceCommands`, `SysfsCalls`), bring-ups
(`FirmwareDownload`), the removed device (`SysfsTree`), and the freed handle
(`LibCapture`). `Capture`'s type invariant is in a run; those of `Capture`,
`DeviceLifecycle`, `UserNotify`, `LibCapture`, `SysfsCalls`, `FirmwareDownload` and
`SysfsTree` and the one of `DeviceCommands` (`Types`) are proved.

Each property has a mutant in `PROJECT.json`: a plausible bug in one definition
under which the run fails. The mutated definitions stand beside the true ones
("Mutant:", or a name that says what is wrong).

## 4. Fairness

* `Isr`: a raised, enabled interrupt is delivered (hardware line).
* `Dsr`: a kernel thread that can run does. Weak fairness is enough, the thread
  stays runnable until it takes its step.
* The caller's continuation (`AppContinue`, `CtlContinue`, `Continue`), reads and
  the event thread: threads in a system call or in the library. Nobody has to
  *begin* a call, a read or a fill.
* The firmware, only where the run says that it answers: it takes up indications
  and commands (weak), and acknowledges and ends a stop also if the preconditions
  (an earlier status acknowledged) come and go (strong). `capture_dead_firmware`
  assumes nothing of it; its liveness comes from the driver's time limits, which
  are actions of the caller or the DSR.
* `Call` (`DeviceCommands`) and `Caller` (`FirmwareDownload`): a thread inside a
  call of the kernel runs on and its time limits pass. Nothing is asked of device,
  boot loader or DSR, so `CallsEnd` and `BringUpEnds` hold for a dead one.
* `LibCapture` assumes of the driver that it shows what is there and ends a
  capture it is told to end; that is `notify` and `capture_live` one level down.

Time is not modelled: a time limit is an action enabled during the wait.

## 5. What is proved

`Capture_proofs`, for any number of buffers, fills and calls, with or without
time-outs, self-stops and oversized fills:

* `TypeCorrect`: `Spec => []TypeOK`, with `ulCurrentBuffer` and the firmware's
  position inside the ring.
* `IndicationsAreNotLost` and `InterruptNotLeftMasked`. Neither is inductive
  alone: their conjunction `IrqInv` is, because a valid snapshot, the DSR's signal
  and the mask say the same thing at each step of the loop.

The rest of `Capture_proofs`, when the firmware stops on command and no wait runs out
(`OnCommand`, that is `~SelfStop /\ ~Timeouts`, stated in the theorems; with either
the ring of a finished capture and that of the next can be mixed, and a stop reports
success whatever the firmware did, see section 6):

* `RingInvariant`: `RingInv` is invariant; `RingIsConsistent`: so is
  `RingWindow`. `RingWindow` speaks of one capture; what makes it survive to the
  next is that a start finds nothing left of the last. `RingInv` says why, in
  parts: the four places a handshake bit is seen at form a chain along which news
  travels (`IndicationChain`, `CommandChain`); where in `netana_tkit_process` an
  indication is still open (`AckPoints`); a buffer in the driver's hands is always
  announced or about to be looked at (`Covered`, `LoopInWindow`); the NEWSTATUS of
  the end does not overtake the last NEWDATA (`StatusAfterData`); and the phases of
  a call against the firmware's (`CallPhase`, `EndOfCapture`). Each part has a
  lemma per process.
* `CallbacksOutliveTheirCalls` (`CallbackValid`): the callbacks are cleared in a
  state in which the DSR cannot have tested one (`CallbacksSet`, and `EndOfCapture`
  for the order of capture state and `hStopComplete`).
* `DeliveredInOrder` (`InOrder`) and `ReturnCodesAreTrue` (`ReturnMeansState`), when
  moreover every fill fits its buffer (`AllFit`; an oversized one is given to the
  error path and never to the callback). `DeliveryInv` adds to `RingInv` that what
  was delivered is what was freed, plus the buffer the loop has just passed on
  (`Ordered`), and what the last return code said (`ReturnedState`).
* `CaptureIsAFifo`: `Spec => Fifo!Spec` under the same two assumptions. A fill is a
  put, the data callback a get, the firmware's start and the end of
  `netana_stop_capture` switch the FIFO on and off; every other step is a stutter.
  That a put never finds the FIFO full is `RingWindow`, that it is empty when it
  is switched off is `EndOfCapture`.

`UserNotify_proofs`, for any number of buffers, fills, captures and opens, with
calls that time out, close and reopen at any moment, without further assumptions:

* `NotifyInvariant`: `NotifyInv` is inductive. Its parts follow a buffer through the
  hand-over: how far the DSR is with it (`RoundInv`), what a close has already torn
  down (`CloseInv`), which of the flags are set at which step of DSR and reader
  (`HandoverInv`), what was read (`GotInv`), and who has given the signal the DSR
  waits for (`SignalInv`).
* `CopiedBufferIsHeld` (`ReadIsHeld`) and `ReadsAreInOrder` (`ReadsAdvance`) follow.
* `UserGetsBuffersHandedOver`: `Spec => Handover!Spec`. A fill, the DSR's look at a
  buffer and its return from the notification, the copy of `netana_read` and the
  first signal of a close are steps of `BufferHandover`, the rest stutters. That a
  copy is of the held buffer and the first of it is `HandoverInv` and `GotInv`; that
  the DSR returns only after a read or a close is `SignalInv`. The latter needs
  the reset of `data_read_sig` on open: the signal of the last close would release the
  first buffer of the next user.

`LibCapture_proofs`, for any number of files, buffers and calls, any file size and
any failure, while no start or close is made beside an event thread that was left
over (`Tidy`: with a second thread the library promises nothing, see section 6):

* `LibInvariant`: `LibInv` is inductive. `AloneInv`: the event thread is the one the
  handle knows; `DriverInv`: the driver shows first the buffers and then the state,
  and its stop returns when both were read; `FilesInv`: which files are open and
  where the current one stands; `OrderInv` and `DataInv`: the numbers of the last
  buffer taken, called back and written, and what callback and file then hold.
* `HeadersDescribeFiles`, `WritesFindTheFileOpen` and `StopsDeliverAll` follow; that
  the callbacks come in order (`CallbackInOrder`) is a part of `OrderInv`, and no
  theorem of its own, since only a second thread could break it. The files and the
  last delivery need the order of `DriverInv`: that
  `netana_stop_capture` may close the files while the event thread is alive rests
  on the thread having read the end of the capture before.

`DeviceLifecycle_proofs`, for any number of calls and indications and any
failures:

* `TypeCorrect`; `LifeInvariant`: the step at which a function is says what there
  is of the device (`FunctionSteps`, `DevicePieces`, `Handles`, `Thread`). A
  registered device has a DSR thread or the error pointer `kthread_run` returned in
  its place, and a call that comes to `kthread_stop` with the latter stays there;
* `NothingHalfDone` (`NoPiecesLeft`) and `HandlerNeverDangles`
  (`HandlerHasDevice`) follow: what a returning call leaves is whole but for such a
  thread, and the handler outlives neither its device nor its thread.

`DeviceCommands_proofs`, for any number of callers, commands, GPIOs, calls and
packets, with waits that run out anywhere:

* `PacketsPassOnce`: `Spec => []PacketsOnce`, without any discipline of the
  callers. The invariant is `PacketInv`: at most one caller is inside each mailbox
  and only while the flag of its mutex is set (`Mutex`), the driver's copy of a
  mailbox bit lags behind the device's in one direction only (`Lag`), and the step
  inside says whose turn the mailbox is (`InPacketSteps`).
* `AnswersAreOwn`: `Serial` is assumed. `CommandInv` says that a command has one
  caller (`Alone`), that a bit seen equal is equal (`LagCommand`), and what the
  block holds at each step (`InCommandSteps`). That a late answer cannot be taken
  for the next call's rests on the first wait: a call that finds the bit unequal
  does not begin.
* `OnePwmOutput` (`TwoPwmByRace`), without any discipline: two GPIOs are PWM outputs
  only after a caller gave one another mode while another caller stood between
  its look and its write. `GpioInv` says for a state without such a write that what a
  caller saw of the other GPIOs is still so. `AtMostOnePwm` itself is violated, see
  section 6.

`SysfsCalls_proofs`, for any threads, calls, ports and GPIOs:

* `TypeCorrect`, without assumptions on the callers. With the types comes `Shape`:
  what a call has left to do suits it (`Suits`), so that every access meets a handler
  of its direction, and each handler gives one of its codes. The sequences of the
  library are taken apart once, in `AccessesFit`.
* `ParametersKept` (`ParametersAreOwn`) and `FiltersInEffect` (`FilterIsAsAsked`),
  without assumptions either: any number of threads bring time limits, ident blocks
  and filters at once. `DisturbIs` and `DisturbedStep` say which threads a store
  disturbs, `OthersBlock` and `OthersFilter` that a step of another thread changes
  nothing of what an undisturbed call relies on, and the invariants speak of
  undisturbed calls. An access with a parameter comes right behind the one
  that brings it, or finds it in the driver (`ParamInv`); the repetitions of
  `netana_transfer_packet` set the time limit anew. Each part a filter call names is
  staged or still to be written, the relation comes last, and what was taken over
  stays until the return (`FilterInv`). A restart would bring the default
  filters; it has no call with the handle beside it, because the library is called
  so (`Apart`).
* `ErrorsAreOwn` (`ErrorIsOwn`) assumes that no close or restart is made beside
  another call (`Serial`), since `netana_release` clears the errors of all, and that
  device information is asked for with the size of the whole structure
  (`~ShortInfo`): `netana_device_info` asks for an error that nobody stored when it was
  shorter. A thread asks for an error right behind the access that was refused
  (`GetErrorComes`), and only its own accesses store one under its number
  (`OthersTasks`).

`FirmwareDownload_proofs`, for any number of devices, units, block sizes and
bring-ups, any failure, and a packet counter of any width:

* `TypeCorrect`, with `PartsInv` beside it: which request belongs to a step
  (`Where`, `Request`), and that the continued checksum is the one of the units sent
  so far (`Extent`).
* `DownloadIsComplete`: a `DownloadFile` without an error has left the complete file
  in the device. The ids begin at 1 for every file, so that the answer to a packet of
  a transfer given up can have the command and the id of the one awaited. `PipeInv`
  shows that it is not met: of packet put, answer due and answer shown, none
  belongs to DATA when data is first sent, because these mailboxes keep the order
  (`DataFirst`, `Between`, `InDownload`) and the DOWNLOAD was answered before. That
  holds across the licence and the firmware of one bring-up; the reset empties the
  mailboxes.
* `FirmwareIsOwn` (`RunsOwnFirmware`) and `IdentErrorsTell` (`IdentErrorTells`), under
  `[]OneAtATime`: no two devices are brought up at once. `Files` follows the name
  through `s_pdeviceinstance` and the two globals of `OS_FileOpen` to the download,
  `Licence` the wish for a licence through `request`, `lRet` and `lError`. The
  assumption is needed for these globals only (`RestStep`: a device that is not
  brought up leaves them alone). With one device, as in the run, it always holds.

`SysfsTree_proofs`, for any number of GPIOs, ports and DMA buffers and a failure
anywhere, noticed or not:

* `TreeInvariant`: while the registration goes on, what `tree` holds, refers to and
  counts is a function of the objects created so far and of those whose failure was
  not seen (`AsBuilt`); afterwards no more is left and misused than the named
  objects. For a registration that ended in mode "oops" it bounds the misuse alone.
* `AllIsGivenBack` (`NothingElseLeft`) and `NothingIsGivenBackTwice`
  (`GivenBackOnce`) follow. Three things carry them. `Tree` is in the order of the
  stages of the registration (`TreeChunk`, from the chunks of the functions by
  `ChunkConcat`), so that when `x` fails all of an earlier stage exists and nothing of
  a later one (`CreationOrder`). Each function that gives back takes away a set that
  can be named, and misuses nothing if it is held (`CleanGroupIs`, `CleanUpIs`,
  `FreeDmaIs`, `UnwindIs`, ...). And whatever the failing function leaves is such that
  `clean_up_sysfs` and what follows find what they put (`Ready`, one lemma per kind of
  failure in `SysfsFailsReady`). `Rest` is what no function gives back; the lemma
  `BuiltRest` says that it is entry 0 of the groups, the memory of `device_info`, the
  last GPIO without the voltage and the filters without their buffers, no more.

The assumptions are the ASSUMEs of `Capture`, `DeviceLifecycle`, `UserNotify`,
`LibCapture`, `DeviceCommands`, `SysfsCalls`, `FirmwareDownload` and `SysfsTree`, which
the runs evaluate, `[]OneAtATime` where it is written, and `Serial` in
`AnswersAreOwn` and `ErrorsAreOwn`. `Serial`,
`Tidy`, `ShortInfo`, `Timeouts`, `SelfStop` and `Oversize` are constants of the
modules; the runs of the same properties set them as the theorems assume them, so
that no theorem rests on a case the runs do not have.

Every safety property of the passing runs is proved (`CallbackInOrder` as a part of
`LibInv`). Only model-checked is liveness,
since fairness and ENABLED are out of the prover's reach: `EveryBufferFreed`,
`CallReturns`, `CallsReturn`, `CallsEnd`, `CallsProceed`, `UnmaskedAgain`,
`StatusAcknowledged`, `CloseLetsDsrGo`, `BringUpEnds`.

## 6. What the runs found

* `DsrThreadStops` (`netana.c:207`): `stop_dsr_thread` sets `dsr_sig` before
  `kthread_stop` sets its flag. A DSR thread still in its loop consumes the signal,
  finds `kthread_should_stop()` false, and sleeps again; the wake-up of
  `kthread_stop` lets it test `dsr_sig` only. The unregister hangs. The window is
  the one between the two statements, with the DSR on its way back from its last
  pass, such as the one that brought the clock-off acknowledge.
* `AtMostOnePwm` (`toolkit/netana_functions.c:1246`): `netana_set_gpio_mode` looks
  through the other GPIOs and writes its own mode later, without a lock; two callers
  activate two PWM outputs. That nothing else leads to a second one is `TwoPwmByRace`
  (`device_commands`).

Defects the models take over from the code as they are; the properties in brackets
say what holds beside them:

* a failed `kthread_run` (`netana.c:799`) is not noticed, because an error pointer
  is not NULL. The device is added, listed and given its interrupt without a DSR
  thread; the first interrupt masks the device for good, and `stop_dsr_thread` hands
  the pointer to `kthread_stop` (`LifeInv`, `NoPiecesLeft`, `CallsProceed`);
* `netana_create_dma` keeps in `ret` what `kobject_add` returned: without memory for an
  info behind one that was added (line 511) it frees everything and returns 0, the
  registration goes on with freed DMA buffers, and `netana_free_dma` frees them
  again. `ret` is unsigned, so that a failed `kobject_add` (line 518) passes for a
  success (`GivenBackOnce`, `NothingElseLeft`);
* the driver keeps one time limit for a process (`netana_tk_interface.c:870`), one
  ident block and one set of filter parts for a device (line 715) between two accesses
  of a call; two threads in such calls get each other's, without an error
  (`ParametersAreOwn`, `FilterIsAsAsked`);
* a start of the library whose thread got no memory calls `netana_stop_capture`
  (`libnetana/netana_functions.c:1224`), which looks at a state only that thread sets
  and does nothing: the start reports an error and the driver captures on.

Seen on the way, with nothing in the code that claims otherwise:

* `netana_tkit_deviceadd` takes a first snapshot and compares the result with a
  constant of another function, so the snapshot waits for the next interrupt; hence
  `StatusAcknowledged` speaks of indications raised to a requested interrupt;
* a DSR pass still running at `netana_tkit_deviceremove` enables the interrupts
  again and may use the deleted lock and events;
* `netana_start_capture` of the library waits without limit to see the capture run;
* a stop whose wait for `hStopComplete` runs out reports success with the capture
  still running (`toolkit/netana_functions.c:1002`); in `UserNotify` a later stop
  then finds its command just served and starts a capture;
* a close and a new open before the DSR has run reset the signal that was to let it
  go (`netana.c:620`); the DSR then holds a buffer no read serves until the next close;
* in the library, a stop after the capture ended by itself returns without ending
  the event thread (line 1254); a start whose `pthread_create` fails (line 1202), or
  that finds no control attribute (line 1205), reports success without a capture;
* `s_pdeviceinstance` (`OS_Linux.c:253`) is one for all devices: with two bring-ups
  at once `OS_FileOpen` may serve the files of the other;
* ids of transfers start again at 1 for every file, so that `RunsOwnFirmware` rests
  on a boot loader that has no file open after a DOWNLOAD it refuses;
* `netana_release` clears the errors of all tasks: beside a close a call
  of another thread that was refused is reported as a success; a filter or PHY
  register whose attribute does not exist is reported as set;
* after a failed restart the device cannot be opened until it is removed;
* every removal leaves entry 0 of each group, since `cleanup_objset` counts down to
  1, and the memory of `device_info`, whose type has no release function; a device
  with less than four GPIOs has `remove_bin_files` read behind its array;
* a device without ports cannot be registered: the message says "Skip port resource
  creation", the result is -ENOMEM;
* `netana_pci_probe` returns 0 without memory to map, and 1 when `device_create`
  fails; the PCI core takes both for success, and the removal finds no driver data;
* a failed creation of `device_info` or of the mailbox file leaves a reference to a
  directory that is freed, which `clean_up_sysfs` uses; a failure among the
  directories of the DMA buffers puts and frees the earlier ones.

`KnownMisuse` and `Forgotten` in `SysfsTree` name the objects of the last five and
those of the two failures nobody notices, the DSR thread and what `netana_create_dma`
had given back, so that anything beyond them is a violation. They bound, and do not
say that each misuse happens on every path they name.

## 7. Plan

The data path, its consumers, the life of the device, its start-up, the commands,
the sysfs calls and the tree are done. What is left, in order:

1. `UserNotify`'s toolkit shown an abstraction of `Capture` by a refinement mapping
   (calls, `DsrTake`, acknowledgements).
2. Registration of two devices that share the class, and devices of the device
   tree, in `SysfsTree`.

## 8. What is not modelled

* Firmware beyond what the driver relies on; DMA and memory ordering: an action is
  one atomic access to the dual-port memory or to a shared variable.
* The two steps in which `OS_WaitEvent` tests and clears an event
  (`OS_Linux.c:593`): `AppWaitEvent` is one. What an event announces was written
  before it was set; the waiter takes the two sets for one, and one that waits for a
  bit looks at it again after the clear, so that nothing announced is missed.
* A system after `kthread_stop` of an error pointer. A failed `kobject_add` of
  `netana_create_dma` has no state of its own in `SysfsTree`.
* In the library, a header that cannot be written while a start goes on.
* Another device on the shared interrupt line, `netana_poll`, a second concurrent
  reader of one file, power management, a device unplugged while it is open.
* Formatting and parsing of sysfs attributes, tracing, file, PCI and UIO access,
  scripts, images and the demo.
* The capture files of the toolkit: the kernel build has no files to write to. The
  library's copy of the functions is in `LibCapture`.
* Devices of the device tree, suspend and resume, an allocation that fails for an
  entry of the task list or for the array of a group other than the filters' (the
  code does not check the latter).
* The reads of `DeviceCommands` that change nothing, and the ranges of its numeric
  parameters.

## 9. Checking

`tlc -config X.cfg M` with the module and configuration each run of `PROJECT.json`
names; `tlapm Capture_proofs.tla`, `tlapm SysfsTree_proofs.tla`, `tlapm
DeviceLifecycle_proofs.tla`, `tlapm DeviceCommands_proofs.tla`, `tlapm
UserNotify_proofs.tla`, `tlapm LibCapture_proofs.tla`, `tlapm
SysfsCalls_proofs.tla`, `tlapm FirmwareDownload_proofs.tla`. The longest runs take
about two minutes on two cores, each of the proofs at most a few minutes.
