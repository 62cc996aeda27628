# Verification of the Driver_Sample drivers

The repository is a collection of Windows driver samples (KMDF, UMDF and WDM).
They share no code with each other, so this project treats each driver as a
system of its own. What they have in common is the programming model, and that
is where their hard behaviour lies: callbacks, DPCs, completion routines and
cancel routines run concurrently on any CPU, requests are owned by exactly one
party at a time, objects live by references, and cleanup routines wait for
events that somebody else must set.

The TLA+ modules are translations of the C and C++ code. Each definition names
its lines in `PROJECT.json` ("map"). TLC checks the modules on small instances,
TLAPS proves the theorems for every instance.

## 1. Inventory

Paths are relative to `src/`. `PROJECT.json` lists every component, those
without a module with the reason.

### bluetooth/bthecho: Bluetooth echo client and server (modelled)

* **Repeat reader** (`common/lib/connection.c`). State: one request, the counter
  `Stopping`, the event `StopEvent`, a DPC. Operations: submit, completion
  (resubmit by DPC, or stop), cancel, wait. Callers: the thread that opens a
  connection, the DPC, the completion routine, and any thread that disconnects.
  Hard: a cancel between the check of `Stopping` and the send; the event that
  tells the cleanup callback that nothing runs any more. Correct when no cancel
  is lost, the event means rest, and a cancelled reader does stop.
* **Connection object** (`common/lib/connection.c`, `common/inc/connection.h`,
  `common/lib/clisrv.c`). State: `ConnectionState` under a spin lock,
  `DisconnectEvent` outside it, the continuous reader. Operations:
  `RemoteDisconnect` and its completion, synchronous disconnect, cleanup
  callback. Correct when the disconnect is sent once, a request to end the
  connection is never forgotten, and every wait ends after what it waits for.
* **Server** (`bthsrv/sys/server.c`, `device.c`, `echo.c`). State: the list of
  connections, each connection object. Operations: connect indication, response
  and its completion, disconnect indication, echo, reader failure, device
  removal. All of them may end a connection, at the same time.
* **Client** (`bthcli/sys/client.c`, `device.c`, `queue.c`). One connection per
  file object. Operations: create (SDP query, connect), read, write, I/O stop,
  disconnect indication, close (waits for the disconnect).
* SDP record, driver entries, installer and application: not modelled.

### bluetooth/serialhcibus: Bluetooth HCI over a UART (modelled in part)

* **Writes** (`Fdo.c`, `io.c`). A write of bthport is sent to the UART in a second
  request. Handler, cancel callback and completion routine share a context without
  a lock; the word `RequestCompletePath` decides who completes the request.
  Correct when it is completed once, nothing is used after it is released and
  nothing is leaked.
* **Read matching** (`Fdo.c`, `io.c` `ReadRequestComplete`). A queue of reads and a
  list of packets, one of each for events and for ACL data, under
  `QueueAccessLock`. Correct when reads and packets do not wait for each other and
  every packet is delivered once and in order.
* **Read pump** (`io.c`, `Io.h`). One read at a time is with the UART; the completion
  routine cuts the bytes into H4 packets and computes how much the next read
  should ask for. Correct when no byte is lost or misplaced, whatever the
  lengths in which the bytes come, and when the pump goes on.
* Child devices, power, platform level reset: not modelled.

### SkeletonI2C and SpbTestTool: a bus and a test peripheral on it (modelled in part)

* **SkeletonI2C** (`device.cpp`, `controller.cpp`) is the controller driver under
  SpbCx. State, under one spin lock: the target the controller is configured
  for, each target's current request and its place in it; one delay timer. Operations:
  connect, lock, unlock, read, write, sequence, cancel, timer. Hard: handler,
  cancel callback and timer all end the request, the last two at any
  time later. Correct when each finds the request that it means, the bus serves the target
  that is locked, and every request is answered.
* **SpbTestTool** (`sys/peripheral.cpp`, `device.cpp`) is a peripheral's driver: a sequential
  queue presents one request at a time, for which the driver sends its only SPB
  request. Hard: the request and its memory are used again; a cancel callback may run
  after its request was completed. The interrupt has a slot `WaitOnInterruptRequest`, used without a
  lock by parallel handlers, their cancel callbacks and the ISR, and an event the ISR
  stalls for. Correct when requests are answered, completed once, and the flag
  `IsSpbSequenceRequest` belongs to the request that completes.

### simgpio_i2c: a GPIO controller behind I2C (modelled in part)

State: the registers of the controller, `SavedRegisterContext`; the driver
itself keeps next to nothing. Operations: the calls of GpioClx, each a sequence of register
transfers of which any may fail. Correct when between calls the controller is as
the successful calls asked, also after a loss of power, and an interrupt is
enabled only with its own mode and polarity.

### MouHidInputHook: a hook in the input path of the mice (modelled in part)

State: the monitor (`mouhid_monitor.cpp`: lock, registration handle, callback
context), the hook manager (`mouhid_hook_manager.cpp`: lock, registration entry,
hook context), the `ClassService` pointers of the mice, which belong to another driver. Operations:
enable, disable, PnP notification, unload, and the hook itself. Hard: input runs
through the hook without a lock; the notification tells the monitor after it has
released the manager's lock. Correct when whatever the hook uses is there, and the
two parties agree on the handle.

### Smaller drivers (modelled in part)

* **hidusbfx2** (`sys/usb.c`, `hid.c`): a continuous reader with two reads queued stores the
  switch that was turned on, a 10 ms timer reports it; all share the context without a lock.
* **mohid** (`mohid/mouhid.c`): one read IRP goes round while a file is open;
  close and removal stop it through two flags and an event; stopping the device does not.
* **usb/umdf2_fx2** (`driver/*.c`): bulk transfers and interrupt messages against a
  reset of the device, power transitions and removal.

### Others (not modelled)

* **vhidmini2**, HID_Minidriver_Sample, HIDInjector, vmulti, loki-hidriver: virtual HID devices, a
  timer or a write completes queued reads; reader and writer meet only in a framework queue.
* **umdf_fx2, umdf_filter_umdf, umdf_filter_kmdf**: variants of the FX2 driver.
* **Toaster**, filters, templates (Moufiltr, firefly, Invertible mouse,
  Waveshare, Pad2Screen, PracticeKMDFDriver, UMDFDriverHuddly): hold little or no state between requests.
* **Programs and binaries** (hclient, devcon, InstDrv, command lines, decompiled
  drivers): see "What is not modelled".

## 2. Modules

| Module | Models | Checked by | Proofs |
|---|---|---|---|
| `RepeatReader` | one or more repeat readers and the threads that cancel them | `MCRepeatReader` | `RepeatReaderProofs` |
| `ChannelLife` | abstract: what the connection code promises about a channel | implemented by `BthServer` | |
| `BthServer` | connections of the server; composes `RepeatReader` | `MCBthServer` | `BthServerProofs` |
| `BthClient` | files, connections and transfers of the client | `MCBthClient` | `BthClientProofs` |
| `HciWrite` | a write, its cancellation and its completion | `MCHciIo` | `HciIoProofs` |
| `HciRead` | matching reads and packets | itself | `HciIoProofs` |
| `HciPump` | the read pump and the H4 reassembly | `MCHciPump` | `HciPumpProofs` |
| `I2cController` | SkeletonI2C under SpbCx | through `SpbStack` | `SpbStackProofs` |
| `SpbTestTool` | the pair of a client request and the SPB request | through `SpbStack` | |
| `SpbStack` | composes the two: a bus with peripherals of SpbTestTool and others | `MCSpbStack` | `SpbStackProofs` |
| `SpbInterrupt` | WaitOnInterrupt, its cancellation, ISR and Signal | `MCSmallDrivers` | `SmallDriversProofs` |
| `SimGpio` | the calls of GpioClx as programs of register transfers | itself | `SimGpioProofs` |
| `MouHook` | monitor, hook manager, hook, notifications and unload | `MCSmallDrivers` | `SmallDriversProofs` |
| `SwitchDebounce` | switches of hidusbfx2 | `MCSmallDrivers` | |
| `MouRead` | the cycle of reports of mohid | `MCSmallDrivers` | `SmallDriversProofs` |
| `Fx2Board` | transfers, messages and reset of umdf2_fx2 | `MCSmallDrivers` | |

Definitions called *faulty variant* are not part of any specification. They are
the code with one plausible mistake; each property is violated when one of them
takes the place of the definition it varies (`PROJECT.json`, "mutants").

Every module states a type invariant `TypeOK`. `HciPump`'s is a property of its
run, because there the type holds bounds that the reassembly must respect (buffer
and packet lengths). The others bind nothing but the model and are no run's property; they
are proved where there are proofs.

### Granularity

A step is one section under a lock, or one access to state that no lock
protects. Code in between touches only what its thread owns. A thread has a
program counter whose labels name the next access (`rpc`, `thread`, `at`,
`handler`, ...).

### RepeatReader

`rpc` is where the code that runs the reader is: the submission (`reuse`,
`check`, `format`, `clear`, `send`), the pending request, the callbacks (`echo`,
`failed`), the DPC, the setting of the event (`signal`). `caller` says whether
the submission is the first one or a resubmission; only the first clears the
event. `marked` is the framework's cancel mark, which `WdfRequestReuse` removes:
that is why the check of `Stopping` comes after the reuse. A cancelling thread
sets `Stopping` and then marks the request in two steps (`cancelling` is the set
of threads between them). `handle` is `RequestPendingRead`: the cleanup callback waits for the
event (`WaitForStop`) and then clears the handle and `Stopping` (`Uninitialize`). On a cleared
handle no call of the framework is a step: there the machine stops.

### BthServer

A thread is a pair of a connection and a role: the opening (`Opener`), the
peer's indication (`Indicator`), the removal (`Remover`), the completion of the
disconnect (`Closer`) and the callbacks of each reader. Each executes the common
`RemoteDisconnect` with labels of its own (`cancel`, `mark`, `lock`, `clear`,
`close`) and then goes on according to the path it came by (`for`). `halt`
records a step that would stop the machine: unlinking an entry that is out of the list
(`RemoveEntryList` fails fast), or using the request that the cleanup callback
has cleared.

The cleanup callback takes one reader after the other (`WaitReader`, `UninitializeReader`), then
waits for the disconnect (`Dispose`).

`Phase` and `Ending` map a connection to `ChannelLife`.

Assumptions about code outside `src/`:

* the framework runs the cleanup callback of a deleted object later, on another thread (run
  inside the callback of a reader that failed it would wait for the event
  that this very thread sets afterwards, see section 4); a second `WdfObjectDelete`
  is ignored;
* unregistering the L2CAP server waits for connect indications under way;
* the peer indicates a disconnect at most once, while the channel is open;
* a read on a channel that is down, or that is cancelled, completes.

### BthClient

`handle` is the file object, `io` a read or write with the framework's cancel
mark. The I/O manager sends the close when no request of the file is
outstanding. `unsent` remembers that the stack refused the disconnect: the code
ignores that (`connection.c:1093`) and waits for an event that nobody sets.

### HciWrite

`path` is the set of bits of `RequestCompletePath`; `cancelable` what
`WdfRequestUnmarkCancelable` looks at. References are counted: `uartRefs`
(creation and `WdfObjectReference`), `bthportRefs` (those the driver takes) and
`memory`. `Cancelled` are the writes that bthport may cancel, `Refused` those that
`WdfRequestSend` may refuse. `MCHciIo` has the writes beside the reads, which share no state with
them; in its `WritesSpec` the reads rest.

### HciRead

An IOCTL takes the lock twice: `Forward` queues its request, `MatchRequest`,
`NoRequest` or `StaysQueued` look for a packet. Completion happens outside the
lock (`Deliver`, `PumpDelivers`, with `match` in between). One queue and one list
are modelled: events and ACL data have the same code and share nothing but the lock.

### HciPump

`stream` is what the controller sends, `wire` the bytes not yet read, `context`
the part of `UART_READ_CONTEXT` that the reassembly uses. A read may return any
number of bytes up to the length asked for, time out or fail. Header bytes are
taken one at a time, payloads in pieces. `wire` and `stream` are bytes because
the properties are about bytes; the payload bytes include values that look like
packet types, so that a reassembly that loses its place is noticed.

A stream is any sequence of a type byte and bytes after it (`StreamsAssumption`). What has the
type of an event or of ACL data and is as long as its header says is a packet (`IsEvent`,
`IsAcl`, which must fit `Raw`); anything else is noise, and a stream without it is `Clean`.
Bytes go up to `MaxParams`, 255 in the code.

`OutOfSync` has the whole of the code's answer to a byte that is no packet type, the end of the
pump after a hardware error included (`io.c:928-963`). `hardwareError` is `HardwareErrorDetected`:
the code sets it to FALSE (`Fdo.c:499`, `io.c:972`) and nowhere to TRUE, so that exit is dead, the
pump reads on, and `PumpGoesOn` holds.

### I2cController, SpbTestTool and SpbStack

`I2cController` has the lock, so its sections are steps: `Dispatch` is SpbCx
handing a request over, the handler's section is two steps (a cancel may come in
between, at the framework's lock), `OnCancel` and `OnDelayTimerExpired` one each, and `Completed` is
outside the lock. `timer` is the timer queue's entry, `expired` the callbacks
that are no longer in it and have not taken the lock: `WdfTimerStop` without waiting takes back the
first only. As the sample is built, programming a transfer completes it at once (the
register code is left to do), so the ISR and the DPC that would complete it never run and
are left out.

`SpbTestTool` is the handler (`format`, `mark`, `send`), the completion (`unmark`, `pair`,
`answer`) and the cancel callback, which may be `late`. It takes and returns an SPB
request in actions that `SpbStack` conjoins with those of the controller (`ToolSends` with
`Submit`, `Ends` with `Return`). Peripherals outside `Tool` have any client: locks, unlocks, sequences
with delays, cancels. SpbCx is external: a queue of requests, one with the
controller, and the lock of a target keeps the others' requests queued.

### SpbInterrupt

Slot, `taken` (the ISR's local variable) and the framework's state of each
request. Admit, mark and store are three steps of a handler, look, take, unmark, complete, clear and stall
those of the ISR.

### SimGpio

`Program` gives the register transfers of each call; `op` is the call under way
with what it has read so far, and a step is one transfer. `Reached` is the bank a
transfer really reaches. `asked` is what GpioClx has been told, updated when a call
returns, `known` the interrupts whose configuration is certain (a failed
reconfiguration leaves it uncertain).

### MouHook

`monitor` and `manager` are the two contexts with their locks, `service` and `original` the hook in
each mouse's path, `contexts` the callback contexts that are allocated; enables are
numbered, and the number names the entry, its handle and its context. `at` is the step of each
thread: the callers', the notification's (`pnp`) and the unload's. `input` is where
a mouse's input is in the hook, which takes no lock. The step `lost` is what follows an
acquisition of the resource that the unload has deleted. The wait of 250 ms is
taken to be long enough for input to leave the hook.

### SwitchDebounce, MouRead, Fx2Board

In `SwitchDebounce` the completion routine runs in each reader of the pipe, with its local
variables, a step for each access to the context: check of `IsPowerUpSwitchState`, comparison,
store of `CurrentSwitchState`, store of `LatestToggledSwitch`, start of the timer. (Check and
comparison are one step when the flag is clear.) The timer's callback is three steps (look, take,
fill), D0 entry three. `toggle` follows the latest switch that was stored as turned on. In
`MouRead` every access to a flag is a step; the completion routine, close and removal are
threads; a stop of the device frees the buffers at any time, a start allocates new ones. In `Fx2Board` a pipe is
stopped or started, a transfer sent, held or cancelled; a reset stops all pipes in one
step (it cancels and waits) and starts them one by one.

`MCSmallDrivers` runs `MouHook`, `MouRead`, `SpbInterrupt`, `SwitchDebounce` and
`Fx2Board` in one run: the initial state chooses one of them, the others stay in
theirs. Its states are the sum of the systems' states, not their product, and each
property is about one of them.

## 3. Runs

| Run | Instance | Distinct states | Shows |
|---|---|---|---|
| `repeat_reader` | 1 reader, 3 cancelling threads, cleanup, fairness | 2,078 | `StopEventMeansQuiet`, `NoLostCancel`, `CancelledReaderStops` |
| `server_life` | 1 connection, 1 reader, every fault, fairness | 178,433 | `DisconnectSentOnce`, `ListHoldsLiveObjects`, `DisconnectEventHasSetter`, refinement of `ChannelLife`, `DeletedIsDisposed`, `RemovalClosesChannels` |
| `server_unlink_twice` | removal | violation | `UnlinkedOnce` fails |
| `client_io` | 1 file, 2 transfers, every fault, fairness | 510 | `DisconnectSentOnce`, `CloseIsSynchronous`, `CloseReturns`, `ConnectionIsDisposed`, `TransfersEnd` |
| `hci_write` | a write that may be cancelled, one that may be refused, fairness | 1,890 | `CompletedOnce`, `UsesLiveObjects`, `AllReleased`, `EveryWriteCompletes` |
| `hci_read` | 3 reads (one too small), 3 packets, fairness | 27,445 | `NoStrandedPair`, `PacketsAccounted`, `ListInOrder`, `PairsMeet` |
| `hci_read_overtakes` | 1 read, 2 packets | violation | `PacketNeverOvertakes` fails |
| `hci_pump` | 14 streams of 2 to 4 packets, fairness | 12,867 | `TypeOK` (the lengths stay in the buffers), `NoByteLost`, `PumpGoesOn`, `StreamIsDelivered` |
| `spb_stack` | 1 peripheral of SpbTestTool, 1 other, sequences of up to 2 transfers, fairness | 124,396 | `CancelFindsRequest`, `BusFollowsLock`, `SequenceFlagMatches`, `RequestsAnswered` |
| `gpio` | 1 bank, 2 interrupts and an output, every transfer may fail, loss of power | 581,640 | `EnabledIsConfigured`, `ControllerAsAsked` |
| `gpio_banks` | 2 banks | violation | `ControllerAsAsked` fails |
| `small_drivers` | five systems, see below, fairness | 44,825 | `HookUsesLiveObjects`, `HandlesAgree`, `CallsReturn` (MouHook), `ReadEndsFirst`, `CloseReturns` (MouRead), `WaitCompletedOnce` (SpbInterrupt), `NotedToggleEnds` (SwitchDebounce), `TransfersEnd` (Fx2Board) |

### Bounds

* **Connections: 1.** Connections share only the list, of which the model needs
  whether an entry is in it, and the loop of the removal, which takes one entry
  after the other. The set is a parameter of the module.
* **Readers of a connection: 1.** The code has 2, and the number is a parameter. A
  second one adds its own callbacks, which call the same `RemoteDisconnect` as the
  peer, the removal and the first reader, which already meet in the run; that cancels of one
  reader may overlap is `repeat_reader`'s question.
* **Repeat reader: 1 reader, 3 threads.** Readers share nothing, and every step is one of one
  reader. Up to three cancels of it overlap.
* **Files: 1.** Two files share no state at all; transfers of one file share its
  connection, so there are 2.
* **Writes: 2.** Writes share nothing; the two differ in what may happen to them.
* **Reads and packets: 3 and 3.** The lock's sections of two IOCTLs and the pump
  overlap with one request and one packet left over.
* **Pump: `MaxAclPayload` 5, `MaxParams` 7.** Payloads of 0 to 3 bytes are read
  whole, split and together with the next packet. A length above
  `MaxAclPayload`, and one with a high byte, come from noise. `ReadBufferSize` is 10
  bytes, enough for two short packets in one read. No stream ends with an empty ACL packet: the
  code delivers that one only with the first byte after it.
* **Bus: 2 peripherals, `MaxTransfers` 2.** One target can be locked while the other waits, and
  a delay may come before, between and not at all. At most one cancel callback of a peripheral is
  late. The theorems hold for any numbers.
* **GPIO: 3 pins.** Two interrupts, so that a read-modify-write of one may disturb the
  other, and an output. The banks share nothing but what `gpio_banks` shows.
* **Small drivers.** 2 mice (one may be hooked and the other not yet), 2 callers,
  `MaxEnables` 2 and `MaxEvents` 2 (a handle that a notification has made invalid
  meets a second enable); 2 waits (a second one while the slot is taken); 2 switches
  (the first to change is always the same, they are alike), 2 changes and the message on power-up, so that
  the 2 readers of the pipe hold two messages while the timer's callback runs, and 1 read; 2
  readers of interrupt messages and 2 requests.

Deadlock is checked in no run: every system may come to an end (all readers uninitialised, all
files closed, all packets delivered, the device removed, the driver unloaded), or stops where the
code uses what it has cleared. The liveness properties say what must have happened by then.

### Fairness

Weak fairness of each thread's own steps: a thread, DPC, timer or completion routine
that can run does, and no code of the drivers waits in a loop. Weak fairness
of the stack and the UART where their contract says that a request completes:
opening and closing of a channel, reads of a dropped channel, cancelled
requests, writes, transfers on a started pipe. No fairness of peers, users, packets or removals: nobody need
connect, send, cancel, unlock or close. Beyond that:

* the pump has strong fairness of `ReadReturns`: a UART that has bytes returns
  some of them eventually, however often it times out before;
* `SpbStack` has strong fairness of handing a request over: SpbCx serves its queue in
  order, so a request that can be handed over again and again is;
* `MouHook` has strong fairness of callers and notification: an ERESOURCE is
  handed to its waiters in order;
* `MouRead` assumes that the mouse is moved again and again, and that a device that was stopped
  is started again: the close waits for the next report (`mouhid.c:545`) and cancels the read only afterwards.
  That a close stays while the mouse rests is not excluded by `CloseReturns`.

`SwitchDebounce` assumes only that readers and timer run: neither that the HID class sends reads
nor that the power comes back.

## 4. Disagreements between code and documentation

Shown by runs:

1. **An entry is unlinked twice** (`server_unlink_twice`). The removal pops a
   connection that is still opening; its opening is refused and the
   completion routine unlinks it again (`server.c:1433`, `:879`). The
   comment at `server.c:1411-1416` gives reasons why this would be safe.
2. **A packet overtakes another** (`hci_read_overtakes`), case C3 of `io.c:1236`,
   and the IOCTL then completes its request a second time.
3. **The second bank's registers are never reached** (`gpio_banks`). `spb_i2c.c` adds the
   bank's base to the address (301, 429) and transfers with the address it started
   from; the parameter is documented as bank-relative (280, 408). In the run both banks come up
   with an interrupt enabled, as a firmware may leave them; the start clears the first bank's,
   looks at the first bank's register again for the second, and has succeeded with the second
   bank's interrupt enabled.

### Stated, and false of the code

These formulas are in the modules, each translated from a comment or an assertion, and TLC refutes
each under its module's specification. No run keeps them:

* `BthServer.DisposedAfterDisconnect`: the state becomes Disconnecting under the
  lock and the event is cleared after it (`connection.c:1072-1079`), although
  `connection.h:145-147` says they agree; a cleanup in between does not wait.
* `BthClient.NoDisconnectWhileCreating`: a peer may disconnect while the create runs, against
  the comment at `client.c:693-697`. The state ends as Connected with the
  event cleared, and nothing disconnects until the file is closed.
* `SpbTestTool.OnlyCancelledAreCancelled` (and of `SpbStack`): a cancel callback that runs after
  its request was completed cancels the SPB request, sent for the next one by
  now (`peripheral.cpp:1585`, against the comment at 1658-1673).
* `I2cController.NeverAnotherDelay`: `WdfTimerStop` in the cancel callback does not wait
  (`device.cpp:1150`), so a delay timer's callback may be on its way when the next
  request starts its own; it starts that one's transfer before its delay is
  over (comment at 1953-1957).
* `SwitchDebounce.ReportNamesSwitch`: the timer's callback reads the latest switch twice
  (`usb.c:760`, `:468`), and a switch that changes in between reaches the assertion
  at 493-497.
* `MouHook.NoInputDropped`: an input that comes between the exchange of the pointer and the
  store of what was there (`mouhid_hook_manager.cpp:803`) finds no original callback
  (995) and is dropped.

### Found while reading

bthecho:

* A first submission that fails to format runs the failure callback with the
  stop event still signalled (`connection.c:415-426`, comment at 476-479).
* The cleanup callback passes readers that are not submitted yet ("It is OK to
  wait on unsubmitted readers", `connection.c:747`); the opening thread may
  submit them afterwards. `BthServer` contains it (`UseOfClearedRequest`). If the framework ran the
  cleanup in the callback of a reader that failed, it would wait for an event that only
  this thread sets.
* A disconnect that could not be sent leaves the event cleared for good (`connection.c:1093`).
* The request that opened a connection is sent again for the disconnect without
  `WdfRequestReuse`, which `clisrv.c` says its caller must do (`clisrv.c:260-262`).

serialhcibus:

* A write that is refused by the UART and cancelled at the same moment is
  completed by both sides (`Fdo.c:1705`, `:2138`). `hci_write` keeps `Refused` and
  `Cancelled` apart and the theorems assume it.
* A UART request whose memory or format fails is leaked until the device goes
  (`Fdo.c:1645-1669`).
* A read whose buffer is too small is completed with an error, and the error is
  returned to the IOCTL, which completes its request again (`io.c:1311-1328`).
* A completion on another CPU between `WdfRequestSend` and the sender's
  compare-exchange (`io.c:865`, `:1128`) overlaps the reassembly with the reuse of
  its buffer.

SpbTestTool:

* The ISR clears the event it is about to wait for (`device.cpp:827`): a Signal just before is
  lost, and the ISR stalls until the next one or the file's cleanup. `SpbInterrupt` contains it.
* D0 exit deletes the SPB request and the controller target (`device.cpp:392`) while handlers
  of queues that are not power managed may use them.

Others:

* hidusbfx2: a switch that was turned on may go unreported although a read waits: the board's
  message on power-up, taken by a reader before `IsPowerUpSwitchState` is set (`usb.c:590-592`),
  or a message of the other reader, stores no switch over it (364) before the timer's callback
  looks. Two readers may also store `CurrentSwitchState` out of order (362), which then stays
  behind the board until the next message. The comment at 275 asks for protection.
* mohid: `IRP_MN_STOP_DEVICE` frees the report, its MDL and the usage lists with the file open and
  the read IRP at the HID class (`mouhid.c:1070-1073`), as a surprise removal does. `MouRead`
  contains it, and `ReadEndsFirst` makes no promise about the buffers.
* mohid: the removal of a device whose file was never opened waits for an event
  that nobody sets (`mouhid.c:1109`); a stop flag that is set as the cycle ends by itself
  is found by the next open. The mouse class opens every mouse once, which `MouRead` assumes.
* umdf2_fx2: a reader of the interrupt pipe stores the switches in the device context and then
  answers the waiting requests from there (`interrupt.c:144`, `ioctl.c:1028`), without a lock: with two
  readers a request may be answered with the other's message. `Fx2Board` has no message contents.
* MouHidInputHook: between the notification's release of the manager's lock and its callback,
  a disable fails with an invalid handle (documented as a WARNING at
  `mouhid_hook_manager.cpp:512-521`), and an unload deletes the resource that the callback
  then acquires (`AcquireDeleted`). `MclDriverEntry` registers the notification
  before its list and resource are initialised.
* hclient: after a synchronous read `DisplayEvent` stays signalled
  (`hclient.c:2305`), so the next read thread does not wait for the display. The dialog waits
  for the read thread without a limit (2395-2402) while the thread may be
  waiting for the display (3803), which only the dialog's message loop can signal: the two wait for
  each other.

## 5. Proofs

TLAPS proves forty-one theorems. Twenty-six state a property that a run checks on a small
instance, among them a refinement; eight more say that variables keep their types; two more are
refinements, one carries results over such a refinement, three state what no run does of the
pump, and one is about a part of a system whose property fails as a whole (`FirstBankServes`). Unless a condition is named, each
holds for every value of the constants: any sets of connections, files, readers, threads,
writes, reads, targets and mice, any bounds, every fault.

Every proof has the same shape. An invariant `IInv` (or one per driver) is true at first, every
step keeps it, and it implies the property; one temporal step joins the three. Where the
components of a system work on objects of their own, the invariant speaks of one object
(`Own(c)`), a step is shown to keep that of its own object, and a lemma says that a step on one
object leaves the others as they are.

* **`RepeatReaderProofs`**: `TypeCorrect`, `CancelNeverLost` (`NoLostCancel`) and
  `SignalledMeansQuiet` (`StopEventMeansQuiet`). `NoLostCancel` speaks of a sent request and is
  not inductive: the race is decided earlier. The invariant extends it to every place after the
  check of `Stopping` (`CancelReachesCommitted`), which needs that the request is ready from the
  reuse on, so that the cancel marks it (`RequestFollowsCode`). Likewise `EventFollowsCode`
  follows the event through the first submission. No assumptions on constants.
* **`BthServerProofs`**: `TypeCorrect`, `DisconnectIsSentOnce` (`DisconnectSentOnce`),
  `ListIsLive` (`ListHoldsLiveObjects`), `DisconnectEventIsSet` (`DisconnectEventHasSetter`),
  and three about the modules it meets. The invariant of a connection has seven parts. `Opening`
  and `Answered`: until the response is sent nobody else works on the connection, and its state
  follows the opening. `Commits`: of all the threads that run `RemoteDisconnect` one at most is
  between the check of the state and the sending, and the disconnect has not been sent then.
  `Closes` ties the number of disconnects to the place of their completion. With these two,
  `DisconnectSentOnce` follows. `Pursued`: a connection that is disconnecting has somebody who
  sends the disconnect or completes it, or the stack has refused it. `Cleared` gives the reasons
  for which the disconnect event may be clear; with `Pursued` each of them has a setter.
  `Listed`: who deletes an object has unlinked it, and after the removal nothing is linked. That
  the list is popped and unlinked twice does not contradict it: the second unlinking is the
  finding `UnlinkedOnce`. `ServerKeepsChannelLife` (`KeepsChannelLife`) shows step by step that
  the server implements `ChannelLife`: each action is named together with the abstract step that
  it is, all others leave phase and request for the end alone. `ServerRunsRepeatReaders` shows
  the same for `RepeatReader`, the wait of the cleanup callback and its clearing of request and
  `Stopping` included, so that `ServerReadersStop` gets `NoLostCancel` and
  `StopEventMeansQuiet` for the readers of every connection from `RepeatReaderProofs` without
  proving them again.
* **`BthClientProofs`**: `TypeCorrect`, `DisconnectIsSentOnce` (`DisconnectSentOnce`) and
  `CloseWaitsForTheEnd` (`CloseIsSynchronous`). The completion of the open writes the state
  without looking at it, so the argument of the server does not carry over. `Creating` and
  `Handled` say what each thread may be doing while the file is created, open and closing: a
  disconnect that comes before the open is completed has changed the state, but nobody has
  committed to sending it. `Alone` is the case in which the peer is silent: the close clears the
  event before it sends, and only the completion of its own disconnect sets it.
* **`HciIoProofs`**, writes: `WriteTypeCorrect`, `CompletedAtMostOnce`, `NothingUsedAfterRelease`,
  `NothingLeftBehind`, all under `RefusedNotCancelled` (the defect named above). `AllReleased`
  excepts a UART request that was never formatted, which the code leaks (also above). The
  invariant puts each write in one of five phases (fresh, failing, open, owned by the cancel
  callback, owned by the completion routine), each of which says who completes the request and
  what each thread still holds; every step stays in its phase or moves to the next.
* **`HciIoProofs`**, reads: `TypeCorrect`, `NoPairStranded` (`NoStrandedPair`), `WaitingInOrder`
  (`ListInOrder`) and `EveryPacketAccounted` (`PacketsAccounted`), from the named assumptions
  that requests are finitely many and the pump is none of them. The invariant adds that a thread
  about to deliver holds a match. The first argument counts: every step that leaves a packet on
  the list beside reads either adds an IOCTL between its sections or removes a read with it. The
  second (`PlaceInv`) is `PacketsAccounted` with sets in place of their sizes: the list, the
  hands of the threads, the packets delivered and those lost are disjoint and make up what has
  arrived; two threads never hold the same packet. The cardinality facts, and what `Tail` and
  `Append` do to the elements of a sequence, are lemmas.
* **`HciPumpProofs`**: `TypeCorrect` (`TypeOK`), `NoByteIsLost` (`NoByteLost`), `DeliversInOrder`,
  `StaysInSync` and `CopiesFit`, for streams of any number of packets of any contents, in reads
  of any lengths, with time-outs, failures and refused reads. Assumptions: `SizesAssumption` (a
  byte is at most 255, and the longest event fits `Raw`, 257 against 1025 bytes in the code) and
  `StreamsAssumption`. Of the packet in progress the code keeps the segment, the bytes of it
  that were read, and how many it lacks, which is the length of the next read. `DataTypes`
  relates them: past the type byte what is lacking is not zero, and no more was read than the
  header or, by its length, the payload has. That is `TypeOK` and, with the check of the length
  at the head of the payload's case, `CopiesFit`; neither asks anything of the controller. `InStep` says how far a clean
  stream has come: with `k` packets delivered, these are the first `k`, what `Raw` holds of the
  next is the beginning of its bytes, its type is its type, and the buffer with the wire is the
  rest of the stream. Each step
  of the reassembly then either stays in packet `k + 1` or ends exactly at its last byte. It
  follows that the type and the length that the reassembly looks at are those of a packet
  (`StaysInSync`), and the invariant is `NoByteLost` with positions in place of concatenations.
  The facts about the concatenation of a sequence of packets (`FlattenSeq`) are proved by
  induction over their number, in the form of the least number that has not the fact
  (`LeastNumber`, `Counting`).
* **`SpbStackProofs`**, first part: `TypeCorrect`, `CancelFindsItsRequest`
  (`CancelFindsRequest`) and `BusFollows` (`BusFollowsLock`) of `I2cController`, whatever
  SpbCx's clients ask for (they use no assumption of `SpbStack`). That a cancel finds its
  request needs that one request at a time is with the driver, that the current one is the
  target's, and that a request whose cancel callback is on its way is not ended by anyone else:
  a request that cannot be unmarked stays current. Second part: `ImplementsController` (every
  step of the bus with its drivers is a step of the controller's specification or leaves it
  alone), so the controller's theorems hold with SpbTestTool as the client (`CancelFindsOnBus`);
  and `FlagMatches` (`SequenceFlagMatches`), for which the invariant relates the flag to the
  operation at every step from format to answer.
* **`SimGpioProofs`**: `TypeCorrect` for any number of banks, however they are used;
  `OnlyConfiguredAreEnabled` (`EnabledIsConfigured`), `ControllerFollowsCalls`
  (`ControllerAsAsked`) and `FirstBankServes`, also for any number of banks, the shipped
  controller's two among them, as long as no call for the pins of another bank than the first is
  made (`FirstBankOnly`; the start, the stop and the queries of the other banks go on). Without
  that condition the properties are false (finding 3). `ControllerFollowsCalls` asks besides that
  the other banks' registers are blank at first (`OthersBlank`), for nothing the driver does
  reaches them: what the firmware left there stays. `FirstBankServes` says the same of the first
  bank alone, and without the second condition. All three follow from one invariant. A call is a
  program of transfers, and the invariant says what holds between two of them: what
  was read and not yet written back is what the register still holds (`ReadIsFresh`), what the
  call has written so far (`WrittenSoFar`), and how the registers agree with what the calls
  asked while the controller is on, off, saving, and saved (`WhileOn`, `WhileOff`, `Saving`,
  `WhileSaved`). The last says why the order of the restore matters: after a loss of power
  nothing is enabled before the rest is restored. With several banks the stop saves the first
  bank's registers once for each, so the saved copies are alike (`KeptAlike`), and the start
  restores the same values as often.
* **`SmallDriversProofs`**, MouHook: `TypeCorrect`, `HookFindsLiveObjects`
  (`HookUsesLiveObjects`) and `PartiesAgree` (`HandlesAgree`). The invariant has three layers,
  each proved with those below it. `Control`: each thread is at one of its own steps, and a lock
  is held exactly by the thread whose step is in its section; hence two threads are never in one
  section (`Exclusion`). `Handles`: who knows the manager's entry. An entry is the monitor's
  handle or that of an enable under way (`EntryIsKnown`), and the handle outlives its entry only
  until the notification has told the monitor (`Notifies`); the unload is alone. `Nesting`: what
  lives as long as what, in the order in which it is installed and taken away: a hook in some
  mouse's path, or an input in it, needs the hook context, that needs the entry, and the entry
  names a context that is allocated. `HookUsesLiveObjects` follows from the last two, and
  neither is inductive without `Control`: it is the lock that keeps a second registration out.
  Assumptions: the bounds are natural numbers, and the callers are none of the driver's own
  threads.
* **`SmallDriversProofs`**, the others: `MouseReadEnds` (`ReadEndsFirst`) of mohid needs that
  the event is signalled only when the IRP is free, and where the stop flag comes from while the
  device is plugged in (`CycleWhilePlugged`): only from a close that waits for the end of the
  cycle. Stopping and starting the device change neither. `WaitIsCompletedOnce` (`WaitCompletedOnce`) of SpbTestTool's interrupt holds for any
  number of waits: slot and ISR hold one request at most, and who may still complete a request,
  the cancel callback or the ISR that has unmarked it, excludes the other (`MayBeCompleted`).

What stays with TLC:

* all liveness properties and everything about fairness (`CancelledReaderStops`,
  `DeletedIsDisposed`, `RemovalClosesChannels`, `CloseReturns`, `ConnectionIsDisposed`,
  `TransfersEnd`, `EveryWriteCompletes`, `PairsMeet`, `PumpGoesOn`, `StreamIsDelivered`,
  `RequestsAnswered`, `CallsReturn`, `NotedToggleEnds`);
* `SwitchDebounce` and `Fx2Board`, whose properties are liveness properties;
* the violations of section 4.

## 6. What is not modelled

* bthecho: registration (PSM, L2CAP server, SDP), the SDP query's parsing, BRB
  contents, MTUs.
* serialhcibus: child devices, reset, idle and power transitions, the baud rate
  set-up, `FdoWriteToDeviceSync`, statistics counters, tracing. The counts
  `EventQueueCount` and `ListCount` are never read and are left out.
* SkeletonI2C: registers, ISR and DPC (the sample leaves to do what would make them
  run), idle power. SpbTestTool: resource parsing, power transitions, full duplex, the command line.
* simgpio_i2c: resources, the level and edge logic of the simulated device, debounce. The number and
  names of the registers are the code's.
* MouHidInputHook: the query IOCTL, the search of MouHid's image and device
  extensions for its connect data, mice that arrive while the hook is installed, and of the
  class's callback list everything but that the unload waits for a notification under way.
* hidusbfx2: descriptors and features; mohid: conversion of reports; umdf2_fx2: IOCTLs that answer at once.
* hclient: a user-mode dialog. Its read dialog is the only part with a second thread; what
  is wrong there is described in section 4. Its library part parses reports for display.
* Virtual HID devices, filters, templates, installers, decompiled binaries: see
  `PROJECT.json` for each; they have no state that two activities share outside a framework
  queue, or no source that says what they do. They are most of the
  repository's lines, and so are copies of one driver in several versions.

## 7. Plan

In order of what the code has at stake:

1. `HciPump`: the overlap of sender and completion as a constant, and D0 exit and
   entry; an abstract specification of the pump (one read at a time).
2. hclient's read dialog: dialog, read thread, two events.
3. `VirtualHid` (vhidmini2): timer and queued reads.
4. Power transitions in `SpbTestTool`.

Proofs: with the overlap of sender and completion in `HciPump`, which of the theorems remain;
the refinement of the pump's abstract specification; type invariants of `SwitchDebounce` and
`Fx2Board`.

Runs answer one question each and are few enough to be run on every change; a small driver
goes into `small_drivers` instead of having a run of its own.
