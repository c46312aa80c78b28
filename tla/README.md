# A TLA+ model of the kernel

This directory models the kernel and its USB stack in TLA+, model-checks the
models on small instances with TLC, and proves the most important results for all
values of the constants with TLAPS. `PROJECT.json` is the index: which definition
stands for which lines of `src/`, what each run checks, which bugs each property
would catch (`mutants`), and what is hard to test in this code (`hazards`).

## 1. The system

The kernel is one thread plus one interrupt handler. `kernel_main` (`kernel/main.cpp`)
sets up segments, paging, memory, graphics and the USB host controller, then loops
forever: paint a counter, move a test layer, and take a message from `main_queue`.
The only message says that the xHCI event ring has something to read; the loop then
calls `ProcessEvents` until the ring is empty. Everything the USB stack does, and
everything the mouse does to the screen, happens inside that call. The real
concurrency is with hardware: the host controller reads and writes the rings and the
device contexts in memory, ports change state when somebody plugs in a device, and
the interrupt arrives between any two instructions unless `cli` was executed.

| Component | State it keeps | Operations | Interacts with | What makes it correct |
|---|---|---|---|---|
| xHCI port configuration (`usb/xhci/xhci.cpp`, `port.cpp`, `devmgr.cpp`) | phase of every port, `addressing_port`, the device table, the DCBAA | boot loop over the ports, `ResetPort`, one `OnEvent` handler per kind of event | port registers, command ring, event ring, device initialization | one port at a time between reset and address; completions are attributed to the right port; every device gets its turn |
| USB device initialization and class drivers (`usb/device.cpp`, `usb/xhci/device.cpp`, `usb/classdriver/`) | initialization phase of the device and of its HID driver, class driver per endpoint, `setup_stage_map_`, report buffers | control transfers and their completions, descriptor parsing, interrupt transfers, reports | EP0 and interrupt rings, `Controller::ConfigureEndpoints` | every completion finds its request; the right interface gets its endpoints; one interrupt transfer per report buffer, and always one |
| Producer rings (`usb/xhci/ring.cpp`, class `Ring`) | TRBs, cycle bits, `write_index_`, `cycle_bit_` | `Push`, four stores per TRB, and a Link TRB at the end | the controller's dequeue pointer, doorbells | a FIFO, although nobody asks whether the ring is full |
| Event ring, interrupter, main queue (`ring.cpp`, class `EventRing`; `main.cpp`) | ERDP with its busy bit, expected cycle bit, `main_queue` | posting, interrupt, `front`, `Pop`, the main loop | controller, local APIC, interrupt flag | events handled once and in order; no message lost; no wakeup lost but in one window, section 3 |
| xHCI registers and start (`xhci.cpp`, `registers.hpp`) | run/stop and reset bits, ownership semaphores, DCBAAP, CONFIG, CRCR, the interrupter's registers | `RequestHCOwnership`, `Initialize`, `Run` | firmware, controller, memory pool | a halted controller of the kernel's own is reset; all registers are programmed before it runs, in memory of their own |
| Frame allocator and heap (`memory_manager.cpp`, `sbrk.cpp`) | bitmap, managed range, program break | initialization from the memory map, `allocate`, `free`, `sbrk` | boot loader's memory map, newlib's `malloc` | no frame owned twice, none outside available memory, none lost |
| USB memory pool (`usb/memory.cpp`) | `alloc_ptr` | `AllocMem`, an empty `FreeMem` | rings and device contexts | alignment, boundaries, disjointness |
| Frame buffers (`graphics/frame_buffer.cpp`, `primitives.hpp`) | pixels | clipping, `copy_from`, filling | layers | a copy touches exactly the common points |
| Layers and composition (`graphics/layer*.cpp`, `group_layer.cpp`, `painter.cpp`) | stacks of layers, positions, back buffer | show, move, damage, draw | frame buffers, the main loop | the screen shows the stack |
| Mouse pointer and dragging (`main.cpp`) | pointer position, dragged layer, last button state | `mouse_observer` | layers | the window stays under the pointer |
| Console (`graphics/console.cpp`) | cells, cursor, damage | `put_string` with newlines and scrolling | painter, layers | the last lines of the text are shown |
| PCI (`pci.cpp`) | device array | `scan_all_bus`, finding the xHC, MSI capability | configuration space | every reachable function is found, if the host bridge is a single function and there is room; only the MSI registers are written |
| Boot loader (`MikanLoaderPkg/`) | memory map and its key, ELF segments | `UefiMain`, `LoadKernel`, `ExitBootServices` (no retry: with a stale key the loader halts) | firmware, frame allocator | the whole image in pages of its own; the map handed over is the current one |
| Keyboard driver (`usb/classdriver/keyboard.cpp`) | this report and the one before | `OnDataReceived` | the HID driver's buffers | a key is notified once when a report has it and no byte of the report before has its code; that includes the byte of the modifiers, so pressing A with left Alt held is missed |
| Interrupt, segment, paging and timer set-up, logging, windows and fonts, build tools | – | – | – | not modelled, see section 7 |

The behaviours that are hard here, and that tests on an emulator hardly reach:

- **Hot plugging in the middle of the port protocol.** Reset, slot and address
  commands of different ports share one command ring, and their completions carry no
  port. A device can be pulled out while the driver spins in `Port::Reset`.
- **Memory shared with the controller without locks.** A TRB is written with four
  plain stores, ERDP with a read and a write, `main_queue` is protected by `cli` only; the
  controller writes reports into a buffer that the class driver reads and copies.
- **Hardware and firmware that answer in their own time.** A controller that halts, resets
  and becomes ready late, a firmware that lets go of it late or allocates memory while the
  loader is about to leave it behind.
- **Wrap-around.** Both kinds of ring flip a cycle bit at the end of a lap; the
  console scrolls; the counter that moves a layer overflows.
- **Partial redraws.** The layer managers redraw only the layers in front of a cover
  and only the damaged rectangle. An error accumulates silently.
- **Limits.** Eight device slots, 16 requests in `setup_stage_map_`, 256 bytes of descriptors, 32 PCI devices, a heap of 32768 frames, a pool of
  memory that is never given back, rings that are never checked for room.

## 2. The modules

| Module | Models | Composes or uses |
|---|---|---|
| `PortConfig` | port configuration, device table, device and HID initialization, together with ports and controller | rings as FIFO queues, justified by the next three |
| `Fifo` | abstract: a queue that loses, duplicates and reorders nothing | – |
| `ProducerRing` | class `Ring` against a consuming controller | implements `Fifo` |
| `EventLoop` | class `EventRing`, interrupter, interrupt handler, main queue, main loop | implements `Fifo` |
| `MemoryMap` | frames and UEFI memory maps | – |
| `FrameAllocator` | bitmap manager and heap | `MemoryMap` |
| `Loader` | boot loader on a firmware that goes on allocating | `MemoryMap` |
| `Boot` | the hand-over of the memory map from the loader to the kernel | composes `Loader` and `FrameAllocator` |
| `UsbPool` | `AllocMem` | – |
| `ControllerStart` | `Initialize` and `Run` against controller and firmware | composes with `UsbPool` |
| `ArrayMap` | class `ArrayMap` | – |
| `Transfers` | control and interrupt transfers of one device, with the controller | `ArrayMap`; rings as FIFO queues |
| `HidDevice` | device initialization, descriptors, endpoints, class drivers, reports | `Transfers` |
| `Pixels` | rectangles and images | – |
| `Compositor` | layers, managers, painter, main loop's drawing, mouse | `Pixels` |
| `Console` | `Console` and `FastConsole`, side by side | `Pixels` |
| `PciScan` | enumeration and choice of the xHC | – |
| `PciFunction` | MSI and base address of the xHC found | continues `PciScan` |
| `PortConfigProofs`, `ProducerRingProofs`, `EventLoopProofs` | theorems | the module they are named after |
| `HidDeviceProofs` | theorems about the device, its transfers and its reports | `HidDevice` |
| `GraphicsProofs` | theorems about clipping, layers, dragging and the consoles | `Compositor`, `Console` |
| `PciProofs` | theorems about the enumeration and the xHC | `PciFunction` |
| `ControllerStartProofs` | theorems about the start of the controller and about the pool | `ControllerStart`, `UsbPool` |
| `BootProofs` | theorems about the frame allocator, the loader and the hand-over | `Boot` |
| `MC...` | instances for TLC: the small constants that a `.cfg` cannot write | the module they are named after |

### PortConfig

State: the port registers that matter (connected, enabled, the connect and reset
change bits, reset in progress) as sets of ports; the command ring, the event ring
and the transfer rings as sequences; `port_config_phase`, `addressing_port`,
`devices`, `dcbaa` with the names of the code; and the driver's program counter,
which stands for the two places where the driver waits: the main loop, and the busy
wait in `Port::Reset`. `continuation` is what the caller of `ResetPort` still has to
do when that wait is over (the boot loop's next port, the pop of the event, or the
initialization of the device that was just addressed).

Actions: `BootConfigurePort` and `EnterMainLoop` are the boot loop; `ResetPort`
is the function with its two early returns and its spin; each handler of
`ProcessEvent` is one or more actions, split by the phase the handler switches on
(`PortStatusChangeNotConnected`, `...Resetting`, `...InvalidPhase`, `SlotEnabled`,
`DeviceAddressed`, `EndpointsConfigured`, and for transfer events `TransferFailed`,
`InterruptCompleted`, `HidControlCompleted`, `InitializationStep`). A handler that
does not wait is one step, with everything it calls. `Plug`, `Unplug`, `HcResetDone`
and the `Hc...` actions are the hardware, external to the code: what the xHCI
specification lets it do and the driver relies on. A port raises an event only when
the first of its change bits is set, so a change can be silent; the model keeps this
because the driver's clearing of the bits races with it.

A device is reduced to what its descriptors lead the driver to: the number of
endpoint numbers that the first supported interface occupies, 0 if there is none.
It decides how often the HID driver is told that endpoints are configured, hence how
often SetProtocol is issued. `HidDevice` has the descriptors themselves, for one device.

### ProducerRing and EventLoop

`ProducerRing` writes a TRB in two steps, the first three words and then the word
with the cycle bit, since the controller can only tell these apart. `Push` has no check for
room; `Window` is the number of TRBs the callers leave unconsumed, and the model
assumes only that it is at most two less than the size of the ring.
`EventLoop` has `cli`, `front` and `pop` as separate steps with the interrupt
possible between any two of them when interrupts are enabled, and the read and the
write of ERDP as separate steps too, with the write-1-to-clear busy bit. The interrupter
may fire at any step, also between that read and that write.
Both map their state to `Fifo` and are checked to implement it, the liveness of
`Fifo` included.

### Loader, FrameAllocator and Boot

`Loader` has one step per call of `UefiMain` and `LoadKernel`. A call that only fetches or
stores something is its two ways out (`Following`, `LoadFollowing`); the calls that change the
memory map or the memory are actions of their own: `AllocatePool`, `AllocatePages` at the
kernel's fixed address, one program header per `CopyLoadSegment`, `FreePool`, the second
`GetMemoryMap` and `ExitBootServices`, which succeeds only if its key is current.
`FirmwareEvent` allocates between any two of them. A byte of memory holds an offset in
`kernel.elf`, zero, or whatever was there.
`FrameAllocator` processes one descriptor of the memory map per step, then scans bit
by bit as `allocate` does, with its jump behind an allocated frame; `Free` and
`Sbrk` are one step each. If the heap cannot be allocated the kernel panics. Memory
maps are sorted and end within the bitmap (`IsMemoryMap`): the firmware sorts them in
practice, and the code neither sorts nor checks.
`Boot` runs the one after the other: `HandOver` is the call of the entry point with the map.

### UsbPool and ControllerStart

`UsbPool` has one action per outcome of `AllocMem`; a failing call has already moved
`alloc_ptr`, which the model keeps. `Ceil` is arithmetic in the model and bit
operations in the code: an assumption in `MCControllerStart` compares the two.
`ControllerStart` goes through `DeviceManager::Initialize`, `RequestHCOwnership`,
`Controller::Initialize` and `Run` in program order, each busy wait a step that is enabled when
its loop ends, against a controller (`HcHalt`, `HcReset`, `HcReady`, `HcStart`) and a firmware
(`BiosRelease`) that answer at any later moment. Writes to registers during a reset or
before the controller is ready are lost. A null pointer is 0; the scratchpad's allocations are
not checked by the code, nor by the model, so a controller may be started with a null array or null
buffers in it: `ProgrammedBeforeRun` says that this happens only when the pool has no room
for them (`Spent`). Each pointer register keeps the bits that its field has: `Masked` drops
those below 64 bytes for CRCR and ERSTBA and below 16 for ERDP; `MaskedDcbaap` also those from bit 32 on, because
`DCBAAP_Bitmap` declares a field of 26 bits. That this loses nothing depends on where the pool is, and `LinkAssumption`
states it: the pool, a static array of the kernel's image, ends below `DcbaapLimit` (4 GiB in
the code), since `linker.ld` puts the image at 1 MiB. Afterwards `AllocMore` takes further regions.

### Transfers and HidDevice

`Transfers` writes the Setup, Data and Status TRBs of a request to the ring of endpoint 0 and
enters the TRB that raises the event into `setup_stage_map_`, with the behaviour of `ArrayMap`:
a full array drops the pair. The controller executes TRB by TRB, any of which may fail.
`HidDevice` follows a device from `StartInitialize` through `InitializePhase1` to `3`,
`ConfigureEndpoints`, `CompleteConfiguration` and the class driver's phases to its reports.
A descriptor is a record with the byte where it begins (`offset`) and the length that it claims
(`length`, by which the reader goes on), and the buffer the sequence of those that begin in it. What arrives
ends with the answer of the device or with the buffer (`BufferSize`, 256 bytes in the code), wherever in a
descriptor that is, and `Arrived` is what there is of a descriptor. The reader asks only whether a
descriptor begins in the buffer, and `DescriptorDynamicCast` only for its type: so `SearchBeyond` and
`ReadsBeyond` say when the code looks at bytes of a descriptor that have not arrived, goes on at one of length 0
for ever, or runs out of descriptors or of `ep_configs_`. In these cases, and when a transfer is sent to
a ring that does not exist, the outcome is left open and the driver's `pc` is `"lost"`; nothing in the code
prevents them. `NeverLost` says for which devices they are excluded: lengths that are right, and either a first supported
interface that is as it should be and in the buffer with its endpoints, whatever is cut off behind them, or no
supported interface and descriptors that all fit. `OnInterruptCompleted` is three steps, `Evaluate`, `Keep` and
`Rearm`, since the controller may write to the buffer as soon as it is asked for a
report. Keyboard and mouse are two ways to evaluate one; `notified` records the calls, one batch
per report. `OnEndpointsConfigured` is one step per class driver entry (`untold` is what is left
of its loop), for the controller may already execute the first SetProtocol while the second is
written. `PolledInTime` compares the interval in the endpoint context with what the descriptor means
at the speed of the device. Between the two stands `EndpointConfig::interval`, of which the comment at
`usb/endpoint.hpp:65` says that it is 125 * 2^(interval-1) microseconds, whatever the speed. The code disagrees
with its comment for full and low speed: `MakeEPConfig` copies the byte of the descriptor, which counts
frames there, and only `convert_interval` (`xhci.cpp:429`) makes an exponent of it. The model follows the code.
A well-formed device has different addresses for its endpoints, as the USB
specification demands; the others are modelled too.

### Compositor and Console

`Compositor` builds the scene of `initialize_graphics`: seven layers under two managers,
one of which lives inside a layer of the other. `ShowLayer` and `SetBufferAndDraw`
are the set-up; `PaintCounter`, `MoveTestLayer`, `PutString`, `mouse_observer`
the operations of the main loop. Every one computes the damage, redraws through the
managers as the code does (`draw_damage_to` starts at the frontmost opaque cover),
and copies the rectangle from back buffer to screen. An image is a function from
points to colours, so overlapping, transparency and clipping are exact while pixel
formats do not appear. The counter has a width (`CounterBits`); where the code's `int`
overflows, which is undefined, the test layer moves to the remainder of either the
wrapped or the unsigned value.
`Console` runs both consoles on the same text, one character per step, at the
granularity of cells. A cell of `FastConsole` is a set of glyphs, because that console
draws without clearing: two glyphs in one cell are illegible. `lines`, the lines of the whole text
so far, is a history variable for the properties.

### PciScan and PciFunction

`PciScan` models the recursion of `scan_bus` and `scan_function` with an explicit
stack of calls, since a bridge may lead back to a bus under way. A configuration space
is a function from addresses to function headers, chosen initially. `PciFunction` goes on with
the xHC that was found: it walks its capability list, programs the MSI registers, and reads
the address of its registers from one or two base address registers.

With a host bridge of several functions `scan_all_bus` starts at function 1 and does not scan bus 0 at
all; `ScanComplete` says nothing about such a machine. When the array is full the scan is given up, and
`kernel_main` only logs the error: an xHC behind a bridge that loops, or beyond the 32nd function, is
missed, and the kernel panics on a machine that has one. `ScanComplete` says that on a well-numbered machine
nothing but want of room ends a scan so; `XhcReady` counts all xHCs that can be reached after a complete scan, and
after any other only those that were registered. The upper address
register of the 64-bit layout is read and written back: the message goes where it says together with the
lower one, and `MsiProgrammed` says that it is as the firmware left it. The code writes the header with the enable
bit before address and data; here this is one step, since nothing in the model sends a message.

## 3. The runs

A passing run reports no error; a violation run shows where the code does not do what
the repository says of it. Deadlock is checked except where a system may really stop.

| Run | Instance | Shows |
|---|---|---|
| `hotplug` | 3 ports, 2 slots, devices with two endpoint numbers, 3 plugs, 1 unplug, 1 report | `AddressingExclusion`, `DefaultAddressUnique`, `CompletionMatchesPhase`, `OneDevicePerPort`, `PhasesInOrder`, `TypeOK`: turns, completions and devices are never mixed up |
| `progress` | 3 ports, 3 slots, 3 plugs, no unplug, fair | `DevicesGetToWork`: every device that stays is noticed and gets to work |
| `waiter` | 3 ports, 3 slots, 3 plugs, 1 unplug, fair | `IdleWaiterServed` is violated, see section 4 |
| `slots` | 2 ports, 1 slot, 2 plugs | `ScratchpadKept` is violated, see section 4 |
| `producer_ring` | 4 slots and the Link TRB, window of 3, 14 TRBs | `UnconsumedIntact` and the refinement `ImplementsFifo` |
| `event_loop` | ring of 3, 7 events, fair, the interrupter fires at any step | `MessagesKept`; `NoLostWakeup`: a wakeup is lost in one window only; `EventsInOrder`, the safety part of the refinement of `Fifo`, and `EventsHandled`, its liveness unless the flag set in that window stays for ever |
| `boot` | 7 frames of 2 bytes, of which up to two are reserved or holes, 4 kernels, a failure of any call, one allocation of the firmware; a heap of 2 frames, requests of 1 and 2 frames, `sbrk` by -2, 1, 3 | `ImageLoaded`, `HandedMapCurrent`, `KernelKept`: the kernel is entered whole and with the current map, and its frames are never handed out; `BlocksSound`, `FramesAccounted`, `HeapOwned`, `FirstFit`, `TypeOK` on the maps so handed over |
| `controller_start` | 9 controllers with 0 to 60 scratchpad buffers and USBLEGSUP at any place of the list, left by the firmware in any state; a pool of 66 pointers from address 8, 2 slots, 9 regions; fair | `ResetSafely`, `ProgrammedBeforeRun`, `ControllerRuns`; of the pool `ConstraintsKept`, `RegionsDisjoint` |
| `hid_device` | 21 devices, four of them well-formed, the others with no interface for the kernel, wrong counts, lengths or types, or cut off by the buffer or by themselves; control ring of 8, map of 3, buffer of 64 bytes, 3 endpoints, 2 waiters, 4 reports, failures, unplugging; fair | `SetupStageKept`: every completion finds its request; `NeverLost`, `FirstInterfaceServed`, `PolledInTime`: what the descriptors lead to; `ReportsNotified` and `KeepsPolling`: no report lost, doubled or mixed with the next, and always a next one; which keys of a report are new is as the code decides it |
| `compositor` | 3 by 3 points, seven layers of two to nine points, five motions | `ScreenShowsStack`, `DraggedUnderPointer` |
| `console` | 3 rows of 2 characters, texts of up to 5 lines of two glyphs and newline | `ShowsLastLines`, `DamageCovers` |
| `pci` | 3 buses, 2 devices of 2 functions each, an array of 4, every machine of the host bridge, of one function or several, and up to three functions out of six places, and some with four; for the machine with a single xHC three capabilities in nine lists, four layouts, base addresses of 32 and 64 bits | `DevicesSound`, `ScanComplete`, `MsiProgrammed`, and under fairness `XhcReady`: the scan ends, and with the right xHC and its address |

Why the bounds are enough for what the runs ask:

- *PortConfig.* Three ports are one in turn and two waiting, which is what the hand-over
  loop needs to have a choice; two slots and three devices make the controller run
  out of slots. One unplug falls into every phase of every port, and one device more can
  be plugged in again behind it. Two endpoint numbers make the HID driver issue SetProtocol
  twice, one report makes it arm the endpoint again. Devices with no supported interface,
  which stop in the middle of their initialization, are covered by `hid_device` and the proofs.
- *Rings.* The numbers of TRBs and events are more than two laps, so both values of the
  cycle bit are met at every slot, and the window fills the ring as far as the
  assumption allows. Whether a lap is three slots or 32 makes no difference to the code.
- *Boot.* Seven frames hold a kernel of one to three, a heap of two and allocations of one
  and two frames with a hole between. The kernels end within a page, list their lowest segment
  last, have zeroes behind the file, or start at no page. The firmware's one allocation falls
  between any two calls, right before `ExitBootServices` included. All constants of the
  allocator are arbitrary in the proofs.
- *ControllerStart.* The pool has room for two scratchpad buffers and the rings: with three a
  buffer is missing, with 49 the rings, and with 60 the array is null while the rings still fit: both the
  checked and the unchecked failures happen; its end is no multiple of a boundary.
- *HidDevice.* An interface has at most 15 endpoint numbers, hence 15 SetProtocol requests of two
  TRBs, 30 of the 31 that the ring of 32 holds, and 15 of 16 entries of the map. Three numbers,
  a ring of 8 and a map of 3 are as tight: the requests of the initialization have gone round the
  ring before. A buffer of 64 bytes holds the devices with one HID interface and ends in the middle of the
  interface, the endpoint or the type of a descriptor of others. Four reports are a key that goes down, stays, and moves to another place.
- *Compositor.* All relations of two rectangles (apart, overlapping, covering, hanging
  over each edge) occur on nine points: the motions lead the window over every edge of
  the screen. The counter wraps after four rounds.
- *Console.* Five lines on three rows scroll twice, with newlines in all positions of a line,
  right after a full line included.
- *PCI.* Four functions on three buses allow two bridges in a chain, a bridge back to
  bus 0, to its own bus or to a bus already scanned, and an array that is too small.

### Fairness

- `PortConfig`: weak fairness of the driver and of the controller. The driver is one
  loop that never blocks (`hlt` is commented out) and whose only busy wait is for the
  controller; the controller executes the commands and transfers it was given. Nothing
  obliges a user to plug in or pull out, nor a device to send a report.
- `ProducerRing`: weak fairness of the rest of a `Push` that has begun, followed by the
  doorbell, and of the controller. The driver need not push.
- `EventLoop`: weak fairness of the main loop and of the interrupter, strong fairness
  of the interrupt handler: the loop disables interrupts again and again, and the
  processor takes a pending interrupt in one of the windows in which they are enabled.
- `PciFunction`: weak fairness of the only thread.
- `ControllerStart`: weak fairness of the driver, of each step of the controller and of the
  firmware's release, which the xHCI specification obliges them to.
- `HidDevice`: weak fairness of the driver and of the controller's control transfers. A device
  need not send a report, and unplugging is not forced.
- `Boot` has none: only its safety is checked.

### The interrupter's busy flag

`EventRing::WriteDequeuePointer` reads ERDP and writes it back with a new pointer. The
Event Handler Busy bit is cleared by writing 1. If the interrupter sets the bit between
the read (`ring.cpp:94`) and the write (`ring.cpp:96`), a 0 is written and the bit stays; the message of
that interrupt is in `main_queue`, and the loop drains the ring once more and clears the bit, unless
the ring is already empty by then: in that case no `Pop` follows, the bit remains, and later events raise
no interrupt. The code can lose a wakeup here. Moderation does not prevent it: the register only spaces two
interrupts, by about a millisecond, and a drain in which a port is reset or a window redrawn takes longer, so
the interrupter may fire at any `Pop` of it, the last one included.

The model has this interleaving, and the history variable `late` names it: it is set when the
interrupter sets the bit between the read and the write, and cleared when the bit is cleared. No step depends
on it. `NoLostWakeup` says that with no message left and no drain under way, events in the ring raise an interrupt, with `late` as
the only exception; `EventsHandled` that all events are handled unless `late` stays set for ever.
`EventsInOrder` and `MessagesKept` hold without exception.

## 4. What the violation runs show

- **`waiter`** (`kernel/usb/xhci/xhci.cpp:250`). When a device has got its address the
  handler gives the turn to the first port in `kWaitingAddressed` and leaves the loop,
  whether or not `ResetPort` did anything. If that port's device has been pulled out,
  `ResetPort` returns at once, `addressing_port` stays 0 and no completion will
  come; another device that waits, and is still there, is not reset. The abandoned
  port stays in that phase, so a later hand-over finds it first again. The comment at line 36 of that file says that a port in that phase waits for the
  sequence from reset to address assignment to be run.
- **`slots`** (`kernel/usb/xhci/xhci.cpp:228`). The completion code of a command is not looked at.
  With all slots in use, Enable Slot fails with slot 0; the driver creates a device 0
  and writes its context over entry 0 of the DCBAA, where `Initialize` had put the
  scratchpad buffer array. `devmgr.hpp:28` says that the array can be used as DCBAAP's value.

## 5. What is proved

The proofs are in modules of their own. They hold for all values of the constants that
satisfy the named assumptions of the component's module, which TLC evaluates on every
instance.

### Port configuration (`PortConfigProofs`)

Assumptions: `PortsAssumption` and `SlotsAssumption` (1 to 255 ports and slots, the
ranges of the 8-bit fields), `KindsAssumption` (at most 15 endpoint numbers),
`BoundsAssumption` (bounds are natural numbers; they may be as large as one likes).

- `TypeCorrect`: `Spec => []TypeOK`. The driver indexes its tables with numbers that come
  out of events and device contexts, so this says that none of them is out of range. The
  inductive invariant is `TypeInv == TypeOK /\ CallerOK`: while `ResetPort` runs, the boot
  loop is within its range, and an event under processing is still at the head
  of the ring, or else the pop after it would not be defined.
- `Exclusion`: `Spec => []AddressingExclusion`, from `ExclusionInv == Turns /\ HandOver`.
  The property speaks of the moments between two handlers. Within
  `OnEvent(CommandCompletion)` it is false: the turn goes to the next port before the old
  one has left `kAddressingDevice`. `Turns` says who may be in a phase of the turn at such
  a moment too (the port named by `addressing_port` and the one that was handed over), and
  `HandOver` that the two are different. One lemma per kind of step: those that touch neither
  phases nor turn, the steps to the next phase, `ResetPort`, and the hand-over.

- `CompletionsMatch`, `DevicesUnique`, `DefaultAddressExclusive` and the action property
  `PhasesAdvance`, all from `TurnsInv == TypeInv /\ ExclusionInv /\ TurnInv`. That a completion
  meets its phase cannot be shown alone: completions carry no port, so the proof has to know that
  there is only one of them. `TurnInv` has four parts. `FlightInv`: of all Enable Slot and Address
  Device commands and their completions at most one is under way, and it is the one that the
  phase of the port in turn waits for (a completion under
  processing counts as handled as soon as the turn has gone on). `SlotInv`: the device contexts
  name a port at most once, and not before its Address Device. `DeviceInv`: a port behind the turn
  has its device. `DefaultInv`: only the port in turn is under reset or has a device that is
  enabled and not addressed. Each part has a lemma about the steps that do not touch it, then one
  per action that does; the hand-over in `DeviceAddressed`, which ends one turn and begins another
  in one step, is the longest.

### Rings (`ProducerRingProofs`, `EventLoopProofs`)

Assumptions: `RingAssumption` (three slots at least, or two for the event ring), `WindowAssumption`
(the callers leave no more unconsumed than the ring holds), bounds that are natural numbers.

- `NothingOverwritten`: `Spec => []UnconsumedIntact`, and `RefinesFifo`: `Spec => F!Spec`, where
  `F!Spec` is the safety specification of `Fifo`. The invariant `RingInv` says where things are:
  driver and controller are in one lap or the driver is one ahead (`LapInv`), the cycle bits tell
  the slots written in the driver's lap from the others (`CycleInv`), and the TRB that is `j` behind
  the controller's is in the slot `j` behind the dequeue pointer, across the Link TRB
  (`ContentInv`). The cycle bit alone tells the controller whether a slot is its own, so none of
  the three is inductive without the others.
- `NoMessageLost`, `WakeupKept`, `EventsFifo`: `MessagesKept`, `NoLostWakeup`, `EventsInOrder`.
  `QueueInv` adds that interrupts are off from `empty` to `pop`; `RingInv` is like the above, with
  the complication that `Pop` turns its cycle bit before it writes the pointer (`LapBit`);
  `WakeInv` says that a busy interrupter has somebody on the way to it, the interrupt, the
  message or the loop itself, unless its flag was set between the read and the write (`late`).

### Start of the controller and memory pool (`ControllerStartProofs`)

Assumptions: those of `UsbPool` (alignments and boundaries are 0 or powers of two) and of
`ControllerStart` (a capability list that ends, requests among those of the pool, and `LinkAssumption`: the
pool ends below what the DCBAAP register can hold).

- `PoolConstraints`, `PoolDisjoint`: `ConstraintsKept` and `RegionsDisjoint`, from `PoolInv`,
  which bounds all regions by `alloc_ptr`. The arithmetic is in lemmas about `Ceil` and `Placed`;
  the one that counts is that moving a region up to a boundary keeps its alignment, because of two
  powers of two one divides the other.
- `ResetIsSafe`, `ControllerProgrammed`: `ResetSafely` and `ProgrammedBeforeRun`, from `StartInv`.
  `BitsInv` relates the command and status bits to the driver's place, `OwnerInv` carries the
  search for USBLEGSUP (the set of registers looked at leads nowhere else), and `RegistersInv`,
  `PointersInv` and `ScratchpadInv` say what has been programmed and allocated up to each place.
  That `MaskedDcbaap` keeps the pointer is `LinkAssumption` and the alignment of the
  region; that a buffer which is null stays out of the pool's reach is that `alloc_ptr` only grows.

### Boot loader and hand-over (`BootProofs`)

Assumptions: `LayoutsAssumption` (any assignment of types to frames, holes included),
`KernelsAssumption` (segments that are loaded do not overlap and fit in memory; the file's headers
come first), `SizeAssumption`.

- `ImageComplete`, `MapCurrent`, `KernelPreserved`: `BootSpec => []ImageLoaded`,
  `[]HandedMapCurrent`, `[]KernelKept`; `BootedAllocator` and `BootedFirstFit`: the allocator's
  properties for the maps that the loader really hands over.
- The invariant `BootInv` consists of `CopyInv` (the segments before `phdr` are in memory, and
  later ones do not overwrite them), `PagesInv` (what was written is in the pages allocated for
  it, and those are not the pool's, which may be given back), `MapKeyInv` (a valid key stands for
  a map that is up to date) and the allocator's `IInv`.
- Two facts need induction over the data, which is done with the least counterexample
  (`LeastNumber`, from the well-foundedness of the natural numbers): that `DescribedBy`, the
  firmware's map, lists every run of frames once and in order (`EveryRank`, `DescribedByMap`), and
  that the addresses of the segments have an upper bound (`KernelBounds`). `DescribedByMap` also
  discharges `MapAssumption`, which the theorems about the allocator alone need.
  `ByteInKernelFrames` is the arithmetic of `num_pages`: no byte of a segment is outside the pages
  that were counted.

### Frame allocator (`BootProofs`)

Assumptions: `SizeAssumption`, and `MapAssumption`: the memory maps are sorted, do not
overlap and end within the bitmap.

`Invariance` proves `IInv == TypeOK /\ MapInv /\ RangeInv /\ ScanInv /\ BlocksSound /\
FramesAccounted /\ HeapOwned`, with one lemma per action. `MapInv` is the invariant of the
loop over the descriptors, relating the marks so far to the available memory below
`available_end`; `ScanInv` that of the two nested loops of `allocate`: the run under
construction is free, and no run that fits starts before it, which is what makes the
jump over the frames already seen right; `RangeInv` says that the managed range covers
all available memory. From it follow `TypeCorrect`, `Soundness`, `Accounting`,
`HeapOwnership`, and the action property `FirstFitAllocation`: when `allocate` returns it has
the lowest free run, or there is none.

### Graphics (`GraphicsProofs`)

Assumptions: `SizesAssumption` (the two backgrounds have the sizes of the screen and of the group, as
`initialize_graphics` makes them), `InputsAssumption`, `CounterAssumption` (a power of two is positive,
which the provers do not compute); `GridAssumption` (the console has a row and a column).

- `ClipExact`: for all integers, `adjust_coords` cuts a copy down to exactly the points
  that both buffers have, keeping the displacement between them. This is the lemma behind
  every redraw: a copy never leaves a buffer and never leaves out a point.
- `DragSafety`: `Spec => []DraggedUnderPointer`, by `DragInv`, which adds the types of
  the two positions. The point of the argument is that window and pointer are moved by the same
  vector (`MovedTogether`), since `mouse_observer` takes the difference of clamped positions.
- `StackShown`: `Spec => []ScreenShowsStack`, from `PictureInv`: while `initialize_graphics` shows the
  layers, the stacks are prefixes of the final ones and the group shows its own
  (`Composing`); from `set_buffer` and `draw` on, the screen and the group both show their
  stacks (`Composed`). What a copy does to one point (`CopyAt`, from `ClipExact`) gives
  what drawing a layer does (`Over`); drawing layers one after the other leaves the frontmost
  visible one (`Layered`, by the least counterexample, since the loop is a recursive function);
  `draw_damage_to` may begin at a layer that covers the rectangle, or do nothing when the damaged
  layer is behind it (`DamageDrawn`); and if only one layer has changed, and only inside of
  the rectangle, a buffer that showed the stack before shows it again (`RedrawnShows`). A move
  damages the old and the new area merged, painting what it painted, and a move in the
  group goes through both buffers (`MovedInGroup`), with its rectangles merged before the one
  and after being offset for the other (`MergeOffset`).
- `ShowsLines`: `ConsoleSpec => []ShowsLastLines`, from `TextInv`: the cells, the row and the column
  of both consoles are functions of the text (`Grid`, `RowOf`, `ColumnOf`). The
  lemmas say what a newline and a glyph do to these functions, at the bottom row and above it.
- `DamageSuffices`: `ConsoleSpec => []DamageCovers`, from `DamageInv`: outside the damage
  collected so far the screen already shows the layer. The damage only grows, and everything that
  one character changes is in it, the whole grid when it scrolls.

### PCI (`PciProofs`)

Assumptions: `BusesAssumption`, `CountsAssumption`, `ConfigAssumption` (a function per address, the
host bridge is there); `RegistersAssumption`, `ExponentAssumption`, `SizeAssumption` (base
addresses are multiples of 16), `XhcAssumption` (a capability list that ends).

- `DevicesStaySound` and `ScanIsComplete`: `DevicesSound` and `ScanComplete`, from `ScanInv ==
  TypeInv /\ VisitInv /\ SearchInv /\ OnceInv /\ FullInv`. `VisitInv` says what each active call of the recursion
  has done: every function before the one that it is at is registered. `SearchInv` is the
  invariant of a graph search: a bus that was entered is complete or under way. When
  the last call returns, none is under way, so the set of complete buses is closed under
  bridges and contains all that is reachable. `OnceInv` is for machines whose buses are numbered as
  the firmware does: no bus is entered twice, hence no function is registered twice.
  `FullInv` is about a scan that is given up: the function that it could not register is one that can be
  reached, and not in the array, again because no bus is entered twice.
- `MsiIsProgrammed`: `MsiProgrammed`, from `MsiInv`: the walk has met a set of capabilities that
  has no other way on than the next one (`Walked`), so that at the end there is no MSI capability
  that was missed, and no register but those of the one that was found is written.
- `XhcIsSound`: the device taken for the xHC is one, an Intel one if there is any
  (`FindInv`), and its base address is the one in its registers (`BaseInv`). Which xHCs there are is
  taken from `ScanIsComplete` if the scan was completed.

### The USB device (`HidDeviceProofs`)

Assumptions: `DevicesAssumption` (fields of descriptors have their widths, each begins where the one
before ends, and nothing else),
`LimitsAssumption`, `RingSizeAssumption`, `MapSizeAssumption`, and `RoomAssumption`: ring and map have
room for one request per endpoint number, which the code's 32 TRBs and 16 entries have for the
15 numbers there are. `PowersAssumption` lists powers of two, which the provers do not compute.

- `StaysInBuffers` and `ServesFirstInterface`: `NeverLost` and `FirstInterfaceServed`, from
  `DescriptorInv`. The parser is a loop over descriptors, and what it has found after `n` of them is
  stated with ranks: the `r`-th endpoint of the interface is the one with `r` endpoints up to it
  (`UpTo`), which exists and is unique by the least counterexample. What is in the buffer is the
  descriptors that begin in it (`PrefixFacts`); for a well-formed device everything that the loop looks at has
  arrived (`WellRead`, `EndpointsFound`), and without a supported interface the search ends (`SearchEnds`). `BufInv` says what is in the
  buffer, `PhaseInv` and `ReadInv` where the initialization is, `EndpointInv` and `ServedInv`
  what was read is what the descriptors say, `ContextInv` that the input context is built from it.
- `PollsInTime`: `PolledInTime`, from the same invariant and the arithmetic of `ConvertInterval`.
- `NotifiesReports`: `ReportsNotified`, from `PollInv` and `ReportInv`. `PollInv`: an interrupt transfer is
  on the ring, or its event waits or is under processing, and never two of these. `ReportInv`:
  the buffer and the previous buffer hold the last two reports at each of the three steps of
  `OnInterruptCompleted`, and one batch has been notified for each report before.
- `KeepsSetupStage`: `SetupStageKept`, from `RequestInv`. There are a base `b`, a count `m` and a set `L`
  of live requests, named by the numbers of their Setup TRBs, such that the ring still holds them
  (`RingLive`), the map has exactly their entries (`MapLive`), the controller stands within one of
  them or behind them all (`ControllerAt`) and the events are theirs, each once (`EventsLive`).
  During initialization there is one request at a time, and `b` moves on with each of them;
  afterwards there is at most one per class driver entry, all after the same `b`. That is what
  bounds them, so that neither the ring overtakes the controller nor the map is full.

### Only model-checked

- Liveness (`DevicesGetToWork`, `IdleWaiterServed`, `EventsHandled`, the fair part of
  `ImplementsFifo`, `XhcReady`, `ControllerRuns`, `KeepsPolling`): the prover does not handle
  fairness and `ENABLED`.

Every invariant and every action property that a run checks is stated by a theorem.

## 6. Properties and the bugs they would catch

Each property comes with a mutant in `PROJECT.json`: a variant of one definition, next
to it in the module and marked as such, that a plausible slip in the code would amount
to. Examples: `ResetPort` without the test of `addressing_port` breaks
`AddressingExclusion`; a hand-over loop that starts at port 2 breaks `DevicesGetToWork`;
a TRB whose last word is stored first breaks `ImplementsFifo`; writing 0 to the busy
bit breaks `NoLostWakeup`; an `sbrk` that compares one byte too late breaks `HeapOwned`;
a copy that is clipped at the destination but not shifted at the source breaks
`ScreenShowsStack`; dragging by the reported motion breaks `DraggedUnderPointer`; a reset that
does not wait for the halted bit breaks `ResetSafely`; a map that never deletes breaks
`SetupStageKept`; a rounding down of the kernel's pages breaks `KernelKept`.

## 7. Not modelled

- *Where the loader's stack is*: `kernel_main` runs on it, and firmware usually keeps it in
  `EfiBootServicesData`, which the allocator counts as available. Neither the place nor the type
  is in the repository.
- *A firmware that leaves both ownership semaphores set*: the code takes its own semaphore as
  proof that it owns the controller; `StartInit` excludes the state.
- *What follows when the parser uses bytes that have not arrived*: those of `buf_` that were there
  before, or what is behind it. The model stops at `"lost"`.
- *Reports longer than the packet*: the controller does not write them.
- *`DrawPixels` of the loader*, which fills the screen before the kernel does.
- *Disconnecting*: the code has none. A device that is pulled out leaves its phase, its
  slot and, during a reset, the turn. The models keep this, so the safety properties
  hold after an unplug too, and every liveness property that passes is for devices that stay.
- *Allocation failures of devices*: the pool of 32 pages suffices for the eight
  slots, and `PortConfig` and `HidDevice` assume success. `ControllerStart` does not.
- *newlib's `malloc`*, which the interrupt handler may enter through `main_queue->push_back`
  while the main loop is inside it: not part of the repository.
- *Interrupt, segment, paging and timer set-up*: tables written once.
- *Logging, fonts, windows, colours, pixel formats, build tools*: looks and formatting.
- *`LayerManager::hide` and lowering a layer*: never called by the kernel once the scene is built.

## 8. Plan

Done, in this order: `PortConfig` and the proofs of type correctness and exclusion; the
rings and their refinement of `Fifo`; memory; graphics; PCI; the boot loader and its
hand-over; the start of the controller; the device with its descriptors, transfers and reports.

The proofs, in this order: the frame allocator, dragging and clipping; the turn of
`PortConfig` in full; both rings and the refinement of `Fifo`; the memory pool and the start of
the controller; the boot loader and its hand-over; PCI; the consoles; the USB device with its
descriptors, requests and reports; the composition of the layers.

Next: a property of `PortConfig` that bounds the commands and unhandled completions, to
justify `Window` of `ProducerRing` from the callers' side, and the event ring's room. `FlightInv`
bounds those of the turn and `RequestInv` the requests of one device; Configure Endpoint and the
interrupt transfers are what is left.
