-------------------------- MODULE ControllerStart ---------------------------
(***************************************************************************)
(* From the firmware's host controller to a running one: RequestHCOwnership, *)
(* Controller::Initialize and Run (kernel/usb/xhci/xhci.cpp) with the       *)
(* memory that they take from the pool, against a controller and a firmware *)
(* that answer in their own time.  Afterwards the driver goes on allocating. *)
(*                                                                         *)
(* Memory is counted in pointers, and a pointer that is 0 is nullptr.       *)
(***************************************************************************)
EXTENDS UsbPool, Sequences, FiniteSets

CONSTANTS
    MaxSlots,        \* kDeviceSize
    Line, Page, Segment,   \* alignment and boundaries of the requests: 64, 4096, 64 KiB
    TrbSize, RingSize, TableSize,   \* of a TRB, of 32 TRBs, of a table with one entry
    DcbaapLimit,     \* what the 26 bits of DCBAAP_Bitmap above the lowest 6 can hold: 4 GiB
    Controllers,     \* what the controllers of this machine may be like
    MaxRegions       \* bound: regions in all

Request(size, alignment, boundary) ==
    [size |-> size, alignment |-> alignment, boundary |-> boundary]

DevicesRequest == Request(MaxSlots + 1, 0, 0)
ContextsRequest == Request(MaxSlots + 1, Line, Page)
ScratchpadRequest(n) == Request(n, Line, Page)
PageRequest == Request(Page, Page, Page)
RingRequest == Request(RingSize, Line, Segment)
TableRequest == Request(TableSize, Line, Segment)

\* scratchpads is the number of buffers that the controller wants. Extended capabilities
\* begin at register xecp of those given, and next is the distance to the next one; 0
\* means none in both. Capability 1 is USBLEGSUP.
IsController(c) ==
    /\ c.scratchpads \in Nat /\ c.xecp \in DOMAIN c.extended \cup {0}
    /\ \A a \in DOMAIN c.extended :
          /\ {a, c.extended[a].id, c.extended[a].next} \subseteq Nat
          /\ c.extended[a].next = 0 \/ a + c.extended[a].next \in DOMAIN c.extended

ASSUME ControllersAssumption == \A c \in Controllers : IsController(c)
ASSUME SizesAssumption == MaxSlots \in Nat /\ Line > 0
ASSUME TrbAssumption == TrbSize \in Nat /\ TrbSize > 0 /\ Line % TrbSize = 0
\* memory_pool is part of the kernel's image, which linker.ld puts at 1 MiB.
ASSUME LinkAssumption == DcbaapLimit \in Nat /\ PoolBase + PoolSize <= DcbaapLimit
ASSUME StartAssumption ==
    /\ {DevicesRequest, ContextsRequest, PageRequest, RingRequest, TableRequest} \subseteq Requests
    /\ \A c \in Controllers : c.scratchpads > 0 => ScratchpadRequest(c.scratchpads) \in Requests

VARIABLES
    pc,                     \* of the driver
    controller,             \* one of Controllers
    bios_owned, os_owned,   \* the semaphores of USBLEGSUP
    ext,                    \* the register that the search for USBLEGSUP looks at
    usbcmd, usbsts,         \* the bits that matter
    registers,              \* what else is programmed
    pointers,               \* the results of AllocMem that Initialize keeps
    scratchpad_buf_arr,     \* the entries of the scratchpad buffer array
    error                   \* what Initialize returned, "none" before

hw_vars == <<bios_owned, os_owned, usbcmd, usbsts, registers>>
sw_vars == <<pc, ext, pointers, scratchpad_buf_arr, error>>
start_vars == <<vars, hw_vars, sw_vars, controller>>

\* After a reset of the controller
Defaults == [config |-> 0, dcbaap |-> 0, crcr |-> 0, erstsz |-> 0, erdp |-> 0, erstba |-> 0,
             iman |-> FALSE]

\* The firmware has left the controller running, halted, or about to halt; who has
\* taken it over from the firmware before has waited for it.
StartInit ==
    /\ Init
    /\ pc = "devices" /\ error = "none" /\ ext = 0
    /\ controller \in Controllers
    /\ bios_owned \in BOOLEAN /\ os_owned \in BOOLEAN /\ ~(bios_owned /\ os_owned)
    /\ \E running, halted \in BOOLEAN :
          /\ ~(running /\ halted)
          /\ usbcmd = [run_stop |-> running, reset |-> FALSE, interrupts |-> TRUE]
          /\ usbsts = [halted |-> halted, not_ready |-> FALSE]
    /\ registers = [Defaults EXCEPT !.config = MaxSlots + 1]
    /\ pointers = [devices |-> 0, contexts |-> 0, contexts_0 |-> 0, scratchpad |-> 0,
                   command_ring |-> 0, event_ring |-> 0, table |-> 0]
    /\ scratchpad_buf_arr = <<>>

-----------------------------------------------------------------------------
(* The controller and the firmware                                          *)

HcHalt ==
    /\ ~usbcmd.run_stop /\ ~usbsts.halted
    /\ usbsts' = [usbsts EXCEPT !.halted = TRUE]
    /\ UNCHANGED <<vars, sw_vars, controller, bios_owned, os_owned, usbcmd, registers>>

HcReset ==
    /\ usbcmd.reset
    /\ usbcmd' = [run_stop |-> FALSE, reset |-> FALSE, interrupts |-> FALSE]
    /\ \E not_ready \in BOOLEAN : usbsts' = [halted |-> TRUE, not_ready |-> not_ready]
    /\ registers' = Defaults
    /\ UNCHANGED <<vars, sw_vars, controller, bios_owned, os_owned>>

HcReady ==
    /\ usbsts.not_ready
    /\ usbsts' = [usbsts EXCEPT !.not_ready = FALSE]
    /\ UNCHANGED <<vars, sw_vars, controller, bios_owned, os_owned, usbcmd, registers>>

HcStart ==
    /\ usbcmd.run_stop /\ usbsts.halted /\ ~usbsts.not_ready /\ ~usbcmd.reset
    /\ usbsts' = [usbsts EXCEPT !.halted = FALSE]
    /\ UNCHANGED <<vars, sw_vars, controller, bios_owned, os_owned, usbcmd, registers>>

\* The firmware lets go when it is asked to.
BiosRelease ==
    /\ os_owned /\ bios_owned
    /\ bios_owned' = FALSE
    /\ UNCHANGED <<vars, sw_vars, controller, os_owned, usbcmd, usbsts, registers>>

Hardware == HcHalt \/ HcReset \/ HcReady \/ HcStart \/ BiosRelease

\* Registers that are written during a reset or before the controller is ready keep
\* their values.
Write(values) == registers' = IF usbsts.not_ready \/ usbcmd.reset THEN registers ELSE values

-----------------------------------------------------------------------------
(* The driver                                                               *)

Goto(from, to) == pc = from /\ pc' = to

\* AllocMem, whose result is null when the pool is exhausted
Result(r) == LET p == Placed(alloc_ptr, r) IN IF Exhausted(p, r) THEN 0 ELSE p

\* pointers[name] = AllocMem(r); a null pointer makes Initialize return its error,
\* which kernel_main logs before it calls Run all the same.
Allocate(from, name, r, to) ==
    /\ pc = from
    /\ AllocMem(r)
    /\ pointers' = [pointers EXCEPT ![name] = Result(r)]
    /\ pc' = IF Result(r) = 0 THEN "run" ELSE to
    /\ error' = IF Result(r) = 0 THEN "NoEnoughMemory" ELSE error
    /\ UNCHANGED <<controller, hw_vars, ext, scratchpad_buf_arr>>

\* DeviceManager::Initialize, which clears the contexts
DevicesInitialize ==
    \/ Allocate("devices", "devices", DevicesRequest, "contexts")
    \/ Allocate("contexts", "contexts", ContextsRequest, "ownership")

\* AddOrNull: a distance of 0 leads nowhere.
AddOrNull(p, d) == IF d = 0 THEN 0 ELSE p + d

BeginExtended ==
    /\ Goto("ownership", "search")
    /\ ext' = AddOrNull(0, controller.xecp)
    /\ UNCHANGED <<vars, controller, hw_vars, pointers, scratchpad_buf_arr, error>>

\* find_if over the extended registers, and what is done with its result
FindLegsup ==
    /\ pc = "search"
    /\ IF ext = 0 THEN pc' = "stop" /\ UNCHANGED <<ext, os_owned>>
       ELSE IF controller.extended[ext].id # 1
       THEN /\ ext' = AddOrNull(ext, controller.extended[ext].next)
            /\ UNCHANGED <<pc, os_owned>>
       ELSE /\ pc' = IF os_owned THEN "stop" ELSE "wait_owned"
            /\ os_owned' = TRUE
            /\ UNCHANGED ext
    /\ UNCHANGED <<vars, controller, bios_owned, usbcmd, usbsts, registers, pointers,
                   scratchpad_buf_arr, error>>

\* Mutant: either semaphore ends the loop.
OsOwnsEarly == ~bios_owned \/ os_owned

OsOwns == ~bios_owned /\ os_owned

\* Mutant: a controller that runs is not stopped.
RunStopKept == usbcmd.run_stop

RunStopWritten == usbcmd.run_stop /\ usbsts.halted

Stop ==
    /\ Goto("stop", "wait_halted")
    /\ usbcmd' = [usbcmd EXCEPT !.interrupts = FALSE, !.run_stop = RunStopWritten]
    /\ UNCHANGED <<vars, controller, bios_owned, os_owned, usbsts, registers, ext, pointers,
                   scratchpad_buf_arr, error>>

Reset ==
    /\ Goto("reset", "wait_reset")
    /\ usbcmd' = [usbcmd EXCEPT !.reset = TRUE]
    /\ UNCHANGED <<vars, controller, bios_owned, os_owned, usbsts, registers, ext, pointers,
                   scratchpad_buf_arr, error>>

\* Mutant: the reset is over when its bit is cleared.
ReadyEarly == TRUE

Ready == ~usbsts.not_ready

\* Mutant: the halted bit is not waited for.
HaltedEarly == TRUE

Halted == usbsts.halted

\* The loops that read a register until the controller has answered
Wait ==
    /\ \/ Goto("wait_owned", "stop") /\ OsOwns
       \/ Goto("wait_halted", "reset") /\ Halted
       \/ Goto("wait_reset", "wait_ready") /\ ~usbcmd.reset
       \/ Goto("wait_ready", "config") /\ Ready
       \/ Goto("wait_running", "running") /\ ~usbsts.halted
    /\ UNCHANGED <<vars, controller, hw_vars, ext, pointers, scratchpad_buf_arr, error>>

\* max_device_slots_enabled
Config ==
    /\ Goto("config", IF controller.scratchpads > 0 THEN "scratchpad" ELSE "dcbaap")
    /\ Write([registers EXCEPT !.config = MaxSlots])
    /\ UNCHANGED <<vars, controller, bios_owned, os_owned, usbcmd, usbsts, ext, pointers,
                   scratchpad_buf_arr, error>>

\* Nobody looks whether the array or a buffer is null; the entries are stored all the same.
AllocScratchpadArray ==
    /\ Goto("scratchpad", "buffers")
    /\ AllocMem(ScratchpadRequest(controller.scratchpads))
    /\ pointers' = [pointers EXCEPT !.scratchpad = Result(ScratchpadRequest(controller.scratchpads))]
    /\ UNCHANGED <<controller, hw_vars, ext, scratchpad_buf_arr, error>>

AllocScratchpadBuffer ==
    /\ pc = "buffers" /\ Len(scratchpad_buf_arr) < controller.scratchpads
    /\ AllocMem(PageRequest)
    /\ scratchpad_buf_arr' = Append(scratchpad_buf_arr, Result(PageRequest))
    /\ UNCHANGED <<pc, controller, hw_vars, ext, pointers, error>>

\* devmgr_.DeviceContexts()[0]
StoreScratchpadArray ==
    /\ Goto("buffers", "dcbaap") /\ Len(scratchpad_buf_arr) = controller.scratchpads
    /\ pointers' = [pointers EXCEPT !.contexts_0 = pointers.scratchpad]
    /\ UNCHANGED <<vars, controller, hw_vars, ext, scratchpad_buf_arr, error>>

\* SetPointer and Pointer of CRCR and ERSTBA (58 bits) and of ERDP (60 bits) lose the bits
\* below unit, that of DCBAAP (26 bits) also those from 32 on.
Masked(p, unit) == p - (p % unit)

MaskedDcbaap(p) == Masked(p, Line) % DcbaapLimit

WriteDcbaap ==
    /\ Goto("dcbaap", "command_ring")
    /\ Write([registers EXCEPT !.dcbaap = MaskedDcbaap(pointers.contexts)])
    /\ UNCHANGED <<vars, controller, bios_owned, os_owned, usbcmd, usbsts, ext, pointers,
                   scratchpad_buf_arr, error>>

\* Ring::Initialize of the command ring and EventRing::Initialize
RingsInitialize ==
    \/ Allocate("command_ring", "command_ring", RingRequest, "crcr")
    \/ Allocate("event_ring", "event_ring", RingRequest, "table")
    \/ Allocate("table", "table", TableRequest, "erst")

RegisterCommandRing ==
    /\ Goto("crcr", "event_ring")
    /\ Write([registers EXCEPT !.crcr = Masked(pointers.command_ring, Line)])
    /\ UNCHANGED <<vars, controller, bios_owned, os_owned, usbcmd, usbsts, ext, pointers,
                   scratchpad_buf_arr, error>>

\* The end of EventRing::Initialize, and the interrupter
RegisterEventRing ==
    /\ Goto("erst", "enable")
    /\ Write([registers EXCEPT !.erstsz = 1, !.erdp = Masked(pointers.event_ring, TrbSize),
                               !.erstba = Masked(pointers.table, Line), !.iman = TRUE])
    /\ UNCHANGED <<vars, controller, bios_owned, os_owned, usbcmd, usbsts, ext, pointers,
                   scratchpad_buf_arr, error>>

EnableInterrupts ==
    /\ Goto("enable", "run")
    /\ usbcmd' = [usbcmd EXCEPT !.interrupts = TRUE]
    /\ error' = "Success"
    /\ UNCHANGED <<vars, controller, bios_owned, os_owned, usbsts, registers, ext, pointers,
                   scratchpad_buf_arr>>

\* Controller::Run
RunController ==
    /\ Goto("run", "wait_running")
    /\ usbcmd' = [usbcmd EXCEPT !.run_stop = TRUE]
    /\ UNCHANGED <<vars, controller, bios_owned, os_owned, usbsts, registers, ext, pointers,
                   scratchpad_buf_arr, error>>

\* The driver allocates for the devices that are plugged in.
AllocMore ==
    /\ pc = "running" /\ Cardinality(regions) < MaxRegions
    /\ Next
    /\ UNCHANGED <<controller, hw_vars, sw_vars>>

Driver ==
    \/ DevicesInitialize \/ BeginExtended \/ FindLegsup \/ Stop \/ Reset \/ Wait \/ Config
    \/ AllocScratchpadArray \/ AllocScratchpadBuffer \/ StoreScratchpadArray \/ WriteDcbaap
    \/ RingsInitialize \/ RegisterCommandRing \/ RegisterEventRing \/ EnableInterrupts
    \/ RunController

StartNext == Driver \/ Hardware \/ AllocMore

StartSpec ==
    /\ StartInit /\ [][StartNext]_start_vars
    /\ WF_start_vars(Driver) /\ WF_start_vars(HcHalt) /\ WF_start_vars(HcReset)
    /\ WF_start_vars(HcReady) /\ WF_start_vars(HcStart) /\ WF_start_vars(BiosRelease)

-----------------------------------------------------------------------------
(* Properties                                                               *)

\* Capability 1 can be reached from the first one: every set that the distances do not
\* lead out of has it.
HasLegsup ==
    \A S \in SUBSET DOMAIN controller.extended :
        /\ controller.xecp \in S \cup {0}
        /\ \A a \in S : controller.extended[a].next = 0 \/ a + controller.extended[a].next \in S
        => \E a \in S : controller.extended[a].id = 1

\* "Host controller must be halted before resetting it.", and it must not be taken away
\* from a firmware that still drives it, wherever on the list the semaphores are
\* (RequestHCOwnership, Controller::Initialize).
ResetSafely ==
    [][~usbcmd.reset /\ usbcmd'.reset => usbsts.halted /\ (HasLegsup => ~bios_owned)]_start_vars

\* A region of the pool begins at p.
Owned(p, r) == [addr |-> p, request |-> r] \in regions

\* There is no room for size any more, here or later.
Spent(size) == PoolBase + PoolSize < alloc_ptr + size

\* If Initialize returns success, the controller that starts has got the structures that it
\* needs, in memory that is its own, whatever it did with the registers during the reset
\* and although they do not hold all bits of a pointer. The scratchpad, at whose pointers
\* Initialize does not look, may be null, but only where the pool is exhausted.
ProgrammedBeforeRun ==
    usbcmd.run_stop /\ error = "Success" =>
        /\ registers.config = MaxSlots /\ registers.erstsz = 1 /\ registers.iman
        /\ usbcmd.interrupts
        /\ Owned(registers.dcbaap, ContextsRequest)
        /\ Owned(registers.crcr, RingRequest) /\ Owned(registers.erdp, RingRequest)
        /\ registers.crcr # registers.erdp
        /\ Owned(registers.erstba, TableRequest)
        /\ controller.scratchpads > 0 =>
              \/ Owned(pointers.contexts_0, ScratchpadRequest(controller.scratchpads))
              \/ pointers.contexts_0 = 0 /\ Spent(controller.scratchpads)
        /\ Len(scratchpad_buf_arr) = controller.scratchpads
        /\ \A k \in DOMAIN scratchpad_buf_arr :
              \/ scratchpad_buf_arr[k] = 0 /\ Spent(Page)
              \/ /\ Owned(scratchpad_buf_arr[k], PageRequest)
                 /\ \A m \in DOMAIN scratchpad_buf_arr :
                       scratchpad_buf_arr[k] = scratchpad_buf_arr[m] => k = m

\* The controller gets to run, whatever state the firmware has left it in: none of the
\* loops that wait for the controller or the firmware waits in vain.
ControllerRuns == <>(pc = "running" /\ ~usbsts.halted)
=============================================================================
