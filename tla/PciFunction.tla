---------------------------- MODULE PciFunction -----------------------------
(***************************************************************************)
(* What kernel_main does with the xHC that the enumeration has found: its  *)
(* message signalled interrupt is programmed (kernel/pci.cpp,              *)
(* configure_msi_fixed_destination), and the address of its registers is   *)
(* read (read_bar).                                                        *)
(*                                                                         *)
(* Configuration space is addressed in registers of 32 bits; a capability  *)
(* pointer is the number of a register, and 0 ends the list.               *)
(***************************************************************************)
EXTENDS PciScan

CONSTANTS
    Registers,            \* the registers that capabilities may occupy
    XhcOf(_),             \* the xHCs that a machine with this configuration may have
    num_vector_exponent,  \* the vectors asked for, as a power of two; 0 in kernel_main
    RegisterSize          \* 2^32: one more than the largest value of a register

CapabilityIds == {"msi", "msix", "other"}

\* The header of a capability; all but id and next mean something for "msi" only.
Headers == [id : CapabilityIds, next : Registers \cup {0}, msi_enable : BOOLEAN,
            multi_msg_capable : 0..5, multi_msg_enable : 0..5,
            addr_64_capable : BOOLEAN, per_vector_mask_capable : BOOLEAN]

\* first is the capability pointer, registers those behind the headers, mmio the address
\* that the function decodes, and wide says that its base address register is one of 64 bits.
IsXhc(x) ==
    /\ x.first \in DOMAIN x.headers \cup {0} /\ DOMAIN x.headers \subseteq Registers
    /\ \A a \in DOMAIN x.headers :
          /\ x.headers[a] \in Headers /\ x.headers[a].next \in DOMAIN x.headers \cup {0}
          /\ x.headers[a].id = "msi" =>
                a + 1 \in DOMAIN x.registers /\ a + 2 \in DOMAIN x.registers
                /\ (x.headers[a].addr_64_capable => a + 3 \in DOMAIN x.registers)
    /\ x.mmio \in Nat /\ x.mmio % 16 = 0 /\ x.wide \in BOOLEAN
    /\ ~x.wide => x.mmio < RegisterSize

ASSUME RegistersAssumption == Registers \subseteq Nat \ {0}
ASSUME ExponentAssumption == num_vector_exponent \in Nat
ASSUME SizeAssumption == RegisterSize \in Nat \ {0} /\ RegisterSize % 16 = 0
ASSUME XhcAssumption == \A space \in ConfigSpaces : \A x \in XhcOf(space) : IsXhc(x)

VARIABLES
    xhc,                            \* the function as the firmware leaves it
    headers, registers,             \* its capability headers and its other registers
    cap_addr, msi_cap_addr, msix_cap_addr,
    msi_error,                      \* what configure_msi returned, "none" before
    xhc_mmio_base                   \* <<>> before read_bar, then of length 1

fn_vars == <<xhc, headers, registers, cap_addr, msi_cap_addr, msix_cap_addr, msi_error,
             xhc_mmio_base>>

PciInit ==
    /\ Init
    /\ xhc \in XhcOf(config)
    /\ headers = xhc.headers /\ registers = xhc.registers
    /\ cap_addr = xhc.first /\ msi_cap_addr = 0 /\ msix_cap_addr = 0
    /\ msi_error = "none" /\ xhc_mmio_base = <<>>

-----------------------------------------------------------------------------
\* An xHC has been found, and configure_msi has not returned yet.
Configuring == pc = "found" /\ msi_error = "none"

\* One round of the loop over the capabilities
WalkCapabilities ==
    /\ Configuring /\ cap_addr # 0
    /\ msi_cap_addr' = IF headers[cap_addr].id = "msi" THEN cap_addr ELSE msi_cap_addr
    /\ msix_cap_addr' = IF headers[cap_addr].id = "msix" THEN cap_addr ELSE msix_cap_addr
    /\ cap_addr' = headers[cap_addr].next
    /\ UNCHANGED <<vars, xhc, headers, registers, msi_error, xhc_mmio_base>>

\* A bug to be told from the code: the data register is taken to follow the address.
MsgDataAddrFixed(a) == a + 2

\* msg_data_addr of read_msi_capability and write_msi_capability
MsgDataAddr(a) == IF headers[a].addr_64_capable THEN a + 3 ELSE a + 2

\* configure_msi_register: the capability is read, changed and written back, the upper half
\* of a 64-bit address and the mask bits as they were read. That the header with the enable
\* bit is written first is no step of its own: the controller is not started yet.
ConfigureMsiRegister(a) ==
    /\ headers' = [headers EXCEPT
          ![a].multi_msg_enable = IF headers[a].multi_msg_capable <= num_vector_exponent
                                  THEN headers[a].multi_msg_capable ELSE num_vector_exponent,
          ![a].msi_enable = TRUE]
    /\ registers' = [registers EXCEPT ![a + 1] = "msg_addr", ![MsgDataAddr(a)] = "msg_data"]

\* The end of configure_msi; kernel_main only logs what it returns.
ConfigureMsi ==
    /\ Configuring /\ cap_addr = 0
    /\ \/ /\ msi_cap_addr # 0 /\ msi_error' = "Success"
          /\ ConfigureMsiRegister(msi_cap_addr)
       \/ /\ msi_cap_addr = 0 /\ msix_cap_addr # 0 /\ msi_error' = "NotImplemented"
          /\ UNCHANGED <<headers, registers>>
       \/ /\ msi_cap_addr = 0 /\ msix_cap_addr = 0 /\ msi_error' = "NoPCIMSI"
          /\ UNCHANGED <<headers, registers>>
    /\ UNCHANGED <<vars, xhc, cap_addr, msi_cap_addr, msix_cap_addr, xhc_mmio_base>>

\* What the base address registers 0 and 1 read as: the flags in the low four bits,
\* of which the third says that register 1 has the upper half.
Bar(n) == IF n = 0 THEN (xhc.mmio % RegisterSize) + (IF xhc.wide THEN 4 ELSE 0)
                   ELSE xhc.mmio \div RegisterSize

\* Mutant: the upper half is left out.
ReadBarLow == Bar(0)

ReadBar == IF (Bar(0) \div 4) % 2 = 0 THEN Bar(0) ELSE Bar(0) + Bar(1) * RegisterSize

ReadMmioBase ==
    /\ pc = "found" /\ msi_error # "none" /\ xhc_mmio_base = <<>>
    /\ xhc_mmio_base' = <<ReadBar - (ReadBar % 16)>>
    /\ UNCHANGED <<vars, xhc, headers, registers, cap_addr, msi_cap_addr, msix_cap_addr, msi_error>>

PciNext == \/ Next /\ UNCHANGED fn_vars
           \/ WalkCapabilities \/ ConfigureMsi \/ ReadMmioBase

PciSpec == PciInit /\ [][PciNext]_<<vars, fn_vars>> /\ WF_<<vars, fn_vars>>(PciNext)

-----------------------------------------------------------------------------
(* Properties                                                               *)

\* The capabilities on the function's list: the least set that the pointers from the
\* first one do not leave.
OnList ==
    LET closed == {S \in SUBSET DOMAIN xhc.headers :
                     /\ xhc.first # 0 => xhc.first \in S
                     /\ \A a \in S : xhc.headers[a].next \in S \cup {0}}
    IN  {a \in DOMAIN xhc.headers : \A S \in closed : a \in S}

\* What the function does with its registers: where it sends its message, and which.
Message(a) == IF headers[a].addr_64_capable
              THEN <<registers[a + 2], registers[a + 1], registers[a + 3]>>
              ELSE <<"zero", registers[a + 1], registers[a + 2]>>

\* If the function has an MSI capability, wherever on the list and in whichever of its
\* layouts, it ends up enabled with the message asked for, no more vectors than it is
\* capable of, and every other register as the firmware left it: so is the upper half of
\* a 64-bit address, on which the message depends too and which the code does not clear.
MsiProgrammed ==
    msi_error # "none" =>
        LET msis == {a \in OnList : xhc.headers[a].id = "msi"}
        IN  /\ (msi_error = "Success") <=> (msis # {})
            /\ msi_error = "Success" =>
                 \E a \in msis :
                    /\ headers[a].msi_enable
                    /\ Message(a) = <<IF headers[a].addr_64_capable THEN xhc.registers[a + 2]
                                                                    ELSE "zero",
                                     "msg_addr", "msg_data">>
                    /\ headers[a].multi_msg_enable <= headers[a].multi_msg_capable
                    /\ headers[a].multi_msg_enable <= num_vector_exponent
                    /\ \A b \in DOMAIN headers \ {a} : headers[b] = xhc.headers[b]
                    /\ \A r \in DOMAIN registers :
                          \/ registers[r] = xhc.registers[r]
                          \/ r = a + 1
                          \/ r = a + (IF headers[a].addr_64_capable THEN 3 ELSE 2)

\* The xHCs that count: all that can be reached, if the scan below a single host bridge
\* was completed, and otherwise those that were registered.
Xhcs ==
    {a \in IF error = "Success" /\ ~config[<<0, 0, 0>>].multi
           THEN VisibleOn(ReachableBuses) ELSE RegisteredFunctions :
        config[a].class = "xhc"}

\* The scan ends, however bridges lead back to each other, and kernel_main ends up with an
\* xHC, one of Intel's if there is one, and with the address that it decodes, be its base
\* address register one of 32 or of 64 bits: the driver is handed neither the flags of the
\* register nor half an address. After a complete scan it panics only if the machine has
\* no xHC; after one that was given up with the array full, or that has left bus 0 out, it
\* panics if none is registered, whatever the machine has (scan_bus, find_xhc_device,
\* read_bar).
XhcReady ==
    <>(\/ pc = "panic" /\ Xhcs = {}
       \/ /\ pc = "found" /\ devices[xhc_device] \in Xhcs
          /\ (\E a \in Xhcs : config[a].intel) => config[devices[xhc_device]].intel
          /\ xhc_mmio_base = <<xhc.mmio>>)
=============================================================================
