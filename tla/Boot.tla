-------------------------------- MODULE Boot ---------------------------------
(***************************************************************************)
(* The boot of the hypervisor, Hypervisor::new of lib.rs: the IOMMU's      *)
(* tables (iommu.rs), the scan for network cards (pci.rs), the memory      *)
(* windows of the DMA domains, the card VM2 gets (vm.rs) and the schedule  *)
(* (scheduler.rs), from the configuration the build accepted (Config).     *)
(*                                                                         *)
(* A machine is what firmware made: the words that the search for the DMAR *)
(* table reads, the cards on bus 0 with their BARs, and where the memory   *)
(* of the two VMs lies.  The other steps of Hypervisor::new are modelled   *)
(* by Ept and Vmcs.                                                        *)
(*                                                                         *)
(* ContextEntryUnmasked, FoundLast, FoundUncut and NextIndexOfTable are    *)
(* mutated forms of a definition that follows them.                        *)
(***************************************************************************)
EXTENDS Config

CONSTANTS
  Machines,   \* the machines to boot on, see MachineOK
  Yamls,      \* the configurations to build with
  Devices,    \* device numbers on a bus, 32
  Functions,  \* functions of a device, 8
  BarSize,    \* what a BAR of 32 bits can name, 2^32
  LargeSize,  \* a large page of the second-level tables
  MmioBase,   \* E1000_MMIO_BASE
  NoCard,     \* in place of a BAR, where there is no card
  None,       \* in place of a domain or a BAR not there yet
  AllOnes, DefaultDmar,  \* words the DMAR search may read
  TableSize   \* pins the schedule holds, 8

Buses == {0, 1}
DevFns == (0 .. Devices - 1) \X (0 .. Functions - 1)

Memory == [base : Nat, size : Nat]

MachineOK(m) ==
  /\ m.acpi \in Seq(Int) /\ m.ram \in [Partition -> Memory]
  /\ m.bar \in [0 .. Devices - 1 -> (0 .. AddrSize - 1) \cup {NoCard}]
  /\ \A p \in Partition : ~Overflows(m.ram[p])
  /\ Bytes(m.ram[1]) \cap Bytes(m.ram[2]) = {}

YamlOK(y) ==
  /\ \A i \in DOMAIN Regions : y.region[Regions[i]] \in Memory
  /\ y.bdf \in [Partition -> [bus : Buses, dev : Nat, fn : Nat]]

\* The BARs the scan makes up are of 32 bits.
ASSUME BootAssumption ==
  /\ Devices \in Nat \ {0} /\ Functions \in Nat \ {0}
  /\ BarSize \in 1 .. AddrSize /\ MmioBase \in Nat /\ MmioBase + 1 < BarSize
  /\ LargeSize \in Nat \ {0} /\ AddrSize % LargeSize = 0
  /\ TableSize \in Nat \ {0, 1}
  /\ None \notin {0, 1} \cup [vm_id : {0, 1}, base : Nat, limit : Nat]
  /\ \A m \in Machines : MachineOK(m)
  /\ \A y \in Yamls : YamlOK(y)

VARIABLES
  machine, yaml,
  step,        \* the next step of the boot
  root,        \* buses with a root entry; all of them name one context table
  context,     \* domain of each device and function, None if not present
  translating, \* DMA remapping is switched on
  domains,     \* the windows of the DMA domains
  hw_bar0,     \* BAR of the first card found, None before the scan
  vm2_mmio,    \* host addresses behind VM2's mapping of its card
  table, schedule_count, current_index,  \* the schedule
  waiting      \* turns since each pin was chosen or added

iommuVars == <<root, context, translating, domains>>
scheduleVars == <<table, schedule_count, current_index, waiting>>
vars == <<machine, yaml, step, iommuVars, hw_bar0, vm2_mmio, scheduleVars>>

System == DefaultSystem(Generated(yaml))
Slots == 0 .. TableSize - 1
NoPin == [vm_id |-> 0, vcpu_id |-> 0, pcpu |-> 0]

Init ==
  /\ machine \in Machines
  /\ yaml \in Yamls /\ BuildAccepts(yaml)
  /\ step = "dmar"
  /\ root = {} /\ context = [x \in DevFns |-> None] /\ translating = FALSE
  /\ domains = [d \in 0 .. 3 |-> None]
  /\ hw_bar0 = None /\ vm2_mmio = {}
  /\ table = [i \in Slots |-> NoPin] /\ schedule_count = 0 /\ current_index = 0
  /\ waiting = [i \in Slots |-> 0]
------------------------------------------------------------------------------
(* The IOMMU.                                                               *)

\* find_physical_drhd_base: the first word that can be an address, of those
\* found 40 bytes behind a DMAR signature; else the built-in address.
DrhdBase ==
  LET usable == SelectSeq(machine.acpi, LAMBDA w : w \notin {0, AllOnes})
  IN  IF usable = <<>> THEN DefaultDmar ELSE usable[1]

ContextEntryUnmasked(bdf) == <<bdf.dev % Devices, 0>>
ContextEntry(bdf) == <<bdf.dev % Devices, bdf.fn % Functions>>

\* assign_device_bdf of the devices of both partitions, to domains 0 and 1.
AssignDevices ==
  /\ root' = root \cup {0} \cup {System[p].bdf.bus : p \in Partition}
  /\ context' = [x \in DevFns |->
                   IF x = ContextEntry(System[2].bdf) THEN 1
                   ELSE IF x = ContextEntry(System[1].bdf) THEN 0 ELSE context[x]]

\* parse_acpi_dmar and program_hardware_vtd: translation goes on first.
ParseAcpiDmar ==
  /\ step = "dmar" /\ step' = "scan"
  /\ translating' = (DrhdBase \notin {0, DefaultDmar})
  /\ AssignDevices
  /\ UNCHANGED <<machine, yaml, domains, hw_bar0, vm2_mmio, scheduleVars>>

\* create_domain; the end is not checked for overflow.
DomainLimit(r) == (r.base + r.size) % AddrSize
CreateDomains ==
  /\ step = "domains" /\ step' = "assign"
  /\ domains' = [d \in 0 .. 3 |->
                   IF d + 1 \in Partition
                   THEN [vm_id |-> d, base |-> machine.ram[d + 1].base,
                         limit |-> DomainLimit(machine.ram[d + 1])]
                   ELSE domains[d]]
  /\ UNCHANGED <<machine, yaml, root, context, translating, hw_bar0, vm2_mmio,
                 scheduleVars>>

ReinforceMapping ==
  /\ step = "assign" /\ step' = "vm2"
  /\ AssignDevices
  /\ UNCHANGED <<machine, yaml, translating, domains, hw_bar0, vm2_mmio, scheduleVars>>

\* validate_dma: the end of the window may wrap.
ValidateDma(d, target, len) ==
  /\ domains[d] # None
  /\ target >= domains[d].base
  /\ (target + len) % AddrSize <= domains[d].limit
------------------------------------------------------------------------------
(* The cards.                                                               *)

Known == {d \in 0 .. Devices - 1 : machine.bar[d] # NoCard}
Before(d) == Cardinality({e \in Known : e < d})
HasNth(n) == \E d \in Known : Before(d) = n

\* BARs of the cards scan_all_e1000 returns: the first two on bus 0, cut to
\* 32 bits, or made up where there are fewer.
FoundLast ==
  [n \in {0, 1} |->
     IF HasNth(n)
     THEN machine.bar[CHOOSE d \in Known :
                        Before(d) = IF n = 0 THEN 0 ELSE Cardinality(Known) - 1] % BarSize
     ELSE MmioBase + n]
FoundUncut ==
  [n \in {0, 1} |->
     IF HasNth(n) THEN machine.bar[CHOOSE d \in Known : Before(d) = n]
     ELSE MmioBase + n]
Found ==
  [n \in {0, 1} |->
     IF HasNth(n) THEN machine.bar[CHOOSE d \in Known : Before(d) = n] % BarSize
     ELSE MmioBase + n]

ScanNics ==
  /\ step = "scan" /\ step' = "domains"
  /\ hw_bar0' = Found[0]
  /\ UNCHANGED <<machine, yaml, iommuVars, vm2_mmio, scheduleVars>>

LargePage(hpa) == LET first == hpa - (hpa % LargeSize) IN first .. first + LargeSize - 1

\* VirtualMachine::new of VM2 scans again and maps the second card, at two
\* guest addresses: what it reaches is the large page around the BAR.
Vm2Mmio == LargePage(Found[1])
NewVm2 ==
  /\ step = "vm2" /\ step' = "scheduler"
  /\ vm2_mmio' = Vm2Mmio
  /\ UNCHANGED <<machine, yaml, iommuVars, hw_bar0, scheduleVars>>
------------------------------------------------------------------------------
(* The schedule.                                                            *)

\* StaticScheduler::from_config: one pin per partition.
FromConfig ==
  /\ step = "scheduler" /\ step' = "up"
  /\ table' = [i \in Slots |->
                 IF i + 1 \in Partition
                 THEN [vm_id |-> System[i + 1].vm_id, vcpu_id |-> 0,
                       pcpu |-> System[i + 1].pcpu]
                 ELSE table[i]]
  /\ schedule_count' = 2
  /\ UNCHANGED <<machine, yaml, iommuVars, hw_bar0, vm2_mmio, current_index, waiting>>

AddPin(pin) ==
  /\ step = "up" /\ schedule_count < TableSize
  /\ table' = [table EXCEPT ![schedule_count] = pin]
  /\ schedule_count' = schedule_count + 1
  /\ waiting' = [waiting EXCEPT ![schedule_count] = 0]
  /\ UNCHANGED <<machine, yaml, step, iommuVars, hw_bar0, vm2_mmio, current_index>>

NextIndexOfTable == (current_index + 1) % TableSize
NextIndex == (current_index + 1) % schedule_count

\* next_vcpu returns the pin at the index and moves on.
NextVcpu ==
  /\ step = "up" /\ schedule_count > 0
  /\ current_index' = NextIndex
  /\ waiting' = [i \in Slots |->
                   IF i = current_index \/ i >= schedule_count THEN 0 ELSE waiting[i] + 1]
  /\ UNCHANGED <<machine, yaml, step, iommuVars, hw_bar0, vm2_mmio, table,
                 schedule_count>>
------------------------------------------------------------------------------
Next ==
  \/ ParseAcpiDmar \/ ScanNics \/ CreateDomains \/ ReinforceMapping \/ NewVm2
  \/ FromConfig \/ AddPin([vm_id |-> 1, vcpu_id |-> 1, pcpu |-> 1]) \/ NextVcpu

Spec == Init /\ [][Next]_vars
------------------------------------------------------------------------------
Domain == [vm_id : {0, 1}, base : 0 .. AddrSize - 1, limit : 0 .. AddrSize - 1]
Steps == {"dmar", "scan", "domains", "assign", "vm2", "scheduler", "up"}
Pin == [vm_id : {0, 1}, vcpu_id : {0, 1}, pcpu : {0, 1}]

TypeOK ==
  /\ machine \in Machines /\ yaml \in Yamls
  /\ step \in Steps
  /\ root \subseteq Buses
  /\ context \in [DevFns -> {None, 0, 1}] /\ translating \in BOOLEAN
  /\ domains \in [0 .. 3 -> Domain \cup {None}]
  /\ hw_bar0 \in 0 .. BarSize - 1 \cup {None} /\ vm2_mmio \subseteq 0 .. AddrSize - 1
  /\ table \in [Slots -> Pin]
  /\ schedule_count \in 0 .. TableSize /\ current_index \in Slots
  /\ waiting \in [Slots -> 0 .. TableSize]

\* What the build accepted passes the validation of config.rs, and the memory it
\* gives to the partitions is apart from that of the hypervisor and the shared
\* region.  Two things the build does not check are conditions here: that the
\* devices differ, and that partition 2 is no smaller than partition 1, whose
\* size both get.
AcceptedIsSafe ==
  /\ yaml.bdf[1] # yaml.bdf[2]
  /\ yaml.region["vm2"].size >= yaml.region["vm1"].size
  => /\ Validate(System)
     /\ \A p \in Partition : \A r \in {"hypervisor", "ipc"} :
          Bytes(System[p].ram) \cap Bytes(yaml.region[r]) = {}

\* The domain a device on a bus has its DMA checked in.
DomainOf(bus, x) == IF bus \in root THEN context[x] ELSE None
Windows == {w \in (0 .. AddrSize - 1) \X (1 .. AddrSize) : w[1] + w[2] < AddrSize}
Allowed(d) == {w \in Windows : ValidateDma(d, w[1], w[2])}
Within(r) == {w \in Windows : w[1] \in Bytes(r) /\ w[1] + w[2] - 1 \in Bytes(r)}

\* The configured devices, and no others, have a domain, and their DMA passes
\* validate_dma exactly in the memory of their own VM once that has a window,
\* never before.  All buses share one context table: this is so for two devices
\* of bus 0 that differ and have numbers that PCI knows.  And a window that ends behind
\* the last address is not among those compared.
DmaInside ==
  LET bdf == [p \in Partition |-> System[p].bdf]
  IN  /\ \A p \in Partition : bdf[p].bus = 0 /\ <<bdf[p].dev, bdf[p].fn>> \in DevFns
      /\ bdf[1] # bdf[2]
      => \A bus \in Buses, x \in DevFns :
           LET d == DomainOf(bus, x)
           IN  d # None =>
                 \E p \in Partition :
                   /\ bdf[p] = [bus |-> bus, dev |-> x[1], fn |-> x[2]]
                   /\ Allowed(d) = IF domains[d] = None THEN {} ELSE Within(machine.ram[p])

\* VM2 drives the card whose DMA is checked in its own domain and no other one,
\* if PCI and YAML agree: the configured devices are the first two cards on
\* bus 0, their BARs are below 4 GiB and no other card shares the large page.
CardsAsConfigured ==
  /\ \A p \in Partition :
       /\ System[p].bdf.bus = 0 /\ System[p].bdf.fn = 0
       /\ System[p].bdf.dev \in Known /\ Before(System[p].bdf.dev) = p - 1
  /\ \A d \in Known : machine.bar[d] < BarSize
  /\ \A d, e \in Known : d # e => LargePage(machine.bar[d]) # LargePage(machine.bar[e])
Vm2DrivesItsCard ==
  vm2_mmio # {} /\ CardsAsConfigured =>
    \A d \in Known :
      machine.bar[d] \in vm2_mmio <=> DomainOf(0, <<d, 0>>) = 1

\* No pin is passed over for a whole round, even if pins are added on the way,
\* and it is always a registered pin whose turn it is.
TurnsAreFair ==
  step = "up" =>
    /\ current_index < schedule_count
    /\ \A i \in 0 .. schedule_count - 1 : waiting[i] < schedule_count
------------------------------------------------------------------------------
(* The inductive invariant behind them.                                     *)

\* The first assignment fills the context table, the second changes nothing.
Assigned ==
  /\ root = IF step = "dmar" THEN {} ELSE {0} \cup {System[p].bdf.bus : p \in Partition}
  /\ context = [x \in DevFns |->
                  IF step = "dmar" THEN None
                  ELSE IF x = ContextEntry(System[2].bdf) THEN 1
                  ELSE IF x = ContextEntry(System[1].bdf) THEN 0 ELSE None]

Windowed ==
  domains = [d \in 0 .. 3 |->
               IF d + 1 \in Partition /\ step \in {"assign", "vm2", "scheduler", "up"}
               THEN [vm_id |-> d, base |-> machine.ram[d + 1].base,
                     limit |-> DomainLimit(machine.ram[d + 1])]
               ELSE None]

Carded ==
  /\ hw_bar0 = IF step \in {"dmar", "scan"} THEN None ELSE Found[0]
  /\ vm2_mmio = IF step \in {"scheduler", "up"} THEN Vm2Mmio ELSE {}

\* A pin waits as many turns as the index has moved since: those from the index
\* on have waited since the round before.
Turns ==
  /\ \A i \in current_index .. schedule_count - 1 :
       waiting[i] + (i - current_index) < schedule_count
  /\ \A i \in 0 .. current_index - 1 : waiting[i] + i < current_index
  /\ \A i \in schedule_count .. TableSize - 1 : waiting[i] = 0

Scheduled ==
  /\ table \in [Slots -> Pin] /\ waiting \in [Slots -> Nat]
  /\ IF step = "up"
     THEN schedule_count \in 2 .. TableSize /\ current_index \in 0 .. schedule_count - 1
     ELSE schedule_count = 0 /\ current_index = 0
  /\ Turns

BootInv ==
  /\ machine \in Machines /\ yaml \in Yamls /\ BuildAccepts(yaml)
  /\ step \in Steps /\ translating \in BOOLEAN
  /\ Assigned /\ Windowed /\ Carded /\ Scheduled
==============================================================================
