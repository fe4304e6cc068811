--------------------------------- MODULE Ept ---------------------------------
(***************************************************************************)
(* The second-level page tables of the two VMs (ept.rs) and the sequence   *)
(* of mapping calls that fills them at boot (VirtualMachine::new of vm.rs  *)
(* and Hypervisor::map_shared_ipc).                                        *)
(*                                                                         *)
(* Each VM owns one table of each kind, statics of the host, and every     *)
(* gigabyte links to the same page directory.  Addresses are numbers of    *)
(* 4 KiB pages.  A directory entry is empty, names one of the three page   *)
(* tables, or is a large page.  BARs have 32 bits, so one PML4 entry does. *)
(*                                                                         *)
(* MapMmioUnaligned, MapMmioAnew and SharePastTheEnd are mutated forms of  *)
(* the definition that follows them; nothing uses them.                    *)
(***************************************************************************)
EXTENDS Integers, FiniteSets

CONSTANTS
  Vm1, Vm2,  \* the two VMs
  PtSize,    \* entries of a page table, 512 in the code
  PdSize,    \* entries of the page directory, 512 in the code
  Gigs,      \* gigabytes a guest address can name
  MmioGpa,   \* where VM2 finds its card, page of 0x2000_0000
  IpcGpa,    \* where both find the shared region, page of 0xFE00_0000
  IpcPages,  \* its size
  Places     \* where firmware and PCI may have put things, see PlaceOK

Vms == {Vm1, Vm2}
PageTables == {"pt", "pt2", "pt_ipc"}
Absent == -1

GuestPages == 0 .. Gigs * PdSize * PtSize - 1
PtIdx(gpa) == gpa % PtSize
PdIdx(gpa) == (gpa \div PtSize) % PdSize
PdptIdx(gpa) == gpa \div (PtSize * PdSize)

Ram(p, vm) == p.ram[vm] .. p.ram[vm] + p.size - 1
Ipc(p) == p.ipc .. p.ipc + IpcPages - 1
LargePage(hpa) == (hpa \div PtSize) * PtSize
Card(p) == LargePage(p.bar) .. LargePage(p.bar) + PtSize - 1

\* Two partition buffers of one size and the buffer of the shared region,
\* statics of the loader, lie apart from each other.
BuffersOK(p) ==
  /\ p.ram \in [Vms -> Nat] /\ p.size \in Nat \ {0} /\ p.ipc \in Nat
  /\ Ram(p, Vm1) \cap Ram(p, Vm2) = {}
  /\ \A vm \in Vms : Ram(p, vm) \cap Ipc(p) = {}

\* The BAR is any 32-bit address: the scan cuts a longer one, makes one up when
\* it finds no second card and compares it with nothing, so the large page
\* around it may hold memory.
BarOK(p) == p.bar \in GuestPages

PlaceOK(p) == BuffersOK(p) /\ BarOK(p)

ASSUME EptAssumption ==
  /\ Vm1 # Vm2
  /\ PtSize \in Nat \ {0} /\ PdSize \in Nat \ {0} /\ Gigs \in Nat \ {0}
  /\ MmioGpa \in GuestPages /\ IpcGpa \in GuestPages
  /\ IpcPages \in 1 .. PtSize
  /\ PtIdx(IpcGpa) = 0 /\ PtIdx(MmioGpa) = 0
  /\ PdIdx(IpcGpa) \notin {0, 1} /\ PdIdx(MmioGpa) \notin {0, 1, PdIdx(IpcGpa)}
  /\ \A p \in Places : PlaceOK(p)

VARIABLES
  place,  \* the member of Places this boot has
  call,   \* the mapping call that comes next
  pdpt,   \* per VM, the gigabytes linked to its page directory
  pd,     \* per VM, the kind of each directory entry
  large,  \* per VM, the host page of each directory entry of kind "large"
  leaf    \* per VM and page table, the host page of each entry

tables == <<pdpt, pd, large, leaf>>
vars == <<place, call, tables>>

Init ==
  /\ place \in Places
  /\ call = "ram1"
  /\ pdpt = [vm \in Vms |-> {}]
  /\ pd = [vm \in Vms |-> [i \in 0 .. PdSize - 1 |-> "none"]]
  /\ large = [vm \in Vms |-> [i \in 0 .. PdSize - 1 |-> 0]]
  /\ leaf = [vm \in Vms |->
               [t \in PageTables |-> [j \in 0 .. PtSize - 1 |-> Absent]]]
-------------------------------------------------------------------------------
(***************************************************************************)
(* The calls of EptManager                                                 *)
(***************************************************************************)

\* The entry of table t for the guest page with index j in it.
RamLeaf(vm, t, j) ==
  LET page == IF t = "pt" THEN j ELSE PtSize + j
  IN  IF t # "pt_ipc" /\ page < place.size THEN place.ram[vm] + page ELSE Absent

\* map_region at guest address 0, as all callers have it: clears the tables,
\* then fills the two low ones as far as the memory goes.
MapRegion(vm) ==
  /\ pdpt' = [pdpt EXCEPT ![vm] = {0}]
  /\ pd' = [pd EXCEPT ![vm] =
              [i \in 0 .. PdSize - 1 |->
                 IF i = 0 THEN "pt"
                 ELSE IF i = 1 /\ place.size > PtSize THEN "pt2" ELSE "none"]]
  /\ leaf' = [leaf EXCEPT ![vm] =
                [t \in PageTables |->
                   [j \in 0 .. PtSize - 1 |-> RamLeaf(vm, t, j)]]]
  /\ UNCHANGED large

MapMmioUnaligned(vm, gpa) ==
  /\ pdpt' = [pdpt EXCEPT ![vm] = @ \cup {PdptIdx(gpa)}]
  /\ pd' = [pd EXCEPT ![vm][PdIdx(gpa)] = "large"]
  /\ large' = [large EXCEPT ![vm][PdIdx(gpa)] = place.bar]
  /\ UNCHANGED leaf

MapMmioAnew(vm, gpa) ==
  /\ pdpt' = [pdpt EXCEPT ![vm] = {PdptIdx(gpa)}]
  /\ pd' = [pd EXCEPT ![vm][PdIdx(gpa)] = "large"]
  /\ large' = [large EXCEPT ![vm][PdIdx(gpa)] = LargePage(place.bar)]
  /\ UNCHANGED leaf

\* map_mmio_passthrough of the card's BAR.
MapMmio(vm, gpa) ==
  /\ pdpt' = [pdpt EXCEPT ![vm] = @ \cup {PdptIdx(gpa)}]
  /\ pd' = [pd EXCEPT ![vm][PdIdx(gpa)] = "large"]
  /\ large' = [large EXCEPT ![vm][PdIdx(gpa)] = LargePage(place.bar)]
  /\ UNCHANGED leaf

SharePastTheEnd(vm) ==
  /\ pdpt' = [pdpt EXCEPT ![vm] = @ \cup {PdptIdx(IpcGpa)}]
  /\ pd' = [pd EXCEPT ![vm][PdIdx(IpcGpa)] = "pt_ipc"]
  /\ leaf' = [leaf EXCEPT ![vm]["pt_ipc"] =
                [j \in 0 .. PtSize - 1 |->
                   IF j <= IpcPages THEN place.ipc + j ELSE @[j]]]
  /\ UNCHANGED large

\* map_shared_region of the shared region.
MapShared(vm) ==
  /\ pdpt' = [pdpt EXCEPT ![vm] = @ \cup {PdptIdx(IpcGpa)}]
  /\ pd' = [pd EXCEPT ![vm][PdIdx(IpcGpa)] = "pt_ipc"]
  /\ leaf' = [leaf EXCEPT ![vm]["pt_ipc"] =
                [j \in 0 .. PtSize - 1 |->
                   IF j < IpcPages THEN place.ipc + j ELSE @[j]]]
  /\ UNCHANGED large

\* translate_gpa, the walk the processor makes too.
Translate(vm, gpa) ==
  LET i == PdIdx(gpa)
      j == PtIdx(gpa)
  IN  IF PdptIdx(gpa) \notin pdpt[vm] \/ pd[vm][i] = "none" THEN Absent
      ELSE IF pd[vm][i] = "large" THEN large[vm][i] + j
      ELSE leaf[vm][pd[vm][i]][j]
-------------------------------------------------------------------------------
(***************************************************************************)
(* The calls made at boot                                                  *)
(***************************************************************************)

Proceed(from, to) == call = from /\ call' = to /\ UNCHANGED place

\* VirtualMachine::new, once for each VM; only VM2 gets a card, at a fixed
\* guest address and where its BAR is.
NewVm1 == Proceed("ram1", "ram2") /\ MapRegion(Vm1)
NewVm2 == Proceed("ram2", "mmio") /\ MapRegion(Vm2)
PassThrough == Proceed("mmio", "bar") /\ MapMmio(Vm2, MmioGpa)
PassThroughBar == Proceed("bar", "ipc1") /\ MapMmio(Vm2, place.bar)

\* Hypervisor::map_shared_ipc.
Share1 == Proceed("ipc1", "ipc2") /\ MapShared(Vm1)
Share2 == Proceed("ipc2", "run") /\ MapShared(Vm2)

Next ==
  \/ NewVm1
  \/ NewVm2
  \/ PassThrough
  \/ PassThroughBar
  \/ Share1
  \/ Share2

Spec == Init /\ [][Next]_vars
-------------------------------------------------------------------------------
(***************************************************************************)
(* Properties                                                              *)
(***************************************************************************)

TypeOK ==
  /\ place \in Places
  /\ call \in {"ram1", "ram2", "mmio", "bar", "ipc1", "ipc2", "run"}
  /\ pdpt \in [Vms -> SUBSET (0 .. Gigs - 1)]
  /\ pd \in [Vms -> [0 .. PdSize - 1 -> PageTables \cup {"none", "large"}]]
  /\ large \in [Vms -> [0 .. PdSize - 1 -> Nat]]
  /\ leaf \in [Vms -> [PageTables -> [0 .. PtSize - 1 -> Nat \cup {Absent}]]]

\* All gigabytes share one page directory, so the card's BAR must not have the
\* directory index of low memory or of the shared region in any gigabyte.
BarIsClear == PdIdx(place.bar) \notin {0, 1, PdIdx(IpcGpa)}

\* Through whatever aliases of the shared page directory, at every moment of
\* the set-up and wherever the BAR is, VM1 reaches no memory of VM2, and what
\* both reach is of the shared region or, by the large page around the BAR
\* that VM2 is given whole, of that page.
OnlyIpcIsShared ==
  \A g1, g2 \in GuestPages :
    LET hpa == Translate(Vm1, g1)
    IN  hpa # Absent =>
          /\ hpa \notin Ram(place, Vm2)
          /\ hpa = Translate(Vm2, g2) => hpa \in Ipc(place) \cup Card(place)

\* The inductive invariant behind it: a VM reaches its own memory, the shared
\* region and, VM2 only, the large page of the card.
Reach(vm) ==
  Ram(place, vm) \cup Ipc(place)
    \cup (IF vm = Vm2 THEN Card(place) ELSE {})
LeavesOwn ==
  \A vm \in Vms, t \in PageTables, j \in 0 .. PtSize - 1 :
    leaf[vm][t][j] \in Ram(place, vm) \cup Ipc(place) \cup {Absent}
LargeOwn ==
  \A vm \in Vms, i \in 0 .. PdSize - 1 :
    pd[vm][i] = "large" => vm = Vm2 /\ large[vm][i] = LargePage(place.bar)
EptInv == TypeOK /\ LeavesOwn /\ LargeOwn

\* And what the calls so far have made of the tables, entry by entry.
Built(vm) == call \notin (IF vm = Vm1 THEN {"ram1"} ELSE {"ram1", "ram2"})
Shared(vm) == call \in (IF vm = Vm1 THEN {"ipc2", "run"} ELSE {"run"})
Carded(i) ==
  \/ i = PdIdx(MmioGpa) /\ call \in {"bar", "ipc1", "ipc2", "run"}
  \/ i = PdIdx(place.bar) /\ call \in {"ipc1", "ipc2", "run"}
Directories ==
  \A vm \in Vms, i \in 0 .. PdSize - 1 :
    /\ pd[vm][i] = "pt" <=> Built(vm) /\ i = 0
    /\ pd[vm][i] = "pt2" <=> Built(vm) /\ i = 1 /\ place.size > PtSize
    /\ pd[vm][i] = "pt_ipc" <=> Shared(vm) /\ i = PdIdx(IpcGpa)
    /\ pd[vm][i] = "large" <=> vm = Vm2 /\ Carded(i)
Gigabytes ==
  /\ \A vm \in Vms : /\ Built(vm) => 0 \in pdpt[vm]
                     /\ Shared(vm) => PdptIdx(IpcGpa) \in pdpt[vm]
  /\ call \in {"bar", "ipc1", "ipc2", "run"} => PdptIdx(MmioGpa) \in pdpt[Vm2]
  /\ call \in {"ipc1", "ipc2", "run"} => PdptIdx(place.bar) \in pdpt[Vm2]
Leaves ==
  \A vm \in Vms, j \in 0 .. PtSize - 1 :
    /\ Built(vm) => \A t \in {"pt", "pt2"} : leaf[vm][t][j] = RamLeaf(vm, t, j)
    /\ Shared(vm) /\ j < IpcPages => leaf[vm]["pt_ipc"][j] = place.ipc + j
EptLayout == Gigabytes /\ Leaves /\ (BarIsClear => Directories)

\* A later call leaves what earlier ones mapped where it was: "passthrough
\* must layer onto them" (ept.rs:272).
Builds(vm) == call = IF vm = Vm1 THEN "ram1" ELSE "ram2"
Layered ==
  \A vm \in Vms, g \in GuestPages :
    ~Builds(vm) /\ Translate(vm, g) # Absent =>
      Translate(vm, g)' = Translate(vm, g)
LayersKeep == [][BarIsClear => Layered]_vars

\* When the guests start, each finds its memory from 0 on, the shared region at
\* its address and VM2 the registers of its card at both of theirs.
MapsTheLayout ==
  call = "run" /\ BarIsClear =>
    /\ \A vm \in Vms :
         /\ \A i \in 0 .. place.size - 1 :
              i < 2 * PtSize => Translate(vm, i) = place.ram[vm] + i
         /\ \A i \in 0 .. IpcPages - 1 :
              Translate(vm, IpcGpa + i) = place.ipc + i
    /\ Translate(Vm2, place.bar) = place.bar
    /\ Translate(Vm2, MmioGpa + PtIdx(place.bar)) = place.bar
==============================================================================
