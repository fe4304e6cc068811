------------------------------ MODULE EptProofs ------------------------------
(***************************************************************************)
(* Type correctness of the second-level tables, and the isolation of the   *)
(* two VMs, for every size of the tables and every place of the memory.    *)
(***************************************************************************)
EXTENDS Ept, TLAPS

\* The three indices of a guest page are indices of their tables.
LEMMA IndexTypes ==
  ASSUME NEW gpa \in GuestPages
  PROVE  /\ PtIdx(gpa) \in 0 .. PtSize - 1
         /\ PdIdx(gpa) \in 0 .. PdSize - 1
         /\ PdptIdx(gpa) \in 0 .. Gigs - 1
<1> USE EptAssumption
<1>1. gpa \in Nat BY DEF GuestPages
<1>2. PtIdx(gpa) \in 0 .. PtSize - 1 BY <1>1 DEF PtIdx
<1>3. PdIdx(gpa) \in 0 .. PdSize - 1
  <2>1. gpa \div PtSize \in Int BY <1>1
  <2> QED BY <2>1 DEF PdIdx
<1>4. PdptIdx(gpa) \in 0 .. Gigs - 1
  <2> DEFINE n == PtSize * PdSize
             q == gpa \div n
  <2>1. n \in Nat \ {0} OBVIOUS
  <2>2. q \in Int /\ n * q <= gpa /\ q >= 0
    <3> HIDE DEF n
    <3> QED BY <1>1, <2>1
  <2>3. gpa < Gigs * n
    <3>1. Gigs * PdSize * PtSize = Gigs * n OBVIOUS
    <3> QED BY <1>1, <3>1, <2>1 DEF GuestPages
  <2>4. q < Gigs
    <3> HIDE DEF n, q
    <3>1. ASSUME q >= Gigs PROVE FALSE
      <4>1. n * q >= n * Gigs BY <3>1, <2>1, <2>2
      <4>2. n * Gigs = Gigs * n BY <2>1
      <4> QED BY <4>1, <4>2, <2>1, <2>2, <2>3, <1>1
    <3> QED BY <3>1, <2>2
  <2> QED BY <2>2, <2>4 DEF PdptIdx
<1> QED BY <1>2, <1>3, <1>4

\* What a possible place of memory and card gives to the calls.
LEMMA PlaceTypes ==
  ASSUME NEW p \in Places
  PROVE  /\ PlaceOK(p)
         /\ p.ram \in [Vms -> Nat] /\ p.size \in Nat \ {0} /\ p.ipc \in Nat
         /\ p.bar \in GuestPages /\ p.bar \in Nat
         /\ LargePage(p.bar) \in Nat
<1>1. PlaceOK(p) BY EptAssumption
<1>2. p.bar \in GuestPages /\ p.bar \in Nat
  BY <1>1 DEF PlaceOK, BarOK, GuestPages
<1>3. LargePage(p.bar) \in Nat
  <2>1. PtSize \in Nat /\ p.bar \div PtSize \in Nat BY <1>2, EptAssumption
  <2> QED BY <2>1 DEF LargePage
<1> QED BY <1>1, <1>2, <1>3 DEF PlaceOK, BuffersOK

\* The entry map_region computes is an own page, or none.
LEMMA RamLeafType ==
  ASSUME place \in Places, NEW vm \in Vms, NEW t \in PageTables,
         NEW j \in 0 .. PtSize - 1
  PROVE  /\ RamLeaf(vm, t, j) \in Ram(place, vm) \cup {Absent}
         /\ RamLeaf(vm, t, j) \in Nat \cup {Absent}
<1>1. place.ram[vm] \in Nat /\ place.size \in Nat BY PlaceTypes
<1>2. PtSize \in Nat BY EptAssumption
<1> QED BY <1>1, <1>2 DEF RamLeaf, Ram, Absent

LEMMA EptInitial == Init => EptInv
<1> SUFFICES ASSUME Init PROVE EptInv OBVIOUS
<1> USE DEF Init
<1>1. TypeOK BY DEF TypeOK, PageTables
<1>2. LeavesOwn BY DEF LeavesOwn
<1>3. LargeOwn BY DEF LargeOwn
<1> QED BY <1>1, <1>2, <1>3 DEF EptInv

\* Clearing the tables of a VM and mapping its memory.
LEMMA MapRegionKeeps ==
  ASSUME EptInv, NEW vm \in Vms, MapRegion(vm), UNCHANGED place,
         call' \in {"ram2", "mmio"}
  PROVE  EptInv'
<1> USE EptAssumption DEF EptInv, TypeOK
<1> DEFINE new == [t \in PageTables |->
                     [j \in 0 .. PtSize - 1 |-> RamLeaf(vm, t, j)]]
<1>1. new \in [PageTables -> [0 .. PtSize - 1 -> Nat \cup {Absent}]]
  BY RamLeafType
<1>2. TypeOK'
  <2>1. pdpt' \in [Vms -> SUBSET (0 .. Gigs - 1)] BY DEF MapRegion
  <2>2. pd' \in [Vms -> [0 .. PdSize - 1 -> PageTables \cup {"none", "large"}]]
    BY DEF MapRegion, PageTables
  <2>3. leaf' \in [Vms -> [PageTables -> [0 .. PtSize - 1 -> Nat \cup {Absent}]]]
    BY <1>1 DEF MapRegion
  <2>4. large' \in [Vms -> [0 .. PdSize - 1 -> Nat]] BY DEF MapRegion
  <2> QED BY <2>1, <2>2, <2>3, <2>4
<1>3. LeavesOwn'
  <2> SUFFICES ASSUME NEW v \in Vms, NEW t \in PageTables,
                      NEW j \in 0 .. PtSize - 1
               PROVE  leaf'[v][t][j] \in Ram(place, v) \cup Ipc(place) \cup {Absent}
    BY DEF LeavesOwn
  <2>1. CASE v = vm
    <3>1. leaf'[v][t][j] = RamLeaf(vm, t, j) BY <2>1 DEF MapRegion
    <3> QED BY <3>1, <2>1, RamLeafType
  <2>2. CASE v # vm
    <3>1. leaf'[v] = leaf[v] BY <2>2 DEF MapRegion
    <3> QED BY <3>1 DEF LeavesOwn
  <2> QED BY <2>1, <2>2
<1>4. LargeOwn'
  <2> SUFFICES ASSUME NEW v \in Vms, NEW i \in 0 .. PdSize - 1,
                      pd'[v][i] = "large"
               PROVE  v = Vm2 /\ large'[v][i] = LargePage(place.bar)
    BY DEF LargeOwn
  <2>1. v # vm BY DEF MapRegion
  <2>2. pd'[v] = pd[v] /\ large' = large BY <2>1 DEF MapRegion
  <2> QED BY <2>2 DEF LargeOwn
<1> QED BY <1>2, <1>3, <1>4

\* Handing the card to VM2.
LEMMA MapMmioKeeps ==
  ASSUME EptInv, NEW gpa \in GuestPages, MapMmio(Vm2, gpa), UNCHANGED place,
         call' \in {"bar", "ipc1"}
  PROVE  EptInv'
<1> USE EptAssumption DEF EptInv, TypeOK
<1>1. PdIdx(gpa) \in 0 .. PdSize - 1 /\ PdptIdx(gpa) \in 0 .. Gigs - 1
  BY IndexTypes
<1>2. LargePage(place.bar) \in Nat /\ Vm2 \in Vms BY PlaceTypes DEF Vms
<1>3. TypeOK'
  <2>1. pdpt' \in [Vms -> SUBSET (0 .. Gigs - 1)] BY <1>1 DEF MapMmio
  <2>2. pd' \in [Vms -> [0 .. PdSize - 1 -> PageTables \cup {"none", "large"}]]
    BY <1>1 DEF MapMmio
  <2>3. large' \in [Vms -> [0 .. PdSize - 1 -> Nat]] BY <1>1, <1>2 DEF MapMmio
  <2> QED BY <2>1, <2>2, <2>3 DEF MapMmio
<1>4. LeavesOwn' BY DEF MapMmio, LeavesOwn
<1>5. LargeOwn'
  <2> SUFFICES ASSUME NEW v \in Vms, NEW i \in 0 .. PdSize - 1,
                      pd'[v][i] = "large"
               PROVE  v = Vm2 /\ large'[v][i] = LargePage(place.bar)
    BY DEF LargeOwn
  <2>1. CASE v = Vm2 /\ i = PdIdx(gpa) BY <2>1, <1>1, <1>2 DEF MapMmio
  <2>2. CASE ~(v = Vm2 /\ i = PdIdx(gpa))
    <3>1. pd'[v][i] = pd[v][i] /\ large'[v][i] = large[v][i]
      BY <2>2, <1>1 DEF MapMmio
    <3> QED BY <3>1 DEF LargeOwn
  <2> QED BY <2>1, <2>2
<1> QED BY <1>3, <1>4, <1>5

\* Mapping the shared region.
LEMMA MapSharedKeeps ==
  ASSUME EptInv, NEW vm \in Vms, MapShared(vm), UNCHANGED place,
         call' \in {"ipc2", "run"}
  PROVE  EptInv'
<1> USE EptAssumption DEF EptInv, TypeOK
<1>1. PdIdx(IpcGpa) \in 0 .. PdSize - 1 /\ PdptIdx(IpcGpa) \in 0 .. Gigs - 1
  BY IndexTypes
<1>2. place.ipc \in Nat /\ IpcPages \in Nat BY PlaceTypes
<1>3. \A v \in Vms, t \in PageTables, j \in 0 .. PtSize - 1 :
        leaf'[v][t][j] = IF v = vm /\ t = "pt_ipc" /\ j < IpcPages
                         THEN place.ipc + j ELSE leaf[v][t][j]
  BY DEF MapShared, PageTables
<1>4. TypeOK'
  <2>1. pdpt' \in [Vms -> SUBSET (0 .. Gigs - 1)] BY <1>1 DEF MapShared
  <2>2. pd' \in [Vms -> [0 .. PdSize - 1 -> PageTables \cup {"none", "large"}]]
    BY <1>1 DEF MapShared, PageTables
  <2>3. leaf' \in [Vms -> [PageTables -> [0 .. PtSize - 1 -> Nat \cup {Absent}]]]
    <3>1. [j \in 0 .. PtSize - 1 |->
             IF j < IpcPages THEN place.ipc + j ELSE leaf[vm]["pt_ipc"][j]]
            \in [0 .. PtSize - 1 -> Nat \cup {Absent}]
      BY <1>2 DEF PageTables
    <3> QED BY <3>1 DEF MapShared, PageTables
  <2> QED BY <2>1, <2>2, <2>3 DEF MapShared
<1>5. LeavesOwn'
  <2> SUFFICES ASSUME NEW v \in Vms, NEW t \in PageTables,
                      NEW j \in 0 .. PtSize - 1
               PROVE  leaf'[v][t][j] \in Ram(place, v) \cup Ipc(place) \cup {Absent}
    BY DEF LeavesOwn
  <2> DEFINE old == leaf[v][t][j]
             new == leaf'[v][t][j]
  <2>1. old \in Ram(place, v) \cup Ipc(place) \cup {Absent}
    BY DEF LeavesOwn
  <2>2. new = IF v = vm /\ t = "pt_ipc" /\ j < IpcPages
              THEN place.ipc + j ELSE old
    BY <1>3
  <2>3. j < IpcPages => place.ipc + j \in Ipc(place) BY <1>2 DEF Ipc
  <2> HIDE DEF old, new
  <2>4. new \in Ram(place, v) \cup Ipc(place) \cup {Absent}
    BY <2>1, <2>2, <2>3
  <2> QED BY <2>4 DEF new
<1>6. LargeOwn'
  <2> SUFFICES ASSUME NEW v \in Vms, NEW i \in 0 .. PdSize - 1,
                      pd'[v][i] = "large"
               PROVE  v = Vm2 /\ large'[v][i] = LargePage(place.bar)
    BY DEF LargeOwn
  <2>1. pd[v][i] = "large" /\ large' = large BY <1>1 DEF MapShared
  <2> QED BY <2>1 DEF LargeOwn
<1> QED BY <1>4, <1>5, <1>6

LEMMA EptInvariant == Spec => []EptInv
<1>1. Init => EptInv BY EptInitial
<1>2. EptInv /\ [Next]_vars => EptInv'
  <2> SUFFICES ASSUME EptInv, [Next]_vars PROVE EptInv' OBVIOUS
  <2> USE DEF Proceed
  <2>1. Vm1 \in Vms /\ Vm2 \in Vms BY DEF Vms
  <2>2. CASE NewVm1 BY <2>1, <2>2, MapRegionKeeps DEF NewVm1
  <2>3. CASE NewVm2 BY <2>1, <2>3, MapRegionKeeps DEF NewVm2
  <2>4. CASE PassThrough
    <3>1. MmioGpa \in GuestPages BY EptAssumption
    <3> QED BY <2>4, <3>1, MapMmioKeeps DEF PassThrough
  <2>5. CASE PassThroughBar
    <3>1. place.bar \in GuestPages BY PlaceTypes DEF EptInv, TypeOK
    <3> QED BY <2>5, <3>1, MapMmioKeeps DEF PassThroughBar
  <2>6. CASE Share1 BY <2>1, <2>6, MapSharedKeeps DEF Share1
  <2>7. CASE Share2 BY <2>1, <2>7, MapSharedKeeps DEF Share2
  <2>8. CASE UNCHANGED vars
    BY <2>8 DEF vars, tables, EptInv, TypeOK, LeavesOwn, LargeOwn
  <2> QED BY <2>2, <2>3, <2>4, <2>5, <2>6, <2>7, <2>8 DEF Next
<1> QED BY <1>1, <1>2, PTL DEF Spec

\* The tables keep their types through the calls of the boot (ept.rs).
THEOREM EptTypeOK == Spec => []TypeOK
<1>1. EptInv => TypeOK BY DEF EptInv
<1> QED BY <1>1, EptInvariant, PTL

\* A guest page leads to own memory, the shared region, the card, or nowhere.
LEMMA TranslateReach ==
  ASSUME EptInv, NEW vm \in Vms, NEW gpa \in GuestPages,
         Translate(vm, gpa) # Absent
  PROVE  Translate(vm, gpa) \in Reach(vm)
<1> DEFINE i == PdIdx(gpa)
           j == PtIdx(gpa)
<1>1. i \in 0 .. PdSize - 1 /\ j \in 0 .. PtSize - 1 BY IndexTypes
<1> HIDE DEF i, j
<1>2. pd[vm][i] \in PageTables \cup {"none", "large"}
  <2>1. pd \in [Vms -> [0 .. PdSize - 1 -> PageTables \cup {"none", "large"}]]
    BY DEF EptInv, TypeOK
  <2> QED BY <1>1, <2>1
<1>3. CASE pd[vm][i] = "large"
  <2>1. vm = Vm2 /\ large[vm][i] = LargePage(place.bar)
    BY <1>1, <1>3 DEF EptInv, LargeOwn
  <2>2. Translate(vm, gpa) = LargePage(place.bar) + j
    BY <2>1, <1>3 DEF Translate, i, j
  <2>3. LargePage(place.bar) \in Nat BY PlaceTypes DEF EptInv, TypeOK
  <2>4. LargePage(place.bar) + j \in Card(place)
    BY <2>3, <1>1, EptAssumption DEF Card
  <2> QED BY <2>1, <2>2, <2>4 DEF Reach
<1>4. CASE pd[vm][i] \in PageTables
  <2>1. Translate(vm, gpa) = leaf[vm][pd[vm][i]][j]
    BY <1>4 DEF Translate, PageTables, i, j
  <2>2. leaf[vm][pd[vm][i]][j] \in Ram(place, vm) \cup Ipc(place) \cup {Absent}
    BY <1>1, <1>4 DEF EptInv, LeavesOwn
  <2> QED BY <2>1, <2>2 DEF Reach
<1>5. CASE pd[vm][i] = "none"
  BY <1>5 DEF Translate, i
<1> QED BY <1>2, <1>3, <1>4, <1>5

\* At every moment of the set-up and wherever the BAR is, VM1 reaches no memory
\* of VM2, and the two have the shared region in common and nothing else outside
\* the large page of the BAR (map_region, map_mmio_passthrough,
\* map_shared_region).
THEOREM EptOnlyIpcIsShared == Spec => []OnlyIpcIsShared
<1>1. EptInv => OnlyIpcIsShared
  <2> SUFFICES ASSUME EptInv, NEW g1 \in GuestPages, NEW g2 \in GuestPages,
                      Translate(Vm1, g1) # Absent
               PROVE  /\ Translate(Vm1, g1) \notin Ram(place, Vm2)
                      /\ Translate(Vm1, g1) = Translate(Vm2, g2) =>
                           Translate(Vm1, g1) \in Ipc(place) \cup Card(place)
    BY DEF OnlyIpcIsShared
  <2> DEFINE hpa == Translate(Vm1, g1)
  <2>1. Vm1 \in Vms /\ Vm2 \in Vms /\ Vm1 # Vm2
    BY EptAssumption DEF Vms
  <2>2. hpa \in Ram(place, Vm1) \cup Ipc(place)
    BY <2>1, TranslateReach DEF Reach
  <2>3. BuffersOK(place) BY PlaceTypes DEF EptInv, TypeOK, PlaceOK
  <2>4. hpa = Translate(Vm2, g2) => hpa \in Reach(Vm2)
    BY <2>1, TranslateReach
  <2> HIDE DEF hpa
  <2>5. hpa \notin Ram(place, Vm2) BY <2>1, <2>2, <2>3 DEF BuffersOK
  <2>6. hpa = Translate(Vm2, g2) => hpa \in Ipc(place) \cup Card(place)
    BY <2>4, <2>5 DEF Reach
  <2> QED BY <2>5, <2>6 DEF hpa
<1> QED BY <1>1, EptInvariant, PTL

\* The directory indices of what the layout names.
LEMMA LayoutIndices ==
  ASSUME EptInv
  PROVE  /\ {PdIdx(MmioGpa), PdIdx(place.bar), PdIdx(IpcGpa)} \subseteq 0 .. PdSize - 1
         /\ PdIdx(IpcGpa) \notin {0, 1} /\ PdIdx(MmioGpa) \notin {0, 1, PdIdx(IpcGpa)}
         /\ 0 \in 0 .. PdSize - 1 /\ 1 \in 0 .. PdSize - 1
         /\ {"pt", "pt2", "pt_ipc"} = PageTables /\ IpcPages \in 1 .. PtSize
<1>1. MmioGpa \in GuestPages /\ IpcGpa \in GuestPages /\ place.bar \in GuestPages
  BY EptAssumption, PlaceTypes DEF EptInv, TypeOK
<1>2. {PdIdx(MmioGpa), PdIdx(place.bar), PdIdx(IpcGpa)} \subseteq 0 .. PdSize - 1
  BY <1>1, IndexTypes
<1> HIDE DEF PageTables
<1>3. PdIdx(IpcGpa) \notin {0, 1} /\ PdIdx(MmioGpa) \notin {0, 1, PdIdx(IpcGpa)}
  BY EptAssumption
<1>4. 0 \in 0 .. PdSize - 1 /\ 1 \in 0 .. PdSize - 1
  BY <1>2, <1>3, EptAssumption
<1> QED BY <1>2, <1>3, <1>4, EptAssumption DEF PageTables

LEMMA LayoutInitial == Init => EptLayout
<1> SUFFICES ASSUME Init PROVE EptLayout
  OBVIOUS
<1>1. \A vm \in Vms : ~Built(vm) /\ ~Shared(vm)
  BY EptAssumption DEF Init, Built, Shared, Vms
<1>2. Gigabytes
  BY <1>1 DEF Init, Gigabytes
<1>3. Leaves
  BY <1>1 DEF Leaves
<1>4. Directories
  BY <1>1 DEF Init, Directories, Carded
<1> QED BY <1>2, <1>3, <1>4 DEF EptLayout

\* New tables of a VM.
LEMMA MapRegionLays ==
  ASSUME EptInv, EptLayout, NEW vm \in Vms, MapRegion(vm), UNCHANGED place, Builds(vm),
         call' = IF vm = Vm1 THEN "ram2" ELSE "mmio"
  PROVE  EptLayout'
<1> USE DEF EptInv, TypeOK
<1>1. \A v \in Vms : /\ ~Shared(v)' /\ ~Shared(v)
                     /\ v # vm => (Built(v)' <=> Built(v))
  BY EptAssumption DEF Builds, Vms, Shared, Built
<1>2. Built(vm)'
  BY EptAssumption DEF Builds, Vms, Built
<1>3. \A i : ~Carded(i)' /\ ~Carded(i)
  BY DEF Builds, Carded
<1>4. \A v \in Vms : v # vm => /\ pdpt'[v] = pdpt[v] /\ pd'[v] = pd[v]
                               /\ leaf'[v] = leaf[v]
  BY DEF MapRegion
<1>5. Gigabytes'
  <2>1. pdpt'[vm] = {0}
    BY DEF MapRegion
  <2>2. call' \notin {"bar", "ipc1", "ipc2", "run"}
    OBVIOUS
  <2> QED BY <1>1, <1>4, <2>1, <2>2 DEF EptLayout, Gigabytes
<1>6. Leaves'
  <2>1. \A t \in PageTables, j \in 0 .. PtSize - 1 : leaf'[vm][t][j] = RamLeaf(vm, t, j)
    BY DEF MapRegion
  <2>2. \A v \in Vms : \A t, j : RamLeaf(v, t, j)' = RamLeaf(v, t, j)
    BY DEF RamLeaf
  <2> HIDE DEF EptInv, TypeOK
  <2>3. ASSUME NEW v \in Vms, NEW j \in 0 .. PtSize - 1, Built(v)',
               NEW t \in {"pt", "pt2"}
        PROVE  leaf'[v][t][j] = RamLeaf(v, t, j)
    <3>1. t \in PageTables
      BY DEF PageTables
    <3>2. CASE v = vm
      BY <2>1, <3>1, <3>2
    <3>3. CASE v # vm
      BY <1>1, <1>4, <2>3, <3>3 DEF EptLayout, Leaves
    <3> QED BY <3>2, <3>3
  <2> QED BY <1>1, <2>2, <2>3 DEF Leaves
<1>7. ASSUME BarIsClear PROVE Directories'
  <2> SUFFICES ASSUME NEW v \in Vms, NEW i \in 0 .. PdSize - 1
               PROVE  /\ pd'[v][i] = "pt" <=> Built(v)' /\ i = 0
                      /\ pd'[v][i] = "pt2" <=> Built(v)' /\ i = 1 /\ place.size > PtSize
                      /\ pd'[v][i] \notin {"pt_ipc", "large"}
    BY <1>1, <1>3 DEF Directories
  <2>1. CASE v = vm
    <3>1. pd'[vm][i] = IF i = 0 THEN "pt"
                       ELSE IF i = 1 /\ place.size > PtSize THEN "pt2" ELSE "none"
      BY DEF MapRegion
    <3> QED BY <1>2, <2>1, <3>1
  <2>2. CASE v # vm
    <3>1. pd'[v][i] = pd[v][i]
      BY <1>4, <2>2
    <3> HIDE DEF EptInv, TypeOK
    <3>2. /\ pd[v][i] = "pt" <=> Built(v) /\ i = 0
          /\ pd[v][i] = "pt2" <=> Built(v) /\ i = 1 /\ place.size > PtSize
          /\ pd[v][i] \notin {"pt_ipc", "large"}
      BY <1>1, <1>3, <1>7 DEF EptLayout, Directories
    <3> QED BY <1>1, <2>2, <3>1, <3>2
  <2> QED BY <2>1, <2>2
<1> QED BY <1>5, <1>6, <1>7 DEF EptLayout, BarIsClear

\* The card of VM2, at either address.
LEMMA MapMmioLays ==
  ASSUME EptInv, EptLayout, NEW gpa \in GuestPages, MapMmio(Vm2, gpa), UNCHANGED place,
         \/ call = "mmio" /\ call' = "bar" /\ gpa = MmioGpa
         \/ call = "bar" /\ call' = "ipc1" /\ gpa = place.bar
  PROVE  EptLayout'
<1> USE DEF EptInv, TypeOK
<1>0. Vm2 \in Vms /\ PdIdx(gpa) \in 0 .. PdSize - 1
  BY IndexTypes DEF Vms
<1>1. \A v \in Vms : Built(v)' /\ Built(v) /\ ~Shared(v)' /\ ~Shared(v)
  BY EptAssumption DEF Vms, Shared, Built
<1>2. \A i : Carded(i)' <=> Carded(i) \/ i = PdIdx(gpa)
  BY DEF Carded
<1>3. UNCHANGED leaf /\ \A v \in Vms : pdpt[v] \subseteq pdpt'[v]
  BY DEF MapMmio
<1>4. Gigabytes'
  <2>1. PdptIdx(gpa) \in pdpt'[Vm2]
    BY <1>0 DEF MapMmio
  <2> QED BY <1>0, <1>1, <1>3, <2>1 DEF EptLayout, Gigabytes
<1>5. Leaves'
  BY <1>1, <1>3 DEF EptLayout, Leaves, RamLeaf
<1>6. ASSUME BarIsClear PROVE Directories'
  <2> SUFFICES ASSUME NEW v \in Vms, NEW i \in 0 .. PdSize - 1
               PROVE  /\ pd'[v][i] = "pt" <=> i = 0
                      /\ pd'[v][i] = "pt2" <=> i = 1 /\ place.size > PtSize
                      /\ pd'[v][i] # "pt_ipc"
                      /\ pd'[v][i] = "large" <=> v = Vm2 /\ Carded(i)'
    BY <1>1 DEF Directories
  <2>1. /\ pd[v][i] = "pt" <=> i = 0
        /\ pd[v][i] = "pt2" <=> i = 1 /\ place.size > PtSize
        /\ pd[v][i] # "pt_ipc"
        /\ pd[v][i] = "large" <=> v = Vm2 /\ Carded(i)
    BY <1>1, <1>6 DEF EptLayout, Directories
  <2>2. pd'[v][i] = IF v = Vm2 /\ i = PdIdx(gpa) THEN "large" ELSE pd[v][i]
    BY <1>0 DEF MapMmio
  <2>3. PdIdx(gpa) \notin {0, 1}
    BY <1>6, LayoutIndices DEF BarIsClear
  <2> HIDE DEF EptInv, TypeOK
  <2> QED BY <1>2, <2>1, <2>2, <2>3
<1> QED BY <1>4, <1>5, <1>6 DEF EptLayout, BarIsClear

\* The shared region of a VM.
LEMMA MapSharedLays ==
  ASSUME EptInv, EptLayout, NEW vm \in Vms, MapShared(vm), UNCHANGED place,
         call = IF vm = Vm1 THEN "ipc1" ELSE "ipc2",
         call' = IF vm = Vm1 THEN "ipc2" ELSE "run"
  PROVE  EptLayout'
<1> USE DEF EptInv, TypeOK
<1>1. \A v \in Vms : /\ Built(v)' /\ Built(v)
                     /\ v # vm => (Shared(v)' <=> Shared(v))
  BY EptAssumption DEF Vms, Shared, Built
<1>2. Shared(vm)' /\ ~Shared(vm)
  BY EptAssumption DEF Vms, Shared
<1>3. \A i : Carded(i)' <=> Carded(i)
  BY DEF Carded
<1>4. Gigabytes'
  <2>1. PdptIdx(IpcGpa) \in pdpt'[vm] /\ \A v \in Vms : pdpt[v] \subseteq pdpt'[v]
    BY DEF MapShared
  <2>2. call \in {"ipc1", "ipc2"}
    OBVIOUS
  <2> HIDE DEF EptInv, TypeOK
  <2>3. PdptIdx(MmioGpa) \in pdpt[Vm2] /\ PdptIdx(place.bar) \in pdpt[Vm2]
    BY <2>2 DEF EptLayout, Gigabytes
  <2>4. ASSUME NEW v \in Vms
        PROVE  /\ 0 \in pdpt'[v]
               /\ Shared(v)' => PdptIdx(IpcGpa) \in pdpt'[v]
    <3>1. pdpt[v] \subseteq pdpt'[v] /\ Built(v)
      BY <1>1, <2>1
    <3>5. \A w \in Vms : /\ Built(w) => 0 \in pdpt[w]
                         /\ Shared(w) => PdptIdx(IpcGpa) \in pdpt[w]
      BY DEF EptLayout, Gigabytes
    <3>4. /\ Built(v) => 0 \in pdpt[v]
          /\ Shared(v) => PdptIdx(IpcGpa) \in pdpt[v]
      BY ONLY <3>5, v \in Vms
    <3>2. 0 \in pdpt[v] /\ (Shared(v) => PdptIdx(IpcGpa) \in pdpt[v])
      BY ONLY <3>1, <3>4
    <3>3. Shared(v)' => v = vm \/ Shared(v)
      BY <1>1
    <3> QED BY <2>1, <3>1, <3>2, <3>3
  <2>5. Vm2 \in Vms
    BY DEF Vms
  <2>6. PdptIdx(MmioGpa) \in pdpt'[Vm2] /\ PdptIdx(place.bar) \in pdpt'[Vm2]
    BY <2>1, <2>3, <2>5
  <2> QED BY <2>4, <2>6 DEF Gigabytes
<1>5. Leaves'
  <2>1. \A v \in Vms, t \in PageTables, j \in 0 .. PtSize - 1 :
          leaf'[v][t][j] = IF v = vm /\ t = "pt_ipc" /\ j < IpcPages
                           THEN place.ipc + j ELSE leaf[v][t][j]
    BY DEF MapShared, PageTables
  <2>2. \A v \in Vms : \A t, j : RamLeaf(v, t, j)' = RamLeaf(v, t, j)
    BY DEF RamLeaf
  <2>3. ASSUME NEW v \in Vms, NEW j \in 0 .. PtSize - 1, NEW t \in {"pt", "pt2"}
        PROVE  leaf'[v][t][j] = RamLeaf(v, t, j)
    <3>1. t \in PageTables /\ t # "pt_ipc"
      BY DEF PageTables
    <3>2. leaf'[v][t][j] = leaf[v][t][j]
      BY <2>1, <3>1
    <3> HIDE DEF EptInv, TypeOK
    <3>3. leaf[v][t][j] = RamLeaf(v, t, j)
      BY <1>1 DEF EptLayout, Leaves
    <3> QED BY <3>2, <3>3
  <2>4. ASSUME NEW v \in Vms, NEW j \in 0 .. PtSize - 1, Shared(v)', j < IpcPages
        PROVE  leaf'[v]["pt_ipc"][j] = place.ipc + j
    <3>0. "pt_ipc" \in PageTables
      BY DEF PageTables
    <3>1. CASE v = vm
      BY <2>1, <2>4, <3>0, <3>1
    <3>2. CASE v # vm
      <4> HIDE DEF EptInv, TypeOK
      <4>1. leaf'[v]["pt_ipc"][j] = leaf[v]["pt_ipc"][j] /\ Shared(v)
        BY <1>1, <2>1, <2>4, <3>0, <3>2
      <4> QED BY <2>4, <4>1 DEF EptLayout, Leaves
    <3> QED BY <3>1, <3>2
  <2> QED BY <2>2, <2>3, <2>4 DEF Leaves
<1>6. ASSUME BarIsClear PROVE Directories'
  <2> SUFFICES ASSUME NEW v \in Vms, NEW i \in 0 .. PdSize - 1
               PROVE  /\ pd'[v][i] = "pt" <=> i = 0
                      /\ pd'[v][i] = "pt2" <=> i = 1 /\ place.size > PtSize
                      /\ pd'[v][i] = "pt_ipc" <=> Shared(v)' /\ i = PdIdx(IpcGpa)
                      /\ pd'[v][i] = "large" <=> v = Vm2 /\ Carded(i)
    BY <1>1, <1>3 DEF Directories
  <2>1. /\ pd[v][i] = "pt" <=> i = 0
        /\ pd[v][i] = "pt2" <=> i = 1 /\ place.size > PtSize
        /\ pd[v][i] = "pt_ipc" <=> Shared(v) /\ i = PdIdx(IpcGpa)
        /\ pd[v][i] = "large" <=> v = Vm2 /\ Carded(i)
    BY <1>1, <1>6 DEF EptLayout, Directories
  <2>2. pd'[v][i] = IF v = vm /\ i = PdIdx(IpcGpa) THEN "pt_ipc" ELSE pd[v][i]
    BY LayoutIndices DEF MapShared
  <2>3. PdIdx(IpcGpa) \notin {0, 1} /\ ~Carded(PdIdx(IpcGpa))
    BY <1>6, LayoutIndices DEF BarIsClear, Carded
  <2> HIDE DEF EptInv, TypeOK
  <2> QED BY <1>1, <1>2, <2>1, <2>2, <2>3
<1> QED BY <1>4, <1>5, <1>6 DEF EptLayout, BarIsClear

LEMMA EptLayoutInvariant == Spec => [](EptInv /\ EptLayout)
<1>1. Init => EptLayout
  BY LayoutInitial
<1>2. EptInv /\ EptLayout /\ [Next]_vars => EptLayout'
  <2> SUFFICES ASSUME EptInv, EptLayout, [Next]_vars PROVE EptLayout'
    OBVIOUS
  <2> USE DEF Proceed
  <2>1. Vm1 \in Vms /\ Vm2 \in Vms /\ Vm1 # Vm2
    BY EptAssumption DEF Vms
  <2>2. CASE NewVm1  BY <2>1, <2>2, MapRegionLays DEF NewVm1, Builds
  <2>3. CASE NewVm2  BY <2>1, <2>3, MapRegionLays DEF NewVm2, Builds
  <2>4. CASE PassThrough
    <3>1. MmioGpa \in GuestPages
      BY EptAssumption
    <3> QED BY <2>4, <3>1, MapMmioLays DEF PassThrough
  <2>5. CASE PassThroughBar
    <3>1. place.bar \in GuestPages
      BY PlaceTypes DEF EptInv, TypeOK
    <3> QED BY <2>5, <3>1, MapMmioLays DEF PassThroughBar
  <2>6. CASE Share1  BY <2>1, <2>6, MapSharedLays DEF Share1
  <2>7. CASE Share2  BY <2>1, <2>7, MapSharedLays DEF Share2
  <2>8. CASE UNCHANGED vars
    BY <2>8 DEF vars, tables, EptLayout, Gigabytes, Leaves, Directories, BarIsClear,
                Built, Shared, Carded, RamLeaf
  <2> QED BY <2>2, <2>3, <2>4, <2>5, <2>6, <2>7, <2>8 DEF Next
<1> QED BY <1>1, <1>2, EptInvariant, PTL DEF Spec

\* A translation stays if what it goes through does.
LEMMA TranslateStays ==
  ASSUME EptInv, NEW vm \in Vms, NEW gpa \in GuestPages, Translate(vm, gpa) # Absent,
         NEW i, i = PdIdx(gpa), pdpt[vm] \subseteq pdpt'[vm],
         pd'[vm][i] = pd[vm][i], pd[vm][i] = "large" => large'[vm][i] = large[vm][i],
         \A j \in 0 .. PtSize - 1 :
           pd[vm][i] \in PageTables => leaf'[vm][pd[vm][i]][j] = leaf[vm][pd[vm][i]][j]
  PROVE  Translate(vm, gpa)' = Translate(vm, gpa)
<1> DEFINE j == PtIdx(gpa)
<1>1. i \in 0 .. PdSize - 1 /\ j \in 0 .. PtSize - 1
  BY IndexTypes
<1> HIDE DEF j
<1>2. pd[vm][i] \in PageTables \cup {"none", "large"}
  <2>1. pd \in [Vms -> [0 .. PdSize - 1 -> PageTables \cup {"none", "large"}]]
    BY DEF EptInv, TypeOK
  <2> QED BY <1>1, <2>1
<1>3. PdptIdx(gpa) \in pdpt[vm] /\ pd[vm][i] # "none"
  BY DEF Translate
<1>4. Translate(vm, gpa) = IF pd[vm][i] = "large" THEN large[vm][i] + j
                           ELSE leaf[vm][pd[vm][i]][j]
  BY <1>3 DEF Translate, j
<1>5. Translate(vm, gpa)' = IF pd[vm][i] = "large" THEN large'[vm][i] + j
                            ELSE leaf'[vm][pd[vm][i]][j]
  BY <1>3 DEF Translate, j
<1> QED BY <1>1, <1>2, <1>3, <1>4, <1>5

LEMMA StepKeepsLayers ==
  EptInv /\ EptLayout /\ [Next]_vars /\ BarIsClear => Layered
<1> SUFFICES ASSUME EptInv, EptLayout, [Next]_vars, BarIsClear PROVE Layered
  OBVIOUS
<1> SUFFICES ASSUME NEW vm \in Vms, NEW gpa \in GuestPages, ~Builds(vm),
                    Translate(vm, gpa) # Absent
             PROVE  Translate(vm, gpa)' = Translate(vm, gpa)
  BY DEF Layered
<1> DEFINE i == PdIdx(gpa)
<1>0. i \in 0 .. PdSize - 1 /\ pd[vm][i] # "none"
  BY IndexTypes DEF Translate
<1>1. pd[vm][i] \in PageTables \cup {"large"}
  <2>1. pd \in [Vms -> [0 .. PdSize - 1 -> PageTables \cup {"none", "large"}]]
    BY DEF EptInv, TypeOK
  <2> HIDE DEF i
  <2> QED BY <1>0, <2>1
<1>2. /\ pd[vm][i] = "pt" <=> Built(vm) /\ i = 0
      /\ pd[vm][i] = "pt2" <=> Built(vm) /\ i = 1 /\ place.size > PtSize
      /\ pd[vm][i] = "pt_ipc" <=> Shared(vm) /\ i = PdIdx(IpcGpa)
      /\ pd[vm][i] = "large" <=> vm = Vm2 /\ Carded(i)
  BY <1>0 DEF EptLayout, Directories
<1>3. Vm1 # Vm2 /\ Vms = {Vm1, Vm2}
  BY EptAssumption DEF Vms
<1>4. CASE /\ pdpt[vm] \subseteq pdpt'[vm] /\ pd'[vm][i] = pd[vm][i]
           /\ pd[vm][i] = "large" => large'[vm][i] = large[vm][i]
           /\ \A j \in 0 .. PtSize - 1 : pd[vm][i] \in PageTables =>
                leaf'[vm][pd[vm][i]][j] = leaf[vm][pd[vm][i]][j]
  <2> HIDE DEF i
  <2> QED BY <1>4, TranslateStays DEF i
<1>5. CASE NewVm1 \/ NewVm2
  <2>1. /\ large' = large
        /\ pdpt'[vm] = pdpt[vm] /\ pd'[vm] = pd[vm] /\ leaf'[vm] = leaf[vm]
    BY <1>3, <1>5 DEF NewVm1, NewVm2, Proceed, MapRegion, Builds, EptInv, TypeOK
  <2> QED BY <1>4, <2>1
<1>6. ASSUME NEW g \in {MmioGpa, place.bar}, MapMmio(Vm2, g), call \in {"mmio", "bar"}
      PROVE  Translate(vm, gpa)' = Translate(vm, gpa)
  <2>1. UNCHANGED leaf /\ pdpt[vm] \subseteq pdpt'[vm]
    BY <1>6 DEF MapMmio, EptInv, TypeOK
  <2>2. CASE vm = Vm2 /\ i = PdIdx(g)
    <3>1. i \notin {0, 1}
      BY <1>6, <2>2, LayoutIndices DEF BarIsClear
    <3>2. ~Shared(vm)
      BY <1>6 DEF Shared
    <3>3. pd[vm][i] = "large"
      BY <1>1, <1>2, <3>1, <3>2 DEF PageTables
    <3>4. large[vm][i] = LargePage(place.bar)
      BY <1>0, <3>3 DEF EptInv, LargeOwn
    <3>5. pd'[vm][i] = "large" /\ large'[vm][i] = LargePage(place.bar)
      BY <1>0, <1>6, <2>2 DEF MapMmio, EptInv, TypeOK
    <3> QED BY <1>4, <2>1, <3>3, <3>4, <3>5
  <2>3. CASE ~(vm = Vm2 /\ i = PdIdx(g))
    <3>1. pd'[vm][i] = pd[vm][i] /\ large'[vm][i] = large[vm][i]
      BY <1>0, <1>6, <2>3 DEF MapMmio, EptInv, TypeOK
    <3> QED BY <1>4, <2>1, <3>1
  <2> QED BY <2>2, <2>3
<1>7. ASSUME NEW v \in Vms, MapShared(v),
             call = IF v = Vm1 THEN "ipc1" ELSE "ipc2"
      PROVE  Translate(vm, gpa)' = Translate(vm, gpa)
  <2>1. UNCHANGED large /\ pdpt[vm] \subseteq pdpt'[vm]
    BY <1>7 DEF MapShared, EptInv, TypeOK
  <2>2. ~Shared(v)
    BY <1>3, <1>7 DEF Shared
  <2>3. v = vm => pd[vm][i] # "pt_ipc" /\ i # PdIdx(IpcGpa)
    <3>1. ASSUME i = PdIdx(IpcGpa) PROVE i \notin {0, 1} /\ ~Carded(i)
      BY <3>1, LayoutIndices DEF BarIsClear, Carded
    <3> QED BY <1>1, <1>2, <2>2, <3>1 DEF PageTables
  <2>4. pd'[vm][i] = pd[vm][i]
    BY <1>0, <1>7, <2>3 DEF MapShared, EptInv, TypeOK
  <2>5. \A j \in 0 .. PtSize - 1 : pd[vm][i] \in PageTables =>
          leaf'[vm][pd[vm][i]][j] = leaf[vm][pd[vm][i]][j]
    BY <1>7, <2>3 DEF MapShared, EptInv, TypeOK, PageTables
  <2> QED BY <1>4, <2>1, <2>4, <2>5
<1>8. CASE UNCHANGED vars
  BY <1>8 DEF vars, tables, Translate
<1> QED BY <1>3, <1>5, <1>6, <1>7, <1>8
        DEF Next, PassThrough, PassThroughBar, Share1, Share2, Proceed

\* No call of the boot undoes an earlier one, if the BAR leaves the directory
\* entries of the memory and of the shared region alone (ept.rs:272).
THEOREM EptLayersKeep == Spec => LayersKeep
<1>1. EptInv /\ EptLayout /\ [Next]_vars => (BarIsClear => Layered)
  BY StepKeepsLayers
<1> QED BY <1>1, EptLayoutInvariant, PTL DEF Spec, LayersKeep

\* What a division gives, and that it is the only such number.
LEMMA DivisionIs ==
  ASSUME NEW d \in Nat \ {0}, NEW k \in Nat, NEW r \in 0 .. d - 1, NEW a \in Nat,
         a = d * k + r
  PROVE  a \div d = k /\ a % d = r
<1> DEFINE q == a \div d
           m == a % d
<1>1. q \in Int /\ m \in 0 .. d - 1 /\ a = d * q + m
  OBVIOUS
<1> HIDE DEF q, m
<1>2. ~(q >= k + 1)
  <2> SUFFICES ASSUME q >= k + 1 PROVE FALSE
    OBVIOUS
  <2>1. d * q >= d * (k + 1)
    BY <1>1
  <2>2. d * (k + 1) = d * k + d
    OBVIOUS
  <2> QED BY <1>1, <2>1, <2>2
<1>3. ~(k >= q + 1)
  <2> SUFFICES ASSUME k >= q + 1 PROVE FALSE
    OBVIOUS
  <2>1. d * k >= d * (q + 1)
    BY <1>1
  <2>2. d * (q + 1) = d * q + d
    BY <1>1
  <2> QED BY <1>1, <2>1, <2>2
<1>4. q = k
  BY <1>1, <1>2, <1>3
<1> QED BY <1>1, <1>4 DEF q, m

LEMMA DivisionBack ==
  ASSUME NEW d \in Nat \ {0}, NEW a \in Nat
  PROVE  (a \div d) * d + (a % d) = a
OBVIOUS

\* Two divisions are one.
LEMMA DivisionTwice ==
  ASSUME NEW a \in Nat, NEW m \in Nat \ {0}, NEW n \in Nat \ {0}
  PROVE  (a \div m) \div n = a \div (m * n)
<1> DEFINE q == a \div m
           s == a % m
           k == q \div n
           t == q % n
<1>1. q \in Nat /\ s \in 0 .. m - 1 /\ a = m * q + s
  OBVIOUS
<1> HIDE DEF q, s
<1>2. k \in Nat /\ t \in 0 .. n - 1 /\ q = n * k + t
  BY <1>1
<1> HIDE DEF k, t
<1>3. a = (m * n) * k + (m * t + s)
  <2>1. m * (n * k + t) = (m * n) * k + m * t
    BY <1>2
  <2> QED BY <1>1, <1>2, <2>1
<1>4. m * t + s \in 0 .. m * n - 1
  <2>1. m * t <= m * (n - 1) /\ m * t >= 0 /\ m * t \in Int
    BY <1>2
  <2>2. m * (n - 1) = m * n - m
    OBVIOUS
  <2> QED BY <1>1, <2>1, <2>2
<1>5. m * n \in Nat \ {0}
  OBVIOUS
<1>6. a \div (m * n) = k
  <2> DEFINE d == m * n
             t2 == m * t + s
  <2>1. d \in Nat \ {0} /\ t2 \in 0 .. d - 1 /\ a = d * k + t2
    BY <1>3, <1>4, <1>5
  <2> HIDE DEF d, t2
  <2>2. a \div d = k
    BY ONLY <1>2, <2>1, a \in Nat, DivisionIs
  <2> QED BY ONLY <2>2 DEF d
<1> QED BY <1>6 DEF k, q

\* Where a guest page is in the tables: page j of what entry e of the directory
\* of gigabyte G covers.
LEMMA IndicesOf ==
  ASSUME NEW gpa \in Nat, NEW e \in Nat, NEW j \in 0 .. PtSize - 1,
         gpa = PtSize * e + j
  PROVE  PtIdx(gpa) = j /\ PdIdx(gpa) = e % PdSize /\ PdptIdx(gpa) = e \div PdSize
<1> USE EptAssumption
<1>1. gpa \div PtSize = e /\ gpa % PtSize = j
  BY DivisionIs
<1>2. gpa \div (PtSize * PdSize) = (gpa \div PtSize) \div PdSize
  BY DivisionTwice
<1> QED BY <1>1, <1>2 DEF PtIdx, PdIdx, PdptIdx

LEMMA SameLargePage ==
  ASSUME NEW base \in Nat, PtIdx(base) = 0, NEW i \in 0 .. PtSize - 1
  PROVE  /\ PtIdx(base + i) = i /\ PdIdx(base + i) = PdIdx(base)
         /\ PdptIdx(base + i) = PdptIdx(base)
<1> USE EptAssumption
<1> DEFINE e == base \div PtSize
<1>1. e \in Nat /\ base = PtSize * e + 0
  BY DEF PtIdx
<1> HIDE DEF e
<1>2. base + i \in Nat /\ base + i = PtSize * e + i /\ 0 \in 0 .. PtSize - 1
  BY <1>1
<1>3. PdIdx(base) = e % PdSize /\ PdptIdx(base) = e \div PdSize
  BY ONLY <1>1, <1>2, IndicesOf
<1> QED BY ONLY <1>1, <1>2, <1>3, IndicesOf

LEMMA TheLayoutIsMapped == EptInv /\ EptLayout => MapsTheLayout
<1> SUFFICES ASSUME EptInv, EptLayout PROVE MapsTheLayout
  OBVIOUS
<1> SUFFICES ASSUME call = "run", BarIsClear
             PROVE  /\ \A vm \in Vms :
                         /\ \A i \in 0 .. place.size - 1 :
                              i < 2 * PtSize => Translate(vm, i) = place.ram[vm] + i
                         /\ \A i \in 0 .. IpcPages - 1 :
                              Translate(vm, IpcGpa + i) = place.ipc + i
                    /\ Translate(Vm2, place.bar) = place.bar
                    /\ Translate(Vm2, MmioGpa + PtIdx(place.bar)) = place.bar
  BY DEF MapsTheLayout
<1>1. /\ PtSize \in Nat \ {0} /\ PdSize \in Nat \ {0} /\ Vm2 \in Vms
      /\ place.bar \in Nat /\ place.bar \in GuestPages /\ place.size \in Nat
      /\ MmioGpa \in Nat /\ IpcGpa \in Nat
  BY EptAssumption, PlaceTypes DEF EptInv, TypeOK, Vms, GuestPages
<1>2. /\ PtIdx(IpcGpa) = 0 /\ PtIdx(MmioGpa) = 0 /\ IpcPages \in 1 .. PtSize
      /\ PdIdx(IpcGpa) \notin {0, 1}
  BY EptAssumption
<1>3. \A vm \in Vms : Built(vm) /\ Shared(vm)
  BY DEF Built, Shared
<1>4. \A vm \in Vms :
        /\ pd[vm][0] = "pt" /\ (place.size > PtSize => pd[vm][1] = "pt2")
        /\ pd[vm][PdIdx(IpcGpa)] = "pt_ipc"
  BY <1>3, LayoutIndices DEF EptLayout, Directories
<1>5. pd[Vm2][PdIdx(MmioGpa)] = "large" /\ pd[Vm2][PdIdx(place.bar)] = "large"
  <2>1. Carded(PdIdx(MmioGpa)) /\ Carded(PdIdx(place.bar))
    BY DEF Carded
  <2> QED BY <1>1, <2>1, LayoutIndices DEF EptLayout, Directories
<1>6. /\ \A vm \in Vms : 0 \in pdpt[vm] /\ PdptIdx(IpcGpa) \in pdpt[vm]
      /\ PdptIdx(MmioGpa) \in pdpt[Vm2] /\ PdptIdx(place.bar) \in pdpt[Vm2]
  BY <1>3 DEF EptLayout, Gigabytes
<1>7. \A vm \in Vms, j \in 0 .. PtSize - 1 :
        /\ leaf[vm]["pt"][j] = RamLeaf(vm, "pt", j)
        /\ leaf[vm]["pt2"][j] = RamLeaf(vm, "pt2", j)
        /\ j < IpcPages => leaf[vm]["pt_ipc"][j] = place.ipc + j
  BY <1>3 DEF EptLayout, Leaves
<1>8. ASSUME NEW vm \in Vms, NEW i \in 0 .. place.size - 1, i < 2 * PtSize
      PROVE  Translate(vm, i) = place.ram[vm] + i
  <2>1. CASE i < PtSize
    <3>1. i = PtSize * 0 + i /\ i \in Nat /\ i \in 0 .. PtSize - 1 /\ 0 \in Nat
      BY <1>1, <2>1
    <3>2. 0 % PdSize = 0 /\ 0 \div PdSize = 0
      BY <1>1
    <3>3. PtIdx(i) = i /\ PdIdx(i) = 0 /\ PdptIdx(i) = 0
      BY ONLY <3>1, <3>2, IndicesOf
    <3>4. Translate(vm, i) = leaf[vm]["pt"][i]
      BY <1>4, <1>6, <3>3 DEF Translate
    <3> QED BY <1>1, <1>7, <3>1, <3>4 DEF RamLeaf
  <2>2. CASE ~(i < PtSize)
    <3> DEFINE j == i - PtSize
    <3>1. /\ i = PtSize * 1 + j /\ i \in Nat /\ j \in 0 .. PtSize - 1 /\ 1 \in Nat
          /\ place.size > PtSize /\ PtSize + j = i
      BY <1>1, <1>8, <2>2
    <3>2. 1 % PdSize = 1 /\ 1 \div PdSize = 0
      <4>1. 1 \in 0 .. PdSize - 1
        BY <1>1, LayoutIndices
      <4>2. 1 = PdSize * 0 + 1 /\ PdSize \in Nat \ {0}
        BY ONLY <1>1
      <4> HIDE DEF j
      <4>3. 0 \in Nat /\ 1 \in Nat
        OBVIOUS
      <4> QED BY ONLY <4>1, <4>2, <4>3, DivisionIs
    <3> HIDE DEF j
    <3>3. PtIdx(i) = j /\ PdIdx(i) = 1 /\ PdptIdx(i) = 0
      BY ONLY <3>1, <3>2, IndicesOf
    <3>4. Translate(vm, i) = leaf[vm]["pt2"][j]
      BY <1>4, <1>6, <3>1, <3>3 DEF Translate
    <3> QED BY <1>1, <1>7, <3>1, <3>4 DEF RamLeaf
  <2> QED BY <2>1, <2>2
<1>9. ASSUME NEW vm \in Vms, NEW i \in 0 .. IpcPages - 1
      PROVE  Translate(vm, IpcGpa + i) = place.ipc + i
  <2>1. i \in 0 .. PtSize - 1 /\ i < IpcPages
    BY <1>1, <1>2
  <2>2. /\ PtIdx(IpcGpa + i) = i /\ PdIdx(IpcGpa + i) = PdIdx(IpcGpa)
        /\ PdptIdx(IpcGpa + i) = PdptIdx(IpcGpa)
    BY <1>1, <1>2, <2>1, SameLargePage
  <2>3. Translate(vm, IpcGpa + i) = leaf[vm]["pt_ipc"][i]
    BY <1>4, <1>6, <2>2 DEF Translate
  <2> QED BY <1>7, <2>1, <2>3
<1>10. /\ Translate(Vm2, place.bar) = place.bar
       /\ Translate(Vm2, MmioGpa + PtIdx(place.bar)) = place.bar
  <2>1. /\ large[Vm2][PdIdx(MmioGpa)] = LargePage(place.bar)
        /\ large[Vm2][PdIdx(place.bar)] = LargePage(place.bar)
    BY <1>1, <1>5, LayoutIndices DEF EptInv, LargeOwn
  <2>2. LargePage(place.bar) + PtIdx(place.bar) = place.bar
    BY <1>1, DivisionBack DEF LargePage, PtIdx
  <2>3. PtIdx(place.bar) \in 0 .. PtSize - 1
    BY <1>1, IndexTypes
  <2> DEFINE g == MmioGpa + PtIdx(place.bar)
  <2>4. PtIdx(g) = PtIdx(place.bar) /\ PdIdx(g) = PdIdx(MmioGpa) /\ PdptIdx(g) = PdptIdx(MmioGpa)
    BY <1>1, <1>2, <2>3, SameLargePage
  <2>5. Translate(Vm2, place.bar) = LargePage(place.bar) + PtIdx(place.bar)
    BY <1>5, <1>6, <2>1 DEF Translate
  <2> HIDE DEF g
  <2>6. Translate(Vm2, g) = LargePage(place.bar) + PtIdx(place.bar)
    BY <1>5, <1>6, <2>1, <2>4 DEF Translate
  <2> QED BY <2>2, <2>5, <2>6 DEF g
<1> QED BY <1>8, <1>9, <1>10

\* What the guests find once they start is the layout the configuration means:
\* memory from 0, the shared region at IpcGpa, the card at both its addresses.
THEOREM EptMapsTheLayout == Spec => []MapsTheLayout
BY TheLayoutIsMapped, EptLayoutInvariant, PTL
==============================================================================
