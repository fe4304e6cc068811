----------------------------- MODULE BootProofs ------------------------------
(***************************************************************************)
(* What the boot makes of any machine and any configuration the build      *)
(* accepts: DMA windows, VM2's card and the schedule.                      *)
(***************************************************************************)
EXTENDS Boot, FiniteSetTheorems, TLAPS

LEMMA BuildMemory ==
  ASSUME NEW y \in Yamls
  PROVE  /\ \A r \in {"hypervisor", "vm1", "vm2", "ipc", "bar0"} :
              /\ y.region[r] \in Memory
              /\ y.region[r].base \in Nat /\ y.region[r].size \in Nat
         /\ y.bdf \in [Partition -> [bus : Buses, dev : Nat, fn : Nat]]
<1>1. YamlOK(y)
  BY BootAssumption
<1>2. DOMAIN Regions = 1 .. 5
  BY DEF Regions
<1>3. ASSUME NEW r \in {"hypervisor", "vm1", "vm2", "ipc", "bar0"}
      PROVE  \E i \in DOMAIN Regions : Regions[i] = r
  BY <1>2, <1>3 DEF Regions
<1>4. \A r \in {"hypervisor", "vm1", "vm2", "ipc", "bar0"} : y.region[r] \in Memory
  BY <1>1, <1>3 DEF YamlOK
<1> QED BY <1>1, <1>4 DEF YamlOK, Memory

LEMMA SystemIs ==
  \A p \in Partition :
    /\ System[p].vm_id = p - 1 /\ System[p].pcpu = p - 1
    /\ System[p].bdf = yaml.bdf[p]
    /\ System[p].ram = [base |-> yaml.region[IF p = 1 THEN "vm1" ELSE "vm2"].base,
                        size |-> yaml.region["vm1"].size]
BY DEF System, DefaultSystem, Generated, Partition

\* Two regions that do not overflow are apart in the code's sense if and only
\* if one ends before the other begins.
LEMMA ApartIs ==
  ASSUME NEW r \in Memory, NEW s \in Memory, ~Overflows(r), ~Overflows(s)
  PROVE  /\ End(r) = r.base + r.size /\ End(s) = s.base + s.size
         /\ Apart(r, s) <=> r.base + r.size <= s.base \/ s.base + s.size <= r.base
<1>1. AddrSize \in Nat \ {0}
  BY ConfigAssumption
<1>2. ASSUME NEW m \in Memory, ~Overflows(m)
      PROVE  End(m) = m.base + m.size
  <2>1. m.base + m.size \in 0 .. AddrSize - 1
    BY <1>1, <1>2 DEF Memory, Overflows
  <2> QED BY <1>1, <2>1 DEF End
<1> QED BY <1>2 DEF Apart

\* What the build accepts, validate accepts, and the memory the partitions get
\* lies apart from that of the hypervisor and the shared region.
LEMMA AcceptedMeansSafe ==
  yaml \in Yamls /\ BuildAccepts(yaml) => AcceptedIsSafe
<1> SUFFICES ASSUME yaml \in Yamls, BuildAccepts(yaml),
                    yaml.bdf[1] # yaml.bdf[2],
                    yaml.region["vm2"].size >= yaml.region["vm1"].size
             PROVE  /\ Validate(System)
                    /\ \A p \in Partition : \A r \in {"hypervisor", "ipc"} :
                         Bytes(System[p].ram) \cap Bytes(yaml.region[r]) = {}
  BY DEF AcceptedIsSafe
<1> DEFINE R(i) == yaml.region[Regions[i]]
<1>1. /\ Regions[1] = "hypervisor" /\ Regions[2] = "vm1" /\ Regions[3] = "vm2"
      /\ Regions[4] = "ipc" /\ Regions[5] = "bar0" /\ DOMAIN Regions = 1 .. 5
  BY DEF Regions
<1>2. \A i \in 1 .. 5 : ~Overflows(R(i)) /\ R(i) \in Memory
  BY <1>1, BuildMemory DEF BuildAccepts
<1>3. \A i, j \in 1 .. 5 :
        i < j => \/ R(i).base + R(i).size <= R(j).base
                 \/ R(j).base + R(j).size <= R(i).base
  BY <1>1, <1>2, ApartIs DEF BuildAccepts, RegionsApart
<1> DEFINE Hyp == yaml.region["hypervisor"]
           M1 == yaml.region["vm1"]
           M2 == yaml.region["vm2"]
           Ipc == yaml.region["ipc"]
           Ram(p) == System[p].ram
<1>4. /\ Hyp.base \in Nat /\ Hyp.size \in Nat /\ M1.base \in Nat /\ M1.size \in Nat
      /\ M2.base \in Nat /\ M2.size \in Nat /\ Ipc.base \in Nat /\ Ipc.size \in Nat
  BY BuildMemory
<1>5. /\ Hyp.base + Hyp.size <= M1.base \/ M1.base + M1.size <= Hyp.base
      /\ Hyp.base + Hyp.size <= M2.base \/ M2.base + M2.size <= Hyp.base
      /\ M1.base + M1.size <= M2.base \/ M2.base + M2.size <= M1.base
      /\ M1.base + M1.size <= Ipc.base \/ Ipc.base + Ipc.size <= M1.base
      /\ M2.base + M2.size <= Ipc.base \/ Ipc.base + Ipc.size <= M2.base
  <2> HIDE DEF R
  <2>1. R(1) = Hyp /\ R(2) = M1 /\ R(3) = M2 /\ R(4) = Ipc
    BY <1>1 DEF R
  <2>2. /\ R(1).base + R(1).size <= R(2).base \/ R(2).base + R(2).size <= R(1).base
        /\ R(1).base + R(1).size <= R(3).base \/ R(3).base + R(3).size <= R(1).base
        /\ R(2).base + R(2).size <= R(3).base \/ R(3).base + R(3).size <= R(2).base
        /\ R(2).base + R(2).size <= R(4).base \/ R(4).base + R(4).size <= R(2).base
        /\ R(3).base + R(3).size <= R(4).base \/ R(4).base + R(4).size <= R(3).base
    BY ONLY <1>3
  <2> QED BY ONLY <2>1, <2>2
<1>6. /\ M1.base + M1.size < AddrSize /\ M2.base + M2.size < AddrSize
  <2>1. ~Overflows(M1) /\ ~Overflows(M2)
    BY <1>1, <1>2
  <2> QED BY <1>4, <2>1, ConfigAssumption DEF Overflows
<1>7. /\ Ram(1) = [base |-> M1.base, size |-> M1.size]
      /\ Ram(2) = [base |-> M2.base, size |-> M1.size]
  BY SystemIs DEF Partition
<1> HIDE DEF M1, M2, Hyp, Ipc, R
<1>8. /\ Ram(1) \in Memory /\ Ram(2) \in Memory
      /\ Ram(1).base = M1.base /\ Ram(1).size = M1.size
      /\ Ram(2).base = M2.base /\ Ram(2).size = M1.size
      /\ M1.size <= M2.size
  BY <1>4, <1>7 DEF Memory, M1, M2
<1> HIDE DEF Ram
<1>9. ~Overflows(Ram(1)) /\ ~Overflows(Ram(2))
  BY <1>4, <1>6, <1>8, ConfigAssumption DEF Overflows
<1>10. Apart(Ram(1), Ram(2))
  <2>1. \/ Ram(1).base + Ram(1).size <= Ram(2).base
        \/ Ram(2).base + Ram(2).size <= Ram(1).base
    BY <1>4, <1>5, <1>8
  <2> QED BY <1>8, <1>9, <2>1, ApartIs
<1>11. Validate(System)
  <2>1. System[1].pcpu = 0 /\ System[2].pcpu = 1 /\ System[1].bdf # System[2].bdf
    BY SystemIs DEF Partition
  <2>2. ~Overflows(System[1].ram) /\ ~Overflows(System[2].ram)
        /\ Apart(System[1].ram, System[2].ram)
    BY <1>9, <1>10 DEF Ram
  <2> QED BY <2>1, <2>2 DEF Validate, Partition
<1>12. ASSUME NEW p \in Partition
       PROVE  /\ Bytes(Ram(p)) \cap Bytes(Hyp) = {}
              /\ Bytes(Ram(p)) \cap Bytes(Ipc) = {}
  <2>1. /\ Ram(p).base \in Nat /\ Ram(p).size \in Nat
        /\ Hyp.base + Hyp.size <= Ram(p).base \/ Ram(p).base + Ram(p).size <= Hyp.base
        /\ Ram(p).base + Ram(p).size <= Ipc.base \/ Ipc.base + Ipc.size <= Ram(p).base
    BY <1>4, <1>5, <1>8 DEF Partition
  <2> QED BY <1>4, <2>1 DEF Bytes
<1> QED BY <1>11, <1>12 DEF Ram, Hyp, Ipc

\* The remainder of the index by the number of pins, without the division.
LEMMA TurnIndex ==
  ASSUME NEW n \in Nat, NEW c \in 0 .. n - 1
  PROVE  (c + 1) % n = IF c + 1 = n THEN 0 ELSE c + 1
<1>1. CASE c + 1 = n
  BY <1>1
<1>2. CASE c + 1 # n
  <2>1. c + 1 \in 0 .. n - 1
    BY <1>2
  <2> QED BY <1>2, <2>1
<1> QED BY <1>1, <1>2

LEMMA PinTypes ==
  ASSUME yaml \in Yamls
  PROVE  /\ NoPin \in Pin /\ [vm_id |-> 1, vcpu_id |-> 1, pcpu |-> 1] \in Pin
         /\ \A p \in Partition :
              [vm_id |-> System[p].vm_id, vcpu_id |-> 0, pcpu |-> System[p].pcpu] \in Pin
<1>1. \A p \in Partition : System[p].vm_id \in {0, 1} /\ System[p].pcpu \in {0, 1}
  BY SystemIs DEF Partition
<1> QED BY <1>1 DEF Pin, NoPin

\* A turn moves the index by one: every pin before it has waited one turn
\* more, every pin from it on is one turn nearer.
LEMMA NextVcpuKeepsTurns == Scheduled /\ NextVcpu => Scheduled'
<1> SUFFICES ASSUME Scheduled, NextVcpu PROVE Scheduled'
  OBVIOUS
<1> DEFINE n == schedule_count
           c == current_index
<1>1. /\ n \in 2 .. TableSize /\ c \in 0 .. n - 1 /\ n' = n /\ step' = "up"
      /\ waiting \in [Slots -> Nat] /\ table' = table /\ TableSize \in Nat
  BY BootAssumption DEF Scheduled, NextVcpu
<1>2. c' = IF c + 1 = n THEN 0 ELSE c + 1
  BY <1>1, TurnIndex DEF NextVcpu, NextIndex
<1>3. \A i \in Slots :
        /\ waiting[i] \in Nat
        /\ waiting'[i] = IF i = c \/ i >= n THEN 0 ELSE waiting[i] + 1
  BY <1>1 DEF NextVcpu
<1>4. waiting' \in [Slots -> Nat]
  <2>1. \A i \in Slots : (IF i = c \/ i >= n THEN 0 ELSE waiting[i] + 1) \in Nat
    BY <1>1
  <2> QED BY <2>1 DEF NextVcpu
<1>5. \A i \in c .. n - 1 : waiting[i] + (i - c) < n
  BY DEF Scheduled, Turns
<1>6. \A i \in 0 .. c - 1 : waiting[i] + i < c
  BY DEF Scheduled, Turns
<1>7. Slots = 0 .. TableSize - 1
  BY DEF Slots
<1> HIDE DEF n, c
<1>8. ASSUME NEW i \in c' .. n' - 1 PROVE waiting'[i] + (i - c') < n'
  <2>1. i \in Slots /\ i \in Nat /\ i < n
    BY <1>1, <1>2, <1>7
  <2>2. CASE i = c
    BY <1>1, <1>2, <1>3, <2>1, <2>2
  <2>3. CASE i > c
    <3>1. waiting[i] + (i - c) < n /\ waiting'[i] = waiting[i] + 1 /\ c' = c + 1
      BY <1>1, <1>2, <1>3, <1>5, <2>1, <2>3
    <3> QED BY <1>1, <1>3, <2>1, <3>1
  <2>4. CASE i < c
    <3>1. waiting[i] + i < c /\ waiting'[i] = waiting[i] + 1 /\ c' = 0 /\ c + 1 = n
      BY <1>1, <1>2, <1>3, <1>6, <2>1, <2>4
    <3> QED BY <1>1, <1>3, <2>1, <3>1
  <2> QED BY <1>1, <2>1, <2>2, <2>3, <2>4
<1>9. ASSUME NEW i \in 0 .. c' - 1 PROVE waiting'[i] + i < c'
  <2>1. i \in Slots /\ i \in Nat /\ i <= c /\ c' = c + 1
    BY <1>1, <1>2, <1>7
  <2>2. CASE i = c
    BY <1>1, <1>3, <2>1, <2>2
  <2>3. CASE i < c
    <3>1. waiting[i] + i < c /\ waiting'[i] = waiting[i] + 1
      BY <1>1, <1>3, <1>6, <2>1, <2>3
    <3> QED BY <1>1, <1>3, <2>1, <3>1
  <2> QED BY <1>1, <2>1, <2>2, <2>3
<1>10. ASSUME NEW i \in n' .. TableSize - 1 PROVE waiting'[i] = 0
  BY <1>1, <1>3, <1>7
<1>11. table' \in [Slots -> Pin]
  BY <1>1 DEF Scheduled
<1>12. Turns'
  BY <1>8, <1>9, <1>10 DEF Turns, n, c
<1>13. schedule_count' \in 2 .. TableSize /\ current_index' \in 0 .. schedule_count' - 1
  <2>1. n' \in 2 .. TableSize /\ c' \in 0 .. n' - 1
    BY <1>1, <1>2
  <2> QED BY <2>1 DEF n, c
<1> QED BY <1>1, <1>4, <1>11, <1>12, <1>13 DEF Scheduled

\* A new pin comes last in the round and has not waited yet.
LEMMA AddPinKeepsTurns ==
  ASSUME NEW pin \in Pin, Scheduled, AddPin(pin)
  PROVE  Scheduled'
<1> DEFINE n == schedule_count
           c == current_index
<1>1. /\ n \in 2 .. TableSize /\ c \in 0 .. n - 1 /\ n' = n + 1 /\ c' = c /\ step' = "up"
      /\ n < TableSize /\ TableSize \in Nat /\ n \in Slots
      /\ waiting \in [Slots -> Nat] /\ table \in [Slots -> Pin]
      /\ table' = [table EXCEPT ![n] = pin] /\ waiting' = [waiting EXCEPT ![n] = 0]
  <2>1. /\ step = "up" /\ n < TableSize /\ n' = n + 1
        /\ table' = [table EXCEPT ![n] = pin] /\ waiting' = [waiting EXCEPT ![n] = 0]
        /\ c' = c /\ step' = step
    BY DEF AddPin
  <2>2. n \in 2 .. TableSize /\ c \in 0 .. n - 1
        /\ waiting \in [Slots -> Nat] /\ table \in [Slots -> Pin]
    BY <2>1 DEF Scheduled
  <2>3. TableSize \in Nat /\ n \in Slots
    BY <2>1, <2>2, BootAssumption DEF Slots
  <2> QED BY <2>1, <2>2, <2>3
<1>2. table' \in [Slots -> Pin] /\ waiting' \in [Slots -> Nat]
  BY <1>1
<1>3. \A i \in Slots : waiting[i] \in Nat /\ waiting'[i] = IF i = n THEN 0 ELSE waiting[i]
  BY <1>1
<1>4. /\ \A i \in c .. n - 1 : waiting[i] + (i - c) < n
      /\ \A i \in 0 .. c - 1 : waiting[i] + i < c
      /\ \A i \in n .. TableSize - 1 : waiting[i] = 0
  BY DEF Scheduled, Turns
<1>5. Slots = 0 .. TableSize - 1
  BY DEF Slots
<1> HIDE DEF n, c
<1>6. ASSUME NEW i \in c' .. n' - 1 PROVE waiting'[i] + (i - c') < n'
  <2>1. i \in Slots /\ i \in Nat
    BY <1>1, <1>5
  <2>2. CASE i = n
    BY <1>1, <1>3, <2>1, <2>2
  <2>3. CASE i # n
    <3>1. waiting[i] + (i - c) < n /\ waiting'[i] = waiting[i]
      BY <1>1, <1>3, <1>4, <2>1, <2>3
    <3> QED BY <1>1, <1>3, <2>1, <3>1
  <2> QED BY <2>2, <2>3
<1>7. ASSUME NEW i \in 0 .. c' - 1 PROVE waiting'[i] + i < c'
  <2>1. i \in Slots /\ i # n /\ i \in 0 .. c - 1
    BY <1>1, <1>5
  <2> QED BY <1>1, <1>3, <1>4, <2>1
<1>8. ASSUME NEW i \in n' .. TableSize - 1 PROVE waiting'[i] = 0
  <2>1. i \in Slots /\ i # n /\ i \in n .. TableSize - 1
    BY <1>1, <1>5
  <2> QED BY <1>3, <1>4, <2>1
<1>9. Turns'
  BY <1>6, <1>7, <1>8 DEF Turns, n, c
<1>10. schedule_count' \in 2 .. TableSize /\ current_index' \in 0 .. schedule_count' - 1
  <2>1. n' \in 2 .. TableSize /\ c' \in 0 .. n' - 1
    BY <1>1
  <2> QED BY <2>1 DEF n, c
<1> QED BY <1>1, <1>2, <1>9, <1>10 DEF Scheduled

LEMMA FromConfigSchedules ==
  ASSUME yaml \in Yamls, Scheduled, FromConfig
  PROVE  Scheduled'
<1>1. TableSize \in Nat /\ TableSize >= 2 /\ Slots = 0 .. TableSize - 1
  BY BootAssumption DEF Slots
<1>2. table' \in [Slots -> Pin]
  <2>1. table \in [Slots -> Pin]
    BY DEF Scheduled
  <2> DEFINE T(i) == IF i + 1 \in Partition
                     THEN [vm_id |-> System[i + 1].vm_id, vcpu_id |-> 0,
                           pcpu |-> System[i + 1].pcpu]
                     ELSE table[i]
  <2>2. \A i \in Slots : T(i) \in Pin
    BY <2>1, PinTypes
  <2>3. table' = [i \in Slots |-> T(i)]
    BY DEF FromConfig
  <2> HIDE DEF T
  <2> QED BY <2>2, <2>3
<1>3. /\ schedule_count = 0 /\ current_index = 0 /\ waiting \in [Slots -> Nat]
      /\ \A i \in 0 .. TableSize - 1 : waiting[i] = 0
  BY DEF Scheduled, FromConfig, Turns
<1>4. schedule_count' = 2 /\ current_index' = 0 /\ waiting' = waiting /\ step' = "up"
  BY <1>3 DEF FromConfig
<1>5. Turns'
  <2>1. \A i \in 0 .. 1 : waiting[i] + (i - 0) < 2
    BY <1>1, <1>3
  <2> QED BY <1>1, <1>3, <1>4, <2>1 DEF Turns
<1> QED BY <1>1, <1>2, <1>3, <1>4, <1>5 DEF Scheduled

LEMMA SameMachine ==
  ASSUME UNCHANGED <<machine, yaml>>
  PROVE  /\ System' = System /\ Found' = Found /\ Vm2Mmio' = Vm2Mmio
         /\ BuildAccepts(yaml)' = BuildAccepts(yaml)
<1>1. System' = System
  BY DEF System
<1>2. Found' = Found
  BY DEF Found, HasNth, Before, Known
<1>3. Vm2Mmio' = Vm2Mmio
  BY <1>2 DEF Vm2Mmio
<1> QED BY <1>1, <1>2, <1>3

\* The second assignment of the devices finds what the first has written.
LEMMA AssigningAgain ==
  ASSUME Assigned, AssignDevices, UNCHANGED <<machine, yaml>>, step' # "dmar"
  PROVE  Assigned'
<1> DEFINE Entry(x, else) == IF x = ContextEntry(System[2].bdf) THEN 1
                             ELSE IF x = ContextEntry(System[1].bdf) THEN 0 ELSE else
<1>1. System' = System
  BY SameMachine
<1>2. root' = {0} \cup {System[p].bdf.bus : p \in Partition}
  BY DEF Assigned, AssignDevices
<1>3. \A x \in DevFns : Entry(x, context[x]) = Entry(x, None)
  BY DEF Assigned
<1>4. context' = [x \in DevFns |-> Entry(x, context[x])]
  BY DEF AssignDevices
<1>5. context' = [x \in DevFns |-> Entry(x, None)]
  <2> HIDE DEF Entry
  <2> QED BY <1>3, <1>4
<1> QED BY <1>1, <1>2, <1>5 DEF Assigned

LEMMA BootInitial == Init => BootInv
<1> SUFFICES ASSUME Init PROVE BootInv
  OBVIOUS
<1>1. Assigned
  BY DEF Init, Assigned
<1>2. Windowed
  BY DEF Init, Windowed
<1>3. Carded
  BY DEF Init, Carded
<1>4. Scheduled
  <2>1. TableSize \in Nat /\ Slots = 0 .. TableSize - 1
    BY BootAssumption DEF Slots
  <2>2. table \in [Slots -> Pin]
    BY PinTypes DEF Init
  <2> QED BY <2>1, <2>2 DEF Init, Scheduled, Turns
<1> QED BY <1>1, <1>2, <1>3, <1>4 DEF Init, BootInv, Steps

LEMMA BootInductive == BootInv /\ [Next]_vars => BootInv'
<1> SUFFICES ASSUME BootInv, [Next]_vars PROVE BootInv'
  OBVIOUS
<1> USE DEF iommuVars, scheduleVars
<1>1. machine' = machine /\ yaml' = yaml
  BY DEF Next, ParseAcpiDmar, ScanNics, CreateDomains, ReinforceMapping, NewVm2,
         FromConfig, AddPin, NextVcpu, vars
<1>2. /\ System' = System /\ Found' = Found /\ Vm2Mmio' = Vm2Mmio
      /\ machine' \in Machines /\ yaml' \in Yamls /\ BuildAccepts(yaml')
  BY <1>1, SameMachine DEF BootInv
<1>3. ASSUME UNCHANGED <<root, context>>, step = "dmar" <=> step' = "dmar"
      PROVE  Assigned'
  BY <1>2, <1>3 DEF BootInv, Assigned
<1>4. ASSUME UNCHANGED domains,
             step \in {"assign", "vm2", "scheduler", "up"}
               <=> step' \in {"assign", "vm2", "scheduler", "up"}
      PROVE  Windowed'
  BY <1>1, <1>4 DEF BootInv, Windowed
<1>5. ASSUME UNCHANGED <<hw_bar0, vm2_mmio>>,
             step \in {"dmar", "scan"} <=> step' \in {"dmar", "scan"},
             step \in {"scheduler", "up"} <=> step' \in {"scheduler", "up"}
      PROVE  Carded'
  BY <1>2, <1>5 DEF BootInv, Carded
<1>6. ASSUME UNCHANGED scheduleVars, step = "up" <=> step' = "up"
      PROVE  Scheduled'
  BY <1>6 DEF BootInv, Scheduled, Turns
<1>7. CASE ParseAcpiDmar
  <2>1. step = "dmar" /\ step' = "scan"
    BY <1>7 DEF ParseAcpiDmar
  <2>2. Assigned'
    BY <1>1, <1>7, <2>1, AssigningAgain DEF ParseAcpiDmar, BootInv
  <2>3. translating' \in BOOLEAN
    BY <1>7 DEF ParseAcpiDmar
  <2>4. Windowed'
    BY <1>4, <1>7, <2>1 DEF ParseAcpiDmar
  <2>5. Carded'
    BY <1>5, <1>7, <2>1 DEF ParseAcpiDmar
  <2>6. Scheduled'
    BY <1>6, <1>7, <2>1 DEF ParseAcpiDmar
  <2> QED BY <1>2, <2>1, <2>2, <2>3, <2>4, <2>5, <2>6 DEF BootInv, Steps
<1>8. CASE ScanNics
  <2>1. step = "scan" /\ step' = "domains" /\ hw_bar0' = Found[0] /\ vm2_mmio' = vm2_mmio
    BY <1>8 DEF ScanNics
  <2>2. Carded'
    BY <1>2, <2>1 DEF BootInv, Carded
  <2>3. Assigned' /\ Windowed' /\ Scheduled'
    BY <1>3, <1>4, <1>6, <1>8, <2>1 DEF ScanNics
  <2> QED BY <1>2, <1>8, <2>1, <2>2, <2>3 DEF ScanNics, BootInv, Steps
<1>9. CASE CreateDomains
  <2>1. step = "domains" /\ step' = "assign"
    BY <1>9 DEF CreateDomains
  <2>2. Windowed'
    <3>1. \A d \in 0 .. 3 : d + 1 \notin Partition => domains[d] = None
      BY DEF BootInv, Windowed
    <3>2. domains' = [d \in 0 .. 3 |->
                        IF d + 1 \in Partition
                        THEN [vm_id |-> d, base |-> machine.ram[d + 1].base,
                              limit |-> DomainLimit(machine.ram[d + 1])]
                        ELSE None]
      BY <1>9, <3>1 DEF CreateDomains
    <3> QED BY <1>1, <2>1, <3>2 DEF Windowed
  <2>3. Assigned' /\ Carded' /\ Scheduled'
    BY <1>3, <1>5, <1>6, <1>9, <2>1 DEF CreateDomains
  <2> QED BY <1>2, <1>9, <2>1, <2>2, <2>3 DEF CreateDomains, BootInv, Steps
<1>10. CASE ReinforceMapping
  <2>1. step = "assign" /\ step' = "vm2"
    BY <1>10 DEF ReinforceMapping
  <2>2. Assigned'
    BY <1>1, <1>10, <2>1, AssigningAgain DEF ReinforceMapping, BootInv
  <2>3. Windowed' /\ Carded' /\ Scheduled'
    BY <1>4, <1>5, <1>6, <1>10, <2>1 DEF ReinforceMapping
  <2> QED BY <1>2, <1>10, <2>1, <2>2, <2>3 DEF ReinforceMapping, BootInv, Steps
<1>11. CASE NewVm2
  <2>1. step = "vm2" /\ step' = "scheduler" /\ vm2_mmio' = Vm2Mmio /\ hw_bar0' = hw_bar0
    BY <1>11 DEF NewVm2
  <2>2. Carded'
    BY <1>2, <2>1 DEF BootInv, Carded
  <2>3. Assigned' /\ Windowed' /\ Scheduled'
    BY <1>3, <1>4, <1>6, <1>11, <2>1 DEF NewVm2
  <2> QED BY <1>2, <1>11, <2>1, <2>2, <2>3 DEF NewVm2, BootInv, Steps
<1>12. CASE FromConfig
  <2>1. step = "scheduler" /\ step' = "up"
    BY <1>12 DEF FromConfig
  <2>2. Scheduled'
    BY <1>12, FromConfigSchedules DEF BootInv
  <2>3. Assigned' /\ Windowed' /\ Carded'
    BY <1>3, <1>4, <1>5, <1>12, <2>1 DEF FromConfig
  <2> QED BY <1>2, <1>12, <2>1, <2>2, <2>3 DEF FromConfig, BootInv, Steps
<1>13. CASE AddPin([vm_id |-> 1, vcpu_id |-> 1, pcpu |-> 1])
  <2>1. Scheduled'
    BY <1>13, AddPinKeepsTurns, PinTypes DEF BootInv
  <2>2. Assigned' /\ Windowed' /\ Carded'
    BY <1>3, <1>4, <1>5, <1>13 DEF AddPin
  <2> QED BY <1>2, <1>13, <2>1, <2>2 DEF AddPin, BootInv
<1>14. CASE NextVcpu
  <2>1. Scheduled'
    BY <1>14, NextVcpuKeepsTurns DEF BootInv
  <2>2. Assigned' /\ Windowed' /\ Carded'
    BY <1>3, <1>4, <1>5, <1>14 DEF NextVcpu
  <2> QED BY <1>2, <1>14, <2>1, <2>2 DEF NextVcpu, BootInv
<1>15. CASE UNCHANGED vars
  <2>1. Assigned' /\ Windowed' /\ Carded' /\ Scheduled'
    BY <1>3, <1>4, <1>5, <1>6, <1>15 DEF vars
  <2> QED BY <1>2, <1>15, <2>1 DEF vars, BootInv
<1> QED BY <1>7, <1>8, <1>9, <1>10, <1>11, <1>12, <1>13, <1>14, <1>15 DEF Next

\* What is in the tables at each step of the boot (Hypervisor::new), for every
\* machine and every configuration.
THEOREM BootInvariant == Spec => []BootInv
BY BootInitial, BootInductive, PTL DEF Spec

\* The build's validation stands for that of config.rs, which nothing calls.
THEOREM BootAcceptedIsSafe == Spec => []AcceptedIsSafe
<1>1. BootInv => AcceptedIsSafe
  BY AcceptedMeansSafe DEF BootInv
<1> QED BY <1>1, BootInvariant, PTL

\* next_vcpu passes nobody over, for a table of any size and whenever pins are
\* added.
THEOREM BootTurnsAreFair == Spec => []TurnsAreFair
<1>1. BootInv => TurnsAreFair
  <2> SUFFICES ASSUME BootInv, step = "up"
               PROVE  /\ current_index < schedule_count
                      /\ \A i \in 0 .. schedule_count - 1 : waiting[i] < schedule_count
    BY DEF TurnsAreFair
  <2>1. /\ schedule_count \in 2 .. TableSize /\ current_index \in 0 .. schedule_count - 1
        /\ Turns /\ TableSize \in Nat /\ waiting \in [Slots -> Nat]
    BY BootAssumption DEF BootInv, Scheduled
  <2>2. ASSUME NEW i \in 0 .. schedule_count - 1 PROVE waiting[i] < schedule_count
    <3>1. i \in Slots
      BY <2>1 DEF Slots
    <3>2. waiting[i] \in Nat
      BY <2>1, <3>1
    <3>3. CASE i >= current_index
      <4>1. waiting[i] + (i - current_index) < schedule_count
        BY <2>1, <3>3 DEF Turns
      <4> QED BY <2>1, <3>2, <3>3, <4>1
    <3>4. CASE i < current_index
      <4>1. waiting[i] + i < current_index
        BY <2>1, <3>4 DEF Turns
      <4> QED BY <2>1, <3>2, <3>4, <4>1
    <3> QED BY <2>1, <3>3, <3>4
  <2> QED BY <2>1, <2>2
<1> QED BY <1>1, BootInvariant, PTL

LEMMA MachineMemory ==
  ASSUME machine \in Machines
  PROVE  /\ \A p \in Partition :
              /\ machine.ram[p] \in Memory
              /\ machine.ram[p].base \in Nat /\ machine.ram[p].size \in Nat
              /\ machine.ram[p].base + machine.ram[p].size < AddrSize
              /\ DomainLimit(machine.ram[p]) = machine.ram[p].base + machine.ram[p].size
         /\ \A d \in 0 .. Devices - 1 :
              machine.bar[d] # NoCard => machine.bar[d] \in 0 .. AddrSize - 1
<1>1. MachineOK(machine) /\ AddrSize \in Nat \ {0}
  BY BootAssumption, ConfigAssumption
<1>2. ASSUME NEW p \in Partition
      PROVE  /\ machine.ram[p] \in Memory
             /\ machine.ram[p].base \in Nat /\ machine.ram[p].size \in Nat
             /\ machine.ram[p].base + machine.ram[p].size < AddrSize
  <2>1. machine.ram[p] \in Memory /\ ~Overflows(machine.ram[p])
    BY <1>1 DEF MachineOK
  <2> QED BY <1>1, <2>1 DEF Memory, Overflows
<1>3. ASSUME NEW p \in Partition
      PROVE  DomainLimit(machine.ram[p]) = machine.ram[p].base + machine.ram[p].size
  <2> DEFINE e == machine.ram[p].base + machine.ram[p].size
  <2>1. e \in 0 .. AddrSize - 1
    BY <1>1, <1>2
  <2> HIDE DEF e
  <2>2. e % AddrSize = e
    BY <1>1, <2>1
  <2> QED BY <2>2 DEF DomainLimit, e
<1>4. \A d \in 0 .. Devices - 1 :
        machine.bar[d] # NoCard => machine.bar[d] \in 0 .. AddrSize - 1
  BY <1>1 DEF MachineOK
<1> QED BY <1>2, <1>3, <1>4

\* The window of a domain lets through the transfers inside it and no other.
LEMMA WindowIsMemory ==
  ASSUME NEW d \in 0 .. 3, NEW r \in Memory, r.base + r.size < AddrSize,
         domains[d] # None, domains[d].base = r.base, domains[d].limit = r.base + r.size
  PROVE  Allowed(d) = Within(r)
<1>1. AddrSize \in Nat \ {0} /\ r.base \in Nat /\ r.size \in Nat
  BY ConfigAssumption DEF Memory
<1>2. ASSUME NEW w \in Windows
      PROVE  ValidateDma(d, w[1], w[2])
               <=> w[1] \in Bytes(r) /\ w[1] + w[2] - 1 \in Bytes(r)
  <2>1. w[1] \in Nat /\ w[2] \in Nat /\ w[2] >= 1 /\ w[1] + w[2] < AddrSize
    BY <1>1 DEF Windows
  <2>2. (w[1] + w[2]) % AddrSize = w[1] + w[2]
    <3>1. w[1] + w[2] \in 0 .. AddrSize - 1
      BY <1>1, <2>1
    <3> QED BY <1>1, <3>1
  <2>3. ValidateDma(d, w[1], w[2]) <=> w[1] >= r.base /\ w[1] + w[2] <= r.base + r.size
    BY <2>2 DEF ValidateDma
  <2> QED BY <1>1, <2>1, <2>3 DEF Bytes
<1> QED BY <1>2 DEF Allowed, Within

\* What a device number that PCI knows is cut to.
LEMMA EntryIs ==
  ASSUME NEW bdf, bdf.dev \in 0 .. Devices - 1, bdf.fn \in 0 .. Functions - 1
  PROVE  ContextEntry(bdf) = <<bdf.dev, bdf.fn>>
<1>1. Devices \in Nat \ {0} /\ Functions \in Nat \ {0}
  BY BootAssumption
<1>2. bdf.dev % Devices = bdf.dev /\ bdf.fn % Functions = bdf.fn
  BY <1>1
<1> QED BY <1>2 DEF ContextEntry

\* The DMA of each configured device is checked in the memory of its VM, that of
\* no other device in anybody's (assign_device_bdf, create_domain, validate_dma).
LEMMA DmaIsInside == BootInv => DmaInside
<1> SUFFICES ASSUME BootInv,
                    \A p \in Partition :
                      /\ System[p].bdf.bus = 0
                      /\ <<System[p].bdf.dev, System[p].bdf.fn>> \in DevFns,
                    System[1].bdf # System[2].bdf,
                    NEW bus \in Buses, NEW x \in DevFns, DomainOf(bus, x) # None
             PROVE  \E p \in Partition :
                      /\ System[p].bdf = [bus |-> bus, dev |-> x[1], fn |-> x[2]]
                      /\ Allowed(DomainOf(bus, x)) =
                           IF domains[DomainOf(bus, x)] = None THEN {}
                           ELSE Within(machine.ram[p])
  BY DEF DmaInside, Partition
<1> DEFINE d == DomainOf(bus, x)
           B(p) == System[p].bdf
<1>1. \A p \in Partition :
        /\ B(p) = yaml.bdf[p] /\ B(p) \in [bus : Buses, dev : Nat, fn : Nat]
        /\ B(p).dev \in 0 .. Devices - 1 /\ B(p).fn \in 0 .. Functions - 1
  <2>1. \A p \in Partition : B(p) = yaml.bdf[p]
    BY SystemIs
  <2>2. yaml.bdf \in [Partition -> [bus : Buses, dev : Nat, fn : Nat]]
    BY BuildMemory DEF BootInv
  <2> QED BY <2>1, <2>2 DEF DevFns
<1>2. \A p \in Partition : ContextEntry(B(p)) = <<B(p).dev, B(p).fn>>
  BY <1>1, EntryIs
<1>3. step # "dmar" /\ bus = 0
  <2>1. bus \in root
    BY DEF DomainOf
  <2>2. root = IF step = "dmar" THEN {} ELSE {0} \cup {System[p].bdf.bus : p \in Partition}
    BY DEF BootInv, Assigned
  <2> QED BY <2>1, <2>2
<1>4. d = IF x = ContextEntry(B(2)) THEN 1 ELSE IF x = ContextEntry(B(1)) THEN 0 ELSE None
  <2>1. d = context[x]
    BY DEF DomainOf
  <2> QED BY <1>3, <2>1 DEF BootInv, Assigned
<1>5. PICK p \in Partition : d = p - 1 /\ x = ContextEntry(B(p))
  BY <1>4 DEF Partition
<1>6. B(p) = [bus |-> bus, dev |-> x[1], fn |-> x[2]]
  <2>1. x[1] = B(p).dev /\ x[2] = B(p).fn /\ B(p).bus = 0
    BY <1>2, <1>5
  <2>2. B(p) \in [bus : Buses, dev : Nat, fn : Nat]
    BY <1>1
  <2> HIDE DEF B
  <2> QED BY <1>3, <2>1, <2>2
<1>7. Allowed(d) = IF domains[d] = None THEN {} ELSE Within(machine.ram[p])
  <2>0. d \in 0 .. 3 /\ d + 1 = p
    BY <1>5 DEF Partition
  <2>1. CASE domains[d] = None
    BY <2>1 DEF Allowed, ValidateDma
  <2>2. CASE domains[d] # None
    <3> HIDE DEF d
    <3>1. domains[d] = [vm_id |-> d, base |-> machine.ram[p].base,
                        limit |-> DomainLimit(machine.ram[p])]
      BY <2>0, <2>2 DEF BootInv, Windowed
    <3>2. /\ machine.ram[p] \in Memory
          /\ machine.ram[p].base + machine.ram[p].size < AddrSize
          /\ DomainLimit(machine.ram[p]) = machine.ram[p].base + machine.ram[p].size
      BY MachineMemory DEF BootInv
    <3>3. domains[d].base = machine.ram[p].base
          /\ domains[d].limit = machine.ram[p].base + machine.ram[p].size
      BY <3>1, <3>2
    <3>4. Allowed(d) = Within(machine.ram[p])
      BY <2>0, <2>2, <3>2, <3>3, WindowIsMemory
    <3> QED BY <2>2, <3>4
  <2> QED BY <2>1, <2>2
<1> QED BY <1>6, <1>7

\* DMA of a configured device stays in the memory of its own VM, for any number of
\* addresses, devices and functions.
THEOREM BootDmaInside == Spec => []DmaInside
BY DmaIsInside, BootInvariant, PTL

\* A large page begins at a multiple of its size.
LEMMA PageIs ==
  ASSUME NEW x \in Nat
  PROVE  \E q \in Nat : /\ LargePage(x) = LargeSize * q .. LargeSize * q + (LargeSize - 1)
                        /\ x \in LargePage(x)
<1>1. LargeSize \in Nat \ {0}
  BY BootAssumption
<1> DEFINE q == x \div LargeSize
           m == x % LargeSize
<1>2. q \in Nat /\ m \in 0 .. LargeSize - 1 /\ x = LargeSize * q + m
  BY <1>1
<1> HIDE DEF q
<1>3. LargePage(x) = (x - m) .. (x - m) + LargeSize - 1
  BY DEF LargePage
<1> HIDE DEF m
<1> DEFINE first == LargeSize * q
<1>4. first \in Nat
  BY <1>1, <1>2
<1> HIDE DEF first
<1>5. x = first + m
  BY <1>2 DEF first
<1>6. /\ LargePage(x) = first .. first + (LargeSize - 1)
      /\ x \in LargePage(x)
  BY ONLY <1>1, <1>2, <1>3, <1>4, <1>5
<1> QED BY <1>2, <1>6 DEF first

\* Two large pages that share an address are one.
LEMMA PagesApart ==
  ASSUME NEW x \in Nat, NEW y \in Nat, y \in LargePage(x)
  PROVE  LargePage(y) = LargePage(x)
<1>1. LargeSize \in Nat \ {0}
  BY BootAssumption
<1>2. PICK q \in Nat :
        LargePage(x) = LargeSize * q .. LargeSize * q + (LargeSize - 1)
  BY PageIs
<1>3. PICK r \in Nat :
        /\ LargePage(y) = LargeSize * r .. LargeSize * r + (LargeSize - 1)
        /\ y \in LargePage(y)
  BY PageIs
<1>4. ASSUME NEW a \in Nat, NEW b \in Nat, a >= b + 1
      PROVE  LargeSize * a >= LargeSize * b + LargeSize
  <2>1. LargeSize * a >= LargeSize * (b + 1)
    BY <1>1, <1>4
  <2>2. LargeSize * (b + 1) = LargeSize * b + LargeSize
    BY <1>1
  <2> QED BY <2>1, <2>2
<1> DEFINE f == LargeSize * q
           g == LargeSize * r
<1>5. f \in Nat /\ g \in Nat
  BY <1>1
<1>6. ~(q >= r + 1) /\ ~(r >= q + 1)
  <2>1. q >= r + 1 => f >= g + LargeSize
    BY <1>4
  <2>2. r >= q + 1 => g >= f + LargeSize
    BY <1>4
  <2>3. y \in f .. f + (LargeSize - 1) /\ y \in g .. g + (LargeSize - 1)
    BY <1>2, <1>3
  <2> HIDE DEF f, g
  <2>4. ~(f >= g + LargeSize) /\ ~(g >= f + LargeSize)
    BY ONLY <1>1, <1>5, <2>3
  <2> QED BY <2>1, <2>2, <2>4
<1>7. q = r
  BY <1>6
<1> QED BY <1>2, <1>3, <1>7

\* No two cards have the same number of cards before them.
LEMMA BeforeDiffers ==
  ASSUME NEW d \in Known, NEW e \in Known, d < e
  PROVE  Before(d) < Before(e)
<1> DEFINE D == {k \in Known : k < d}
           E == {k \in Known : k < e}
<1>1. Devices \in Nat /\ Known \subseteq 0 .. Devices - 1
  BY BootAssumption DEF Known
<1>2. IsFiniteSet(0 .. Devices - 1)
  BY <1>1, FS_Interval
<1>3. IsFiniteSet(D) /\ IsFiniteSet(E)
  <2>1. D \subseteq 0 .. Devices - 1 /\ E \subseteq 0 .. Devices - 1
    BY <1>1
  <2> HIDE DEF D, E
  <2> QED BY <1>2, <2>1, FS_Subset
<1>4. d \notin D /\ D \cup {d} \subseteq E
  <2>1. d \in Int /\ e \in Int /\ \A k \in Known : k \in Int
    BY <1>1
  <2>2. d \notin D
    BY <2>1
  <2>3. \A k \in D : k \in Known /\ k < e
    BY <2>1
  <2> QED BY <2>2, <2>3
<1> HIDE DEF D, E
<1>5. Cardinality(D \cup {d}) = Cardinality(D) + 1 /\ IsFiniteSet(D \cup {d})
  BY <1>3, <1>4, FS_AddElement
<1>6. Cardinality(D \cup {d}) <= Cardinality(E)
  BY <1>3, <1>4, FS_Subset
<1>7. Cardinality(D) \in Nat /\ Cardinality(E) \in Nat
  BY <1>3, FS_CardinalityType
<1>8. Cardinality(D) < Cardinality(E)
  BY <1>5, <1>6, <1>7
<1> QED BY <1>8 DEF Before, D, E

\* The BARs the scan returns are addresses a BAR can name.
LEMMA FoundTypes ==
  ASSUME machine \in Machines, NEW n \in {0, 1}
  PROVE  Found[n] \in 0 .. BarSize - 1
<1>1. /\ BarSize \in Nat \ {0} /\ MmioBase \in Nat /\ MmioBase + 1 < BarSize
      /\ Devices \in Nat /\ AddrSize \in Nat
  BY BootAssumption, ConfigAssumption
<1>2. CASE HasNth(n)
  <2> DEFINE d == CHOOSE k \in Known : Before(k) = n
  <2>1. d \in Known
    BY <1>2 DEF HasNth
  <2>2. Found[n] = machine.bar[d] % BarSize
    BY <1>2 DEF Found
  <2> HIDE DEF d
  <2>3. machine.bar[d] \in Nat
    BY <1>1, <2>1, MachineMemory DEF Known
  <2> QED BY <1>1, <2>2, <2>3
<1>3. CASE ~HasNth(n)
  <2>1. Found[n] = MmioBase + n
    BY <1>3 DEF Found
  <2> QED BY <1>1, <2>1
<1> QED BY <1>2, <1>3

\* VM2's mapping reaches the card of its own domain and no other.
LEMMA Vm2HasItsCard == BootInv => Vm2DrivesItsCard
<1> SUFFICES ASSUME BootInv, vm2_mmio # {}, CardsAsConfigured, NEW c \in Known
             PROVE  machine.bar[c] \in vm2_mmio <=> DomainOf(0, <<c, 0>>) = 1
  BY DEF Vm2DrivesItsCard
<1> DEFINE B(p) == System[p].bdf
           two == B(2).dev
<1>1. /\ Devices \in Nat \ {0} /\ Functions \in Nat \ {0}
      /\ BarSize \in Nat /\ BarSize <= AddrSize /\ AddrSize \in Nat
      /\ Known \subseteq 0 .. Devices - 1 /\ 2 \in Partition /\ 1 \in Partition
  BY BootAssumption, ConfigAssumption DEF Known, Partition
<1>2. \A d \in Known : machine.bar[d] \in 0 .. BarSize - 1 /\ machine.bar[d] \in Nat
  <2>1. \A d \in Known : machine.bar[d] \in 0 .. AddrSize - 1
    BY MachineMemory DEF BootInv, Known
  <2>2. \A d \in Known : machine.bar[d] < BarSize
    BY DEF CardsAsConfigured
  <2> QED BY <1>1, <2>1, <2>2
<1>3. /\ two \in Known /\ Before(two) = 1
      /\ \A p \in Partition : B(p).dev \in Known /\ B(p).fn = 0 /\ Before(B(p).dev) = p - 1
  BY <1>1 DEF CardsAsConfigured
<1>4. \A k \in Known : Before(k) = 1 => k = two
  <2> SUFFICES ASSUME NEW k \in Known, Before(k) = 1, k # two PROVE FALSE
    OBVIOUS
  <2> HIDE DEF two
  <2>1. k < two \/ two < k
    BY <1>1, <1>3
  <2>2. k < two => Before(k) < Before(two)
    BY <1>3, BeforeDiffers
  <2>3. two < k => Before(two) < Before(k)
    BY <1>3, BeforeDiffers
  <2> QED BY <1>3, <2>1, <2>2, <2>3
<1>5. Found[1] = machine.bar[two]
  <2>1. HasNth(1) /\ (CHOOSE k \in Known : Before(k) = 1) = two
    BY <1>3, <1>4 DEF HasNth
  <2>2. Found[1] = machine.bar[two] % BarSize
    BY <2>1 DEF Found
  <2> HIDE DEF two
  <2> QED BY <1>1, <1>2, <1>3, <2>2
<1>6. vm2_mmio = LargePage(machine.bar[two])
  BY <1>5 DEF BootInv, Carded, Vm2Mmio
<1>7. machine.bar[c] \in vm2_mmio <=> c = two
  <2> HIDE DEF two
  <2>1. c = two => machine.bar[c] \in vm2_mmio
    BY <1>2, <1>6, PageIs
  <2>2. machine.bar[c] \in vm2_mmio
          => LargePage(machine.bar[c]) = LargePage(machine.bar[two])
    BY <1>2, <1>3, <1>6, PagesApart
  <2>3. c # two => LargePage(machine.bar[c]) # LargePage(machine.bar[two])
    BY <1>3 DEF CardsAsConfigured
  <2> QED BY <2>1, <2>2, <2>3
<1>8. \A p \in Partition : ContextEntry(B(p)) = <<B(p).dev, 0>>
  <2> SUFFICES ASSUME NEW p \in Partition PROVE ContextEntry(B(p)) = <<B(p).dev, 0>>
    OBVIOUS
  <2>0. 0 \in 0 .. Functions - 1
    BY <1>1
  <2>1. B(p).dev \in 0 .. Devices - 1 /\ B(p).fn = 0 /\ B(p).fn \in 0 .. Functions - 1
    <3> HIDE DEF B
    <3>1. B(p).dev \in Known /\ B(p).fn = 0
      BY <1>3
    <3> QED BY <1>1, <2>0, <3>1
  <2> HIDE DEF B
  <2> QED BY <2>1, EntryIs
<1>9. step # "dmar"
  BY DEF BootInv, Carded
<1>10. DomainOf(0, <<c, 0>>) = 1 <=> c = two
  <2>1. <<c, 0>> \in DevFns /\ 0 \in root
    BY <1>1, <1>9 DEF DevFns, BootInv, Assigned
  <2>2. DomainOf(0, <<c, 0>>) =
          IF <<c, 0>> = ContextEntry(B(2)) THEN 1
          ELSE IF <<c, 0>> = ContextEntry(B(1)) THEN 0 ELSE None
    BY <1>9, <2>1 DEF DomainOf, BootInv, Assigned
  <2>3. <<c, 0>> = ContextEntry(B(2)) <=> c = two
    BY <1>1, <1>8
  <2>4. None # 1
    BY BootAssumption
  <2> QED BY <2>2, <2>3, <2>4
<1> QED BY <1>7, <1>10

\* VM2 drives the card whose DMA is checked in its own domain, wherever firmware
\* put the BARs, if PCI and YAML agree (vm.rs, pci.rs, iommu.rs).
THEOREM BootVm2DrivesItsCard == Spec => []Vm2DrivesItsCard
BY Vm2HasItsCard, BootInvariant, PTL

\* A large page around an address of the machine is memory of the machine.
LEMMA PageInside ==
  ASSUME NEW x \in 0 .. AddrSize - 1
  PROVE  LargePage(x) \subseteq 0 .. AddrSize - 1
<1>1. LargeSize \in Nat \ {0} /\ AddrSize \in Nat \ {0} /\ AddrSize % LargeSize = 0
  BY BootAssumption, ConfigAssumption
<1> DEFINE k == AddrSize \div LargeSize
<1>2. k \in Nat /\ AddrSize = LargeSize * k
  BY <1>1
<1> HIDE DEF k
<1>3. x \in Nat
  BY <1>1
<1>4. PICK q \in Nat : /\ LargePage(x) = LargeSize * q .. LargeSize * q + (LargeSize - 1)
                       /\ x \in LargePage(x)
  BY <1>3, PageIs
<1>5. LargeSize * q \in Nat /\ LargeSize * q < LargeSize * k
  <2>1. LargeSize * q \in Nat
    BY <1>1
  <2>2. x >= LargeSize * q
    BY <1>3, <1>4, <2>1
  <2>3. x < LargeSize * k
    BY <1>1, <1>2
  <2> DEFINE f == LargeSize * q
             t == LargeSize * k
  <2>4. t \in Nat
    BY <1>1, <1>2
  <2>5. f \in Nat /\ x >= f /\ x < t
    BY <2>1, <2>2, <2>3
  <2> HIDE DEF f, t
  <2>6. f < t
    BY ONLY <1>3, <2>4, <2>5
  <2> QED BY <2>1, <2>6 DEF f, t
<1>6. q + 1 <= k
  <2> SUFFICES ASSUME k <= q PROVE FALSE
    BY <1>2
  <2>1. LargeSize * k <= LargeSize * q
    BY <1>1, <1>2
  <2> QED BY <1>1, <1>2, <1>5, <2>1
<1>7. LargeSize * q + LargeSize <= AddrSize
  <2>1. LargeSize * (q + 1) <= LargeSize * k
    BY <1>1, <1>2, <1>6
  <2>2. LargeSize * (q + 1) = LargeSize * q + LargeSize
    BY <1>1
  <2> QED BY <1>2, <2>1, <2>2
<1> DEFINE g == LargeSize * q
<1>8. g \in Nat /\ g + LargeSize <= AddrSize /\ LargePage(x) = g .. g + (LargeSize - 1)
  BY <1>4, <1>5, <1>7
<1> HIDE DEF g
<1> QED BY ONLY <1>1, <1>8

LEMMA BootTypes == BootInv => TypeOK
<1> SUFFICES ASSUME BootInv PROVE TypeOK
  OBVIOUS
<1>1. /\ AddrSize \in Nat \ {0} /\ BarSize \in 1 .. AddrSize /\ TableSize \in Nat
      /\ TableSize >= 2 /\ Slots = 0 .. TableSize - 1
  BY BootAssumption, ConfigAssumption DEF Slots
<1>2. root \subseteq Buses
  <2>1. \A p \in Partition : System[p].bdf.bus \in Buses
    <3>1. yaml.bdf \in [Partition -> [bus : Buses, dev : Nat, fn : Nat]]
      BY BuildMemory DEF BootInv
    <3>2. \A p \in Partition : System[p].bdf = yaml.bdf[p]
      BY ONLY SystemIs
    <3> QED BY ONLY <3>1, <3>2
  <2> QED BY <2>1 DEF BootInv, Assigned, Buses
<1>3. context \in [DevFns -> {None, 0, 1}]
  BY DEF BootInv, Assigned
<1>4. domains \in [0 .. 3 -> Domain \cup {None}]
  <2> DEFINE W(d) == [vm_id |-> d, base |-> machine.ram[d + 1].base,
                      limit |-> DomainLimit(machine.ram[d + 1])]
  <2>1. ASSUME NEW d \in 0 .. 3, d + 1 \in Partition PROVE W(d) \in Domain
    <3>1. d \in {0, 1}
      BY <2>1 DEF Partition
    <3>2. /\ machine.ram[d + 1].base \in Nat /\ machine.ram[d + 1].size \in Nat
          /\ machine.ram[d + 1].base + machine.ram[d + 1].size < AddrSize
          /\ DomainLimit(machine.ram[d + 1])
               = machine.ram[d + 1].base + machine.ram[d + 1].size
      BY <2>1, MachineMemory DEF BootInv
    <3>3. machine.ram[d + 1].base \in 0 .. AddrSize - 1
          /\ DomainLimit(machine.ram[d + 1]) \in 0 .. AddrSize - 1
      BY <1>1, <3>2
    <3> QED BY <3>1, <3>3 DEF Domain
  <2>2. domains = [d \in 0 .. 3 |->
                     IF d + 1 \in Partition /\ step \in {"assign", "vm2", "scheduler", "up"}
                     THEN W(d) ELSE None]
    BY DEF BootInv, Windowed
  <2> HIDE DEF W
  <2> QED BY <2>1, <2>2
<1>5. hw_bar0 \in 0 .. BarSize - 1 \cup {None} /\ vm2_mmio \subseteq 0 .. AddrSize - 1
  <2>1. Found[0] \in 0 .. BarSize - 1 /\ Found[1] \in 0 .. BarSize - 1
    BY FoundTypes DEF BootInv
  <2>2. Found[1] \in 0 .. AddrSize - 1
    BY <1>1, <2>1
  <2>3. Vm2Mmio \subseteq 0 .. AddrSize - 1
    BY <2>2, PageInside DEF Vm2Mmio
  <2>4. hw_bar0 = IF step \in {"dmar", "scan"} THEN None ELSE Found[0]
    BY DEF BootInv, Carded
  <2>5. vm2_mmio = IF step \in {"scheduler", "up"} THEN Vm2Mmio ELSE {}
    BY DEF BootInv, Carded
  <2> QED BY <2>1, <2>3, <2>4, <2>5
<1>6. schedule_count \in 0 .. TableSize /\ current_index \in Slots
  BY <1>1 DEF BootInv, Scheduled
<1>7. waiting \in [Slots -> 0 .. TableSize]
  <2>1. waiting \in [Slots -> Nat] /\ Turns
    BY DEF BootInv, Scheduled
  <2>2. /\ schedule_count \in 0 .. TableSize /\ current_index \in Nat
        /\ current_index <= schedule_count
    BY <1>1, <1>6 DEF BootInv, Scheduled
  <2>3. ASSUME NEW i \in Slots PROVE waiting[i] \in 0 .. TableSize
    <3>1. waiting[i] \in Nat /\ i \in Nat /\ i < TableSize
      BY <1>1, <2>1
    <3>2. CASE i >= schedule_count
      <4>1. waiting[i] = 0
        BY <1>1, <2>1, <2>2, <3>1, <3>2 DEF Turns
      <4> QED BY <1>1, <4>1
    <3>3. CASE i < schedule_count /\ i >= current_index
      <4>1. waiting[i] + (i - current_index) < schedule_count
        BY <2>1, <2>2, <3>1, <3>3 DEF Turns
      <4> QED BY <1>1, <2>2, <3>1, <3>3, <4>1
    <3>4. CASE i < current_index
      <4>1. waiting[i] + i < current_index
        BY <2>1, <2>2, <3>1, <3>4 DEF Turns
      <4> QED BY <1>1, <2>2, <3>1, <3>4, <4>1
    <3> QED BY <2>2, <3>1, <3>2, <3>3, <3>4
  <2> QED BY <2>1, <2>3
<1> QED BY <1>2, <1>3, <1>4, <1>5, <1>6, <1>7 DEF TypeOK, BootInv, Scheduled

\* Type correctness of the boot: in particular VM2's mapping stays in memory, and
\* a pin that waits waits no longer than the table is (scheduler.rs).
THEOREM BootTypeOK == Spec => []TypeOK
BY BootTypes, BootInvariant, PTL
==============================================================================
