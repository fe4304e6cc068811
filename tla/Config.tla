------------------------------- MODULE Config --------------------------------
(***************************************************************************)
(* The static configuration: what build.rs accepts of hardware_config.yaml,*)
(* which of it reaches the program as constants, the two partitions that   *)
(* config.rs makes of these, and its own validation of them.               *)
(*                                                                         *)
(* A YAML file is a record of regions [base, size] of host memory, of the  *)
(* affinity, the cache ways and the device [bus, dev, fn] of each          *)
(* partition, and of the interrupt vector.  Fields that neither validation *)
(* reads are left out, as are magic number and version, each compared with *)
(* itself.  AddrSize stands for 2^64.                                      *)
(*                                                                         *)
(* RegionsApartNeighbours is a mutated form of the definition that follows.*)
(***************************************************************************)
EXTENDS Integers, Sequences, FiniteSets

CONSTANTS
  AddrSize,  \* addresses of host memory
  Vectors    \* interrupt vectors a notification may use, 0x20 .. 0xFF

ASSUME ConfigAssumption == AddrSize \in Nat \ {0}

Partition == {1, 2}
Regions == <<"hypervisor", "vm1", "vm2", "ipc", "bar0">>

\* overflowing_add of base and size.
Overflows(r) == r.base + r.size >= AddrSize
End(r) == (r.base + r.size) % AddrSize
Apart(r, s) == End(r) <= s.base \/ End(s) <= r.base
Bytes(r) == r.base .. r.base + r.size - 1

RegionsApartNeighbours(y) ==
  \A i \in 2 .. Len(Regions) : Apart(y.region[Regions[i - 1]], y.region[Regions[i]])
RegionsApart(y) ==
  \A i, j \in DOMAIN Regions : i < j => Apart(y.region[Regions[i]], y.region[Regions[j]])

\* validate_hardware_config of build.rs, which ends the build otherwise.  The
\* devices are not looked at.
BuildAccepts(y) ==
  /\ \A i \in DOMAIN Regions : ~Overflows(y.region[Regions[i]])
  /\ RegionsApart(y)
  /\ y.cpu[1] # y.cpu[2]
  /\ y.ways[1] \cap y.ways[2] = {}
  /\ y.vector \in Vectors

\* The generated constants: PARTITION_RAM_SIZE is the size of partition 1, and
\* the affinities are not among them.
Generated(y) ==
  [base |-> [p \in Partition |-> y.region[IF p = 1 THEN "vm1" ELSE "vm2"].base],
   size |-> y.region["vm1"].size,
   bdf |-> y.bdf]

\* StaticHypervisorConfig::default_system.  It gives both partitions the same
\* size and pins partition 1 to processor 0 and partition 2 to processor 1.
DefaultSystem(c) ==
  [p \in Partition |->
     [vm_id |-> p - 1,
      ram |-> [base |-> c.base[p], size |-> c.size],
      pcpu |-> p - 1,
      bdf |-> c.bdf[p]]]

\* StaticHypervisorConfig::validate, which nothing calls.
Validate(parts) ==
  /\ \A p \in Partition : ~Overflows(parts[p].ram)
  /\ \A p, q \in Partition :
       p < q => /\ parts[p].pcpu # parts[q].pcpu
                /\ Apart(parts[p].ram, parts[q].ram)
                /\ parts[p].bdf # parts[q].bdf
==============================================================================
