# AI-Hypster in TLA+

AI-Hypster is a bare-metal type-1 hypervisor in Rust that runs two guests, VM1
(producer) and VM2 (consumer), which exchange packets over lock-free rings in
shared memory. This directory holds TLA+ specifications of its core, TLC
configurations that model-check them, and theorems checked by TLAPS.

Paths below are relative to `src/crates/hypster-core/src/` unless they say
otherwise; `vm1` and `vm2` are `src/crates/vm1-app/src/main.rs` and
`src/crates/vm2-app/src/main.rs`, `uefi` is `src/crates/hypster-uefi/src/main.rs`.

## 1. Inventory

| Component | State | Operations | Talks to | Hard behaviour | What makes it correct |
|---|---|---|---|---|---|
| SPSC channel (`channel.rs`) | slots, `head`, `tail`, a cached copy of the other index on each side | `send`, `recv` | its two callers, through shared memory | two sides interleave, loads may be old, indices wrap, payloads are clipped | it is a bounded FIFO; the sides never meet in a slot |
| Shared IPC region (`ipc_region.rs`) | two rings and a heartbeat block | `init_ipc_at_hpa` | both guests, host | reset while guests keep private copies of indices | a reset ring is never read with the indices of the ring before |
| SMP guests (`vm1`, `vm2`: `run_ipc_counter_exchange`) | counter, received, cached indices | send/recv of counters, heartbeats | each other | each waits for the other | lockstep, no lost acknowledgement, progress |
| AP hand-off (`dual_run.rs`, `ap_trampoline.rs`, `uefi`) | five atomic flags, EPT pointer | `run_concurrent_both`, `prepare_ap_context`, `start_ap_via_mp_services`, `bringup_ap`, `wait_ap_ready`, `ap_uefi_procedure`, `run_vm2_on_ap` | boot processor, APs, firmware | bounded spins, second attempts, late APs, restarts, failed VMXON | VM2 has one processor; VM2 runs if VM1 does |
| Serial line (`serial.rs`) | `SERIAL_LOCK`, `SERIAL_OWNER`, `AT_LINE_START`, per-processor guest buffers | `serial_print`, `serial_with_lock`, `guest_putchar_line` | every processor | a lock held from byte to byte, recognised by a number | lines whole, tagged, the lock given back |
| Alternating run (`dual_run.rs`: `run_dual_partitions`, `run_until_both_shutdown`) | done and launched flags, trial, `GUEST_STOP` | slices, trials, verification | `guest_run.rs`, both guests | one stop flag for two guests, guests that die, resets between trials | completes, counts agree, success only if both did their work |
| VM-exit handling (`guest_run.rs`) | reply slots and stop flags of each processor | exit stub, `vmx_handle_exit`, `emulate_cpuid`, `enter_guest` | guests, VMX | a register interface shared by hypercalls and CPUID | every exit answers the guest that took it |
| Second-level tables (`ept.rs`) | one PML4, PDPT, PD and tables | `map_region`, `map_shared_region`, `map_mmio_passthrough`, `translate_gpa` | VM set-up | calls that clear earlier calls, aliases | guests see their own memory and the shared region only |
| Network card (`e1000_emu.rs`, `e1000-spec`) | registers, transmit and receive rings | `mmio_read`, `mmio_write`, `sync_mmio`, `process_tx`, `deliver_rx_packet`, hardware polling | VMs, channel | head/tail rings, read-to-clear | no frame twice, no descriptor not given |
| IOMMU (`iommu.rs`) | root and context table, domains | `parse_acpi_dmar`, `assign_device_bdf`, `create_domain`, `validate_dma` | devices, configuration | shared context table, wrapping ranges | a device reaches its own domain only |
| VMX set-up (`vmx.rs`, entries of `guest_run.rs`) | VMXON, VMCS of each VM, host tables and TSS | `enable_hardware_vmx`, `setup_hardware_vmcs`, `install_tss_into`, `run_vcpu_once`, `enter_guest` | both processors, guests | the current VMCS is implicit, host state is a copy, identity comes from the stack | a VM is entered with its own VMCS, an exit comes home |
| PCI scan (`pci.rs`) | - | `scan_all_e1000` | VM set-up | order of the cards, BARs cut to 32 bits | VM2 gets the card that is assigned to it |
| Configuration (`config.rs`, `build.rs`) | constants | `validate_hardware_config`, `default_system`, `validate` | everything | two validations of one table | what the build accepts is safe to run |
| VM and legacy pipeline (`vm.rs`, `lib.rs`) | two VMs, channels, cards | `run_vcpu_step`, `Hypervisor::run` | channel, card, dispatcher | polling in turn | packets reach VM2 |
| Exit dispatcher, recovery (`vmexit.rs`, `health.rs`) | health of each VM | `dispatch`, `record_fault_and_recover` | pipeline | restarts in place, without limit | a restart leaves the other VM alone |
| Scheduler, LAPIC (`scheduler.rs`) | pin table, round-robin cursor | `add_pin`, `next_vcpu`, `send_init_sipi_sipi` | pipeline, AP hand-off | limits | every pinned vCPU gets its turn |
| Guest image, posted interrupts, CAT, RAS, throughput | tables, registers | set-up code | hardware | - | - |

Only a few of these run together. The concurrent build (two processors) is the
AP hand-off, then the counter exchange; the alternating build is one processor
that runs both guests slice by slice; a third entry runs VM1 alone. The software
pipeline of `lib.rs` (`Hypervisor::run`) is the older loop in which the guests are
simulated; nothing calls it any more, and with it the emulated card is out of use.

The behaviours hard to test are listed with their lines under `hazards` in
`PROJECT.json`: most have properties, the others say why not.

## 2. Plan

Done: `RingIndex`, `BoundedFifo`, `SpscRing` (the channel, on which everything
rests), `CounterExchange` (the concurrent guests), `ApHandoff` (how they come
to run), `SerialLine` (what every processor shares), `DualRun` (the other
build), `VmExit` (the interface between guests and host in both), `Ept` (what
the guests can reach), `Vmcs` (how they are entered), `Config` and `Boot` (what is
built and set up before), `E1000` (the emulated card), and the theorems about
all of them.

`Boot` composes the configuration, the IOMMU, the PCI scan and the schedule by
extending `Config`. `Vmcs`, `VmExit`, `DualRun` and `ApHandoff` look at the same run from
four sides, each with the state the others abstract: which VMCS is current, what
an exit leaves behind, which guest goes on, who runs at all.

What is left is liveness, which stays with TLC. The safety that carries it is stated and
proved where it could be separated: that the exchange always has a packet
under way (`OneInFlight`), that a lock is never left behind (`LockHasHolder`), that a
waiting frame has been announced (`FrameIsAnnounced`).

Eight modules hold theorems. A module of theorems can extend two components
whose definitions have different names: this is why the specification of
`CounterExchange` is called `ExchangeSpec`, that of `E1000` `CardSpec`, and so on.
`RingProofs` is about both copies of the ring's protocol, `DeviceProofs` about the
serial line and the card. No RECURSIVE operator is used where
there is a theorem, only recursive functions.

## 3. Modules and code

**`RingIndex`** is the arithmetic of the indices: wrapping successor and
difference, slot number, the test for a full ring. The capacity need not be a
power of two: it divides the number of index values, which is at least twice
as large. In the code these are 16 and 2^64.

**`BoundedFifo`** is what `send` and `recv` promise: a queue of at most `Bound`
packets, a call and an effect for each operation, answers that fit the queue at
the effect. `SpuriousRefusal` says whether a refusal may be unjustified.

**`SpscRing`** is `UnidirectionalChannel`, step by step. A step is one access to
memory the other side can see: the load of the other index, the copy of the
bytes, the access to the length, the store of the own index. `StaleLoads` lets
an acquire load return any store since the one this side loaded last; without
it a load returns the newest. `Contents` maps the slots between `head` and
`tail` to the queue of `BoundedFifo`; only the bytes up to the length count, as
the bytes behind are left over from older packets.

**`CounterExchange`** is `run_ipc_counter_exchange` of the two guests. They do
not use `channel.rs` but their own copy of its protocol; `vm1` and `vm2` differ
in which index they cache. A step is one access to shared memory. The forward
ring is `ch0`, the acknowledgement ring `ch1`. The specification is `ExchangeSpec`.

**`ApHandoff`** is the protocol of the flags `AP_READY`, `AP_RUN_VM2`,
`AP_BSP_WAITING`, `AP_VM2_DONE`, `AP_VM2_OK`. `bsp` and `ap` are program counters.
`Prepare` is one of the five stores of `prepare_ap_context`; `Arm` is one step
since no AP has been started yet. A spin loop in `SpinsOut` may give up
whenever its flag is not set: the loops count iterations, and nothing relates
their number to the progress of another processor. An AP told to start may
check in at any later time.

**`SerialLine`** is the line lock. `Own`, `Lock`, `Claim` are `acquire_line`;
`Disown`, `Unlock`, `Restart` are the three stores of `release_line`; between them
`write_host_byte` and `guest_putchar_line` write the port. A message of the host
ends in a newline, as every message of the code does before another processor
runs. `Me` is what `current_pcpu` answers: `Ident`, the processor's own number, on the
stack it runs guests on, and `Firmware`, which is 0 like the number of the boot
processor, on any other. `Switch` moves an idle processor from one to the other, as an
AP does between the firmware's call and its own stack (`ap_trampoline.rs:205, 217, 224`).
`clash` remembers that two processors with one number were in a message at once.

**`DualRun`** is one processor that runs VM1 and VM2 in turn. `Loop`, `Enter`,
`Check` are the host; a guest's action that leaves it (`V1Halt`, `V2Halt`,
`GuestShutdown`, `GuestFault`) includes what `vmx_handle_exit` and the rest of
`run_vcpu_once` then do. Since nothing runs concurrently, a packet is sent or
taken in one step. The cached indices of the guests are statics of a flat
image: a reload resets them or not, and both are modelled.

**`VmExit`** is what happens between a guest's exit and its resumption, on two
processors, in both builds. `Enter` is the common start of `run_vcpu_once` and
`enter_guest`; `EnterGuest`, `EntryFails` and `EntryRejected` are how the entry
instruction may end. The actions of `GuestExits` save the registers, as the
stub does first; those of `Handle` are the branches of `vmx_handle_exit`, with
`Meant` the exchange of RAX and RCX before them; `Patch` is `apply_cpuid_patch`;
`Resume` and `Yield` are the two ends of the stub. The actions of two processors
interleave between any of these. Which guest runs when is left open here, and
is the subject of `DualRun`, which has no registers.

**`Ept`** is the tables of the two VMs and the sequence of calls that fills them at
boot: RAM of each VM, the card of VM2 at the fixed guest address and at its BAR,
the shared region in both. A gigabyte is linked or not; all share one page
directory, as in the code, so a mapping shows in every linked gigabyte. A place
(`PlaceOK`) is where firmware put the memories and the region, statics of the loader
that lie apart (`BuffersOK`), and any 32-bit address for the BAR (`BarOK`): `pci.rs:66` cuts
a longer one, `pci.rs:97-103` makes up 0x2000_4000 where there is no second card, and
`vm.rs:73-80` maps what it is given.
`Translate` is `translate_gpa`, and what the processor walks. Access rights and
memory types are left out; every entry allows everything.

**`Vmcs`** is VMX operation and the VMCSs, on two processors, in the three runs
(`mode`). `current`, `cached` and `region` are what the processors keep: the VMCS that
is current, where each is active, whether it has its revision identifier and was
launched. `field` holds those fields a mistake would show in: page tables, posted
interrupts, and the host state an exit loads. `Load`, `Clear`, `Reload`, `Fields`, `Anchor`,
`Enter` are `run_vcpu_once` and `enter_guest` with `setup_hardware_vmcs` inside;
`Exit`, `Resume`, `Yield`, `Stop` the way back. `stack` is what `current_pcpu` goes by, `latch`
the variable it does not go by any more (`ap_trampoline.rs:73-76`).

**`Config`** is pure: `BuildAccepts` is the validation of `build.rs`, `Generated` what it
hands to the program, `DefaultSystem` what `config.rs` makes of that, `Validate` the
validation there. **`Boot`** is `Hypervisor::new` on a machine that firmware left:
`ParseAcpiDmar`, `ScanNics`, `CreateDomains`, `ReinforceMapping`, `NewVm2`, `FromConfig` in the
order of `lib.rs:143-200`, then the schedule. VM1's set-up, the shared region and VMX
are in `Ept` and `Vmcs`.

**`E1000`** is `VirtualE1000` with a driver. `ProcessTx` is `process_tx`, for a trapped
write of TDT (`WriteTdt`) or found in guest memory (`SyncMmio`). Where accesses do
not trap (`trapped` is false) the card is the one `sync_mmio` makes of it, which is
less. It takes the receive ring over (`TakeRxRing`) only with a length that is neither 0 nor
the one the card has, so a ring of the preset length stays at the preset address; it
knows neither TDH nor RDH; and it writes nothing back, so such a driver reads no ICR
and has to `Look`. `DeliverRxPacket` refuses with RDLEN 0 and panics with a ring shorter
than a descriptor; `HeadInRing` says whether it meets a descriptor of the driver's ring, and
`strayed` that the head moved on in one the driver does not have. The driver (`Queue`, `Ring`,
`Clean`, `Post`, `ReadFrame`, ...) is not in the repository: it keeps the rules of the
device and nothing more, sets length and place of its receive ring in either order,
and may ring without need or forget to. The specification is `CardSpec`, with
fairness `FairCard`. Outside the tests only `mmio_write` has a caller (`vm.rs:185`);
`sync_mmio`, `deliver_rx_packet` and `mmio_read` are modelled as what they promise
to a caller.

The `MC*` modules only give values to the constants. Definitions named after
another one with a suffix (`SendLenUnclipped` before `SendLen`) are mutated forms of
it, kept to see that the properties notice; no specification uses them.

## 4. Runs

| Run | Checks | Shows |
|---|---|---|
| `spsc_ring_stale` | `WindowOK`, `NoRace`, `ImplementsFifo`, `EverythingIsReceived` | with loads that return old stores the ring never overfills, races or tears, and implements the FIFO except that a refusal may be spurious; a poller gets every packet |
| `counter_exchange` | `Lockstep`, `OneInFlight`, `HeartbeatsRise` | two guests in lockstep for ever, one packet in the rings at most, and exactly one while both poll, none dropped |
| `ap_handoff_nested` | `OneOwner` | one processor for VM2, with two APs under a hypervisor, every loop giving up and every operation failing |
| `ap_handoff_live` | `Vm2Follows`, `InitSparesVmx` | on bare metal VM2 runs once VM1 does, if the AP's last wait is long enough; the second attempt restarts no AP in VMX operation |
| `serial_line` | `WholeLines`, `LockHasHolder`, `LockIsFreed` | lines of two processors are whole, on whatever stacks they print, unless both had one number in a message at once; and even then no path through a message loses the lock |
| `dual_run` | `TypeOK`, `DoneMeansDone`, `CountsAgree`, `FreshPackets`, `Completes` | with guests that may die: no success with a dead guest, no packet lost while VM1 lives, and an end in success where nothing fails |
| `vm_exit` | `StopIsOwn`, `AnsweredAsAsked`, `PutcharIsHeard`, `YieldsWhenMeant`, `NotRestarted` | exits of two processors or of two guests on one: each answer goes to the exit that asked, no state of one leaks into another |
| `ept` | `OnlyIpcIsShared`, `MapsTheLayout`, `LayersKeep` | over 2160 places of memory and card, the BAR also inside memory: VM1 never reaches VM2's memory, the two share the shared region only and, of the BAR's large page, what lies in it; later calls leave earlier mappings alone unless the BAR has their directory index |
| `vmcs` | `TypeOK`, `EntryIsSound`, `ExitIsHome` | in each way to run guests, whatever fails: the VM entered is the one whose VMCS was set up, on one processor, and its exits find the stack, tables and vCPU of that processor |
| `boot` | `TypeOK`, `AcceptedIsSafe`, `DmaInside`, `Vm2DrivesItsCard`, `TurnsAreFair` | over 40 machines and the configurations the build accepts: DMA is checked in the VM's own memory, VM2 drives its own card, the schedule passes nobody over |
| `e1000` | `CardTypeOK`, `TxInOrder`, `RxInOrder`, `FrameIsAnnounced`, `FramesAreRead` | with doorbells, polls, set-ups, refusals and a full channel in any order, rings of any length and place, trapped or polled: frames leave and are read in order, each once, none forgotten; an arrival never waits for want of an interrupt cause, where the driver can read it |

Type correctness of the ring, the exchange, the hand-off, the serial line, the tables
and the exits is proved (section 5), and not repeated in their runs. Where a theorem states a
property of a run, the run shows that it can be violated and was not, and the
theorem that the bounds of the run did not hide anything.

One more run shows where the code and what is said of it part, the finding of
`PROJECT.json`: in `ap_handoff_two_aps`, `OneOwner` is violated. On bare metal the
firmware's AP checks in late, after INIT-SIPI-SIPI has started another: both run
VM2 on one stack and one VMCS.

The conditions in the properties mark further limits of the code:

- `Vm2Follows` is checked without a timeout of the AP's wait for
  `AP_BSP_WAITING`. With one it does not hold: the AP may give up just before it
  is released, and VM1 then runs alone, as the boot processor does not look again.
- `FreshPackets` and the bounds of the forward ring hold only while VM1 lives.
  If it dies early in a later trial and the cached indices survived the reload,
  VM2 takes slots up to the cached tail of the trial before.
- `FreshPackets` needs a burst to fit the ring (`Burst <= Capacity`; both are 16 in
  the code, `BURST_PER_SLICE` of the guests and `CHANNEL_QUEUE_CAPACITY`, and nothing
  relates them). VM2's cached tail of the trial before says that there are
  packets, so in a later trial VM2 may never look at the tail, and what keeps it off
  slots not filled yet is that VM1 has just sent a whole burst. With bursts of
  three over two slots TLC finds VM2 taking packets of the trial before.
- That success is not reported (`DoneMeansDone`) is all that can be said of a dead guest: `run_vcpu_once`, whose
  comment promises `Ok(true)` for a guest "still runnable", answers so of a dead
  one too, which is entered again until the loop's bound.
- On bare metal an AP may set `AP_READY` after `prepare_ap_context` has reset it and before
  INIT restarts that AP: the boot processor takes the old flag for the new one,
  and may release VM1 with no AP awake. `ApHandoff` has these steps. Where the AP
  then does wake, `Vm2Follows` holds all the same.
- On the INIT-SIPI-SIPI path nobody sets `AP_RUN_VM2` again after
  `prepare_ap_context` has cleared it: the AP goes on only by the timeout of that
  wait and because the EPT pointer is set.
- After a failed VMXON on the AP (`ap_trampoline.rs:358`) the message announces that
  the boot processor will run VM2. By then it has launched VM1, and reads neither
  `AP_VM2_DONE` nor `AP_VM2_OK`: VM2 runs never. `ApHandoff` has the failure, and
  `Vm2Follows` is checked without it.
- `WholeLines` says nothing of the tags: `release_line` stores `AT_LINE_START` after it has
  freed the lock (`serial.rs:54-55`), so the next line may lack its tag. And it is
  suspended by a `clash`: once two processors with one number were in a message at once, either may
  write into the other's line until all are out of their messages.
  An AP on a stack of the firmware and the boot processor are such a pair.
- `LayersKeep` and `MapsTheLayout` are conditional on `BarIsClear`: a BAR with the
  directory index of low memory or of the shared region, in any gigabyte,
  replaces the mapping of these, or is replaced: at 0xC000_0000, say, it takes the
  entry of low memory from VM2, against the comment at `ept.rs:272`. The emulator places
  it elsewhere; nothing checks it.
- `OnlyIpcIsShared` needs no such condition. It grants both VMs the shared region, and VM2
  the whole 2 MiB around its BAR. What lies in these 2 MiB is nowhere looked at:
  if memory of VM1 does, VM2 reaches it, and the property says that it reaches
  nothing else. With the one card of `run_qemu.sh` the BAR is the made-up 0x2000_4000,
  which only the 512 MiB given to the emulator keep just above memory.
- `AnsweredAsAsked` excludes a CPUID with the putchar number in RCX, whose leaf and
  subleaf are exchanged like the registers of a call. `PutcharIsHeard` is all the
  exchange is for: a shutdown or a length call that arrives swapped is an unknown
  call, and the guest runs on without it.
- An entry rejected for the guest's state (exit reason 33) counts as a launch, and
  `run_vcpu_once` answers `Ok(true)`; the next slice then resumes a VMCS that never
  was launched and ends the run. A guest that yields loses its registers, as
  `vm1:64` knows; `DualRun` takes the guests to keep what they need in memory.
- The stub passes arguments in RDI, RSI and RDX and keeps one value in R11 across
  a call (`guest_run.rs:140-193`). `VmExit` takes them to arrive. The loader is built
  for `x86_64-unknown-uefi` (`run_qemu.sh:40`), where `extern "C"` is Microsoft's
  convention and the first argument is in RCX: this deserves a look at the
  compiled code, which no model replaces.

- In `Vmcs` the first VMPTRLD of each VM comes before the revision identifier is in
  its region and fails; nobody looks (`vmx.rs:348`), and the second, after VMCLEAR, is
  the one that counts. `lib.rs:191` prints that VMXON failed and goes on to a VMPTRLD
  that then raises an exception, as does VMXON itself where firmware locked
  IA32_FEATURE_CONTROL without VMX (`vmx.rs:516` sets the bits only where it is open).
  The model ends such a processor at `exception`.
- The DMAR table is searched for the address at offset 40, where a conforming table
  has reserved bytes: the structures of the repository (`iommu.rs:60-88`) put it at 56.
  With the zero found there remapping is never switched on (`translating`), and the
  entries of the context table name a domain but no page table. `DmaInside` is
  therefore about the tables and `validate_dma`, not about what hardware enforces.
- `DmaInside` needs two devices of bus 0 with numbers PCI knows: the buses share one
  context table, and the build accepts any three numbers. The end of a request may
  wrap in `validate_dma`; the property compares those that do not. The only caller
  asks whether the BAR of the first card lies in VM2's memory (`dual_run.rs:228`), is
  told no, and only prints it.
- `Vm2DrivesItsCard` needs PCI and YAML to agree: VM2 gets the second card found
  whatever `partition2.pci_*` say, and everything in the same 2 MiB with it. Two cards of
  128 KiB next to each other are both in VM2's reach.
- `AcceptedIsSafe` needs what the build does not check: devices that differ, and a
  second partition no smaller than the first. `partition2.ram_size` and the affinities
  do not reach the program, and `validate` has no caller.
- `TxInOrder` holds although one descriptor is sent for each doorbell, where the
  comment says "up to TDT" (`e1000_emu.rs:170`): a driver that rings once for many
  waits. A length of zero is meant as 16 descriptors (`e1000_emu.rs:216, 219`), but
  line 265 divides by it, and the host panics (`halted`); so does a receive ring shorter
  than one descriptor at line 286. A frame that meets a full channel is lost, with
  its descriptor marked done (`dropped`).
- `RxInOrder` holds until a frame is delivered into a descriptor the driver has not
  read (`overrun`): delivery looks at no tail. And it ends where a polled card moved its
  head in a ring that is not the driver's (`strayed`): when the card takes the driver's
  over later, the head is in the middle. A ring never taken over, like one of the preset length
  at the driver's own address (`e1000_emu.rs:188-194`), has its frames in `missed`.
- `FrameIsAnnounced` is about cards whose accesses trap. Elsewhere the interrupt cause is
  set as well, and no guest ever learns of it.

### Bounds

- Ring: two slots and four index values, so indices wrap every four packets and
  every slot is reused; packets of one byte (shorter than a slot), two (as long)
  and three (clipped). Byte values distinguish old and new contents of a slot.
- Counter exchange: two slots, six values of counter and index, which are
  reached several times over; the state space closes without a bound.
- Hand-off: two APs (one, for the failed VMXON), enough for one to be waited for
  while another is addressed. Every loop that can give up does, at any moment.
- Serial line: two processors, messages of up to `MaxText` = 2 bytes before the
  newline, a guest buffer of `LineMax` = 3 bytes (160 in the code). Two bytes
  distinguish the first of a line, which brings the tag, from the next. A processor
  changes stacks whenever it is between two messages.
- Dual run: three trials (the second has leftovers of the first, the third of
  leftovers), `Target` = 7 packets in bursts of `Burst` = 2 over two slots, so the
  last burst is short and the target is no multiple of the slots. `MaxSlices`
  bounds the rounds of the loop, as 50,000,000 does in the code; 6 is one more than
  `Completes` needs, so that a guest is also skipped when only the other is done.

- VM exits: two lengths (a stale one shows), the three calls and two values that
  are none, with or without the exchange of registers. A guest may take any exit
  at any time, so the guests of the repository are among those checked.
- Tables: three entries in a page table, five in the directory, two gigabytes;
  memories of two to seven pages (one table, two, and more than two hold, which
  the code cuts off), on both sides of each other and of the shared region, and
  the BAR on every page a guest address can name, in memory and region included.
- VMX: both processors, both VMs, two payload sizes (the second starts with the VMCSs
  of the first), one failure of each kind anywhere. Guests run and exit any number
  of times; the state space closes without a bound.
- Boot: 24 addresses, of which a BAR can name 16, large pages of four; two buses, four
  devices of two functions; thirteen configurations, at the edges of the overlap
  tests or with devices swapped, equal, in one slot or on two buses; one to three
  cards or none, in one large page or several, below or above what a BAR can name;
  a table of three pins, one more than the boot registers.
- Card: three transmit and three receive descriptors, up to four frames sent and three
  received, four in all (`MaxFrames`), a channel of one packet, two set-ups; transmit
  rings too short for a descriptor (length 1 of 2) or full, receive rings of length 0,
  too short, of two descriptors and of the preset three.

CHECK_DEADLOCK is off for the hand-off, the dual run, the exits and the tables,
which end: an AP goes back to the firmware, a run or the set-up finishes; and for
`vmcs` and `e1000`, where a processor stops and a panicked host does nothing more. The
ring, the exchange, the serial line and the boot, which ends in the schedule, never
stop, and TLC checks that.

### Fairness

- `SpscRing`: the consumer polls (both guests do, without end), and a store
  becomes visible in finite time: weak fairness of `Recv`, strong fairness of the
  load that returns the newest tail. Nothing is assumed of the producer.
- `CounterExchange`: each guest has a processor of its own, which no other can
  stop: weak fairness of each.
- `ApHandoff`: every processor runs and the firmware gets to a processor it was
  told to start. The claims are about hand-offs in which that is so; where
  it is not, `wait_ap_ready` gives up and the fallback run is what remains.
- `SerialLine`: a processor that has begun a message runs on. A spin lock is not
  fair, and no fairness of the lock is assumed: a processor may lose every race.
- `DualRun`: one processor runs, weak fairness of `Next`.
- `E1000`: the driver finishes its set-up, empties the ring once it is told of a
  frame and, where it cannot be told, looks again and again (`SetUp`, `Receive`). Nothing
  is assumed of the host, the doorbell or the other end of the channel. `FramesAreRead` ends
  where the host panicked, overran or strayed.
- `Boot` and `Vmcs` have safety properties only.

## 5. Proofs

All theorems hold for every value of the constants that meets the assumptions
named in the modules. TLC evaluates each of them in a run. Most only say of a
constant that it is a number or a set of the right kind; the others are facts of
the code:

- `CapacityAssumption`, `IndexSizeAssumption`: the capacity divides the number of index
  values, of which there are at least two per slot (16 and 2^64).
- `DualRunAssumption`: the target is a number of packets below 2^64.
- `EptAssumption`: the fixed guest addresses of the shared region and the card begin a
  large page, and have directory indices of their own, other than the two for low
  memory; the two memories and the region do not overlap (`BuffersOK`). Nothing is assumed
  of the BAR but that it has 32 bits.
- `BootAssumption`: the addresses the scan makes up for cards without one are BARs of
  32 bits, 2^64 is a multiple of a large page, the two memories that firmware
  allocated do not overlap or wrap, and a table of pins holds the two that the
  boot registers.
- `PacketAssumption`, `HandoffAssumption`, `SerialAssumption`, `VmcsAssumption`, `ExitAssumption`,
  `ConfigAssumption`: kinds only, and that a buffer of the serial line has room for a tag.
- `SizeAssumption` (the card): kinds, and that a transmit ring of any length the driver
  sets fits the memory it has for it.

Two theorems have a hypothesis of their own, stated in the theorem and explained
below: `HandoffOneOwner` and `DualFreshPackets`.
Each hypothesis holds in the passing runs of its property.

**Ring** (`RingProofs`). The arithmetic is settled first:
what the wrapping difference does when an index advances, and `SlotsDiffer`: two
indices less than a capacity apart have different slots, also across the wrap.
`WindowOK` is not inductive, for `send` decides on `cached_head` in one step and
advances `tail` some steps later. `IInv` adds `DecisionsHold` (what a side found
out stays true while it works on its slot) and, for the contents, `HalfwayOK`
(the part already written is in the slot, the part already copied is what the
slot still holds). `RingWindow` and `RingNoRace` follow. `RingIsFifo` maps each step to a step of
`BoundedFifo` or a stutter: `SendPublish` appends, `RecvRelease` takes
the head, the refreshes that fail are the refusals, and the writes to slots
outside the window leave `Contents` alone. The theorem is for any `StaleLoads`;
without stale loads it says that a refusal is justified, for which there is no
run of its own.

**Exchange** (`RingProofs`). `OneInFlight` and `Lockstep` say nothing of where a guest
is, so neither is inductive. `ExchangeInv` does: one packet travels a circle, and the
places of the two guests say which arc it is on. VM1 is `Posting`, `Posted` or `Closing`;
VM2, while VM1 waits, `Idle`, `Taking`, `Answering` or `Answered`, and each of these
gives all four indices as the counter or its successor and the slot in which the
packet lies. `CachesFit` gives the cached tails. Each of the fourteen steps moves one
of the two along; the arithmetic needed is that of the ring. While both guests
poll only `Posted` with `Idle`, or `Answered`, are possible, and each has its packet in a ring:
this is the last part of `OneInFlight`, and why the two cannot wait for each other.

**Hand-off** (`ApHandoffProofs`). `HandoffTypeOK` is without condition.
`HandoffOneOwner` holds under `Nested \/ Ap = {SipiTarget}`, which is what the
violated run lacks. `HandoffInv` says that at most one AP is ever started, none
before the hook, that `AP_BSP_WAITING` is set only on the way to VM1, and that an
AP in VMX operation saw it. Without the last, the state in which the boot
processor falls back while an AP is about to enter VM2 would not be excluded.
The last two alone (`ReleaseInv`) hold without the condition, and give
`HandoffInitSparesVmx` on every machine: when INIT is sent `AP_BSP_WAITING` is clear, so no
AP can be in VMX operation.

**Serial line** (`DeviceProofs`). No theorem assumes anything of the numbers but that none is
`NoOwner`. A processor holds the lock also between two bytes, where only
`SERIAL_OWNER` knows it; `SerialInv` therefore defines `Has`. One half of it holds always,
and gives `SerialLockHasHolder`: `OwnerIsBusy` says that the number in the owner variable is that of a
processor that will store `NoOwner`, `LockIsClaimed` that a lock taken is on its way into or
out of that variable, so even where two pass for one another the lock is given back.
The other half, `Orderly`, holds as long as nobody clashed: at most one processor has the lock, it is
locked then, and every byte on the port since the last newline is by that owner.
`SerialWholeLines` follows. A message that begins while no other is under way finds
`Orderly` again, by `LineIsUnderWay`: this is why a clash ends.

**Card** (`DeviceProofs`). `TxInOrder` compares the frames sent and dropped with those queued,
and says nothing of those between, which are in the ring only; it is not
inductive. `TxInv` adds them. By `Indices` and `Descriptors` the frames in the ring are
the last `Busy` that were queued, consecutive from the head to the driver's next
descriptor, and the descriptors behind the head are done, so that cleaning never
takes one the card has not sent. `Blank` says that no old frame is in the ring while the
driver sets it up again, `Books` that what was sent or dropped is everything
queued except the last `Busy`. `PendingIs` concludes that a reset abandons these and no
other. For the receive ring, `RxPlaces` says where frames can be at all, and
`Window` that the descriptors done are the
stretch from the driver's next to the head: a delivery appends a frame to `Waiting`, a
read moves its first to `got`, so the two in sequence change at the end only. For a
polled card this begins late: until the card has the driver's ring (`SameRing`) nothing was
received and the head is at 0 (`NothingYet`), which is where `Window` takes over, unless it
strayed.
`FrameIsAnnounced` is the safety of `FramesAreRead`: ICR is cleared only by
a driver that then walks through the ring, and it stops only at a descriptor
that is not done, which by `Window` means that none is. The distances in the ring are
settled beforehand as lemmas about `Ahead` and the successor of an index.

**Tables** (`EptProofs`). `EptTypeOK` and `EptOnlyIpcIsShared` hold for every size of the
tables, every place of memories and region that keeps them apart, and any BAR.
Isolation speaks of all pairs of guest pages and is not inductive. `EptInv` says
instead where each entry may point: a leaf into the VM's own memory or the shared
region, a large page to the card of VM2. `TranslateReach` concludes what a walk
can find, whatever gigabyte it starts in, and the buffers being apart does the rest.

`EptLayersKeep` and `EptMapsTheLayout` need the exact contents. `EptLayout` gives every entry as
a function of the calls made so far: the gigabytes linked, the leaves, and, under
`BarIsClear`, what each directory entry is. The condition is kept on the
directories alone, since an unfortunate BAR replaces an entry there, never a
leaf or a gigabyte. `LayersKeep` then compares two walks with one call between
them, `MapsTheLayout` takes one walk through each of the ranges.

**VMX set-up** (`VmcsProofs`). At the moment of an entry, `EntryIsSound` relates what was
written over many steps, some of them in a slice or trial before. `VmcsInv` carries
it there: `Turns` says which processor deals with which VM, `Caches` that a VMCS
is active nowhere else, `Homes` that a processor is on its own stack and has
tables that belong together, `Launches` that a vCPU that counts as launched
has a VMCS that is, and still with the fields of its processor; `Revised` and `Ready` say
how far the set-up has come at each place. `Launches` is what makes the
short way of a later slice, which sets nothing up, sound.

**Exits** (`VmExitProofs`). The answer a guest gets passes through a slot that the handler
fills and the stub empties; nothing in the slot says whose it is. `ExitInv` says that a
slot is pending only between the handler and the patch of the exit that asked (`Slots`) and
then holds the reply to it, that the registers on the stack are those the guest
left, or the reply once they are patched (`Pushed`), and which exits are to be resumed
(`Decided`). `Placed` keeps the processors apart: with one, the second never leaves
`over`; with two, each has its guest. `ExitNotRestarted` rests on `Counted`: a guest
that has left its entry point counts as launched, or is running at this moment.

**Dual run** (`DualRunProofs`). `DualDoneMeansDone` and `DualCountsAgree` follow from the books of the
host (`Books`) and from those of the guests (`Counted`: the count of a guest that
has begun is the index it moves), whatever dies: `CountsAgree` states them on the indices. `DualFreshPackets` needs `FreshInv`: the slots
from head to tail hold the packets with these numbers, VM1's cached head is at
or behind head, or ahead of tail (`Ring`), and VM1 stays a burst ahead of VM2 or has sent
everything (`Ahead`). The last is the reason why VM2's stale tail does no harm,
and is where `Burst <= Capacity` comes in.

**Boot** (`BootProofs`). The set-up has no loops a model needs, so `BootInv` gives the tables as
functions of the machine and the configuration at each step (`Assigned`, `Windowed`, `Carded`).
`BootDmaInside` and `BootVm2DrivesItsCard` are then about these functions: domain 1 holds one
device, the scan numbers cards in ascending order (so the card with one card
before it is the second), and two BARs in different large pages share no byte
of one. `BootAcceptedIsSafe` rests on the fact that no region the build accepts overflows: its
wrapping end is its real end, so tests that pass mean disjoint bytes, and go on
to do so when partition 2 gets the size of partition 1. In the schedule, `Turns`
bounds how long each pin has waited by its distance from the cursor.

Only model-checked: the liveness properties (`EverythingIsReceived`, `HeartbeatsRise`,
`Vm2Follows`, `LockIsFreed`, `Completes`, `FramesAreRead`), since the prover has no ENABLED.

## 6. Not modelled

The memory order of slots: the Release stores and Acquire loads of the indices
order the plain accesses to the slots, and `StaleLoads` models the loads of the
indices only. Time: delays, time stamps, throughput and timeouts in units of time.
The mode switch of the AP trampoline, the UART set-up, the guest image, and the
values of control fields and guest segments are lists of hardware accesses and
constants.

`Hypervisor::run` with `run_vcpu_step`, the exit dispatcher of `vmexit.rs` and the recovery
of `health.rs`: nothing calls the loop, and as it stands it could not run a guest. It
loads no VMCS and sets no host entry point (only `guest_run.rs:466, 584` do), the
registers of a guest are not saved at its exit (`vmx.rs:914-1013`), and `launched` is set
after an entry that failed (`vm.rs:137`), so that the restart of one VM that the
repository's README announces would not take place. A model would be one of code
that has no behaviour to be faithful to. The physical card's receive path
(`init_hardware_e1000_rx`, `poll_hardware_e1000_rx`) is part of that loop.

No caller on the boot paths either: `arm_concurrent_ap_release`, `apply_policy`,
`validate` (modelled in `Config` all the same), `disable_hardware_vmx`,
`load_guest_rax_rcx_for_pcpu`, `find_msix_capability`, the machine-check scan of `ras.rs`.
The ICMP echo of the ping build of the guests, the YAML parser and the launch
scripts are left out; the list in `PROJECT.json` says why of each.
