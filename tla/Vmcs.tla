-------------------------------- MODULE Vmcs ---------------------------------
(***************************************************************************)
(* VMX operation of the two processors and the VMCSs of the two VMs        *)
(* (vmx.rs, with the entries of guest_run.rs): VMXON, the set-up of a VMCS *)
(* and what each entry and each VM exit finds in it.                       *)
(*                                                                         *)
(* A VMCS is not written by name: VMWRITE goes to the one that is current  *)
(* on the processor, and an exit loads what the last entry left in it.     *)
(* Which processor it is on, the code takes from its stack pointer         *)
(* (current_pcpu).  One step is what lies between two accesses to state    *)
(* that both processors can see.                                           *)
(*                                                                         *)
(* The processors are 0 (BSP) and 1 (AP), the VMs 0 and 1.  There is one   *)
(* AP, and it enters VM2 only after the BSP released it and went on to     *)
(* VM1: ApHandoff is about that.  VmExit is about the exits themselves.    *)
(*                                                                         *)
(* MoreTrialsLate, CurrentPcpuLatched and HostTablesEarly are mutated      *)
(* forms of the definition that follows each.                              *)
(***************************************************************************)
EXTENDS Naturals

CONSTANTS
  Trials,  \* payload sizes the alternating run goes through
  None,    \* no VMCS, no field written
  Faults   \* what may go wrong: "VMXON", "entry"

P == {0, 1}
Vm == {0, 1}

ASSUME VmcsAssumption ==
  /\ Trials \in Nat \ {0}
  /\ None \notin Vm
  /\ Faults \subseteq {"VMXON", "entry"}

Own(p) == IF p = 0 THEN "bsp" ELSE "ap"

VARIABLES
  mode,      \* run_single_guest, or run_dual_partitions in one of its ways
  feature,   \* IA32_FEATURE_CONTROL as firmware left it
  pc,        \* where each processor is
  vm,        \* the VM each processor enters
  trial,     \* of the alternating run
  done,      \* VMs that have shut down in this trial
  released,  \* AP_BSP_WAITING
  vmx,       \* in VMX operation
  current,   \* the current VMCS of each processor
  cached,    \* processors on which each VMCS is active
  region,    \* revision identifier and launch state of each VMCS
  field,     \* the fields written in each VMCS
  gdt, tr,   \* whose descriptor table and TSS each processor uses
  stack,     \* whose stack each processor is on
  latch,     \* HOST_EXIT_PCPU
  anchor,    \* AP_EXIT_ANCHOR
  active,    \* ACTIVE_VCPU
  launched   \* VCpu::launched

vmcsVars == <<current, cached, region, field>>
hostVars == <<gdt, tr, stack, latch, anchor>>
vars == <<mode, feature, pc, vm, trial, done, released, vmx, vmcsVars, hostVars,
          active, launched>>

NoFields == [ept |-> None, pir |-> None, gdt |-> None, tr |-> None,
             rip |-> None, rsp |-> None]

\* OVMF may have loaded no task register.
Init ==
  /\ mode \in {"single", "alternating", "concurrent"}
  /\ feature \in {"unlocked", "vmx", "no vmx"}
  /\ pc = [p \in P |-> IF p = 0 THEN "vmxon" ELSE "parked"]
  /\ vm = [p \in P |-> p] /\ trial = 1 /\ done = {} /\ released = FALSE
  /\ vmx = [p \in P |-> FALSE]
  /\ current = [p \in P |-> None] /\ cached = [g \in Vm |-> {}]
  /\ region = [g \in Vm |-> [revision |-> FALSE, launch |-> "clear"]]
  /\ field = [g \in Vm |-> NoFields]
  /\ gdt = [p \in P |-> "firmware"] /\ tr \in [P -> {"none", "firmware"}]
  /\ stack = [p \in P |-> 0] /\ latch = 0 /\ anchor = FALSE
  /\ active = [p \in P |-> None] /\ launched = [g \in Vm |-> FALSE]

Go(p, to) == pc' = [pc EXCEPT ![p] = to]
------------------------------------------------------------------------------
(* Into VMX operation.                                                      *)

\* enable_hardware_vmx and enable_hardware_vmx_at: FEATURE_CONTROL is set if it
\* is open, and believed if it is locked.  VMXON then raises an exception; it
\* may also fail, or the processor have no VMX at all.
EnableVmx(p, success, failure) ==
  \/ /\ feature # "no vmx"
     /\ vmx' = [vmx EXCEPT ![p] = TRUE] /\ Go(p, success)
  \/ feature = "no vmx" /\ Go(p, "exception") /\ UNCHANGED vmx
  \/ "VMXON" \in Faults /\ Go(p, failure) /\ UNCHANGED vmx

\* Hypervisor::new ignores the answer, run_single_guest heeds it.
BspVmxon ==
  /\ pc[0] = "vmxon"
  /\ EnableVmx(0, "host", IF mode = "single" THEN "over" ELSE "host")
  /\ UNCHANGED <<mode, feature, vm, trial, done, released, vmcsVars, hostVars,
                 active, launched>>

\* run_on_ap_stack, and the start of run_vm2_on_ap.
ApStart ==
  /\ pc[1] = "parked" /\ released
  /\ stack' = [stack EXCEPT ![1] = 1] /\ latch' = 1 /\ anchor' = TRUE
  /\ Go(1, "tss")
  /\ UNCHANGED <<mode, feature, vm, trial, done, released, vmx, vmcsVars, gdt, tr,
                 active, launched>>

\* install_tss_into: a copy of the table in use with a TSS behind it, both
\* statics: one pair for the BSP, one for the AP.
InstallTss(p, statics) ==
  gdt' = [gdt EXCEPT ![p] = statics] /\ tr' = [tr EXCEPT ![p] = statics]

InstallApHostTss ==
  /\ pc[1] = "tss"
  /\ InstallTss(1, Own(1)) /\ Go(1, "vmxon")
  /\ UNCHANGED <<mode, feature, vm, trial, done, released, vmx, vmcsVars, stack,
                 latch, anchor, active, launched>>

\* The AP that cannot leaves the latch of the BSP, and stops.
ApVmxon ==
  /\ pc[1] = "vmxon"
  /\ EnableVmx(1, "load", "over")
  /\ latch' = IF pc'[1] = "over" THEN 0 ELSE latch
  /\ UNCHANGED <<mode, feature, vm, trial, done, released, vmcsVars, gdt, tr, stack,
                 anchor, active, launched>>
------------------------------------------------------------------------------
(* The runs.                                                                *)

\* run_single_guest, and the BSP of run_concurrent_both, which releases the AP.
EnterVm1 ==
  /\ pc[0] = "host" /\ mode # "alternating"
  /\ released' = (mode = "concurrent")
  /\ Go(0, "load")
  /\ UNCHANGED <<mode, feature, vm, trial, done, vmx, vmcsVars, hostVars, active,
                 launched>>

\* run_until_both_shutdown; vm[0] is the VM whose turn it is.
Slice ==
  /\ pc[0] = "host" /\ mode = "alternating" /\ done # Vm
  /\ IF vm[0] \in done
     THEN vm' = [vm EXCEPT ![0] = 1 - vm[0]] /\ UNCHANGED pc
     ELSE Go(0, "load") /\ UNCHANGED vm
  /\ UNCHANGED <<mode, feature, trial, done, released, vmx, vmcsVars, hostVars,
                 active, launched>>

MoreTrialsLate == trial <= Trials
MoreTrials == trial < Trials

\* The next trial of run_dual_partitions loads the guests anew.
NextTrial ==
  /\ pc[0] = "host" /\ done = Vm
  /\ IF MoreTrials
     THEN /\ trial' = trial + 1 /\ done' = {}
          /\ vm' = [vm EXCEPT ![0] = 0]
          /\ launched' = [g \in Vm |-> FALSE]
          /\ UNCHANGED pc
     ELSE Go(0, "over") /\ UNCHANGED <<trial, done, vm, launched>>
  /\ UNCHANGED <<mode, feature, released, vmx, vmcsVars, hostVars, active>>
------------------------------------------------------------------------------
(* The set-up of a VMCS and the entry.                                      *)

\* VMPTRLD refuses a region without the revision identifier, and nobody looks.
Vmptrld(p, g) ==
  IF region[g].revision
  THEN current' = [current EXCEPT ![p] = g] /\ cached' = [cached EXCEPT ![g] = @ \cup {p}]
  ELSE UNCHANGED <<current, cached>>

\* VMWRITEs that leave the current VMCS with these fields, if there is one.
Vmwrite(p, fields) ==
  IF current[p] \in Vm
  THEN field' = [field EXCEPT ![current[p]] = fields]
  ELSE UNCHANGED field

\* The first load, of run_vcpu_once or of enter_guest, which starts the guest
\* anew.  Outside VMX operation it raises an exception.
Load(p) ==
  /\ pc[p] = "load"
  /\ IF vmx[p]
     THEN /\ Vmptrld(p, vm[p])
          /\ launched' = [launched EXCEPT ![vm[p]] = @ /\ mode = "alternating"]
          /\ Go(p, IF launched'[vm[p]] THEN "anchor" ELSE "clear")
     ELSE Go(p, "exception") /\ UNCHANGED <<current, cached, launched>>
  /\ UNCHANGED <<mode, feature, vm, trial, done, released, vmx, region, field,
                 hostVars, active>>

\* setup_hardware_vmcs: the revision identifier, VMCLEAR, VMPTRLD.
Clear(p) ==
  /\ pc[p] = "clear"
  /\ region' = [region EXCEPT ![vm[p]] = [revision |-> TRUE, launch |-> "clear"]]
  /\ cached' = [cached EXCEPT ![vm[p]] = @ \ {p}]
  /\ current' = [current EXCEPT ![p] = IF @ = vm[p] THEN None ELSE @]
  /\ Go(p, "reload")
  /\ UNCHANGED <<mode, feature, vm, trial, done, released, vmx, field, hostVars,
                 active, launched>>

Reload(p) ==
  /\ pc[p] = "reload"
  /\ Vmptrld(p, vm[p]) /\ Go(p, "fields")
  /\ UNCHANGED <<mode, feature, vm, trial, done, released, vmx, region, field,
                 hostVars, active, launched>>

CurrentPcpuLatched(p) == latch
CurrentPcpu(p) == stack[p]

\* Without a task register ensure_host_tss gives the processor a table and a
\* TSS; the table's address is read again then.
HostTablesEarly(p) == [gdt |-> gdt[p], tr |-> tr'[p]]
HostTables(p) == [gdt |-> gdt'[p], tr |-> tr'[p]]

\* The rest of setup_hardware_vmcs.  configure_vmcs of the posted interrupts
\* leaves an AP out.
Fields(p) ==
  /\ pc[p] = "fields"
  /\ IF tr[p] = "none" THEN InstallTss(p, Own(0)) ELSE UNCHANGED <<gdt, tr>>
  /\ Vmwrite(p, [field[current[p]] EXCEPT
                   !.gdt = HostTables(p).gdt, !.tr = HostTables(p).tr, !.ept = vm[p],
                   !.pir = IF CurrentPcpu(p) = 0 THEN vm[p] ELSE None])
  /\ Go(p, "anchor")
  /\ UNCHANGED <<mode, feature, vm, trial, done, released, vmx, current, cached,
                 region, stack, latch, anchor, active, launched>>

\* host_exit_rsp_anchor: an AP without a stack of its own has that of the BSP.
HostRsp(p) == IF CurrentPcpu(p) = 1 /\ anchor THEN 1 ELSE 0

\* enter_guest_inner, or the same in enter_guest, up to the entry: ACTIVE_VCPU,
\* HOST_RIP and vmwrite_host_rsp.
Anchor(p) ==
  /\ pc[p] = "anchor"
  /\ active' = [active EXCEPT ![CurrentPcpu(p)] = vm[p]]
  /\ Vmwrite(p, [field[current[p]] EXCEPT
                   !.rip = "vmx_exit_handler", !.rsp = HostRsp(p)])
  /\ Go(p, "enter")
  /\ UNCHANGED <<mode, feature, vm, trial, done, released, vmx, current, cached,
                 region, hostVars, launched>>

\* VMLAUNCH wants a VMCS that is clear, VMRESUME one that is launched.
EntryFits(p) ==
  /\ current[p] \in Vm
  /\ region[current[p]].launch = IF launched[vm[p]] THEN "launched" ELSE "clear"
Enter(p) ==
  /\ pc[p] = "enter"
  /\ \/ /\ EntryFits(p)
        /\ region' = [region EXCEPT ![current[p]].launch = "launched"]
        /\ Go(p, "guest")
     \/ (EntryFits(p) => "entry" \in Faults) /\ Go(p, "over") /\ UNCHANGED region
  /\ UNCHANGED <<mode, feature, vm, trial, done, released, vmx, current, cached,
                 field, hostVars, active, launched>>
------------------------------------------------------------------------------
(* The VM exit.                                                             *)

\* The processor loads the host state of its current VMCS, and the stub calls
\* vmx_handle_exit, which looks up the vCPU by its processor.
Exit(p) ==
  /\ pc[p] = "guest"
  /\ LET host == field[current[p]]
     IN  /\ gdt' = [gdt EXCEPT ![p] = host.gdt] /\ tr' = [tr EXCEPT ![p] = host.tr]
         /\ stack' = [stack EXCEPT ![p] = host.rsp]
  /\ Go(p, "handler")
  /\ UNCHANGED <<mode, feature, vm, trial, done, released, vmx, vmcsVars, latch, anchor,
                 active, launched>>

Handled(p) ==
  launched' = [launched EXCEPT ![active[CurrentPcpu(p)]] = TRUE]

\* reload_host_rsp and VMRESUME.
Resume(p) ==
  /\ pc[p] = "handler"
  /\ Handled(p) /\ Go(p, "guest")
  /\ Vmwrite(p, [field[current[p]] EXCEPT !.rsp = HostRsp(p)])
  /\ UNCHANGED <<mode, feature, vm, trial, done, released, vmx, current, cached, region,
                 hostVars, active>>

\* HLT and every fatal exit give the processor back in the alternating run.
Yield ==
  /\ pc[0] = "handler" /\ mode = "alternating"
  /\ Handled(0) /\ Go(0, "host")
  /\ vm' = [vm EXCEPT ![0] = 1 - vm[0]]
  /\ UNCHANGED <<mode, feature, trial, done, released, vmx, vmcsVars, hostVars, active>>

\* The guest shuts down, or faults under enter_guest.  Of an AP that is all: it
\* halts in ap_maybe_finish_exit, or goes back to the firmware.
Stop(p) ==
  /\ pc[p] = "handler"
  /\ Handled(p)
  /\ done' = done \cup {vm[p]}
  /\ IF mode = "alternating"
     THEN Go(p, "host") /\ vm' = [vm EXCEPT ![p] = 1 - vm[p]]
     ELSE Go(p, "over") /\ UNCHANGED vm
  /\ UNCHANGED <<mode, feature, trial, released, vmx, vmcsVars, hostVars, active>>
------------------------------------------------------------------------------
EnterSteps(p) == Load(p) \/ Clear(p) \/ Reload(p) \/ Fields(p) \/ Anchor(p) \/ Enter(p)
ExitSteps(p) == Exit(p) \/ Resume(p) \/ Stop(p)

Next ==
  \/ BspVmxon \/ EnterVm1 \/ Slice \/ NextTrial \/ Yield
  \/ ApStart \/ InstallApHostTss \/ ApVmxon
  \/ \E p \in P : EnterSteps(p) \/ ExitSteps(p)

Spec == Init /\ [][Next]_vars
------------------------------------------------------------------------------
Tables == {"none", "firmware", "bsp", "ap"}
Place == {"parked", "tss", "vmxon", "host", "load", "clear", "reload", "fields",
          "anchor", "enter", "guest", "handler", "over", "exception"}
RunTypes ==
  /\ mode \in {"single", "alternating", "concurrent"}
  /\ feature \in {"unlocked", "vmx", "no vmx"}
  /\ pc \in [P -> Place]
  /\ vm \in [P -> Vm] /\ trial \in 1 .. Trials /\ done \subseteq Vm
  /\ released \in BOOLEAN /\ vmx \in [P -> BOOLEAN]
  /\ active \in [P -> Vm \cup {None}] /\ launched \in [Vm -> BOOLEAN]
Region == [revision : BOOLEAN, launch : {"clear", "launched"}]
Written == [ept : Vm \cup {None}, pir : Vm \cup {None},
            gdt : Tables \cup {None}, tr : Tables \cup {None},
            rip : {"vmx_exit_handler", None}, rsp : P \cup {None}]
VmcsTypes ==
  /\ current \in [P -> Vm \cup {None}] /\ cached \in [Vm -> SUBSET P]
  /\ region \in [Vm -> Region] /\ field \in [Vm -> Written]
HostTypes ==
  /\ gdt \in [P -> Tables] /\ tr \in [P -> Tables]
  /\ stack \in [P -> P] /\ latch \in P /\ anchor \in BOOLEAN
TypeOK == RunTypes /\ VmcsTypes /\ HostTypes

\* Whenever a processor is about to enter a VM, that VM's VMCS and no other is
\* current there, on no other processor at all, and says where to come back
\* to: to the handler, on the stack of this very processor, with its own
\* tables.  The page tables are those of the VM, posted interrupts are set up
\* on the BSP only, and the choice of VMLAUNCH or VMRESUME is right: however
\* slices, exits, trials and the entry of the other processor interleave.
EntryIsSound ==
  \A p \in P : pc[p] = "enter" =>
    LET g == vm[p]
    IN  /\ current[p] = g /\ cached[g] = {p}
        /\ field[g] = [ept |-> g, pir |-> IF p = 0 THEN g ELSE None,
                       gdt |-> gdt[p], tr |-> tr[p],
                       rip |-> "vmx_exit_handler", rsp |-> p]
        /\ region[g].launch = "launched" <=> launched[g]

\* After an exit the handler finds the vCPU that exited and no other's, and the
\* processor has a task register, which the descriptor table it has is for and
\* which the other processor does not share unless firmware made it.
ExitIsHome ==
  \A p \in P : pc[p] = "handler" =>
    /\ stack[p] = p /\ active[CurrentPcpu(p)] = vm[p]
    /\ tr[p] = gdt[p] /\ tr[p] \in {"firmware", Own(p)}

\* Why: each VM is a matter of one processor, of the BSP in the alternating run
\* and of its own otherwise, and the AP does nothing before it is released.
Runner(g) == IF mode = "alternating" THEN 0 ELSE g
Turns ==
  /\ vm[1] = 1
  /\ mode # "alternating" =>
       vm[0] = 0 /\ (pc[0] \in {"vmxon", "host"} => done = {} /\ ~released)
  /\ released => mode = "concurrent"
  /\ ~released => pc[1] = "parked"

\* Each processor is on its own stack, with tables that belong together.
Homes ==
  /\ stack[0] = 0 /\ (pc[1] # "parked" => stack[1] = 1 /\ anchor)
  /\ \A p \in P :
       \/ tr[p] = "none" /\ gdt[p] = "firmware"
       \/ tr[p] = gdt[p] /\ tr[p] \in {"firmware", Own(p)}
  /\ pc[1] \notin {"parked", "tss"} => tr[1] = "ap"

\* A VMCS is active on the processor of its VM only, and there if it is current.
Caches ==
  \A p \in P, g \in Vm :
    /\ current[p] = g => p \in cached[g]
    /\ p \in cached[g] => Runner(g) = p

\* What setup_hardware_vmcs leaves in the VMCS of g, as long as p runs it.
SetUp(p, g) ==
  /\ field[g].ept = g /\ field[g].pir = (IF p = 0 THEN g ELSE None)
  /\ field[g].gdt = gdt[p] /\ field[g].tr = tr[p] /\ tr[p] # "none"

\* A vCPU that counts as launched has a VMCS that is.
Launches ==
  \A g \in Vm : launched[g] =>
    /\ region[g].revision /\ region[g].launch = "launched"
    /\ SetUp(Runner(g), g)
    /\ Runner(g) = 1 => pc[1] \notin {"parked", "tss", "vmxon"}

\* How far the set-up of the VMCS is at each place of a processor.
Revised(p) ==
  LET g == vm[p]
  IN  /\ pc[p] \in {"reload", "fields", "anchor", "enter", "guest", "handler"} =>
           region[g].revision
      /\ pc[p] \in {"clear", "reload", "fields"} => ~launched[g]
      /\ pc[p] \in {"reload", "fields"} => region[g].launch = "clear"
      /\ pc[p] \in {"anchor", "enter"} =>
           (region[g].launch = "launched" <=> launched[g])
      /\ pc[p] \in {"guest", "handler"} => region[g].launch = "launched"
Ready(p) ==
  LET g == vm[p]
  IN  /\ pc[p] \in {"fields", "anchor", "enter", "guest", "handler"} =>
           current[p] = g
      /\ pc[p] \in {"anchor", "enter", "guest", "handler"} => SetUp(p, g)
      /\ pc[p] \in {"enter", "guest", "handler"} =>
           /\ field[g].rip = "vmx_exit_handler" /\ field[g].rsp = p
           /\ active[p] = g

VmcsInv ==
  /\ TypeOK /\ Turns /\ Homes /\ Caches /\ Launches
  /\ \A p \in P : Revised(p) /\ Ready(p)
==============================================================================
