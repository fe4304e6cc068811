------------------------------ MODULE ApHandoff ------------------------------
(***************************************************************************)
(* The hand-off of VM2 to an application processor (dual_run.rs,           *)
(* ap_trampoline.rs and the MpServices hook of hypster-uefi/src/main.rs).  *)
(* The boot processor arms five flags, has an AP started, first by the     *)
(* firmware and then by INIT-SIPI-SIPI, waits for it to check in and       *)
(* releases it; without an AP it runs both guests itself in slices.        *)
(*                                                                         *)
(* One step is one access to a shared flag (all of them are SeqCst).  An   *)
(* AP that was started checks in when the firmware gets to it, or never.   *)
(* Spin loops are bounded in the code by a count whose length in time is   *)
(* unknown: those in SpinsOut may give up whenever their flag is not set.  *)
(*                                                                         *)
(* ReleaseUnsaid and SeeWaitingUnheeded are mutated forms of the           *)
(* definition that follows them; nothing uses them.                        *)
(***************************************************************************)
EXTENDS Naturals, Sequences

CONSTANTS
  Ap,          \* the application processors
  SipiTarget,  \* the one whose APIC id is 1
  Nested,      \* whether CPUID says there is a hypervisor underneath
  SpinsOut,    \* the flags whose spin loops may give up
  Faults       \* what may fail: "VMXON", "entry", "guest"

ASSUME HandoffAssumption ==
  /\ SipiTarget \in Ap
  /\ Nested \in BOOLEAN
  /\ SpinsOut \subseteq {"AP_READY", "AP_RUN_VM2", "AP_BSP_WAITING"}
  /\ Faults \subseteq {"VMXON", "entry", "guest"}

VARIABLES
  flag,      \* the five flags
  ept,       \* whether AP_VM2_EPT_PA is set
  concurrent,\* CONCURRENT_MODE of guest_run.rs
  bsp,       \* where the boot processor is
  cleared,   \* flags prepare_ap_context has cleared in the call in progress
  ap         \* where each application processor is

vars == <<flag, ept, concurrent, bsp, cleared, ap>>

Flags == {"AP_READY", "AP_RUN_VM2", "AP_BSP_WAITING", "AP_VM2_DONE",
          "AP_VM2_OK"}

\* The order in which prepare_ap_context clears them.
PrepareOrder == <<"AP_READY", "AP_RUN_VM2", "AP_BSP_WAITING", "AP_VM2_DONE",
                  "AP_VM2_OK">>

Set(f) == flag' = [flag EXCEPT ![f] = TRUE]

Init ==
  /\ flag = [f \in Flags |-> FALSE]
  /\ ept = FALSE /\ concurrent = FALSE
  /\ bsp = "arm" /\ cleared = 0
  /\ ap = [a \in Ap |-> "off"]
-------------------------------------------------------------------------------
(***************************************************************************)
(* The boot processor: run_concurrent_both                                 *)
(***************************************************************************)

\* No AP has been started: the stores up to the call of the hook are one step.
Arm ==
  /\ bsp = "arm"
  /\ concurrent' = TRUE /\ ept' = TRUE
  /\ flag' = [flag EXCEPT !["AP_VM2_DONE"] = FALSE, !["AP_VM2_OK"] = FALSE,
                          !["AP_BSP_WAITING"] = FALSE, !["AP_RUN_VM2"] = TRUE]
  /\ bsp' = "hookPrepare"
  /\ UNCHANGED <<cleared, ap>>

\* prepare_ap_context, one store: an AP of an earlier attempt may be awake.
Prepare ==
  /\ bsp \in {"hookPrepare", "sipiPrepare"}
  /\ flag' = [flag EXCEPT ![PrepareOrder[cleared + 1]] = FALSE]
  /\ cleared' = (cleared + 1) % 5
  /\ bsp' = IF cleared < 4 THEN bsp
            ELSE IF bsp = "hookPrepare" THEN "hookArm" ELSE "kick"
  /\ UNCHANGED <<ept, concurrent, ap>>

\* start_ap_via_mp_services asserts AP_RUN_VM2 again.
HookArm ==
  /\ bsp = "hookArm"
  /\ Set("AP_RUN_VM2")
  /\ bsp' = "hookStart"
  /\ UNCHANGED <<ept, concurrent, cleared, ap>>

\* No protocol, fewer than two processors, no event, startup_this_ap failed.
HookFails ==
  /\ bsp = "hookStart"
  /\ bsp' = "sipiPrepare"
  /\ UNCHANGED <<flag, ept, concurrent, cleared, ap>>

HookStarts(a) ==
  /\ bsp = "hookStart"
  /\ ap' = [ap EXCEPT ![a] = "started"]
  /\ bsp' = "hookWait"
  /\ UNCHANGED <<flag, ept, concurrent, cleared>>

\* bringup_ap: under a hypervisor it gives up, otherwise it sends INIT-SIPI,
\* which restarts the processor wherever it is.
KickNested ==
  /\ bsp = "kick" /\ Nested
  /\ bsp' = "fallback"
  /\ UNCHANGED <<flag, ept, concurrent, cleared, ap>>

Kick ==
  /\ bsp = "kick" /\ ~Nested
  /\ ap' = [ap EXCEPT ![SipiTarget] = "started"]
  /\ bsp' = "sipiWait"
  /\ UNCHANGED <<flag, ept, concurrent, cleared>>

\* wait_ap_ready.  (The second look of run_concurrent_both at AP_READY, after
\* the hook answered true, finds it still set.)
WaitReady ==
  /\ bsp \in {"hookWait", "sipiWait"}
  /\ flag["AP_READY"]
  /\ bsp' = "release"
  /\ UNCHANGED <<flag, ept, concurrent, cleared, ap>>

WaitTimeout ==
  /\ bsp \in {"hookWait", "sipiWait"}
  /\ ~flag["AP_READY"] /\ "AP_READY" \in SpinsOut
  /\ bsp' = IF bsp = "hookWait" THEN "sipiPrepare" ELSE "fallback"
  /\ UNCHANGED <<flag, ept, concurrent, cleared, ap>>

ReleaseUnsaid ==
  /\ bsp = "release"
  /\ bsp' = "delay"
  /\ UNCHANGED <<flag, ept, concurrent, cleared, ap>>

Release ==
  /\ bsp = "release"
  /\ Set("AP_BSP_WAITING")
  /\ bsp' = "delay"
  /\ UNCHANGED <<ept, concurrent, cleared, ap>>

\* enter_guest of VM1: its guest never exits unless it faults.
Launch ==
  /\ bsp = "delay"
  /\ bsp' = "vm1"
  /\ UNCHANGED <<flag, ept, concurrent, cleared, ap>>

\* The error leaves run_concurrent_both by `?`, before the mode is reset.
LaunchFails ==
  /\ bsp = "delay" /\ "entry" \in Faults
  /\ bsp' = "halted"
  /\ UNCHANGED <<flag, ept, concurrent, cleared, ap>>

Vm1Returns ==
  /\ bsp = "vm1" /\ "guest" \in Faults
  /\ concurrent' = FALSE
  /\ bsp' = "halted"
  /\ UNCHANGED <<flag, ept, cleared, ap>>

\* No AP: run_until_both_shutdown on the boot processor, VM1 first.
Fallback ==
  /\ bsp = "fallback"
  /\ concurrent' = FALSE
  /\ bsp' = "slice1"
  /\ UNCHANGED <<flag, ept, cleared, ap>>

\* A slice ends when its guest faults; the guests of this build neither halt
\* nor shut down.
SliceEnds ==
  /\ bsp \in {"slice1", "slice2"}
  /\ \/ "guest" \in Faults /\ bsp' = IF bsp = "slice1" THEN "slice2" ELSE "slice1"
     \/ "entry" \in Faults /\ bsp' = "halted"
  /\ UNCHANGED <<flag, ept, concurrent, cleared, ap>>
-------------------------------------------------------------------------------
(***************************************************************************)
(* An application processor: ap_uefi_procedure                             *)
(***************************************************************************)

CheckIn(a) ==
  /\ ap[a] = "started"
  /\ Set("AP_READY")
  /\ ap' = [ap EXCEPT ![a] = "awaitRun"]
  /\ UNCHANGED <<ept, concurrent, bsp, cleared>>

SeeRun(a) ==
  /\ ap[a] = "awaitRun"
  /\ flag["AP_RUN_VM2"]
  /\ ap' = [ap EXCEPT ![a] = "awaitWaiting"]
  /\ UNCHANGED <<flag, ept, concurrent, bsp, cleared>>

\* A set AP_VM2_EPT_PA is taken for the flag.
RunTimeout(a) ==
  /\ ap[a] = "awaitRun"
  /\ ~flag["AP_RUN_VM2"] /\ "AP_RUN_VM2" \in SpinsOut
  /\ ap' = [ap EXCEPT ![a] = IF ept THEN "awaitWaiting" ELSE "signalDone"]
  /\ UNCHANGED <<flag, ept, concurrent, bsp, cleared>>

SeeWaitingUnheeded(a) ==
  /\ ap[a] = "awaitWaiting"
  /\ ap' = [ap EXCEPT ![a] = "vmxon"]
  /\ UNCHANGED <<flag, ept, concurrent, bsp, cleared>>

SeeWaiting(a) ==
  /\ ap[a] = "awaitWaiting"
  /\ flag["AP_BSP_WAITING"]
  /\ ap' = [ap EXCEPT ![a] = "vmxon"]
  /\ UNCHANGED <<flag, ept, concurrent, bsp, cleared>>

WaitingTimeout(a) ==
  /\ ap[a] = "awaitWaiting"
  /\ ~flag["AP_BSP_WAITING"] /\ "AP_BSP_WAITING" \in SpinsOut
  /\ ap' = [ap EXCEPT ![a] = "signalDone"]
  /\ UNCHANGED <<flag, ept, concurrent, bsp, cleared>>

\* run_vm2_on_ap: VMXON, then enter_guest.
EnterVm2(a) ==
  /\ ap[a] = "vmxon"
  /\ ap' = [ap EXCEPT ![a] = "vm2"]
  /\ UNCHANGED <<flag, ept, concurrent, bsp, cleared>>

VmxonFails(a) ==
  /\ ap[a] = "vmxon" /\ "VMXON" \in Faults
  /\ ap' = [ap EXCEPT ![a] = "vmxonFailed"]
  /\ UNCHANGED <<flag, ept, concurrent, bsp, cleared>>

EnterVm2Fails(a) ==
  /\ ap[a] = "vmxon" /\ "entry" \in Faults
  /\ ap' = [ap EXCEPT ![a] = "signalDone"]
  /\ UNCHANGED <<flag, ept, concurrent, bsp, cleared>>

\* VM2 shuts down (ap_maybe_finish_exit) or stops on a fatal exit.
Vm2Stops(a) ==
  /\ ap[a] = "vm2" /\ "guest" \in Faults
  /\ \E next \in {"signalOk", "signalDone"} : ap' = [ap EXCEPT ![a] = next]
  /\ UNCHANGED <<flag, ept, concurrent, bsp, cleared>>

SignalOk(a) ==
  /\ ap[a] = "signalOk"
  /\ Set("AP_VM2_OK")
  /\ ap' = [ap EXCEPT ![a] = "signalDone"]
  /\ UNCHANGED <<ept, concurrent, bsp, cleared>>

SignalDone(a) ==
  /\ ap[a] \in {"signalDone", "vmxonFailed"}
  /\ Set("AP_VM2_DONE")
  /\ ap' = [ap EXCEPT ![a] = "stopped"]
  /\ UNCHANGED <<ept, concurrent, bsp, cleared>>
-------------------------------------------------------------------------------
Bsp ==
  \/ Arm
  \/ Prepare
  \/ HookArm
  \/ HookFails
  \/ \E a \in Ap : HookStarts(a)
  \/ KickNested
  \/ Kick
  \/ WaitReady
  \/ WaitTimeout
  \/ Release
  \/ Launch
  \/ LaunchFails
  \/ Vm1Returns
  \/ Fallback
  \/ SliceEnds

ApStep(a) ==
  \/ CheckIn(a)
  \/ SeeRun(a)
  \/ RunTimeout(a)
  \/ SeeWaiting(a)
  \/ WaitingTimeout(a)
  \/ EnterVm2(a)
  \/ VmxonFails(a)
  \/ EnterVm2Fails(a)
  \/ Vm2Stops(a)
  \/ SignalOk(a)
  \/ SignalDone(a)

Next == Bsp \/ \E a \in Ap : ApStep(a)

Spec == Init /\ [][Next]_vars

\* Every processor runs, and the firmware gets to a processor it was told to
\* start: the claims below are about hand-offs that go that well.
FairSpec == Spec /\ WF_vars(Bsp) /\ \A a \in Ap : WF_vars(ApStep(a))
-------------------------------------------------------------------------------
(***************************************************************************)
(* Properties                                                              *)
(***************************************************************************)

TypeOK ==
  /\ flag \in [Flags -> BOOLEAN]
  /\ ept \in BOOLEAN /\ concurrent \in BOOLEAN
  /\ bsp \in {"arm", "hookPrepare", "hookArm", "hookStart", "hookWait",
              "sipiPrepare", "kick", "sipiWait", "release", "delay", "vm1",
              "fallback", "slice1", "slice2", "halted"}
  /\ cleared \in 0 .. 4
  /\ (cleared # 0) => bsp \in {"hookPrepare", "sipiPrepare"}
  /\ ap \in [Ap -> {"off", "started", "awaitRun", "awaitWaiting", "vmxon",
                    "vmxonFailed", "vm2", "signalOk", "signalDone",
                    "stopped"}]

OnVm2 == {a \in Ap : ap[a] \in {"vmxon", "vm2"}}
Slicing == bsp \in {"slice1", "slice2"}

\* VM2 has one processor: there is one AP stack, one VMXON page and one VMCS
\* for it.  No two APs ever run it, and none does once the boot processor has
\* turned to running both guests itself, however late an AP of a failed
\* attempt wakes up and whichever of its waits give up.
OneOwner ==
  /\ \A a, b \in OnVm2 : a = b
  /\ Slicing => OnVm2 = {}

\* The inductive invariant behind OneOwner: at most one AP is ever started, the
\* flag that releases it is set for good and only on the way to VM1, and an AP
\* in VMX operation has seen it.  A call of prepare_ap_context in progress
\* has not set anything.
OneStarted == \A a, b \in Ap : ap[a] # "off" /\ ap[b] # "off" => a = b
NoneStarted ==
  bsp \in {"arm", "hookPrepare", "hookArm", "hookStart"} =>
    \A a \in Ap : ap[a] = "off"
ReleasedForVm1 == flag["AP_BSP_WAITING"] => bsp \in {"delay", "vm1", "halted"}
RunsReleased == OnVm2 # {} => flag["AP_BSP_WAITING"]

ReleaseInv == TypeOK /\ ReleasedForVm1 /\ RunsReleased
HandoffInv == ReleaseInv /\ OneStarted /\ NoneStarted

\* INIT never hits a processor that is in VMX operation, although the attempt
\* before it may have left an AP awake and on its way.
InitSparesVmx ==
  [][bsp = "kick" /\ bsp' = "sipiWait"
       => ap[SipiTarget] \notin {"vmxon", "vm2"}]_vars

\* Once VM1 spins for ever in the exchange, VM2 is there to answer it.
Vm2Follows == bsp = "vm1" ~> \E a \in Ap : ap[a] = "vm2"
==============================================================================
