--------------------------- MODULE ApHandoffProofs ---------------------------
(***************************************************************************)
(* Type correctness of the hand-off, and the single owner of VM2 where     *)
(* INIT-SIPI can only reach the processor the firmware started, if any.    *)
(***************************************************************************)
EXTENDS ApHandoff, TLAPS

\* Every flag and place keeps its type, whatever fails or gives up
\* (prepare_ap_context, run_concurrent_both, ap_uefi_procedure).
THEOREM HandoffTypeOK == Spec => []TypeOK
<1>1. Init => TypeOK
  <2> SUFFICES ASSUME Init PROVE TypeOK
    OBVIOUS
  <2>1. flag \in [Flags -> BOOLEAN]
    BY Zenon DEF Init
  <2>2. ept \in BOOLEAN /\ concurrent \in BOOLEAN
    BY DEF Init
  <2>3. ap \in [Ap -> {"off"}] /\ bsp = "arm" /\ cleared = 0
    BY DEF Init
  <2> QED BY <2>1, <2>2, <2>3 DEF TypeOK
<1>2. TypeOK /\ [Next]_vars => TypeOK'
  <2> SUFFICES ASSUME TypeOK, [Next]_vars PROVE TypeOK'
    OBVIOUS
  <2> USE DEF TypeOK
  <2>1. CASE Bsp
    <3>1. CASE Prepare
      <4>1. PrepareOrder[cleared + 1] \in Flags
        BY DEF PrepareOrder, Flags
      <4> QED BY <3>1, <4>1 DEF Prepare
    <3>2. CASE Arm \/ HookArm \/ HookFails \/ \E a \in Ap : HookStarts(a)
      BY <3>2, HandoffAssumption
         DEF Arm, HookArm, HookFails, HookStarts, Set, Flags
    <3>3. CASE KickNested \/ Kick \/ WaitReady \/ WaitTimeout
      BY <3>3, HandoffAssumption DEF KickNested, Kick, WaitReady, WaitTimeout
    <3>4. CASE Release \/ Launch \/ LaunchFails \/ Vm1Returns
      BY <3>4 DEF Release, Launch, LaunchFails, Vm1Returns, Set, Flags
    <3>5. CASE Fallback \/ SliceEnds
      BY <3>5 DEF Fallback, SliceEnds
    <3> QED BY <2>1, <3>1, <3>2, <3>3, <3>4, <3>5 DEF Bsp
  <2>2. ASSUME NEW a \in Ap, ApStep(a) PROVE TypeOK'
    <3>1. CASE CheckIn(a) \/ SeeRun(a) \/ RunTimeout(a)
      <4>1. CASE CheckIn(a)
        BY <4>1 DEF CheckIn, Set, Flags
      <4>2. CASE SeeRun(a)
        BY <4>2 DEF SeeRun, Set, Flags
      <4>3. CASE RunTimeout(a)
        BY <4>3 DEF RunTimeout, Set, Flags
      <4> QED BY <3>1, <4>1, <4>2, <4>3
    <3>2. CASE SeeWaiting(a) \/ WaitingTimeout(a) \/ EnterVm2(a)
      <4>1. CASE SeeWaiting(a)
        BY <4>1 DEF SeeWaiting
      <4>2. CASE WaitingTimeout(a)
        BY <4>2 DEF WaitingTimeout
      <4>3. CASE EnterVm2(a)
        BY <4>3 DEF EnterVm2
      <4> QED BY <3>2, <4>1, <4>2, <4>3
    <3>3. CASE VmxonFails(a) \/ EnterVm2Fails(a) \/ Vm2Stops(a)
      <4>1. CASE VmxonFails(a)
        BY <4>1 DEF VmxonFails
      <4>2. CASE EnterVm2Fails(a)
        BY <4>2 DEF EnterVm2Fails
      <4>3. CASE Vm2Stops(a)
        BY <4>3 DEF Vm2Stops
      <4> QED BY <3>3, <4>1, <4>2, <4>3
    <3>4. CASE SignalOk(a) \/ SignalDone(a)
      <4>1. CASE SignalOk(a)
        BY <4>1 DEF SignalOk, Set, Flags
      <4>2. CASE SignalDone(a)
        BY <4>2 DEF SignalDone, Set, Flags
      <4> QED BY <3>4, <4>1, <4>2
    <3> QED BY <2>2, <3>1, <3>2, <3>3, <3>4 DEF ApStep
  <2>3. CASE UNCHANGED vars
    BY <2>3 DEF vars
  <2> QED BY <2>1, <2>2, <2>3 DEF Next
<1> QED BY <1>1, <1>2, PTL DEF Spec

\* An AP in VMX operation has been released, whatever else is awake.
LEMMA ReleaseInvariant == Spec => []ReleaseInv
<1>1. Init /\ TypeOK => ReleaseInv
  <2> SUFFICES ASSUME Init, TypeOK PROVE ReleaseInv
    OBVIOUS
  <2>1. ~flag["AP_BSP_WAITING"]
    BY DEF Init, Flags
  <2> QED
    BY <2>1 DEF Init, ReleaseInv, ReleasedForVm1, RunsReleased, OnVm2
<1>2. ReleaseInv /\ TypeOK' /\ [Next]_vars => ReleaseInv'
  <2> SUFFICES ASSUME ReleaseInv, TypeOK', [Next]_vars
               PROVE  (ReleasedForVm1 /\ RunsReleased)'
    BY DEF ReleaseInv
  <2> USE HandoffAssumption DEF ReleaseInv, TypeOK, ReleasedForVm1, RunsReleased, OnVm2
  <2>1. CASE Bsp
    <3>1. CASE Arm \/ HookArm \/ HookFails
      BY <3>1 DEF Arm, HookArm, HookFails, Set, Flags
    <3>2. CASE Prepare
      <4>1. UNCHANGED ap /\ OnVm2 = {}
        BY <3>2 DEF Prepare
      <4>2. flag'["AP_BSP_WAITING"] => flag["AP_BSP_WAITING"]
        BY <3>2 DEF Prepare, PrepareOrder, Flags
      <4>3. ~flag["AP_BSP_WAITING"]
        BY <3>2 DEF Prepare
      <4> QED BY <4>1, <4>2, <4>3
    <3>3. CASE \E a \in Ap : HookStarts(a)
      BY <3>3 DEF HookStarts
    <3>4. CASE Kick
      BY <3>4 DEF Kick
    <3>5. CASE KickNested \/ WaitReady \/ WaitTimeout
      BY <3>5 DEF KickNested, WaitReady, WaitTimeout
    <3>6. CASE Release \/ Launch \/ LaunchFails \/ Vm1Returns
      BY <3>6 DEF Release, Launch, LaunchFails, Vm1Returns, Set, Flags
    <3>7. CASE Fallback \/ SliceEnds
      BY <3>7 DEF Fallback, SliceEnds
    <3> QED BY <2>1, <3>1, <3>2, <3>3, <3>4, <3>5, <3>6, <3>7 DEF Bsp
  <2>2. ASSUME NEW a \in Ap, ApStep(a)
        PROVE  (ReleasedForVm1 /\ RunsReleased)'
    <3>1. UNCHANGED bsp /\ \A b \in Ap \ {a} : ap'[b] = ap[b]
      BY <2>2 DEF ApStep, CheckIn, SeeRun, RunTimeout, SeeWaiting,
                  WaitingTimeout, EnterVm2, VmxonFails, EnterVm2Fails,
                  Vm2Stops, SignalOk, SignalDone
    <3>2. flag'["AP_BSP_WAITING"] = flag["AP_BSP_WAITING"]
      BY <2>2 DEF ApStep, CheckIn, SeeRun, RunTimeout, SeeWaiting,
                  WaitingTimeout, EnterVm2, VmxonFails, EnterVm2Fails,
                  Vm2Stops, SignalOk, SignalDone, Set, Flags
    <3>3. ap'[a] \in {"vmxon", "vm2"} => flag["AP_BSP_WAITING"]
      BY <2>2 DEF ApStep, CheckIn, SeeRun, RunTimeout, SeeWaiting,
                  WaitingTimeout, EnterVm2, VmxonFails, EnterVm2Fails,
                  Vm2Stops, SignalOk, SignalDone
    <3> QED BY <3>1, <3>2, <3>3
  <2>3. CASE UNCHANGED vars
    BY <2>3 DEF vars
  <2> QED BY <2>1, <2>2, <2>3 DEF Next
<1>3. Spec => []TypeOK
  BY HandoffTypeOK
<1> QED BY <1>1, <1>2, <1>3, PTL DEF Spec

\* At most one AP is started under a hypervisor, where INIT-SIPI is not sent,
\* and on bare metal with a single application processor.
LEMMA HandoffInvariant ==
  ASSUME Nested \/ Ap = {SipiTarget}
  PROVE  Spec => []HandoffInv
<1>1. Init => OneStarted /\ NoneStarted
  BY DEF Init, OneStarted, NoneStarted
<1>2. HandoffInv /\ [Next]_vars => (OneStarted /\ NoneStarted)'
  <2> SUFFICES ASSUME HandoffInv, [Next]_vars PROVE (OneStarted /\ NoneStarted)'
    OBVIOUS
  <2> USE HandoffAssumption
      DEF HandoffInv, ReleaseInv, TypeOK, OneStarted, NoneStarted
  <2>1. CASE Bsp
    <3>1. CASE Arm \/ HookArm \/ HookFails
      BY <3>1 DEF Arm, HookArm, HookFails
    <3>2. CASE Prepare
      BY <3>2 DEF Prepare
    <3>3. CASE \E a \in Ap : HookStarts(a)
      BY <3>3 DEF HookStarts
    <3>4. CASE Kick
      BY <3>4 DEF Kick
    <3>5. CASE KickNested \/ WaitReady \/ WaitTimeout
      BY <3>5 DEF KickNested, WaitReady, WaitTimeout
    <3>6. CASE Release \/ Launch \/ LaunchFails \/ Vm1Returns
      BY <3>6 DEF Release, Launch, LaunchFails, Vm1Returns
    <3>7. CASE Fallback \/ SliceEnds
      BY <3>7 DEF Fallback, SliceEnds
    <3> QED BY <2>1, <3>1, <3>2, <3>3, <3>4, <3>5, <3>6, <3>7 DEF Bsp
  <2>2. ASSUME NEW a \in Ap, ApStep(a)
        PROVE  (OneStarted /\ NoneStarted)'
    <3>1. UNCHANGED bsp /\ ap[a] # "off" /\ \A b \in Ap \ {a} : ap'[b] = ap[b]
      BY <2>2 DEF ApStep, CheckIn, SeeRun, RunTimeout, SeeWaiting,
                  WaitingTimeout, EnterVm2, VmxonFails, EnterVm2Fails,
                  Vm2Stops, SignalOk, SignalDone
    <3> QED BY <3>1
  <2>3. CASE UNCHANGED vars
    BY <2>3 DEF vars
  <2> QED BY <2>1, <2>2, <2>3 DEF Next
<1>3. Spec => []ReleaseInv
  BY ReleaseInvariant
<1>4. HandoffInv <=> ReleaseInv /\ OneStarted /\ NoneStarted
  BY DEF HandoffInv
<1> QED BY <1>1, <1>2, <1>3, <1>4, PTL DEF Spec

\* INIT-SIPI never resets a processor in VMX operation, with any number of
\* APs: as long as the boot processor tries for one, none has been released
\* (bringup_ap after a hook that gave up).
THEOREM HandoffInitSparesVmx == Spec => InitSparesVmx
<1>1. ReleaseInv /\ bsp = "kick" => ap[SipiTarget] \notin {"vmxon", "vm2"}
  BY HandoffAssumption DEF ReleaseInv, ReleasedForVm1, RunsReleased, OnVm2
<1>2. ReleaseInv =>
        (bsp = "kick" /\ bsp' = "sipiWait" => ap[SipiTarget] \notin {"vmxon", "vm2"})
  BY <1>1
<1> QED BY <1>2, ReleaseInvariant, PTL DEF InitSparesVmx

\* VM2 never has two processors: an AP that wakes up late finds the release
\* flag clear and gives up, and the boot processor sets the flag only when it
\* will not run VM2 itself (run_concurrent_both, ap_uefi_procedure).
THEOREM HandoffOneOwner ==
  ASSUME Nested \/ Ap = {SipiTarget}
  PROVE  Spec => []OneOwner
<1>1. HandoffInv => OneOwner
  BY DEF HandoffInv, ReleaseInv, TypeOK, OneOwner, OneStarted, ReleasedForVm1,
         RunsReleased, OnVm2, Slicing
<1>2. Spec => []HandoffInv
  BY HandoffInvariant
<1> QED BY <1>1, <1>2, PTL
==============================================================================
