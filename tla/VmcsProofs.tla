------------------------------ MODULE VmcsProofs ------------------------------
(***************************************************************************)
(* Every VM is entered with its own VMCS and every exit comes home, for    *)
(* any number of trials and whatever fails.                                *)
(***************************************************************************)
EXTENDS Vmcs, TLAPS

LEMMA VmcsInitial == Init => VmcsInv
<1> SUFFICES ASSUME Init PROVE VmcsInv
  OBVIOUS
<1> USE VmcsAssumption DEF Init, P, Vm
<1>1. RunTypes
  <2>1. pc \in [P -> Place] /\ vm \in [P -> Vm] /\ active \in [P -> Vm \cup {None}]
    BY DEF Place
  <2>2. vmx \in [P -> BOOLEAN] /\ launched \in [Vm -> BOOLEAN]
    <3>1. vmx = [p \in P |-> FALSE] /\ launched = [g \in Vm |-> FALSE]
      OBVIOUS
    <3> QED BY ONLY <3>1
  <2>3. released \in BOOLEAN
    OBVIOUS
  <2>4. trial \in 1 .. Trials
    <3>1. trial = 1
      OBVIOUS
    <3> QED BY ONLY <3>1, VmcsAssumption
  <2> QED BY <2>1, <2>2, <2>3, <2>4 DEF RunTypes
<1>2. VmcsTypes
  <2>1. region \in [Vm -> Region]
    BY DEF Region
  <2>2. field \in [Vm -> Written]
    BY DEF NoFields, Written
  <2>3. current \in [P -> Vm \cup {None}] /\ cached \in [Vm -> SUBSET P]
    OBVIOUS
  <2> QED BY <2>1, <2>2, <2>3 DEF VmcsTypes
<1>3. HostTypes
  <2>1. gdt \in [P -> Tables] /\ tr \in [P -> Tables]
    BY DEF Tables
  <2>2. stack \in [P -> P] /\ latch \in P /\ anchor = FALSE
    OBVIOUS
  <2> QED BY <2>1, <2>2 DEF HostTypes
<1>4. Turns /\ Homes /\ Caches
  <2>0. vm[0] = 0 /\ vm[1] = 1 /\ pc[1] = "parked"
    <3>1. vm = [p \in P |-> p] /\ pc = [p \in P |-> IF p = 0 THEN "vmxon" ELSE "parked"]
      OBVIOUS
    <3> QED BY ONLY <3>1 DEF P
  <2>1. Turns
    <3>1. done = {} /\ ~released
      OBVIOUS
    <3> QED BY ONLY <2>0, <3>1 DEF Turns
  <2>2. Homes
    <3>1. /\ stack = [p \in P |-> 0] /\ gdt = [p \in P |-> "firmware"]
          /\ tr \in [P -> {"none", "firmware"}]
      OBVIOUS
    <3> QED BY ONLY <2>0, <3>1 DEF Homes, P
  <2>3. Caches
    <3>1. current = [p \in P |-> None] /\ cached = [g \in Vm |-> {}]
      OBVIOUS
    <3> QED BY ONLY <3>1, VmcsAssumption DEF Caches
  <2> QED BY <2>1, <2>2, <2>3
<1>5. Launches /\ \A p \in P : Revised(p) /\ Ready(p)
  BY DEF Launches, Revised, Ready
<1> QED BY <1>1, <1>2, <1>3, <1>4, <1>5 DEF VmcsInv, TypeOK

\* The processors and the VMs, as the steps name them.
LEMMA Numbers ==
  /\ 0 \in P /\ 1 \in P /\ P = Vm
  /\ \A x \in Vm : 1 - x \in Vm
BY DEF P, Vm

\* Type correctness, group by group; Boolean functions first.
LEMMA FlagType ==
  ASSUME RunTypes, [Next]_vars
  PROVE  vmx' \in [P -> BOOLEAN] /\ launched' \in [Vm -> BOOLEAN]
<1>1. vmx \in [P -> BOOLEAN] /\ launched \in [Vm -> BOOLEAN]
  BY DEF RunTypes
<1>2. UNCHANGED vmx \/ \E p \in P : vmx' = [vmx EXCEPT ![p] = TRUE]
  BY Numbers
     DEF Next, BspVmxon, EnableVmx, ApStart, InstallApHostTss, ApVmxon, EnterVm1, Slice,
         NextTrial, Yield, EnterSteps, ExitSteps, Load, Clear, Reload, Fields, Anchor,
         Enter, Exit, Resume, Stop, vars
<1>3. \/ UNCHANGED launched \/ launched' = [g \in Vm |-> FALSE]
      \/ \E g : launched' = [launched EXCEPT ![g] = TRUE]
      \/ \E g : launched' = [launched EXCEPT ![g] = @ /\ mode = "alternating"]
  BY DEF Next, BspVmxon, ApStart, InstallApHostTss, ApVmxon, EnterVm1, Slice, NextTrial,
         Yield, Handled, EnterSteps, ExitSteps, Load, Clear, Reload, Fields, Anchor,
         Enter, Exit, Resume, Stop, vars
<1>4. vmx' \in [P -> BOOLEAN]
  BY ONLY <1>1, <1>2
<1>5. launched' \in [Vm -> BOOLEAN]
  BY ONLY <1>1, <1>3
<1> QED BY <1>4, <1>5

LEMMA RunType ==
  ASSUME RunTypes, HostTypes, [Next]_vars
  PROVE  RunTypes'
<1> DEFINE Others == /\ mode \in {"single", "alternating", "concurrent"}
                     /\ feature \in {"unlocked", "vmx", "no vmx"}
                     /\ vm \in [P -> Vm] /\ trial \in 1 .. Trials
                     /\ done \subseteq Vm /\ active \in [P -> Vm \cup {None}]
<1>0. pc \in [P -> Place] /\ Others
  BY DEF RunTypes
<1>1. pc' \in [P -> Place]
  <2> USE <1>0, Numbers DEF Go, Place
  <2>1. CASE BspVmxon \/ ApStart \/ InstallApHostTss
    BY <2>1 DEF BspVmxon, EnableVmx, ApStart, InstallApHostTss
  <2>2. CASE ApVmxon \/ EnterVm1 \/ Slice
    BY <2>2 DEF ApVmxon, EnableVmx, EnterVm1, Slice
  <2>3. CASE NextTrial \/ Yield
    BY <2>3 DEF NextTrial, Yield
  <2>4. ASSUME NEW p \in P, EnterSteps(p) PROVE pc' \in [P -> Place]
    BY <2>4 DEF EnterSteps, Load, Clear, Reload, Fields, Anchor, Enter
  <2>5. ASSUME NEW p \in P, ExitSteps(p) PROVE pc' \in [P -> Place]
    <3>1. \E to \in Place : Go(p, to)
      BY <2>5 DEF ExitSteps, Exit, Resume, Stop
    <3> QED BY <3>1
  <2>6. CASE UNCHANGED vars
    BY <2>6 DEF vars
  <2> QED BY <2>1, <2>2, <2>3, <2>4, <2>5, <2>6 DEF Next
<1>2. Others'
  <2> USE <1>0, Numbers
  <2>1. CASE BspVmxon \/ ApStart \/ InstallApHostTss \/ ApVmxon \/ EnterVm1
    BY <2>1 DEF BspVmxon, ApStart, InstallApHostTss, ApVmxon, EnterVm1
  <2>2. CASE Slice
    BY <2>2 DEF Slice
  <2>3. CASE NextTrial
    <3>1. trial' \in 1 .. Trials
      <4>1. trial' = trial \/ (trial < Trials /\ trial' = trial + 1)
        BY <2>3 DEF NextTrial, MoreTrials
      <4>2. trial \in 1 .. Trials
        OBVIOUS
      <4> QED BY ONLY <4>1, <4>2, VmcsAssumption
    <3>2. vm' \in [P -> Vm] /\ done' \subseteq Vm
      BY <2>3 DEF NextTrial
    <3> QED BY <2>3, <3>1, <3>2 DEF NextTrial
  <2>4. CASE Yield
    BY <2>4 DEF Yield
  <2>5. ASSUME NEW p \in P, EnterSteps(p) PROVE Others'
    BY <2>5 DEF EnterSteps, Load, Clear, Reload, Fields, Anchor, Enter, CurrentPcpu
  <2>6. ASSUME NEW p \in P, ExitSteps(p) PROVE Others'
    BY <2>6 DEF ExitSteps, Exit, Resume, Stop
  <2>7. CASE UNCHANGED vars
    BY <2>7 DEF vars
  <2> QED BY <2>1, <2>2, <2>3, <2>4, <2>5, <2>6, <2>7 DEF Next
<1>3. released' \in BOOLEAN
  BY DEF RunTypes, Next, BspVmxon, ApStart, InstallApHostTss, ApVmxon, EnterVm1, Slice,
         NextTrial, Yield, EnterSteps, ExitSteps, Load, Clear, Reload, Fields, Anchor,
         Enter, Exit, Resume, Stop, vars
<1> QED BY <1>1, <1>2, <1>3, FlagType DEF RunTypes

\* The VMCS that VMWRITE finds has the fields it had, but for those written.
LEMMA WrittenType ==
  ASSUME RunTypes, HostTypes, VmcsTypes, NEW p \in P, current[p] \in Vm
  PROVE  /\ \A x, y \in Tables, g \in Vm, h \in Vm \cup {None} :
              [field[current[p]] EXCEPT !.gdt = x, !.tr = y, !.ept = g, !.pir = h]
                \in Written
         /\ \A q \in P :
              /\ [field[current[p]] EXCEPT !.rip = "vmx_exit_handler", !.rsp = q]
                   \in Written
              /\ [field[current[p]] EXCEPT !.rsp = q] \in Written
<1>1. field[current[p]] \in Written
  BY DEF VmcsTypes
<1> DEFINE old == field[current[p]]
<1>2. old \in Written
  BY <1>1
<1> HIDE DEF old
<1>3. \A x, y \in Tables, g \in Vm, h \in Vm \cup {None} :
        [old EXCEPT !.gdt = x, !.tr = y, !.ept = g, !.pir = h] \in Written
  BY <1>2 DEF Written
<1>4. \A q \in P : /\ [old EXCEPT !.rip = "vmx_exit_handler", !.rsp = q] \in Written
                   /\ [old EXCEPT !.rsp = q] \in Written
  BY <1>2 DEF Written
<1> QED BY <1>3, <1>4 DEF old

LEMMA VmcsType ==
  ASSUME RunTypes, HostTypes, VmcsTypes, [Next]_vars
  PROVE  VmcsTypes'
<1> USE Numbers DEF VmcsTypes
<1>1. ASSUME NEW p \in P, EnterSteps(p) PROVE VmcsTypes'
  <2>0. vm[p] \in Vm
    BY DEF RunTypes
  <2>1. CASE Load(p) \/ Reload(p)
    BY <2>0, <2>1 DEF Load, Reload, Vmptrld
  <2>2. CASE Clear(p)
    <3>1. [revision |-> TRUE, launch |-> "clear"] \in Region
      BY ONLY DEF Region
    <3> QED BY <2>0, <2>2, <3>1 DEF Clear
  <2>3. CASE Fields(p)
    <3>1. HostTables(p).gdt \in Tables /\ HostTables(p).tr \in Tables
      BY <2>3 DEF HostTables, Fields, InstallTss, HostTypes, Own, Tables
    <3> DEFINE pir == IF CurrentPcpu(p) = 0 THEN vm[p] ELSE None
               w == [field[current[p]] EXCEPT
                       !.gdt = HostTables(p).gdt, !.tr = HostTables(p).tr,
                       !.ept = vm[p], !.pir = pir]
    <3>4. current[p] \in Vm => w \in Written
      <4>1. pir \in Vm \cup {None}
        BY <2>0
      <4> HIDE DEF pir
      <4> QED BY <2>0, <3>1, <4>1, WrittenType
    <3>5. UNCHANGED field \/ (current[p] \in Vm /\ field' = [field EXCEPT ![current[p]] = w])
      BY <2>3 DEF Fields, Vmwrite
    <3>2. UNCHANGED field \/ \E x \in Written :
            field' = [field EXCEPT ![current[p]] = x]
      <4> HIDE DEF w
      <4> QED BY <3>4, <3>5
    <3>3. UNCHANGED <<current, cached, region>>
      BY <2>3 DEF Fields
    <3> QED BY <3>2, <3>3
  <2>4. CASE Anchor(p)
    <3>1. UNCHANGED field \/ \E w \in Written :
            field' = [field EXCEPT ![current[p]] = w]
      BY <2>4, WrittenType DEF Anchor, Vmwrite, HostRsp
    <3>2. UNCHANGED <<current, cached, region>>
      BY <2>4 DEF Anchor
    <3> QED BY <3>1, <3>2
  <2>5. CASE Enter(p)
    <3>1. \/ UNCHANGED region
          \/ region' = [region EXCEPT ![current[p]].launch = "launched"]
      BY <2>5 DEF Enter
    <3>2. \A r \in Region : [r EXCEPT !.launch = "launched"] \in Region
      BY DEF Region
    <3>3. region' \in [Vm -> Region]
      BY <3>1, <3>2
    <3> QED BY <2>5, <3>3 DEF Enter
  <2> QED BY <1>1, <2>1, <2>2, <2>3, <2>4, <2>5 DEF EnterSteps
<1>2. ASSUME NEW p \in P, ExitSteps(p) PROVE VmcsTypes'
  <2>1. CASE Exit(p) \/ Stop(p)
    BY <2>1 DEF Exit, Stop, vmcsVars
  <2>2. CASE Resume(p)
    <3>1. UNCHANGED field \/ \E w \in Written :
            field' = [field EXCEPT ![current[p]] = w]
      BY <2>2, WrittenType DEF Resume, Vmwrite, HostRsp
    <3>2. UNCHANGED <<current, cached, region>>
      BY <2>2 DEF Resume
    <3> QED BY <3>1, <3>2
  <2> QED BY <1>2, <2>1, <2>2 DEF ExitSteps
<1>3. CASE UNCHANGED vmcsVars
  BY <1>3 DEF vmcsVars
<1> QED BY <1>1, <1>2, <1>3
        DEF Next, BspVmxon, ApStart, InstallApHostTss, ApVmxon, EnterVm1, Slice,
            NextTrial, Yield, vars

LEMMA HostType ==
  ASSUME RunTypes, HostTypes, VmcsTypes, [Next]_vars,
         Homes, \A p \in P : Ready(p)
  PROVE  HostTypes'
<1> USE Numbers DEF HostTypes
<1>1. CASE ApStart
  BY <1>1 DEF ApStart
<1>2. CASE InstallApHostTss
  BY <1>2 DEF InstallApHostTss, InstallTss, Own, Tables
<1>3. CASE ApVmxon
  BY <1>3 DEF ApVmxon
<1>4. ASSUME NEW p \in P, Fields(p) PROVE HostTypes'
  BY <1>4 DEF Fields, InstallTss, Own, Tables
<1>5. ASSUME NEW p \in P, Exit(p) PROVE HostTypes'
  BY <1>5 DEF Exit, Ready, SetUp
<1>6. CASE UNCHANGED hostVars
  BY <1>6 DEF hostVars
<1> QED BY <1>1, <1>2, <1>3, <1>4, <1>5, <1>6
        DEF Next, BspVmxon, EnterVm1, Slice, NextTrial, Yield, EnterSteps, ExitSteps,
            Load, Clear, Reload, Anchor, Enter, Resume, Stop, vars

\* The VM a processor deals with is its own, and no other processor's.
LEMMA Alone ==
  ASSUME TypeOK, Turns, NEW p \in P, pc[p] # "parked"
  PROVE  /\ vm[p] \in Vm /\ Runner(vm[p]) = p
         /\ p = 1 => mode = "concurrent"
         /\ \A q \in P \ {p} : pc[q] = "parked" \/ vm[q] # vm[p]
<1>1. vm[p] \in Vm
  BY DEF TypeOK, RunTypes
<1>2. p \in {0, 1} /\ \A q \in P : q \in {0, 1}
  BY DEF P
<1>3. pc[1] # "parked" => mode = "concurrent" /\ vm[0] = 0 /\ vm[1] = 1
  BY DEF Turns
<1>4. CASE p = 0
  <2>1. Runner(vm[0]) = 0
    BY DEF Turns, Runner
  <2> QED BY <1>1, <1>2, <1>3, <1>4, <2>1
<1>5. CASE p = 1
  <2>1. mode = "concurrent" /\ vm[0] = 0 /\ vm[1] = 1
    BY <1>3, <1>5
  <2> QED BY <1>1, <1>2, <1>5, <2>1 DEF Runner
<1> QED BY <1>2, <1>4, <1>5

LEMMA TurnsKept ==
  ASSUME TypeOK, Turns, [Next]_vars
  PROVE  Turns' /\ mode' = mode
<1> USE Numbers DEF Turns, Go
<1>0. pc \in [P -> Place] /\ vm \in [P -> Vm]
  BY DEF TypeOK, RunTypes
<1>1. CASE BspVmxon     BY <1>0, <1>1 DEF BspVmxon, EnableVmx
<1>2. CASE ApStart      BY <1>0, <1>2 DEF ApStart
<1>3. CASE InstallApHostTss
  BY <1>0, <1>3 DEF InstallApHostTss
<1>4. CASE ApVmxon      BY <1>0, <1>4 DEF ApVmxon, EnableVmx
<1>5. CASE EnterVm1     BY <1>0, <1>5 DEF EnterVm1
<1>6. CASE Slice        BY <1>0, <1>6 DEF Slice
<1>7. CASE NextTrial    BY <1>0, <1>7 DEF NextTrial, Vm
<1>8. CASE Yield        BY <1>0, <1>8 DEF Yield
<1>9. ASSUME NEW p \in P, EnterSteps(p) PROVE Turns' /\ mode' = mode
  <2>1. UNCHANGED <<mode, vm, done, released>> /\ pc[p] \notin {"parked", "vmxon", "host"}
        /\ \E to \in Place \ {"parked", "vmxon", "host"} : Go(p, to)
    BY <1>9 DEF EnterSteps, Load, Clear, Reload, Fields, Anchor, Enter, Place
  <2> QED BY <1>0, <2>1
<1>10. ASSUME NEW p \in P, ExitSteps(p) PROVE Turns' /\ mode' = mode
  <2>1. CASE Exit(p)    BY <1>0, <2>1 DEF Exit
  <2>2. CASE Resume(p)  BY <1>0, <2>2 DEF Resume
  <2>3. CASE Stop(p)
    <3>1. p = 0 \/ mode = "concurrent"
      BY <2>3, Alone DEF Stop, P
    <3>2. CASE mode = "alternating"
      BY <1>0, <2>3, <3>1, <3>2 DEF Stop
    <3>3. CASE mode # "alternating"
      <4>1. /\ UNCHANGED <<mode, vm, released>> /\ pc[p] = "handler"
            /\ pc' = [pc EXCEPT ![p] = "over"]
        BY <2>3, <3>3 DEF Stop
      <4>2. CASE p = 0
        BY <1>0, <4>1, <4>2
      <4>3. CASE p = 1
        <5>1. released /\ pc[0] \notin {"vmxon", "host"}
          BY <3>3, <4>1, <4>3
        <5> QED BY <1>0, <4>1, <4>3, <5>1
      <4> QED BY <4>2, <4>3 DEF P
    <3> QED BY <3>2, <3>3
  <2> QED BY <1>10, <2>1, <2>2, <2>3 DEF ExitSteps
<1>11. CASE UNCHANGED vars
  BY <1>11 DEF vars
<1> QED BY <1>1, <1>2, <1>3, <1>4, <1>5, <1>6, <1>7, <1>8, <1>9, <1>10, <1>11 DEF Next

\* Between the anchor and the end of an exit a processor is on the stack its
\* VMCS names, and ACTIVE_VCPU is its VM.
LEMMA AtHome ==
  ASSUME VmcsInv, NEW p \in P, pc[p] \notin {"parked"}
  PROVE  /\ stack[p] = p /\ HostRsp(p) = p /\ CurrentPcpu(p) = p
         /\ pc[p] \in {"guest", "handler"} => active[CurrentPcpu(p)] = vm[p]
<1>1. p \in {0, 1}
  BY DEF P
<1>2. stack[p] = p /\ (p = 1 => anchor)
  BY <1>1 DEF VmcsInv, Homes
<1> QED BY <1>1, <1>2 DEF VmcsInv, Ready, HostRsp, CurrentPcpu

\* What an exit loads is what is there already.
LEMMA ExitActs ==
  ASSUME VmcsInv, NEW p \in P, Exit(p)
  PROVE  UNCHANGED hostVars
<1>1. pc[p] = "guest"
  BY DEF Exit
<1>2. stack[p] = p /\ current[p] = vm[p] /\ SetUp(p, vm[p]) /\ field[vm[p]].rsp = p
  BY <1>1, AtHome DEF VmcsInv, Ready
<1>3. gdt \in [P -> Tables] /\ tr \in [P -> Tables] /\ stack \in [P -> P]
  BY DEF VmcsInv, TypeOK, HostTypes
<1> QED BY <1>2, <1>3 DEF Exit, SetUp, hostVars

\* And reload_host_rsp writes what is written.
LEMMA ResumeActs ==
  ASSUME VmcsInv, NEW p \in P, Resume(p)
  PROVE  UNCHANGED field
<1>1. pc[p] = "handler"
  BY DEF Resume
<1>2. /\ HostRsp(p) = p /\ current[p] = vm[p] /\ vm[p] \in Vm
      /\ field[vm[p]].rsp = p
  BY <1>1, AtHome DEF VmcsInv, Ready, TypeOK, RunTypes
<1>3. field \in [Vm -> Written] /\ field[vm[p]] \in Written
  BY <1>2 DEF VmcsInv, TypeOK, VmcsTypes
<1>4. [field[vm[p]] EXCEPT !.rsp = p] = field[vm[p]]
  BY <1>2, <1>3 DEF Written
<1>5. field' = [field EXCEPT ![vm[p]] = field[vm[p]]]
  BY <1>2, <1>4 DEF Resume, Vmwrite
<1> QED BY <1>3, <1>5

\* The set-up fills the VMCS of the VM that is to be entered, and gives its
\* processor a TSS only if it has none.
LEMMA FieldsActs ==
  ASSUME VmcsInv, NEW p \in P, Fields(p)
  PROVE  /\ SetUp(p, vm[p])' /\ \A g \in Vm \ {vm[p]} : field'[g] = field[g]
         /\ tr[p] # "none" => UNCHANGED <<gdt, tr>>
         /\ tr[p] = "none" => p = 0 /\ gdt'[p] = Own(0) /\ tr'[p] = Own(0)
         /\ \A q \in P \ {p} : gdt'[q] = gdt[q] /\ tr'[q] = tr[q]
<1>0. pc[p] = "fields" /\ UNCHANGED vm
  BY DEF Fields
<1>1. /\ current[p] = vm[p] /\ vm[p] \in Vm /\ CurrentPcpu(p) = p
      /\ p \in {0, 1} /\ (p = 1 => tr[1] = "ap")
  BY <1>0, AtHome DEF VmcsInv, Ready, TypeOK, RunTypes, P, Homes
<1>2. gdt \in [P -> Tables] /\ tr \in [P -> Tables]
  BY DEF VmcsInv, TypeOK, HostTypes
<1>3. /\ tr[p] # "none" => UNCHANGED <<gdt, tr>>
      /\ tr[p] = "none" => p = 0 /\ gdt'[p] = Own(0) /\ tr'[p] = Own(0)
      /\ \A q \in P \ {p} : gdt'[q] = gdt[q] /\ tr'[q] = tr[q]
  BY <1>1, <1>2 DEF Fields, InstallTss
<1>4. tr'[p] # "none"
  BY <1>3 DEF Own
<1> DEFINE w == [field[current[p]] EXCEPT
                   !.gdt = HostTables(p).gdt, !.tr = HostTables(p).tr, !.ept = vm[p],
                   !.pir = IF CurrentPcpu(p) = 0 THEN vm[p] ELSE None]
<1>5. field \in [Vm -> Written] /\ field[current[p]] \in Written
  BY <1>1 DEF VmcsInv, TypeOK, VmcsTypes
<1>6. /\ w.gdt = gdt'[p] /\ w.tr = tr'[p] /\ w.ept = vm[p]
      /\ w.pir = IF p = 0 THEN vm[p] ELSE None
  BY <1>1, <1>5 DEF Written, HostTables
<1>7. field' = [field EXCEPT ![vm[p]] = w]
  BY <1>1 DEF Fields, Vmwrite
<1> HIDE DEF w
<1>8. field'[vm[p]] = w /\ \A g \in Vm \ {vm[p]} : field'[g] = field[g]
  BY <1>1, <1>5, <1>7
<1> QED BY <1>0, <1>3, <1>4, <1>6, <1>8 DEF SetUp

\* The anchor is written behind what the set-up left.
LEMMA AnchorActs ==
  ASSUME VmcsInv, NEW p \in P, Anchor(p)
  PROVE  /\ field'[vm[p]].rip = "vmx_exit_handler" /\ field'[vm[p]].rsp = p
         /\ active'[p] = vm[p] /\ \A q \in P \ {p} : active'[q] = active[q]
         /\ \A g \in Vm \ {vm[p]} : field'[g] = field[g]
         /\ \A g \in Vm, q \in P : SetUp(q, g) => SetUp(q, g)'
<1>0. pc[p] = "anchor"
  BY DEF Anchor
<1>1. /\ current[p] = vm[p] /\ vm[p] \in Vm /\ CurrentPcpu(p) = p /\ HostRsp(p) = p
  BY <1>0, AtHome DEF VmcsInv, Ready, TypeOK, RunTypes
<1>2. active \in [P -> Vm \cup {None}] /\ field \in [Vm -> Written]
  BY DEF VmcsInv, TypeOK, RunTypes, VmcsTypes
<1> DEFINE old == field[vm[p]]
           w == [old EXCEPT !.rip = "vmx_exit_handler", !.rsp = p]
<1>3. old \in Written
  BY <1>1, <1>2
<1>4. /\ w.rip = "vmx_exit_handler" /\ w.rsp = p /\ w.ept = old.ept
      /\ w.pir = old.pir /\ w.gdt = old.gdt /\ w.tr = old.tr
  BY <1>3 DEF Written
<1>5. field' = [field EXCEPT ![vm[p]] = w]
  BY <1>1 DEF Anchor, Vmwrite
<1> HIDE DEF w
<1>6. field'[vm[p]] = w /\ \A g \in Vm \ {vm[p]} : field'[g] = field[g]
  BY <1>1, <1>2, <1>5
<1>7. \A g \in Vm, q \in P : SetUp(q, g) => SetUp(q, g)'
  BY <1>4, <1>6 DEF SetUp, Anchor, hostVars
<1>8. active' = [active EXCEPT ![p] = vm[p]]
  BY <1>1 DEF Anchor
<1> QED BY <1>2, <1>4, <1>6, <1>7, <1>8

LEMMA HomesKept ==
  ASSUME VmcsInv, [Next]_vars
  PROVE  Homes'
<1> USE Numbers DEF Homes
<1>0. /\ pc \in [P -> Place] /\ gdt \in [P -> Tables] /\ tr \in [P -> Tables]
      /\ stack \in [P -> P] /\ Homes
  BY DEF VmcsInv, TypeOK, RunTypes, HostTypes
<1>1. CASE ApStart
  BY <1>0, <1>1 DEF ApStart, Go
<1>2. CASE InstallApHostTss
  BY <1>0, <1>2 DEF InstallApHostTss, InstallTss, Go, P, Own
<1>3. ASSUME NEW p \in P, Fields(p) PROVE Homes'
  <2>1. /\ \/ UNCHANGED <<gdt, tr>>
           \/ p = 0 /\ gdt'[0] = Own(0) /\ tr'[0] = Own(0)
      /\ \A q \in P \ {p} : gdt'[q] = gdt[q] /\ tr'[q] = tr[q]
    BY <1>3, FieldsActs
  <2>2. UNCHANGED <<stack, anchor>> /\ pc[p] = "fields" /\ pc' = [pc EXCEPT ![p] = "anchor"]
    BY <1>3 DEF Fields, Go
  <2> QED BY <1>0, <2>1, <2>2 DEF P
<1>4. CASE UNCHANGED <<gdt, tr, stack, anchor>>
           /\ (pc'[1] = pc[1] \/ pc[1] \notin {"parked", "tss"})
  BY <1>0, <1>4
<1>5. ASSUME NEW p \in P, Exit(p) PROVE Homes'
  <2>1. UNCHANGED hostVars
    BY <1>5, ExitActs
  <2>2. pc[p] = "guest" /\ pc' = [pc EXCEPT ![p] = "handler"]
    BY <1>5 DEF Exit, Go
  <2>3. pc'[1] = pc[1] \/ pc[1] \notin {"parked", "tss"}
    BY <1>0, <2>2
  <2> QED BY <1>4, <2>1, <2>3 DEF hostVars
<1>6. ASSUME NEW p \in P, Load(p) \/ Clear(p) \/ Reload(p) \/ Anchor(p) \/ Enter(p)
                          \/ Resume(p) \/ Stop(p)
      PROVE Homes'
  <2>1. /\ UNCHANGED hostVars
        /\ pc[p] \in {"load", "clear", "reload", "anchor", "enter", "handler"}
        /\ \E to \in Place : pc' = [pc EXCEPT ![p] = to]
    BY <1>6 DEF Load, Clear, Reload, Anchor, Enter, Resume, Stop, Go, Place
  <2>2. pc'[1] = pc[1] \/ pc[1] \notin {"parked", "tss"}
    BY <1>0, <2>1
  <2> QED BY <1>4, <2>1, <2>2 DEF hostVars
<1>7. CASE BspVmxon \/ EnterVm1 \/ Slice \/ NextTrial \/ Yield \/ UNCHANGED vars
  <2>0. UNCHANGED hostVars /\ (UNCHANGED pc \/ \E to : pc' = [pc EXCEPT ![0] = to])
    <3>1. CASE BspVmxon   BY <3>1 DEF BspVmxon, EnableVmx, Go
    <3>2. CASE EnterVm1 \/ Slice
      BY <3>2 DEF EnterVm1, Slice, Go
    <3>3. CASE NextTrial \/ Yield
      BY <3>3 DEF NextTrial, Yield, Go
    <3>4. CASE UNCHANGED vars
      BY <3>4 DEF vars
    <3> QED BY <1>7, <3>1, <3>2, <3>3, <3>4
  <2>1. UNCHANGED hostVars /\ pc'[1] = pc[1]
    BY <1>0, <2>0
  <2> QED BY <1>4, <2>1 DEF hostVars
<1>8. CASE ApVmxon
  BY <1>4, <1>8 DEF ApVmxon
<1> QED BY <1>1, <1>2, <1>3, <1>5, <1>6, <1>7, <1>8 DEF Next, EnterSteps, ExitSteps

LEMMA CachesKept ==
  ASSUME VmcsInv, [Next]_vars
  PROVE  Caches'
<1> USE Numbers DEF Caches
<1>0. /\ current \in [P -> Vm \cup {None}] /\ cached \in [Vm -> SUBSET P] /\ Caches
      /\ vm \in [P -> Vm]
  BY DEF VmcsInv, TypeOK, VmcsTypes, RunTypes
<1>1. mode' = mode /\ \A g : Runner(g)' = Runner(g)
  BY TurnsKept DEF VmcsInv, Runner
<1>2. ASSUME NEW p \in P, Load(p) \/ Reload(p) PROVE Caches'
  <2>1. Runner(vm[p]) = p
    BY <1>2, Alone DEF VmcsInv, Load, Reload
  <2>2. \/ UNCHANGED <<current, cached>>
        \/ /\ current' = [current EXCEPT ![p] = vm[p]]
           /\ cached' = [cached EXCEPT ![vm[p]] = @ \cup {p}]
    BY <1>2 DEF Load, Reload, Vmptrld
  <2>3. CASE UNCHANGED <<current, cached>>
    BY <1>0, <1>1, <2>3
  <2>4. CASE /\ current' = [current EXCEPT ![p] = vm[p]]
             /\ cached' = [cached EXCEPT ![vm[p]] = @ \cup {p}]
    <3>1. current'[p] = vm[p] /\ \A q \in P \ {p} : current'[q] = current[q]
      BY <1>0, <2>4
    <3>2. /\ cached'[vm[p]] = cached[vm[p]] \cup {p}
          /\ \A g \in Vm \ {vm[p]} : cached'[g] = cached[g]
      BY <1>0, <2>4
    <3>3. \A q \in P, g \in Vm : q \in cached'[g] => q \in cached[g] \/ (q = p /\ g = vm[p])
      BY <3>2
    <3>4. \A q \in P, g \in Vm : q \in cached[g] => q \in cached'[g]
      BY <3>2
    <3>5. p \in cached'[vm[p]]
      BY <3>2
    <3>6. \A q \in P, g \in Vm : q \in cached'[g] => Runner(g) = q
      BY <1>0, <2>1, <3>3
    <3>7. ASSUME NEW q \in P, NEW g \in Vm, current'[q] = g PROVE q \in cached'[g]
      BY <1>0, <3>1, <3>4, <3>5, <3>7
    <3> QED BY <1>1, <3>6, <3>7
  <2> QED BY <2>2, <2>3, <2>4
<1>3. ASSUME NEW p \in P, Clear(p) PROVE Caches'
  BY <1>0, <1>1, <1>3, VmcsAssumption DEF Clear
<1>4. CASE UNCHANGED <<current, cached>>
  BY <1>0, <1>1, <1>4
<1> QED BY <1>2, <1>3, <1>4
        DEF Next, EnterSteps, ExitSteps, BspVmxon, ApStart, InstallApHostTss, ApVmxon,
            EnterVm1, Slice, NextTrial, Yield, Fields, Anchor, Enter, Exit, Resume, Stop,
            vars, vmcsVars

\* The launched flag of a vCPU falls with a load by enter_guest, and rises with an exit.
LEMMA LoadActs ==
  ASSUME VmcsInv, NEW p \in P, Load(p)
  PROVE  /\ \A g \in Vm : launched'[g] => launched[g]
         /\ \A g \in Vm \ {vm[p]} : launched'[g] = launched[g]
<1>1. launched \in [Vm -> BOOLEAN] /\ vm[p] \in Vm
  BY DEF VmcsInv, TypeOK, RunTypes
<1>2. \/ launched' = launched
      \/ launched' = [launched EXCEPT ![vm[p]] = @ /\ mode = "alternating"]
  BY DEF Load
<1> QED BY ONLY <1>1, <1>2

LEMMA HandledActs ==
  ASSUME VmcsInv, NEW p \in P, pc[p] = "handler", Handled(p)
  PROVE  launched'[vm[p]] /\ \A g \in Vm \ {vm[p]} : launched'[g] = launched[g]
<1>1. launched \in [Vm -> BOOLEAN] /\ vm[p] \in Vm
  BY DEF VmcsInv, TypeOK, RunTypes
<1>2. launched' = [launched EXCEPT ![vm[p]] = TRUE]
  BY AtHome DEF Handled
<1> QED BY ONLY <1>1, <1>2

\* The AP never goes back behind its VMXON, nor any processor to where it was parked.
LEMMA NoWayBack ==
  ASSUME VmcsInv, [Next]_vars, pc[1] \notin {"parked", "tss", "vmxon"}
  PROVE  pc'[1] \notin {"parked", "tss", "vmxon"}
<1>0. pc \in [P -> Place]
  BY DEF VmcsInv, TypeOK, RunTypes
<1>1. UNCHANGED pc \/ \E p \in P, to \in Place \ {"parked", "tss", "vmxon"} :
                        pc' = [pc EXCEPT ![p] = to]
  <2> USE Numbers DEF Go, Place
  <2>1. CASE BspVmxon   BY <2>1 DEF BspVmxon, EnableVmx
  <2>2. CASE EnterVm1 \/ Slice
    BY <2>2 DEF EnterVm1, Slice
  <2>3. CASE NextTrial \/ Yield
    BY <2>3 DEF NextTrial, Yield
  <2>4. CASE ApStart \/ InstallApHostTss \/ ApVmxon
    BY <2>4 DEF ApStart, InstallApHostTss, ApVmxon
  <2>5. ASSUME NEW p \in P, Load(p) \/ Clear(p) \/ Reload(p)
        PROVE  \E to \in Place \ {"parked", "tss", "vmxon"} : pc' = [pc EXCEPT ![p] = to]
    BY <2>5 DEF Load, Clear, Reload
  <2>6. ASSUME NEW p \in P, Fields(p) \/ Anchor(p) \/ Enter(p)
        PROVE  \E to \in Place \ {"parked", "tss", "vmxon"} : pc' = [pc EXCEPT ![p] = to]
    BY <2>6 DEF Fields, Anchor, Enter
  <2>7. ASSUME NEW p \in P, Exit(p) \/ Resume(p) \/ Stop(p)
        PROVE  \E to \in Place \ {"parked", "tss", "vmxon"} : pc' = [pc EXCEPT ![p] = to]
    BY <2>7 DEF Exit, Resume, Stop
  <2>8. CASE UNCHANGED vars
    BY <2>8 DEF vars
  <2> QED BY <2>1, <2>2, <2>3, <2>4, <2>5, <2>6, <2>7, <2>8 DEF Next, EnterSteps, ExitSteps
<1> QED BY <1>0, <1>1, Numbers

LEMMA LaunchesKept ==
  ASSUME VmcsInv, [Next]_vars
  PROVE  Launches'
<1> DEFINE Entered(g) == region[g].revision /\ region[g].launch = "launched"
           Late(g) == Runner(g) = 1 => pc[1] \notin {"parked", "tss", "vmxon"}
<1>0. /\ \A g \in Vm : Runner(g)' = Runner(g)
      /\ \A g \in Vm : launched[g] => Entered(g) /\ SetUp(Runner(g), g) /\ Late(g)
  BY TurnsKept DEF VmcsInv, Runner, Launches
<1>1. \A g \in Vm : Late(g) => Late(g)'
  BY <1>0, NoWayBack
<1>2. SUFFICES \A g \in Vm : launched'[g] => Entered(g)' /\ SetUp(Runner(g), g)' /\ Late(g)'
  BY <1>0 DEF Launches, SetUp
<1>3. \A p \in P : pc[p] # "parked" => vm[p] \in Vm /\ Runner(vm[p]) = p
  BY Alone DEF VmcsInv
<1>4. \A g \in Vm : Runner(g) \in P
  BY Numbers DEF Runner
<1> HIDE DEF Entered, Late
<1>5. ASSUME NEW g \in Vm, launched[g], region'[g] = region[g],
             field'[g] = field[g], gdt'[Runner(g)] = gdt[Runner(g)],
             tr'[Runner(g)] = tr[Runner(g)]
      PROVE  Entered(g)' /\ SetUp(Runner(g), g)' /\ Late(g)'
  BY <1>0, <1>1, <1>5 DEF Entered, SetUp
<1>6. CASE InstallApHostTss
  <2>1. /\ pc[1] = "tss" /\ UNCHANGED <<region, field, launched>>
        /\ gdt' = [gdt EXCEPT ![1] = Own(1)] /\ tr' = [tr EXCEPT ![1] = Own(1)]
    BY <1>6 DEF InstallApHostTss, InstallTss, vmcsVars
  <2>2. \A g \in Vm : launched[g] => Runner(g) # 1
    BY <1>0, <2>1 DEF Late
  <2>3. gdt \in [P -> Tables] /\ tr \in [P -> Tables]
    BY DEF VmcsInv, TypeOK, HostTypes
  <2> QED BY <1>4, <1>5, <2>1, <2>2, <2>3
<1>7. ASSUME NEW p \in P, Load(p)
      PROVE  \A g \in Vm : launched'[g] => Entered(g)' /\ SetUp(Runner(g), g)' /\ Late(g)'
  <2>1. \A g \in Vm : launched'[g] => launched[g]
    BY <1>7, LoadActs
  <2>2. UNCHANGED <<region, field, gdt, tr>>
    BY <1>7 DEF Load, hostVars
  <2> QED BY <1>5, <2>1, <2>2
<1>8. ASSUME NEW p \in P, Clear(p)
      PROVE  \A g \in Vm : launched'[g] => Entered(g)' /\ SetUp(Runner(g), g)' /\ Late(g)'
  <2>1. ~launched[vm[p]] /\ UNCHANGED <<field, launched, gdt, tr>>
    BY <1>8 DEF Clear, hostVars, VmcsInv, Revised
  <2>2. \A g \in Vm \ {vm[p]} : region'[g] = region[g]
    BY <1>8 DEF Clear, VmcsInv, TypeOK, VmcsTypes
  <2> QED BY <1>5, <2>1, <2>2
<1>9. ASSUME NEW p \in P, Fields(p)
      PROVE  \A g \in Vm : launched'[g] => Entered(g)' /\ SetUp(Runner(g), g)' /\ Late(g)'
  <2>1. ~launched[vm[p]] /\ UNCHANGED <<region, launched>>
    BY <1>9 DEF Fields, VmcsInv, Revised
  <2>2. /\ \A g \in Vm \ {vm[p]} : field'[g] = field[g]
        /\ tr[p] # "none" => UNCHANGED <<gdt, tr>>
        /\ \A q \in P \ {p} : gdt'[q] = gdt[q] /\ tr'[q] = tr[q]
    BY <1>9, FieldsActs
  <2>3. \A g \in Vm : launched[g] =>
          gdt'[Runner(g)] = gdt[Runner(g)] /\ tr'[Runner(g)] = tr[Runner(g)]
    BY <1>0, <1>4, <2>2 DEF SetUp
  <2> QED BY <1>5, <2>1, <2>2, <2>3
<1>10. ASSUME NEW p \in P, Anchor(p)
       PROVE  \A g \in Vm : launched'[g] => Entered(g)' /\ SetUp(Runner(g), g)' /\ Late(g)'
  <2>1. UNCHANGED <<region, launched, mode>>
    BY <1>10 DEF Anchor
  <2>2. \A g \in Vm, q \in P : SetUp(q, g) => SetUp(q, g)'
    BY <1>10, AnchorActs
  <2>3. \A g \in Vm, q \in P : Runner(g) = q /\ SetUp(q, g) => SetUp(Runner(g), g)'
    BY <1>0, <2>2 DEF SetUp
  <2> QED BY <1>0, <1>1, <1>4, <2>1, <2>3 DEF Entered
<1>11. ASSUME NEW p \in P, Enter(p)
       PROVE  \A g \in Vm : launched'[g] => Entered(g)' /\ SetUp(Runner(g), g)' /\ Late(g)'
  <2>1. UNCHANGED <<field, launched, gdt, tr>>
    BY <1>11 DEF Enter, hostVars
  <2>2. \/ UNCHANGED region
        \/ region' = [region EXCEPT ![current[p]].launch = "launched"]
    BY <1>11 DEF Enter
  <2>3. \A r \in Region : /\ [r EXCEPT !.launch = "launched"].launch = "launched"
                          /\ [r EXCEPT !.launch = "launched"].revision = r.revision
    BY DEF Region
  <2>4. \A g \in Vm : Entered(g) => Entered(g)'
    <3>1. region \in [Vm -> Region]
      BY DEF VmcsInv, TypeOK, VmcsTypes
    <3>2. ASSUME NEW g \in Vm
          PROVE  region'[g] = region[g]
                 \/ region'[g] = [region[g] EXCEPT !.launch = "launched"]
      BY <2>2, <3>1
    <3>3. ASSUME NEW g \in Vm, Entered(g) PROVE Entered(g)'
      <4>1. region[g] \in Region /\ region[g].revision /\ region[g].launch = "launched"
        BY <3>1, <3>3 DEF Entered
      <4>2. CASE region'[g] = region[g]
        BY <4>1, <4>2 DEF Entered
      <4>3. CASE region'[g] = [region[g] EXCEPT !.launch = "launched"]
        <5>1. region'[g].launch = "launched" /\ region'[g].revision = region[g].revision
          BY <2>3, <4>1, <4>3
        <5> QED BY ONLY <4>1, <5>1 DEF Entered
      <4> QED BY <3>2, <4>2, <4>3
    <3> QED BY <3>3
  <2> QED BY <1>0, <1>1, <2>1, <2>4 DEF SetUp
<1>12. ASSUME NEW p \in P, Handled(p), pc[p] = "handler",
              UNCHANGED <<region, field, gdt, tr>>
       PROVE  \A g \in Vm : launched'[g] => Entered(g)' /\ SetUp(Runner(g), g)' /\ Late(g)'
  <2>1. \A g \in Vm \ {vm[p]} : launched'[g] = launched[g]
    BY <1>12, HandledActs
  <2>2. Runner(vm[p]) = p /\ vm[p] \in Vm
    BY <1>3, <1>12
  <2>3. Entered(vm[p]) /\ SetUp(p, vm[p]) /\ Late(vm[p])
    BY <1>12, <2>2 DEF VmcsInv, Revised, Ready, Entered, Late
  <2>5. ASSUME NEW g \in Vm, g = vm[p]
        PROVE  Entered(g)' /\ SetUp(Runner(g), g)' /\ Late(g)'
    <3>1. Entered(g) /\ SetUp(Runner(g), g) /\ Late(g)
      BY <2>2, <2>3, <2>5
    <3> QED BY <1>0, <1>1, <1>12, <3>1 DEF Entered, SetUp
  <2> QED BY <1>5, <1>12, <2>1, <2>5
<1>13. CASE NextTrial
  <2>1. /\ UNCHANGED <<region, field, gdt, tr>>
        /\ launched' = [g \in Vm |-> FALSE] \/ UNCHANGED launched
    BY <1>13 DEF NextTrial, vmcsVars, hostVars
  <2> QED BY <1>5, <2>1
<1>14. CASE UNCHANGED <<region, field, gdt, tr, launched>>
  BY <1>5, <1>14
<1>15. ASSUME NEW p \in P, Exit(p)
       PROVE  UNCHANGED <<region, field, gdt, tr, launched>>
  BY <1>15, ExitActs DEF Exit, vmcsVars, hostVars
<1>16. ASSUME NEW p \in P, Resume(p) \/ Stop(p)
       PROVE  Handled(p) /\ pc[p] = "handler" /\ UNCHANGED <<region, field, gdt, tr>>
  BY <1>16, ResumeActs DEF Resume, Stop, vmcsVars, hostVars
<1>17. CASE Yield
  BY <1>12, <1>17, Numbers DEF Yield, vmcsVars, hostVars
<1>18. CASE BspVmxon \/ EnterVm1 \/ Slice
  BY <1>14, <1>18 DEF BspVmxon, EnterVm1, Slice, vmcsVars, hostVars
<1>19. CASE ApStart \/ ApVmxon \/ UNCHANGED vars
  BY <1>14, <1>19 DEF ApStart, ApVmxon, vars, vmcsVars, hostVars
<1>20. ASSUME NEW p \in P, Reload(p)
       PROVE  UNCHANGED <<region, field, gdt, tr, launched>>
  BY <1>20 DEF Reload, hostVars
<1> QED BY <1>6, <1>7, <1>8, <1>9, <1>10, <1>11, <1>12, <1>13, <1>14, <1>15, <1>16,
           <1>17, <1>18, <1>19, <1>20 DEF Next, EnterSteps, ExitSteps

\* Where nothing is promised of the VMCS there is nothing to show.
LEMMA Vacant ==
  ASSUME NEW q \in P,
         pc'[q] \in {"parked", "tss", "vmxon", "host", "load", "over", "exception"}
  PROVE  Revised(q)' /\ Ready(q)'
BY DEF Revised, Ready

\* A processor that is somewhere keeps what it has if its own state stays and so
\* does the VMCS of its VM.
LEMMA Alike ==
  ASSUME NEW q \in P, Revised(q), Ready(q),
         pc'[q] = pc[q], vm'[q] = vm[q], current'[q] = current[q],
         active'[q] = active[q], gdt'[q] = gdt[q], tr'[q] = tr[q],
         region'[vm[q]] = region[vm[q]], field'[vm[q]] = field[vm[q]],
         launched'[vm[q]] = launched[vm[q]]
  PROVE  Revised(q)' /\ Ready(q)'
<1>1. Revised(q)'
  BY DEF Revised
<1>2. SetUp(q, vm[q]) => SetUp(q, vm[q])'
  BY DEF SetUp
<1>3. Ready(q)'
  BY <1>2 DEF Ready
<1> QED BY <1>1, <1>3

\* A step of p on its own state and the VMCS of its VM leaves the other alone.
LEMMA Apart ==
  ASSUME VmcsInv, NEW p \in P, NEW q \in P \ {p}, pc[p] # "parked",
         pc'[q] = pc[q], vm'[q] = vm[q], current'[q] = current[q],
         active'[q] = active[q], gdt'[q] = gdt[q], tr'[q] = tr[q],
         \A g \in Vm \ {vm[p]} : /\ region'[g] = region[g] /\ field'[g] = field[g]
                                 /\ launched'[g] = launched[g]
  PROVE  Revised(q)' /\ Ready(q)'
<1>1. CASE pc[q] = "parked"
  BY <1>1, Vacant
<1>2. CASE pc[q] # "parked"
  <2>1. vm[q] \in Vm \ {vm[p]}
    BY <1>2, Alone DEF VmcsInv
  <2>2. Revised(q) /\ Ready(q)
    BY DEF VmcsInv
  <2> QED BY <2>1, <2>2, Alike
<1> QED BY <1>1, <1>2

\* The steps of a processor on its way to the entry.
LEMMA EnterKeepsPlaces ==
  ASSUME VmcsInv, [Next]_vars, NEW p \in P, EnterSteps(p)
  PROVE  \A q \in P : Revised(q)' /\ Ready(q)'
<1>0. /\ pc \in [P -> Place] /\ vm[p] \in Vm
      /\ current \in [P -> Vm \cup {None}] /\ region \in [Vm -> Region]
      /\ active \in [P -> Vm \cup {None}]
  BY DEF VmcsInv, TypeOK, RunTypes, VmcsTypes
<1>1. pc[p] # "parked" /\ UNCHANGED vm /\ \E to : pc' = [pc EXCEPT ![p] = to]
  BY DEF EnterSteps, Load, Clear, Reload, Fields, Anchor, Enter, Go
<1>2. Revised(p) /\ Ready(p) /\ Runner(vm[p]) = p /\ Launches
  BY <1>1, Alone DEF VmcsInv
<1>3. \A q \in P \ {p} : pc'[q] = pc[q] /\ vm'[q] = vm[q]
  BY <1>0, <1>1
<1>4. CASE Load(p)
  <2>1. UNCHANGED <<region, field, active, gdt, tr>> /\ pc[p] = "load"
    BY <1>4 DEF Load, hostVars
  <2>2. \A q \in P \ {p} : current'[q] = current[q]
    BY <1>0, <1>4 DEF Load, Vmptrld
  <2>3. /\ \A g \in Vm : launched'[g] => launched[g]
        /\ \A g \in Vm \ {vm[p]} : launched'[g] = launched[g]
    BY <1>4, LoadActs
  <2>4. Revised(p)' /\ Ready(p)'
    <3>1. CASE pc'[p] = "exception"
      BY <3>1, Vacant
    <3>2. CASE pc'[p] = "clear" /\ ~launched'[vm[p]]
      BY <1>1, <3>2 DEF Revised, Ready
    <3>3. CASE pc'[p] = "anchor" /\ launched'[vm[p]] /\ vmx[p]
      <4>1. /\ region[vm[p]].revision /\ region[vm[p]].launch = "launched"
            /\ SetUp(p, vm[p])
        BY <1>0, <1>2, <2>3, <3>3 DEF Launches
      <4>2. current'[p] = vm[p]
        BY <1>0, <1>4, <3>3, <4>1 DEF Load, Vmptrld
      <4>3. SetUp(p, vm[p])'
        BY <1>1, <2>1, <4>1 DEF SetUp
      <4>4. Revised(p)'
        BY <1>1, <2>1, <3>3, <4>1 DEF Revised
      <4> QED BY <1>1, <3>3, <4>2, <4>3, <4>4 DEF Ready
    <3>4. \/ pc'[p] = "exception"
          \/ vmx[p] /\ pc'[p] = (IF launched'[vm[p]] THEN "anchor" ELSE "clear")
      BY <1>0, <1>4 DEF Load, Go
    <3> QED BY <3>1, <3>2, <3>3, <3>4
  <2>5. \A q \in P \ {p} : Revised(q)' /\ Ready(q)'
    BY <1>1, <1>3, <2>1, <2>2, <2>3, Apart
  <2> QED BY <2>4, <2>5
<1>5. CASE Clear(p)
  <2>1. /\ UNCHANGED <<field, active, gdt, tr, launched>> /\ pc[p] = "clear"
        /\ pc'[p] = "reload"
    BY <1>0, <1>5 DEF Clear, hostVars, Go
  <2>2. /\ \A q \in P \ {p} : current'[q] = current[q]
        /\ region'[vm[p]] = [revision |-> TRUE, launch |-> "clear"]
        /\ \A g \in Vm \ {vm[p]} : region'[g] = region[g]
    BY <1>0, <1>5 DEF Clear
  <2>3. Revised(p)' /\ Ready(p)'
    BY <1>1, <1>2, <2>1, <2>2 DEF Revised, Ready
  <2>4. \A q \in P \ {p} : Revised(q)' /\ Ready(q)'
    BY <1>1, <1>3, <2>1, <2>2, Apart
  <2> QED BY <2>3, <2>4
<1>6. CASE Reload(p)
  <2>1. /\ UNCHANGED <<region, field, active, gdt, tr, launched>> /\ pc[p] = "reload"
        /\ pc'[p] = "fields"
    BY <1>0, <1>6 DEF Reload, hostVars, Go
  <2>2. current'[p] = vm[p] /\ \A q \in P \ {p} : current'[q] = current[q]
    <3>1. region[vm[p]].revision
      BY <1>2, <2>1 DEF Revised
    <3> QED BY <1>0, <1>6, <3>1 DEF Reload, Vmptrld
  <2>3. Revised(p)'
    BY <1>1, <1>2, <2>1 DEF Revised
  <2>4. Ready(p)'
    BY <1>1, <2>1, <2>2 DEF Ready
  <2>5. \A q \in P \ {p} : Revised(q)' /\ Ready(q)'
    BY <1>1, <1>3, <2>1, <2>2, Apart
  <2> QED BY <2>3, <2>4, <2>5
<1>7. CASE Fields(p)
  <2>1. /\ UNCHANGED <<region, current, active, launched>> /\ pc[p] = "fields"
        /\ pc'[p] = "anchor"
    BY <1>0, <1>7 DEF Fields, Go
  <2>2. /\ SetUp(p, vm[p])' /\ \A g \in Vm \ {vm[p]} : field'[g] = field[g]
        /\ \A q \in P \ {p} : gdt'[q] = gdt[q] /\ tr'[q] = tr[q]
    BY <1>7, FieldsActs
  <2>3. Revised(p)'
    BY <1>1, <1>2, <2>1 DEF Revised
  <2>4. Ready(p)'
    BY <1>1, <1>2, <2>1, <2>2 DEF Ready
  <2>5. \A q \in P \ {p} : Revised(q)' /\ Ready(q)'
    BY <1>1, <1>3, <2>1, <2>2, Apart
  <2> QED BY <2>3, <2>4, <2>5
<1>8. CASE Anchor(p)
  <2>1. /\ UNCHANGED <<region, current, launched, gdt, tr>> /\ pc[p] = "anchor"
        /\ pc'[p] = "enter"
    BY <1>0, <1>8 DEF Anchor, hostVars, Go
  <2>2. /\ field'[vm[p]].rip = "vmx_exit_handler" /\ field'[vm[p]].rsp = p
        /\ active'[p] = vm[p] /\ \A q \in P \ {p} : active'[q] = active[q]
        /\ \A g \in Vm \ {vm[p]} : field'[g] = field[g]
        /\ SetUp(p, vm[p]) => SetUp(p, vm[p])'
    <3>1. \A g \in Vm, q \in P : SetUp(q, g) => SetUp(q, g)'
      BY <1>8, AnchorActs
    <3>2. SetUp(p, vm[p]) => SetUp(p, vm[p])'
      BY <1>0, <1>1, <3>1 DEF SetUp
    <3> QED BY <1>8, <3>2, AnchorActs
  <2>3. Revised(p)'
    BY <1>1, <1>2, <2>1 DEF Revised
  <2>4. Ready(p)'
    BY <1>1, <1>2, <2>1, <2>2 DEF Ready
  <2>5. \A q \in P \ {p} : Revised(q)' /\ Ready(q)'
    BY <1>1, <1>3, <2>1, <2>2, Apart
  <2> QED BY <2>3, <2>4, <2>5
<1>9. CASE Enter(p)
  <2>1. /\ UNCHANGED <<field, current, active, launched, gdt, tr>> /\ pc[p] = "enter"
        /\ \/ /\ region' = [region EXCEPT ![current[p]].launch = "launched"]
              /\ pc'[p] = "guest"
           \/ UNCHANGED region /\ pc'[p] = "over"
    BY <1>0, <1>9 DEF Enter, hostVars, Go
  <2>2. current[p] = vm[p] /\ SetUp(p, vm[p]) /\ region[vm[p]].revision
    BY <1>2, <2>1 DEF Revised, Ready
  <2>3. SetUp(p, vm[p])'
    BY <1>1, <2>1, <2>2 DEF SetUp
  <2>4. \A g \in Vm \ {vm[p]} : region'[g] = region[g]
    BY <1>0, <2>1, <2>2
  <2>5. ASSUME pc'[p] = "guest" PROVE Revised(p)' /\ Ready(p)'
    <3>1. region' = [region EXCEPT ![vm[p]].launch = "launched"]
      BY <2>1, <2>2, <2>5
    <3>2. region'[vm[p]] = [region[vm[p]] EXCEPT !.launch = "launched"]
      BY <1>0, <3>1
    <3>3. region[vm[p]] \in Region
      BY <1>0
    <3>4. /\ region'[vm[p]].launch = "launched"
          /\ region'[vm[p]].revision = region[vm[p]].revision
      BY <3>2, <3>3 DEF Region
    <3>5. region'[vm[p]].revision
      BY ONLY <2>2, <3>4
    <3>6. Revised(p)'
      BY <1>1, <2>5, <3>4, <3>5 DEF Revised
    <3>7. Ready(p)'
      BY <1>1, <1>2, <2>1, <2>3, <2>5 DEF Ready
    <3> QED BY <3>6, <3>7
  <2>6. Revised(p)' /\ Ready(p)'
    BY <2>1, <2>5, Vacant
  <2>7. \A q \in P \ {p} : Revised(q)' /\ Ready(q)'
    BY <1>1, <1>3, <2>1, <2>4, Apart
  <2> QED BY <2>6, <2>7
<1> QED BY <1>4, <1>5, <1>6, <1>7, <1>8, <1>9 DEF EnterSteps

\* And those from the exit on.
LEMMA ExitKeepsPlaces ==
  ASSUME VmcsInv, [Next]_vars, NEW p \in P, ExitSteps(p) \/ (p = 0 /\ Yield)
  PROVE  \A q \in P : Revised(q)' /\ Ready(q)'
<1>0. pc \in [P -> Place] /\ vm \in [P -> Vm]
  BY DEF VmcsInv, TypeOK, RunTypes
<1>1. /\ pc[p] \in {"guest", "handler"} /\ \E to : pc' = [pc EXCEPT ![p] = to]
      /\ \A q \in P \ {p} : vm'[q] = vm[q]
      /\ UNCHANGED <<current, active, region>>
  <2>1. CASE Exit(p)    BY <2>1 DEF Exit, Go, vmcsVars
  <2>2. CASE Resume(p)  BY <2>2 DEF Resume, Go
  <2>3. CASE Stop(p)    BY <1>0, <2>3 DEF Stop, Go, vmcsVars
  <2>4. CASE p = 0 /\ Yield
    BY <1>0, <2>4 DEF Yield, Go, vmcsVars
  <2> QED BY <2>1, <2>2, <2>3, <2>4 DEF ExitSteps
<1>2. UNCHANGED <<field, gdt, tr>>
  BY ExitActs, ResumeActs DEF ExitSteps, Exit, Resume, Stop, Yield, hostVars, vmcsVars
<1>3. \A q \in P \ {p} : pc'[q] = pc[q]
  BY <1>0, <1>1
<1>4. UNCHANGED launched \/ (Handled(p) /\ pc[p] = "handler")
  BY DEF ExitSteps, Exit, Resume, Stop, Yield
<1>5. \A g \in Vm \ {vm[p]} : launched'[g] = launched[g]
  BY <1>4, HandledActs
<1>6. \A q \in P \ {p} : Revised(q)' /\ Ready(q)'
  BY <1>1, <1>2, <1>3, <1>5, Apart
<1>7. CASE Stop(p) \/ (p = 0 /\ Yield)
  <2>1. pc'[p] \in {"host", "over"}
    BY <1>0, <1>7 DEF Stop, Yield, Go
  <2> QED BY <1>6, <2>1, Vacant
<1>8. CASE Exit(p) \/ Resume(p)
  <2>1. pc'[p] \in {"guest", "handler"} /\ UNCHANGED vm
    BY <1>0, <1>8 DEF Exit, Resume, Go
  <2>2. Revised(p) /\ Ready(p)
    BY DEF VmcsInv
  <2>3. Revised(p)'
    BY <1>1, <2>1, <2>2 DEF Revised
  <2>4. SetUp(p, vm[p]) => SetUp(p, vm[p])'
    BY <1>2, <2>1 DEF SetUp
  <2>5. Ready(p)'
    BY <1>1, <1>2, <2>1, <2>2, <2>4 DEF Ready
  <2> QED BY <1>6, <2>3, <2>5
<1> QED BY <1>7, <1>8 DEF ExitSteps

LEMMA PlacesKept ==
  ASSUME VmcsInv, [Next]_vars
  PROVE  \A p \in P : Revised(p)' /\ Ready(p)'
<1>0. /\ pc \in [P -> Place] /\ vm \in [P -> Vm] /\ gdt \in [P -> Tables]
      /\ tr \in [P -> Tables] /\ Turns /\ \A p \in P : Revised(p) /\ Ready(p)
  BY DEF VmcsInv, TypeOK, RunTypes, HostTypes
<1>1. ASSUME NEW p \in P, EnterSteps(p) \/ ExitSteps(p)
      PROVE  \A q \in P : Revised(q)' /\ Ready(q)'
  BY <1>1, EnterKeepsPlaces, ExitKeepsPlaces
<1>2. CASE Yield
  BY <1>2, ExitKeepsPlaces, Numbers
<1>3. ASSUME NEW p \in P,
             pc'[p] \in {"tss", "vmxon", "host", "load", "over", "exception"},
             \A q \in P \ {p} :
               pc'[q] = pc[q] /\ vm'[q] = vm[q] /\ gdt'[q] = gdt[q] /\ tr'[q] = tr[q],
             UNCHANGED <<current, active, region, field, launched>>
      PROVE  \A q \in P : Revised(q)' /\ Ready(q)'
  BY <1>0, <1>3, Alike, Vacant
<1>4. CASE BspVmxon
  <2>1. pc'[0] \in {"host", "over", "exception"} /\ pc' = [pc EXCEPT ![0] = pc'[0]]
    BY <1>0, <1>4, Numbers DEF BspVmxon, EnableVmx, Go
  <2> QED BY <1>0, <1>3, <1>4, <2>1, Numbers DEF BspVmxon, vmcsVars, hostVars
<1>5. CASE EnterVm1
  <2>1. pc'[0] = "load" /\ pc' = [pc EXCEPT ![0] = "load"]
    BY <1>0, <1>5, Numbers DEF EnterVm1, Go
  <2> QED BY <1>0, <1>3, <1>5, <2>1, Numbers DEF EnterVm1, vmcsVars, hostVars
<1>6. CASE Slice
  <2>1. pc'[0] \in {"host", "load"} /\ \A q \in P \ {0} : pc'[q] = pc[q] /\ vm'[q] = vm[q]
    BY <1>0, <1>6, Numbers DEF Slice, Go
  <2> QED BY <1>3, <1>6, <2>1, Numbers DEF Slice, vmcsVars, hostVars
<1>7. CASE NextTrial
  <2>1. pc[0] = "host" /\ done = Vm
    BY <1>7 DEF NextTrial
  <2>2. pc[1] = "parked"
    <3>1. done # {}
      BY <2>1, Numbers
    <3>2. mode = "alternating" /\ ~released
      BY <1>0, <2>1, <3>1 DEF Turns
    <3> QED BY <1>0, <3>2 DEF Turns
  <2>3. pc'[0] \in {"host", "over"} /\ pc'[1] = "parked"
    BY <1>0, <1>7, <2>1, <2>2, Numbers DEF NextTrial, Go
  <2> QED BY <2>3, Vacant DEF P
<1>8. CASE ApStart
  <2>1. pc'[1] = "tss" /\ pc' = [pc EXCEPT ![1] = "tss"]
    BY <1>0, <1>8, Numbers DEF ApStart, Go
  <2> QED BY <1>0, <1>3, <1>8, <2>1, Numbers DEF ApStart, vmcsVars
<1>9. CASE InstallApHostTss
  <2>1. pc'[1] = "vmxon" /\ pc' = [pc EXCEPT ![1] = "vmxon"]
    BY <1>0, <1>9, Numbers DEF InstallApHostTss, Go
  <2>2. \A q \in P \ {1} : gdt'[q] = gdt[q] /\ tr'[q] = tr[q]
    BY <1>0, <1>9, Numbers DEF InstallApHostTss, InstallTss
  <2> QED BY <1>0, <1>3, <1>9, <2>1, <2>2, Numbers DEF InstallApHostTss, vmcsVars
<1>10. CASE ApVmxon
  <2>1. pc'[1] \in {"load", "over", "exception"} /\ pc' = [pc EXCEPT ![1] = pc'[1]]
    BY <1>0, <1>10, Numbers DEF ApVmxon, EnableVmx, Go
  <2> QED BY <1>0, <1>3, <1>10, <2>1, Numbers DEF ApVmxon, vmcsVars
<1>11. CASE UNCHANGED vars
  BY <1>0, <1>11, Alike DEF vars, vmcsVars, hostVars
<1> QED BY <1>1, <1>2, <1>4, <1>5, <1>6, <1>7, <1>8, <1>9, <1>10, <1>11 DEF Next

LEMMA VmcsInductive == VmcsInv /\ [Next]_vars => VmcsInv'
<1> SUFFICES ASSUME VmcsInv, [Next]_vars PROVE VmcsInv'
  OBVIOUS
<1>1. RunTypes' /\ VmcsTypes' /\ HostTypes'
  BY RunType, VmcsType, HostType DEF VmcsInv, TypeOK
<1>2. Turns' /\ Homes' /\ Caches' /\ Launches'
  BY TurnsKept, HomesKept, CachesKept, LaunchesKept DEF VmcsInv
<1>3. \A p \in P : Revised(p)' /\ Ready(p)'
  BY PlacesKept
<1> QED BY <1>1, <1>2, <1>3 DEF VmcsInv, TypeOK

\* Where each processor is and what its VM's VMCS holds by then, together
\* (guest_run.rs and vmx.rs), whichever steps were taken.
THEOREM VmcsInvariant == Spec => []VmcsInv
BY VmcsInitial, VmcsInductive, PTL DEF Spec

\* No step puts anything into the state of the processors or of a VMCS that
\* does not belong there: no read of a field that was never there, and no
\* exit to a stack that is nobody's.
THEOREM VmcsTypeOK == Spec => []TypeOK
<1>1. VmcsInv => TypeOK
  BY DEF VmcsInv
<1> QED BY <1>1, VmcsInvariant, PTL

\* Whoever enters a VM does so with the VMCS of that VM, which is active on
\* this processor alone and complete (setup_hardware_vmcs, vmwrite_host_rsp).
THEOREM VmcsEntryIsSound == Spec => []EntryIsSound
<1>1. VmcsInv => EntryIsSound
  <2> SUFFICES ASSUME VmcsInv, NEW p \in P, pc[p] = "enter"
               PROVE  /\ current[p] = vm[p] /\ cached[vm[p]] = {p}
                      /\ field[vm[p]] =
                           [ept |-> vm[p], pir |-> IF p = 0 THEN vm[p] ELSE None,
                            gdt |-> gdt[p], tr |-> tr[p],
                            rip |-> "vmx_exit_handler", rsp |-> p]
                      /\ region[vm[p]].launch = "launched" <=> launched[vm[p]]
    BY DEF EntryIsSound
  <2>1. vm[p] \in Vm /\ Runner(vm[p]) = p /\ Revised(p) /\ Ready(p)
    BY Alone DEF VmcsInv
  <2>2. current[p] = vm[p] /\ (region[vm[p]].launch = "launched" <=> launched[vm[p]])
    BY <2>1 DEF Revised, Ready
  <2>3. cached[vm[p]] = {p}
    <3>1. cached[vm[p]] \subseteq P
      BY <2>1 DEF VmcsInv, TypeOK, VmcsTypes
    <3>2. p \in cached[vm[p]] /\ \A q \in P : q \in cached[vm[p]] => q = p
      BY <2>1, <2>2 DEF VmcsInv, Caches
    <3> QED BY <3>1, <3>2
  <2>4. field[vm[p]] \in Written
    BY <2>1 DEF VmcsInv, TypeOK, VmcsTypes
  <2>5. /\ SetUp(p, vm[p]) /\ field[vm[p]].rip = "vmx_exit_handler"
        /\ field[vm[p]].rsp = p
    BY <2>1 DEF Ready
  <2>6. field[vm[p]] = [ept |-> vm[p], pir |-> IF p = 0 THEN vm[p] ELSE None,
                        gdt |-> gdt[p], tr |-> tr[p],
                        rip |-> "vmx_exit_handler", rsp |-> p]
    BY <2>4, <2>5 DEF Written, SetUp
  <2> QED BY <2>2, <2>3, <2>6
<1> QED BY <1>1, VmcsInvariant, PTL

\* Every exit is handled on the stack of its processor, for the vCPU that was
\* running there, with a task register that fits (vmx_handle_exit,
\* ensure_host_tss, install_ap_host_tss).
THEOREM VmcsExitIsHome == Spec => []ExitIsHome
<1>1. VmcsInv => ExitIsHome
  <2> SUFFICES ASSUME VmcsInv, NEW p \in P, pc[p] = "handler"
               PROVE  /\ stack[p] = p /\ active[CurrentPcpu(p)] = vm[p]
                      /\ tr[p] = gdt[p] /\ tr[p] \in {"firmware", Own(p)}
    BY DEF ExitIsHome
  <2>1. stack[p] = p /\ active[CurrentPcpu(p)] = vm[p]
    BY AtHome
  <2>2. tr[p] # "none"
    BY DEF VmcsInv, Ready, SetUp
  <2> QED BY <2>1, <2>2 DEF VmcsInv, Homes
<1> QED BY <1>1, VmcsInvariant, PTL
===============================================================================
