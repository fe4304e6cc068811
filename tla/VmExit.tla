-------------------------------- MODULE VmExit --------------------------------
(***************************************************************************)
(* VM exits on two processors (guest_run.rs): the exit stub saves the      *)
(* guest's registers, vmx_handle_exit serves the exit and leaves replies   *)
(* in slots of its processor, apply_cpuid_patch moves them to the saved    *)
(* registers, and the stub resumes the guest or gives the processor back.  *)
(*                                                                         *)
(* smp: the boot processor runs VM1 and an application processor VM2, each *)
(* by one enter_guest.  Otherwise the boot processor runs both in slices,  *)
(* by run_vcpu_once (in what order is the subject of DualRun).  The stub's *)
(* arguments and results travel in the registers it is written for.        *)
(*                                                                         *)
(* Register values are hexadecimal words, the eleven registers that carry  *)
(* no call or reply are one, and a guest's own values bear its name.  rip  *)
(* says where a guest stands: at its entry point, at the instruction that  *)
(* exited or past it.  asked is the exit under way: its reason is the      *)
(* VMCS field; the registers as the guest meant them and as the platform   *)
(* delivered them serve the properties only, and so do started, printed.   *)
(*                                                                         *)
(* EnterKeepingStop, MeantLiterally, HandledUnlaunched, HandleHltYielding  *)
(* and PatchKeptPending are mutated forms of the definition that follows   *)
(* them; nothing uses them.                                                *)
(***************************************************************************)
EXTENDS Naturals, FiniteSets

CONSTANTS
  Lens,   \* the payload lengths of the trials, as words
  Swaps,  \* whether the platform may swap RAX and RCX of a VMCALL
  Faults  \* what may go wrong: "entry", "guest"

Vm == {"vm1", "vm2"}
Pcpu == {0, 1}

PUTCHAR == "200"
SHUTDOWN == "201"
GET_PAYLOAD_LEN == "202"
Calls == {PUTCHAR, SHUTDOWN, GET_PAYLOAD_LEN}

\* What guests leave in RAX and RCX: calls, CPUID leaves, a byte.
Rax == Calls \cup {"0", "1"}
Rcx == {PUTCHAR, "41"}
Cpuid == {"0", "1", "9", "806E9", "Hyps", "terH", "V   ", "200", "6000000"}
Words == Rax \cup Rcx \cup Cpuid \cup Lens \cup Vm \cup {"host"}

ASSUME ExitAssumption ==
  /\ Lens # {}
  /\ Swaps \in BOOLEAN
  /\ Faults \subseteq {"entry", "guest"}

Registers == [rax : Words, rbx : Words, rcx : Words, rdx : Words, rest : Words]
HostRegisters ==
  [rax |-> "host", rbx |-> "host", rcx |-> "host", rdx |-> "host",
   rest |-> "host"]
Fatal == {"triple fault", "EPT violation", "invalid guest state", "other"}
Reasons == {"VMCALL", "HLT", "CPUID"} \cup Fatal

VARIABLES
  smp,        \* which of the two ways the guests are run
  concurrent, \* CONCURRENT_MODE
  payloadLen, \* TRIAL_PAYLOAD_LEN
  where,      \* where each processor is
  active,     \* ACTIVE_VCPU of each processor
  regs,       \* registers of each processor while in a guest
  saved,      \* the guest registers the stub has pushed
  resume,     \* what vmx_handle_exit returned
  raxPatch,   \* RAX_PATCH_PENDING and RAX_PATCH_VALUE of each processor
  cpuidPatch, \* CPUID_PATCH_PENDING and CPUID_GPR of each processor
  stop,       \* GUEST_STOP of each processor
  launched,   \* VCpu::launched of each guest
  vmcs,       \* launch state the processor keeps of each guest's VMCS
  rip,        \* where each guest stands
  done,       \* vm1_done and vm2_done of run_until_both_shutdown
  printed,    \* the guest byte each processor has handed to the serial line
  asked, started

mode == <<smp, concurrent, payloadLen>>
patches == <<raxPatch, cpuidPatch>>
guests == <<launched, vmcs, rip, done, started>>
vars == <<mode, where, active, regs, saved, resume, patches, stop, guests,
          printed, asked>>

NoByte == [vm |-> "host", byte |-> "0"]
NoCpuid == [pending |-> FALSE, value |-> HostRegisters]
NoRax == [pending |-> FALSE, value |-> "host"]
NoExit ==
  [reason |-> "HLT", issued |-> HostRegisters, got |-> HostRegisters]

Init ==
  /\ smp \in BOOLEAN /\ concurrent = smp /\ payloadLen \in Lens
  /\ where = [c \in Pcpu |-> IF c = 0 \/ smp THEN "host" ELSE "over"]
  /\ active = [c \in Pcpu |-> IF c = 0 THEN "vm1" ELSE "vm2"]
  /\ regs = [c \in Pcpu |-> HostRegisters]
  /\ saved = [c \in Pcpu |-> HostRegisters]
  /\ resume = [c \in Pcpu |-> FALSE]
  /\ raxPatch = [c \in Pcpu |-> NoRax]
  /\ cpuidPatch = [c \in Pcpu |-> NoCpuid]
  /\ stop = [c \in Pcpu |-> FALSE]
  /\ launched = [g \in Vm |-> FALSE]
  /\ vmcs = [g \in Vm |-> "clear"]
  /\ rip = [g \in Vm |-> "entry"]
  /\ done = [g \in Vm |-> FALSE]
  /\ printed = [c \in Pcpu |-> NoByte]
  /\ asked = [c \in Pcpu |-> NoExit]
  /\ started = [g \in Vm |-> FALSE]
-------------------------------------------------------------------------------
(***************************************************************************)
(* The host enters a guest                                                 *)
(***************************************************************************)

RunsOn(g, c) == IF smp /\ g = "vm2" THEN c = 1 ELSE c = 0

\* enter_guest always sets the VMCS up, run_vcpu_once only before a launch.
SetsUp(g) == smp \/ ~launched[g]

\* Up to the VM entry: the stop flag is cleared, the VMCS loaded, if need be
\* set up and with it the entry point.
EnterKeepingStop(c, g) ==
  /\ where[c] = "host" /\ RunsOn(g, c) /\ ~done[g]
  /\ active' = [active EXCEPT ![c] = g]
  /\ rip' = [rip EXCEPT ![g] = IF SetsUp(g) THEN "entry" ELSE @]
  /\ launched' = [launched EXCEPT ![g] = @ /\ ~smp]
  /\ started' = [started EXCEPT ![g] = TRUE]
  /\ UNCHANGED <<mode, patches, done, printed, resume, stop>>

Enter(c, g) ==
  /\ where[c] = "host" /\ RunsOn(g, c) /\ ~done[g]
  /\ active' = [active EXCEPT ![c] = g]
  /\ stop' = [stop EXCEPT ![c] = FALSE]
  /\ rip' = [rip EXCEPT ![g] = IF SetsUp(g) THEN "entry" ELSE @]
  /\ launched' = [launched EXCEPT ![g] = @ /\ ~smp]
  /\ started' = [started EXCEPT ![g] = TRUE]
  /\ UNCHANGED <<mode, patches, done, printed, resume>>

\* VMLAUNCH of a cleared VMCS, VMRESUME of a launched one: the guest starts
\* with the registers of the host, also after a slice that ended in a yield.
EnterGuest(c, g) ==
  /\ Enter(c, g)
  /\ SetsUp(g) \/ vmcs[g] = "launched"
  /\ vmcs' = [vmcs EXCEPT ![g] = "launched"]
  /\ where' = [where EXCEPT ![c] = "guest"]
  /\ regs' = [regs EXCEPT ![c] = HostRegisters]
  /\ UNCHANGED <<saved, asked>>

\* The entry instruction fails: the error ends the run of this processor,
\* past everything that would have followed a return of the guest.
EntryFails(c, g) ==
  /\ Enter(c, g)
  /\ "entry" \in Faults \/ (~SetsUp(g) /\ vmcs[g] = "clear")
  /\ vmcs' = [vmcs EXCEPT ![g] = IF SetsUp(g) THEN "clear" ELSE @]
  /\ where' = [where EXCEPT ![c] = "failed"]
  /\ UNCHANGED <<regs, saved, asked>>

\* The entry fails on the guest's state: an exit, with the registers of the
\* host, that leaves the VMCS as it was.
EntryRejected(c, g) ==
  /\ Enter(c, g)
  /\ "entry" \in Faults
  /\ SetsUp(g) \/ vmcs[g] = "launched"
  /\ vmcs' = [vmcs EXCEPT ![g] = IF SetsUp(g) THEN "clear" ELSE @]
  /\ where' = [where EXCEPT ![c] = "saved"]
  /\ saved' = [saved EXCEPT ![c] = HostRegisters]
  /\ asked' = [asked EXCEPT ![c] = [NoExit EXCEPT !.reason = "invalid guest state"]]
  /\ UNCHANGED regs

\* The next trial of run_dual_partitions, on the boot processor.
NewTrial ==
  /\ ~smp /\ where[0] = "host" /\ \A g \in Vm : done[g]
  /\ payloadLen' \in Lens
  /\ launched' = [g \in Vm |-> FALSE]
  /\ done' = [g \in Vm |-> FALSE]
  /\ started' = [g \in Vm |-> FALSE]
  /\ UNCHANGED <<smp, concurrent, where, active, regs, saved, resume, patches,
                 stop, vmcs, rip, printed, asked>>

\* VM1 came back in run_concurrent_both: the mode ends under a running VM2.
ConcurrentEnds ==
  /\ smp /\ concurrent /\ where[0] = "over"
  /\ concurrent' = FALSE
  /\ UNCHANGED <<smp, payloadLen, where, active, regs, saved, resume, patches,
                 stop, guests, printed, asked>>
-------------------------------------------------------------------------------
(***************************************************************************)
(* The guest exits, and the stub pushes its registers                      *)
(***************************************************************************)

Swapped(r) == [r EXCEPT !.rax = r.rcx, !.rcx = r.rax]

Exit(c, reason, issued, got) ==
  /\ where[c] = "guest"
  /\ where' = [where EXCEPT ![c] = "saved"]
  /\ regs' = [regs EXCEPT ![c] = HostRegisters]
  /\ saved' = [saved EXCEPT ![c] = got]
  /\ asked' = [asked EXCEPT ![c] =
                 [reason |-> reason, issued |-> issued, got |-> got]]
  /\ rip' = [rip EXCEPT ![active[c]] = "at"]
  /\ UNCHANGED <<mode, active, resume, patches, stop, launched, vmcs, done,
                 started, printed>>

Own(g, rax, rcx) ==
  [rax |-> rax, rbx |-> g, rcx |-> rcx, rdx |-> g, rest |-> g]

GuestCalls(c) ==
  \E rax \in Rax, rcx \in Rcx :
    LET r == Own(active[c], rax, rcx)
    IN  \/ Exit(c, "VMCALL", r, r)
        \/ Swaps /\ Exit(c, "VMCALL", r, Swapped(r))

GuestIdentifies(c) ==
  \E rax \in Rax, rcx \in Rcx :
    Exit(c, "CPUID", Own(active[c], rax, rcx), Own(active[c], rax, rcx))

GuestHalts(c) ==
  Exit(c, "HLT", Own(active[c], "0", "41"), Own(active[c], "0", "41"))

GuestDies(c) ==
  /\ "guest" \in Faults
  /\ \E reason \in Fatal \ {"invalid guest state"} :
       Exit(c, reason, Own(active[c], "0", "41"), Own(active[c], "0", "41"))
-------------------------------------------------------------------------------
(***************************************************************************)
(* vmx_handle_exit                                                         *)
(***************************************************************************)

\* "accept either orientation for putchar": done before the reason is read.
MeantLiterally(r) == r

Meant(r) ==
  IF r.rcx = PUTCHAR /\ r.rax \notin Calls THEN Swapped(r) ELSE r

HandledUnlaunched(c, reason, past, answer) ==
  /\ where[c] = "saved" /\ asked[c].reason = reason
  /\ rip' = [rip EXCEPT ![active[c]] = IF past THEN "past" ELSE @]
  /\ resume' = [resume EXCEPT ![c] = answer]
  /\ UNCHANGED <<mode, active, regs, saved, launched, vmcs, done, started,
                 asked>>

\* One exit served: the processor's guest counts as launched, RIP is advanced
\* or not, and the answer is to resume or not.
Handled(c, reason, past, answer) ==
  /\ where[c] = "saved" /\ asked[c].reason = reason
  /\ launched' = [launched EXCEPT ![active[c]] = TRUE]
  /\ rip' = [rip EXCEPT ![active[c]] = IF past THEN "past" ELSE @]
  /\ resume' = [resume EXCEPT ![c] = answer]
  /\ UNCHANGED <<mode, active, regs, saved, vmcs, done, started, asked>>

ToPatch(c) == where' = [where EXCEPT ![c] = "handled"]

HandlePutchar(c) ==
  /\ Meant(saved[c]).rax = PUTCHAR
  /\ Handled(c, "VMCALL", TRUE, TRUE) /\ ToPatch(c)
  /\ printed' = [printed EXCEPT ![c] =
                   [vm |-> active[c], byte |-> Meant(saved[c]).rcx]]
  /\ UNCHANGED <<patches, stop>>

HandleLen(c) ==
  /\ Meant(saved[c]).rax = GET_PAYLOAD_LEN
  /\ Handled(c, "VMCALL", TRUE, TRUE) /\ ToPatch(c)
  /\ raxPatch' = [raxPatch EXCEPT ![c] =
                    [pending |-> TRUE, value |-> payloadLen]]
  /\ UNCHANGED <<cpuidPatch, stop, printed>>

\* On the application processor ap_maybe_finish_exit does not return.
HandleShutdown(c) ==
  /\ Meant(saved[c]).rax = SHUTDOWN
  /\ Handled(c, "VMCALL", TRUE, FALSE)
  /\ where' = [where EXCEPT ![c] = IF c = 0 THEN "handled" ELSE "parked"]
  /\ stop' = [stop EXCEPT ![c] = TRUE]
  /\ UNCHANGED <<patches, printed>>

HandleUnknown(c) ==
  /\ Meant(saved[c]).rax \notin Calls
  /\ Handled(c, "VMCALL", TRUE, TRUE) /\ ToPatch(c)
  /\ UNCHANGED <<patches, stop, printed>>

HandleHltYielding(c) ==
  /\ Handled(c, "HLT", TRUE, FALSE) /\ ToPatch(c)
  /\ UNCHANGED <<patches, stop, printed>>

\* HLT yields, unless each guest has a processor.
HandleHlt(c) ==
  /\ Handled(c, "HLT", TRUE, concurrent) /\ ToPatch(c)
  /\ UNCHANGED <<patches, stop, printed>>

\* emulate_cpuid, the leaves of 0x8000_0000 on left out.
EmulateCpuid(leaf) ==
  CASE leaf = "0" ->
         [eax |-> "1", ebx |-> "Hyps", ecx |-> "terH", edx |-> "V   "]
    [] leaf = "1" ->
         [eax |-> "806E9", ebx |-> "0", ecx |-> "200", edx |-> "6000000"]
    [] OTHER -> [eax |-> "0", ebx |-> "0", ecx |-> "0", edx |-> "0"]

Answered(r, leaf) ==
  LET a == EmulateCpuid(leaf)
  IN  [r EXCEPT !.rax = a.eax, !.rbx = a.ebx, !.rcx = a.ecx, !.rdx = a.edx]

HandleCpuid(c) ==
  /\ Handled(c, "CPUID", TRUE, TRUE) /\ ToPatch(c)
  /\ cpuidPatch' = [cpuidPatch EXCEPT ![c] =
       [pending |-> TRUE,
        value |-> Answered(HostRegisters, Meant(saved[c]).rax)]]
  /\ UNCHANGED <<raxPatch, stop, printed>>

HandleFatal(c) ==
  /\ \E reason \in Fatal : Handled(c, reason, FALSE, FALSE)
  /\ ToPatch(c)
  /\ UNCHANGED <<patches, stop, printed>>
-------------------------------------------------------------------------------
(***************************************************************************)
(* The rest of the stub                                                    *)
(***************************************************************************)

PatchKeptPending(c) ==
  LET cpuid == cpuidPatch[c]
      rax == raxPatch[c]
      base == IF cpuid.pending
              THEN [cpuid.value EXCEPT !.rest = saved[c].rest] ELSE saved[c]
  IN  /\ where[c] = "handled"
      /\ where' = [where EXCEPT ![c] = "patched"]
      /\ saved' = [saved EXCEPT ![c] =
                     IF rax.pending THEN [base EXCEPT !.rax = rax.value]
                     ELSE base]
      /\ cpuidPatch' = [cpuidPatch EXCEPT ![c].pending = FALSE]
      /\ UNCHANGED <<mode, active, regs, resume, raxPatch, stop, guests,
                     printed, asked>>

\* apply_cpuid_patch.
Patch(c) ==
  LET cpuid == cpuidPatch[c]
      rax == raxPatch[c]
      base == IF cpuid.pending
              THEN [cpuid.value EXCEPT !.rest = saved[c].rest] ELSE saved[c]
  IN  /\ where[c] = "handled"
      /\ where' = [where EXCEPT ![c] = "patched"]
      /\ saved' = [saved EXCEPT ![c] =
                     IF rax.pending THEN [base EXCEPT !.rax = rax.value]
                     ELSE base]
      /\ cpuidPatch' = [cpuidPatch EXCEPT ![c].pending = FALSE]
      /\ raxPatch' = [raxPatch EXCEPT ![c].pending = FALSE]
      /\ UNCHANGED <<mode, active, regs, resume, stop, guests, printed, asked>>

\* The exit is over, and what was on its stack is gone.
Popped(c) ==
  /\ saved' = [saved EXCEPT ![c] = HostRegisters]
  /\ resume' = [resume EXCEPT ![c] = FALSE]
  /\ printed' = [printed EXCEPT ![c] = NoByte]
  /\ asked' = [asked EXCEPT ![c] = NoExit]

\* Pop the registers and VMRESUME.
Resume(c) ==
  /\ where[c] = "patched" /\ resume[c]
  /\ where' = [where EXCEPT ![c] = "guest"]
  /\ regs' = [regs EXCEPT ![c] = saved[c]]
  /\ Popped(c)
  /\ UNCHANGED <<mode, active, patches, stop, guests>>

\* Drop the registers and go back to the host: the end of an enter_guest, or
\* of a slice, whose guest is done if it set the stop flag.
Yield(c) ==
  /\ where[c] = "patched" /\ ~resume[c]
  /\ where' = [where EXCEPT ![c] = IF smp THEN "over" ELSE "host"]
  /\ done' = [done EXCEPT ![active[c]] = stop[c] /\ ~smp]
  /\ Popped(c)
  /\ UNCHANGED <<mode, active, regs, patches, stop, launched, vmcs, rip,
                 started>>

Handle(c) ==
  \/ HandlePutchar(c)
  \/ HandleLen(c)
  \/ HandleShutdown(c)
  \/ HandleUnknown(c)
  \/ HandleHlt(c)
  \/ HandleCpuid(c)
  \/ HandleFatal(c)

GuestExits(c) ==
  \/ GuestCalls(c)
  \/ GuestIdentifies(c)
  \/ GuestHalts(c)
  \/ GuestDies(c)

Stub(c) == Patch(c) \/ Resume(c) \/ Yield(c)

Host(c) ==
  \E g \in Vm : EnterGuest(c, g) \/ EntryFails(c, g) \/ EntryRejected(c, g)

Next ==
  \/ NewTrial
  \/ ConcurrentEnds
  \/ \E c \in Pcpu : Host(c) \/ GuestExits(c) \/ Handle(c) \/ Stub(c)

Spec == Init /\ [][Next]_vars
-------------------------------------------------------------------------------
(***************************************************************************)
(* Properties                                                              *)
(***************************************************************************)

Place ==
  {"host", "guest", "saved", "handled", "patched", "parked", "over", "failed"}
RaxSlot == [pending : BOOLEAN, value : Lens \cup {"host"}]
CpuidSlot == [pending : BOOLEAN, value : Registers]
Byte == [vm : Vm \cup {"host"}, byte : Words]
Taken == [reason : Reasons, issued : Registers, got : Registers]

ModeTypes == smp \in BOOLEAN /\ concurrent \in BOOLEAN /\ payloadLen \in Lens

ProcessorTypes ==
  /\ where \in [Pcpu -> Place] /\ active \in [Pcpu -> Vm]
  /\ regs \in [Pcpu -> Registers] /\ saved \in [Pcpu -> Registers]
  /\ resume \in [Pcpu -> BOOLEAN] /\ stop \in [Pcpu -> BOOLEAN]
  /\ raxPatch \in [Pcpu -> RaxSlot] /\ cpuidPatch \in [Pcpu -> CpuidSlot]
  /\ printed \in [Pcpu -> Byte] /\ asked \in [Pcpu -> Taken]

GuestTypes ==
  /\ launched \in [Vm -> BOOLEAN] /\ vmcs \in [Vm -> {"clear", "launched"}]
  /\ rip \in [Vm -> {"entry", "at", "past"}]
  /\ done \in [Vm -> BOOLEAN] /\ started \in [Vm -> BOOLEAN]

\* The types of the variables: among them, a reply to the length call is a
\* length of some trial.
TypeOK == ModeTypes /\ ProcessorTypes /\ GuestTypes

Is(a, call) == a.reason = "VMCALL" /\ a.got.rax = call

\* The registers that answer an exit.
Answer(a) ==
  IF a.reason = "CPUID" THEN Answered(a.got, a.got.rax)
  ELSE IF Is(a, GET_PAYLOAD_LEN) THEN [a.got EXCEPT !.rax = payloadLen]
  ELSE a.got

\* A guest that is resumed finds the answer to the exit it took, in the
\* registers the call names, every other register as it left it, and itself
\* past the instruction, whatever exits the other processor or the other guest
\* takes meanwhile.  (A CPUID with the putchar number in RCX is taken for a
\* swapped call and answered for leaf 200.)
AnsweredAsAsked ==
  [][\A c \in Pcpu : where[c] = "patched" /\ where'[c] = "guest" =>
       LET a == asked[c]
       IN  /\ ~(a.reason = "CPUID" /\ Meant(a.got) # a.got) =>
                regs'[c] = Answer(a)
           /\ rip[active[c]] = "past"]_vars

\* A byte a guest prints reaches the line under its name even where the
\* platform swaps the registers of the call.
PutcharIsHeard ==
  [][\A c \in Pcpu :
       LET a == asked[c]
       IN  where[c] = "saved" /\ where'[c] # "saved" /\ a.reason = "VMCALL"
             /\ a.issued.rax = PUTCHAR =>
               printed'[c] = [vm |-> active[c], byte |-> a.issued.rcx]]_vars

\* A guest loses its processor by a shutdown, by dying, or by HLT outside the
\* concurrent mode, and by nothing else.  (Calls are taken as delivered: a
\* swapped shutdown is an unknown call, and the guest runs on.)
YieldsWhenMeant ==
  [][\A c \in Pcpu : where[c] = "patched" =>
       LET a == asked[c]
       IN  /\ where'[c] \in {"host", "over"} =>
                \/ Is(a, SHUTDOWN)
                \/ a.reason \in Fatal
                \/ a.reason = "HLT" /\ ~concurrent
           /\ where'[c] = "guest" => ~Is(a, SHUTDOWN) /\ a.reason \notin Fatal
     ]_vars

\* The stop flag of a processor is about the guest it entered last: it is set
\* if and only if that guest has shut down.
StopIsOwn ==
  \A c \in Pcpu :
    /\ where[c] \in {"guest", "saved"} => ~stop[c]
    /\ where[c] \in {"handled", "patched", "parked"} =>
         stop[c] = Is(asked[c], SHUTDOWN)

\* A guest goes back to its entry point only with a new trial, never because
\* a slice forgot that the one before had launched it.
NotRestarted ==
  [][\A g \in Vm : started[g] /\ rip[g] # "entry" => rip'[g] # "entry"]_vars
-------------------------------------------------------------------------------
(***************************************************************************)
(* The inductive invariant behind them                                     *)
(***************************************************************************)

\* No two processors are busy with one guest.
Placed ==
  /\ ~smp => where[1] = "over"
  /\ smp => active[0] = "vm1" /\ active[1] = "vm2"

\* The registers the stub resumes a guest with, for an exit that is resumed.
Reply(a) ==
  IF a.reason = "CPUID"
  THEN [Answered(HostRegisters, Meant(a.got).rax) EXCEPT !.rest = a.got.rest]
  ELSE IF Is(a, GET_PAYLOAD_LEN) THEN [a.got EXCEPT !.rax = payloadLen]
  ELSE a.got

\* A call comes as it was issued or with RAX and RCX swapped.
Delivered(c) ==
  LET a == asked[c]
  IN  where[c] = "saved" /\ a.reason = "VMCALL" =>
        /\ a.issued.rcx \in Rcx
        /\ a.got \in {a.issued, Swapped(a.issued)}

\* What the stub has pushed is what the guest left, and once it is patched
\* the reply.
Pushed(c) ==
  /\ where[c] \in {"saved", "handled"} => saved[c] = asked[c].got
  /\ where[c] = "patched" => saved[c] = Reply(asked[c])

\* A slot is pending between the handler and the patch of one exit, and holds
\* the reply to it.
Slots(c) ==
  /\ raxPatch[c].pending <=>
       where[c] = "handled" /\ Is(asked[c], GET_PAYLOAD_LEN)
  /\ raxPatch[c].pending => raxPatch[c].value = payloadLen
  /\ cpuidPatch[c].pending <=>
       where[c] = "handled" /\ asked[c].reason = "CPUID"
  /\ cpuidPatch[c].pending =>
       cpuidPatch[c].value =
         Answered(HostRegisters, Meant(asked[c].got).rax)

\* The handler's decision, and RIP past the instruction if it is to resume.
Decided(c) ==
  LET a == asked[c]
  IN  where[c] \in {"handled", "patched"} =>
        IF resume[c]
        THEN /\ rip[active[c]] = "past"
             /\ ~Is(a, SHUTDOWN)
             /\ a.reason \notin Fatal
        ELSE \/ Is(a, SHUTDOWN)
             \/ a.reason \in Fatal
             \/ a.reason = "HLT" /\ ~concurrent

StopOf(c) ==
  /\ where[c] \in {"guest", "saved"} => ~stop[c]
  /\ where[c] \in {"handled", "patched", "parked"} =>
       stop[c] = Is(asked[c], SHUTDOWN)

Serving(c) ==
  Delivered(c) /\ Pushed(c) /\ Slots(c) /\ Decided(c) /\ StopOf(c)

\* A guest that has left its entry point is launched, or about to be counted
\* so; with a processor of its own it is entered once.
Counted(g) ==
  IF smp THEN \A c \in Pcpu : where[c] = "host" /\ RunsOn(g, c) => ~started[g]
  ELSE started[g] /\ rip[g] # "entry" =>
         \/ launched[g]
         \/ where[0] \in {"guest", "saved"} /\ active[0] = g

ExitInv ==
  /\ TypeOK
  /\ Placed
  /\ \A c \in Pcpu : Serving(c)
  /\ \A g \in Vm : Counted(g)
==============================================================================
