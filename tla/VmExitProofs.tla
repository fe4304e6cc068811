----------------------------- MODULE VmExitProofs -----------------------------
(***************************************************************************)
(* Every guest gets the answer to its own exit, and only those exits end   *)
(* its turn that are meant to: for all payload lengths, whatever fails and *)
(* however the exits of the two processors interleave.                     *)
(***************************************************************************)
EXTENDS VmExit, TLAPS

(***************************************************************************)
(* The helpers                                                             *)
(***************************************************************************)

\* Host registers, the registers of a guest, and every way they are rewritten.
LEMMA HostIsRegisters == HostRegisters \in Registers
BY DEF HostRegisters, Registers, Words

LEMMA OwnIsRegisters ==
  ASSUME NEW g \in Vm, NEW rax \in Rax, NEW rcx \in Rcx
  PROVE  Own(g, rax, rcx) \in Registers
BY DEF Own, Registers, Words

LEMMA RaxIsRegisters ==
  ASSUME NEW r \in Registers, NEW w \in Words
  PROVE  [r EXCEPT !.rax = w] \in Registers /\ [r EXCEPT !.rest = w] \in Registers
BY DEF Registers

LEMMA SwappedIsRegisters ==
  ASSUME NEW r \in Registers
  PROVE  Swapped(r) \in Registers /\ Meant(r) \in Registers
BY DEF Swapped, Meant, Registers

LEMMA AnsweredIsRegisters ==
  ASSUME NEW r \in Registers, NEW leaf
  PROVE  Answered(r, leaf) \in Registers
<1> DEFINE a == EmulateCpuid(leaf)
<1>1. a.eax \in Words /\ a.ebx \in Words /\ a.ecx \in Words /\ a.edx \in Words
  BY DEF EmulateCpuid, Words, Cpuid
<1> QED BY <1>1 DEF Answered, Registers

\* What the handler takes a call for: the swap is only ever a putchar.
LEMMA MeantCall ==
  ASSUME NEW r \in Registers
  PROVE  /\ Meant(r).rax = SHUTDOWN <=> r.rax = SHUTDOWN
         /\ Meant(r).rax = GET_PAYLOAD_LEN <=> r.rax = GET_PAYLOAD_LEN
         /\ r.rax = PUTCHAR => Meant(r).rax = PUTCHAR
         /\ Meant(r).rax \in Calls \/ Meant(r) = r
BY DEF Meant, Swapped, Registers, Calls, PUTCHAR, SHUTDOWN, GET_PAYLOAD_LEN

\* What a putchar is taken for, delivered as issued or swapped.
LEMMA MeantPutchar ==
  ASSUME NEW r \in Registers, NEW s \in {r, Swapped(r)},
         r.rax = PUTCHAR, r.rcx \in Rcx
  PROVE  Meant(s).rax = PUTCHAR /\ Meant(s).rcx = r.rcx
BY DEF Meant, Swapped, Registers, Rcx, Calls, PUTCHAR, SHUTDOWN, GET_PAYLOAD_LEN

\* The registers a slot answers with are those the call asks for.
LEMMA ReplyIsAnswer ==
  ASSUME NEW a \in Taken, ~(a.reason = "CPUID" /\ Meant(a.got) # a.got)
  PROVE  Reply(a) = Answer(a)
<1>1. CASE a.reason = "CPUID"
  <2>1. a.got \in Registers /\ Meant(a.got) = a.got
    BY <1>1 DEF Taken
  <2>2. [Answered(HostRegisters, a.got.rax) EXCEPT !.rest = a.got.rest]
          = Answered(a.got, a.got.rax)
    BY <2>1 DEF Answered, HostRegisters, Registers
  <2> QED BY <1>1, <2>1, <2>2 DEF Reply, Answer
<1>2. CASE a.reason # "CPUID"
  BY <1>2 DEF Reply, Answer
<1> QED BY <1>1, <1>2
-------------------------------------------------------------------------------
(***************************************************************************)
(* Type correctness                                                        *)
(***************************************************************************)

LEMMA ExitInitTypes == Init => TypeOK
<1> SUFFICES ASSUME Init PROVE TypeOK
  OBVIOUS
<1>1. ModeTypes
  BY DEF Init, ModeTypes
<1>2. GuestTypes
  <2>1. /\ launched \in [Vm -> BOOLEAN] /\ done \in [Vm -> BOOLEAN]
        /\ started \in [Vm -> BOOLEAN]
    BY DEF Init
  <2> QED BY <2>1 DEF Init, GuestTypes
<1>3. ProcessorTypes
  <2>1. NoRax \in RaxSlot /\ NoCpuid \in CpuidSlot /\ NoByte \in Byte
    BY HostIsRegisters DEF NoRax, RaxSlot, NoCpuid, CpuidSlot, NoByte, Byte, Words, Rax
  <2>2. NoExit \in Taken
    BY HostIsRegisters DEF NoExit, Taken, Reasons
  <2>3. /\ raxPatch \in [Pcpu -> RaxSlot] /\ cpuidPatch \in [Pcpu -> CpuidSlot]
        /\ printed \in [Pcpu -> Byte] /\ asked \in [Pcpu -> Taken]
    BY <2>1, <2>2 DEF Init
  <2>4. regs \in [Pcpu -> Registers] /\ saved \in [Pcpu -> Registers]
    BY HostIsRegisters DEF Init
  <2>5. resume \in [Pcpu -> BOOLEAN] /\ stop \in [Pcpu -> BOOLEAN]
    BY DEF Init
  <2>6. where \in [Pcpu -> Place] /\ active \in [Pcpu -> Vm]
    BY DEF Init, Place, Vm
  <2> QED BY <2>3, <2>4, <2>5, <2>6 DEF ProcessorTypes
<1> QED BY <1>1, <1>2, <1>3 DEF TypeOK

\* What each group of steps changes, and that it keeps the types: the steps of
\* the host first.
LEMMA EnterTypes ==
  ASSUME TypeOK, NEW c \in Pcpu, NEW g \in Vm, Enter(c, g)
  PROVE  /\ ModeTypes'
         /\ active' \in [Pcpu -> Vm] /\ resume' \in [Pcpu -> BOOLEAN]
         /\ stop' \in [Pcpu -> BOOLEAN] /\ printed' \in [Pcpu -> Byte]
         /\ raxPatch' \in [Pcpu -> RaxSlot] /\ cpuidPatch' \in [Pcpu -> CpuidSlot]
         /\ launched' \in [Vm -> BOOLEAN] /\ done' \in [Vm -> BOOLEAN]
         /\ rip' \in [Vm -> {"entry", "at", "past"}] /\ started' \in [Vm -> BOOLEAN]
<1>1. /\ active \in [Pcpu -> Vm] /\ resume \in [Pcpu -> BOOLEAN]
      /\ stop \in [Pcpu -> BOOLEAN] /\ printed \in [Pcpu -> Byte]
      /\ raxPatch \in [Pcpu -> RaxSlot] /\ cpuidPatch \in [Pcpu -> CpuidSlot]
  BY DEF TypeOK, ProcessorTypes
<1>2. /\ launched \in [Vm -> BOOLEAN] /\ done \in [Vm -> BOOLEAN]
      /\ rip \in [Vm -> {"entry", "at", "past"}] /\ started \in [Vm -> BOOLEAN]
  BY DEF TypeOK, GuestTypes
<1>3. UNCHANGED <<mode, patches, done, printed, resume>>
  BY DEF Enter
<1>4. ModeTypes'
  BY <1>3 DEF TypeOK, ModeTypes, mode
<1>5. active' \in [Pcpu -> Vm] /\ stop' \in [Pcpu -> BOOLEAN]
  <2>1. /\ active' = [active EXCEPT ![c] = g]
        /\ stop' = [stop EXCEPT ![c] = FALSE]
    BY DEF Enter
  <2> QED BY ONLY <1>1, <2>1, g \in Vm
<1>6. rip' \in [Vm -> {"entry", "at", "past"}]
  BY <1>2 DEF Enter
<1>7. launched' \in [Vm -> BOOLEAN] /\ started' \in [Vm -> BOOLEAN]
  <2>1. /\ launched' = [launched EXCEPT ![g] = @ /\ ~smp]
        /\ started' = [started EXCEPT ![g] = TRUE]
    BY DEF Enter
  <2> QED BY ONLY <1>2, <2>1
<1> QED BY <1>1, <1>2, <1>3, <1>4, <1>5, <1>6, <1>7 DEF patches

LEMMA HostTypes ==
  ASSUME TypeOK, NEW c \in Pcpu, Host(c)
  PROVE  TypeOK'
<1>1. PICK g \in Vm : EnterGuest(c, g) \/ EntryFails(c, g) \/ EntryRejected(c, g)
  BY DEF Host
<1>2. Enter(c, g)
  BY <1>1 DEF EnterGuest, EntryFails, EntryRejected
<1>3. /\ where \in [Pcpu -> Place] /\ regs \in [Pcpu -> Registers]
      /\ saved \in [Pcpu -> Registers] /\ asked \in [Pcpu -> Taken]
      /\ vmcs \in [Vm -> {"clear", "launched"}]
  BY DEF TypeOK, ProcessorTypes, GuestTypes
<1>4. [NoExit EXCEPT !.reason = "invalid guest state"] \in Taken
  BY HostIsRegisters DEF NoExit, Taken, Reasons, Fatal
<1>5. where' \in [Pcpu -> Place]
  BY <1>1, <1>3 DEF EnterGuest, EntryFails, EntryRejected, Place
<1>6. vmcs' \in [Vm -> {"clear", "launched"}]
  BY <1>1, <1>3 DEF EnterGuest, EntryFails, EntryRejected
<1>7. /\ regs' \in [Pcpu -> Registers] /\ saved' \in [Pcpu -> Registers]
      /\ asked' \in [Pcpu -> Taken]
  BY <1>1, <1>3, <1>4, HostIsRegisters DEF EnterGuest, EntryFails, EntryRejected
<1> QED BY <1>2, <1>5, <1>6, <1>7, EnterTypes DEF TypeOK, ProcessorTypes, GuestTypes

LEMMA ExitTypes ==
  ASSUME TypeOK, NEW c \in Pcpu, GuestExits(c)
  PROVE  TypeOK'
<1>1. /\ active[c] \in Vm /\ where \in [Pcpu -> Place] /\ regs \in [Pcpu -> Registers]
      /\ saved \in [Pcpu -> Registers] /\ asked \in [Pcpu -> Taken]
      /\ rip \in [Vm -> {"entry", "at", "past"}]
  BY DEF TypeOK, ProcessorTypes, GuestTypes
<1>2. "0" \in Rax /\ "41" \in Rcx
  BY DEF Rax, Rcx
<1>3. PICK reason \in Reasons, issued \in Registers, got \in Registers :
        Exit(c, reason, issued, got)
  <2>1. CASE GuestCalls(c)
    <3>1. PICK rax \in Rax, rcx \in Rcx :
            LET r == Own(active[c], rax, rcx)
            IN  Exit(c, "VMCALL", r, r) \/ Exit(c, "VMCALL", r, Swapped(r))
      BY <2>1 DEF GuestCalls
    <3> QED BY <1>1, <3>1, OwnIsRegisters, SwappedIsRegisters DEF Reasons
  <2>2. CASE GuestIdentifies(c)
    BY <1>1, <2>2, OwnIsRegisters DEF GuestIdentifies, Reasons
  <2>3. CASE GuestHalts(c) \/ GuestDies(c)
    BY <1>1, <1>2, <2>3, OwnIsRegisters DEF GuestHalts, GuestDies, Reasons
  <2> QED BY <2>1, <2>2, <2>3 DEF GuestExits
<1>4. [reason |-> reason, issued |-> issued, got |-> got] \in Taken
  BY <1>3 DEF Taken
<1>5. where' \in [Pcpu -> Place] /\ rip' \in [Vm -> {"entry", "at", "past"}]
  BY <1>1, <1>3 DEF Exit, Place
<1>6. /\ regs' \in [Pcpu -> Registers] /\ saved' \in [Pcpu -> Registers]
      /\ asked' \in [Pcpu -> Taken]
  BY <1>1, <1>3, <1>4, HostIsRegisters DEF Exit
<1>7. UNCHANGED <<mode, active, resume, patches, stop, launched, vmcs, done, started,
                  printed>>
  BY <1>3 DEF Exit
<1> QED BY <1>5, <1>6, <1>7
        DEF TypeOK, ModeTypes, ProcessorTypes, GuestTypes, mode, patches

\* What the handler decides, reason by reason.
LEMMA HandleDoes ==
  ASSUME NEW c \in Pcpu, Handle(c)
  PROVE  \/ Handled(c, "VMCALL", TRUE, TRUE)
         \/ Handled(c, "VMCALL", TRUE, FALSE)
         \/ Handled(c, "HLT", TRUE, concurrent)
         \/ Handled(c, "CPUID", TRUE, TRUE)
         \/ \E reason \in Fatal : Handled(c, reason, FALSE, FALSE)
BY DEF Handle, HandlePutchar, HandleLen, HandleShutdown, HandleUnknown, HandleHlt,
       HandleCpuid, HandleFatal

LEMMA HandleTypes ==
  ASSUME TypeOK, NEW c \in Pcpu, Handle(c)
  PROVE  TypeOK'
<1>1. /\ active[c] \in Vm /\ where \in [Pcpu -> Place]
      /\ saved[c] \in Registers /\ printed \in [Pcpu -> Byte]
      /\ rip \in [Vm -> {"entry", "at", "past"}] /\ payloadLen \in Lens
      /\ raxPatch \in [Pcpu -> RaxSlot] /\ cpuidPatch \in [Pcpu -> CpuidSlot]
  BY DEF TypeOK, ModeTypes, ProcessorTypes, GuestTypes
<1>2. /\ launched \in [Vm -> BOOLEAN] /\ resume \in [Pcpu -> BOOLEAN]
      /\ stop \in [Pcpu -> BOOLEAN] /\ concurrent \in BOOLEAN
  BY DEF TypeOK, ModeTypes, ProcessorTypes, GuestTypes
<1>3. /\ launched' = [launched EXCEPT ![active[c]] = TRUE]
      /\ \/ resume' = [resume EXCEPT ![c] = TRUE]
         \/ resume' = [resume EXCEPT ![c] = FALSE]
         \/ resume' = [resume EXCEPT ![c] = concurrent]
      /\ rip' = [rip EXCEPT ![active[c]] = "past"] \/ rip' = rip
      /\ UNCHANGED <<mode, active, regs, saved, vmcs, done, started, asked>>
  BY <1>1, HandleDoes DEF Handled
<1>4. UNCHANGED <<mode, active, regs, saved, vmcs, done, started, asked>>
  BY <1>3
<1>5. rip' \in [Vm -> {"entry", "at", "past"}]
  BY <1>1, <1>3
<1>6. launched' \in [Vm -> BOOLEAN] /\ resume' \in [Pcpu -> BOOLEAN]
  BY ONLY <1>2, <1>3
<1>7. where' \in [Pcpu -> Place]
  BY <1>1 DEF Handle, HandlePutchar, HandleLen, HandleShutdown, HandleUnknown, HandleHlt,
              HandleCpuid, HandleFatal, ToPatch, Place
<1>8. stop' \in [Pcpu -> BOOLEAN]
  <2>1. UNCHANGED stop \/ stop' = [stop EXCEPT ![c] = TRUE]
    BY DEF Handle, HandlePutchar, HandleLen, HandleShutdown, HandleUnknown, HandleHlt,
           HandleCpuid, HandleFatal
  <2> QED BY ONLY <1>2, <2>1
<1>9. printed' \in [Pcpu -> Byte]
  <2>1. [vm |-> active[c], byte |-> Meant(saved[c]).rcx] \in Byte
    BY <1>1, SwappedIsRegisters DEF Byte, Registers
  <2> QED
    BY <1>1, <2>1
       DEF Handle, HandlePutchar, HandleLen, HandleShutdown, HandleUnknown, HandleHlt,
           HandleCpuid, HandleFatal
<1>10. raxPatch' \in [Pcpu -> RaxSlot]
  <2>1. [pending |-> TRUE, value |-> payloadLen] \in RaxSlot
    BY <1>1 DEF RaxSlot
  <2> QED
    BY <1>1, <2>1
       DEF Handle, HandlePutchar, HandleLen, HandleShutdown, HandleUnknown, HandleHlt,
           HandleCpuid, HandleFatal, patches
<1>11. cpuidPatch' \in [Pcpu -> CpuidSlot]
  <2> DEFINE v == Answered(HostRegisters, Meant(saved[c]).rax)
  <2>1. v \in Registers
    BY HostIsRegisters, AnsweredIsRegisters
  <2>2. [pending |-> TRUE, value |-> v] \in CpuidSlot
    BY <2>1 DEF CpuidSlot
  <2>3. UNCHANGED cpuidPatch
        \/ cpuidPatch' = [cpuidPatch EXCEPT ![c] = [pending |-> TRUE, value |-> v]]
    BY DEF Handle, HandlePutchar, HandleLen, HandleShutdown, HandleUnknown, HandleHlt,
           HandleCpuid, HandleFatal, patches
  <2> HIDE DEF v
  <2> QED BY <1>1, <2>2, <2>3
<1> QED BY <1>4, <1>5, <1>6, <1>7, <1>8, <1>9, <1>10, <1>11
        DEF TypeOK, ModeTypes, ProcessorTypes, GuestTypes, mode

\* A patched frame: the answer to a CPUID over what was pushed, the reply of a
\* call in its RAX.
Base(c) ==
  IF cpuidPatch[c].pending
  THEN [cpuidPatch[c].value EXCEPT !.rest = saved[c].rest] ELSE saved[c]

Patched(c) ==
  IF raxPatch[c].pending THEN [Base(c) EXCEPT !.rax = raxPatch[c].value] ELSE Base(c)

LEMMA PatchDoes ==
  ASSUME NEW c \in Pcpu, Patch(c)
  PROVE  /\ where[c] = "handled" /\ where' = [where EXCEPT ![c] = "patched"]
         /\ saved' = [saved EXCEPT ![c] = Patched(c)]
         /\ cpuidPatch' = [cpuidPatch EXCEPT ![c].pending = FALSE]
         /\ raxPatch' = [raxPatch EXCEPT ![c].pending = FALSE]
         /\ UNCHANGED <<mode, active, regs, resume, stop, guests, printed, asked>>
BY DEF Patch, Patched, Base

LEMMA StubTypes ==
  ASSUME TypeOK, NEW c \in Pcpu, Stub(c)
  PROVE  TypeOK'
<1>1. /\ active[c] \in Vm /\ where \in [Pcpu -> Place]
      /\ regs \in [Pcpu -> Registers] /\ saved \in [Pcpu -> Registers]
      /\ printed \in [Pcpu -> Byte] /\ asked \in [Pcpu -> Taken]
      /\ raxPatch \in [Pcpu -> RaxSlot] /\ cpuidPatch \in [Pcpu -> CpuidSlot]
  BY DEF TypeOK, ProcessorTypes
<1>2. CASE Patch(c)
  <2>1. Base(c) \in Registers
    BY <1>1, RaxIsRegisters DEF Base, CpuidSlot, Registers
  <2>2. raxPatch[c].value \in Words
    BY <1>1 DEF RaxSlot, Words
  <2>3. Patched(c) \in Registers
    BY <2>1, <2>2, RaxIsRegisters DEF Patched
  <2>4. saved' \in [Pcpu -> Registers]
    BY <1>1, <1>2, <2>3, PatchDoes
  <2>5. /\ raxPatch' \in [Pcpu -> RaxSlot] /\ cpuidPatch' \in [Pcpu -> CpuidSlot]
    <3>1. /\ [raxPatch[c] EXCEPT !.pending = FALSE] \in RaxSlot
          /\ [cpuidPatch[c] EXCEPT !.pending = FALSE] \in CpuidSlot
      BY <1>1 DEF RaxSlot, CpuidSlot
    <3>2. /\ raxPatch' = [raxPatch EXCEPT ![c] = [raxPatch[c] EXCEPT !.pending = FALSE]]
          /\ cpuidPatch' =
               [cpuidPatch EXCEPT ![c] = [cpuidPatch[c] EXCEPT !.pending = FALSE]]
      BY <1>2, PatchDoes
    <3> QED BY <1>1, <3>1, <3>2
  <2>6. where' \in [Pcpu -> Place]
    BY <1>1, <1>2, PatchDoes DEF Place
  <2>7. UNCHANGED <<mode, active, regs, resume, stop, guests, printed, asked>>
    BY <1>2, PatchDoes
  <2> QED BY <2>4, <2>5, <2>6, <2>7
          DEF TypeOK, ModeTypes, ProcessorTypes, GuestTypes, mode, guests
<1>3. CASE Resume(c) \/ Yield(c)
  <2>1. Popped(c) /\ UNCHANGED <<mode, active, patches, stop, launched, vmcs, rip, started>>
    BY <1>3 DEF Resume, Yield, guests
  <2>2. /\ saved' \in [Pcpu -> Registers] /\ printed' \in [Pcpu -> Byte]
        /\ asked' \in [Pcpu -> Taken]
    <3>1. NoByte \in Byte /\ NoExit \in Taken
      BY HostIsRegisters DEF NoByte, Byte, Words, Rax, NoExit, Taken, Reasons
    <3> QED BY <1>1, <2>1, <3>1, HostIsRegisters DEF Popped
  <2>3. resume' \in [Pcpu -> BOOLEAN]
    <3>1. resume \in [Pcpu -> BOOLEAN] /\ resume' = [resume EXCEPT ![c] = FALSE]
      BY <2>1 DEF TypeOK, ProcessorTypes, Popped
    <3> QED BY ONLY <3>1
  <2>4. where' \in [Pcpu -> Place]
    BY <1>1, <1>3 DEF Resume, Yield, Place
  <2>5. regs' \in [Pcpu -> Registers]
    BY <1>1, <1>3 DEF Resume, Yield
  <2>6. done' \in [Vm -> BOOLEAN]
    <3>1. /\ done \in [Vm -> BOOLEAN]
          /\ UNCHANGED done \/ done' = [done EXCEPT ![active[c]] = stop[c] /\ ~smp]
      BY <1>3 DEF TypeOK, GuestTypes, Resume, Yield, guests
    <3>2. stop[c] \in BOOLEAN
      BY DEF TypeOK, ProcessorTypes
    <3> QED BY ONLY <3>1, <3>2
  <2> QED BY <2>1, <2>2, <2>3, <2>4, <2>5, <2>6
          DEF TypeOK, ModeTypes, ProcessorTypes, GuestTypes, mode, patches
<1> QED BY <1>2, <1>3 DEF Stub

LEMMA ExitTypeStep == TypeOK /\ [Next]_vars => TypeOK'
<1> SUFFICES ASSUME TypeOK, [Next]_vars PROVE TypeOK'
  OBVIOUS
<1>1. CASE NewTrial
  <2>1. /\ launched' \in [Vm -> BOOLEAN] /\ done' \in [Vm -> BOOLEAN]
        /\ started' \in [Vm -> BOOLEAN]
    BY <1>1 DEF NewTrial
  <2> QED BY <1>1, <2>1
          DEF NewTrial, TypeOK, ModeTypes, ProcessorTypes, GuestTypes, patches
<1>2. CASE ConcurrentEnds
  BY <1>2 DEF ConcurrentEnds, TypeOK, ModeTypes, ProcessorTypes, GuestTypes, patches, guests
<1>3. ASSUME NEW c \in Pcpu, Host(c) \/ GuestExits(c) \/ Handle(c) \/ Stub(c)
      PROVE  TypeOK'
  BY <1>3, HostTypes, ExitTypes, HandleTypes, StubTypes
<1>4. CASE UNCHANGED vars
  BY <1>4 DEF vars, mode, patches, guests, TypeOK, ModeTypes, ProcessorTypes, GuestTypes
<1> QED BY <1>1, <1>2, <1>3, <1>4 DEF Next

\* Every register, slot and answer stays of its kind; above all a reply to the
\* length call is a length some trial has.
THEOREM ExitTypeOK == Spec => []TypeOK
<1> QED BY ExitInitTypes, ExitTypeStep, PTL DEF Spec
-------------------------------------------------------------------------------
(***************************************************************************)
(* The inductive invariant                                                 *)
(***************************************************************************)

LEMMA ExitInitial == Init => ExitInv
<1> SUFFICES ASSUME Init PROVE ExitInv
  OBVIOUS
<1>1. Placed
  BY DEF Init, Placed, Pcpu
<1>2. ASSUME NEW c \in Pcpu PROVE Serving(c)
  <2>1. where[c] \in {"host", "over"}
    BY DEF Init
  <2>2. ~raxPatch[c].pending /\ ~cpuidPatch[c].pending
    BY DEF Init, NoRax, NoCpuid
  <2>3. Slots(c)
    BY <2>1, <2>2 DEF Slots
  <2> QED BY <2>1, <2>3 DEF Serving, Delivered, Pushed, Decided, StopOf
<1>3. ASSUME NEW g \in Vm PROVE Counted(g)
  <2>1. ~started[g]
    BY DEF Init
  <2> QED BY <2>1 DEF Counted
<1> QED BY <1>1, <1>2, <1>3, ExitInitTypes DEF ExitInv

\* Two processors that have not ended are busy with different guests.
LEMMA Apart ==
  ASSUME TypeOK, Placed, NEW c \in Pcpu, NEW e \in Pcpu, c # e,
         where[c] # "over", where[e] # "over"
  PROVE  smp /\ active[c] # active[e]
BY DEF TypeOK, ModeTypes, Placed, Pcpu

\* An exit under way on a processor that a step leaves alone stays as it is.
LEMMA ServingKept ==
  ASSUME NEW c \in Pcpu, Serving(c),
         where'[c] = where[c], asked'[c] = asked[c], saved'[c] = saved[c],
         resume'[c] = resume[c], stop'[c] = stop[c],
         raxPatch'[c] = raxPatch[c], cpuidPatch'[c] = cpuidPatch[c],
         where[c] # "over" => /\ payloadLen' = payloadLen
                              /\ active'[c] = active[c]
                              /\ rip'[active[c]] = rip[active[c]],
         concurrent' => concurrent
  PROVE  Serving(c)'
<1>1. Delivered(c)'
  BY DEF Serving, Delivered
<1>2. Pushed(c)'
  BY DEF Serving, Pushed, Reply, Is
<1>3. Slots(c)'
  BY DEF Serving, Slots, Is
<1>4. Decided(c)'
  BY DEF Serving, Decided, Is
<1>5. StopOf(c)'
  BY DEF Serving, StopOf, Is
<1> QED BY <1>1, <1>2, <1>3, <1>4, <1>5 DEF Serving

LEMMA HostKeeps ==
  ASSUME ExitInv, NEW c \in Pcpu, Host(c)
  PROVE  /\ Placed'
         /\ \A e \in Pcpu : Serving(e)'
         /\ \A g \in Vm : Counted(g)'
<1>0. PICK g \in Vm : EnterGuest(c, g) \/ EntryFails(c, g) \/ EntryRejected(c, g)
  BY DEF Host
<1>1. /\ where[c] = "host" /\ RunsOn(g, c)
      /\ active' = [active EXCEPT ![c] = g] /\ stop' = [stop EXCEPT ![c] = FALSE]
      /\ rip' = [rip EXCEPT ![g] = IF SetsUp(g) THEN "entry" ELSE @]
      /\ launched' = [launched EXCEPT ![g] = @ /\ ~smp]
      /\ started' = [started EXCEPT ![g] = TRUE]
      /\ UNCHANGED <<mode, patches, resume>>
  BY <1>0 DEF EnterGuest, EntryFails, EntryRejected, Enter
<1>2. /\ where \in [Pcpu -> Place] /\ active \in [Pcpu -> Vm]
      /\ saved \in [Pcpu -> Registers] /\ asked \in [Pcpu -> Taken]
      /\ rip \in [Vm -> {"entry", "at", "past"}]
  BY DEF ExitInv, TypeOK, ProcessorTypes, GuestTypes
<1>3. /\ stop \in [Pcpu -> BOOLEAN] /\ launched \in [Vm -> BOOLEAN]
      /\ started \in [Vm -> BOOLEAN] /\ smp \in BOOLEAN
  BY DEF ExitInv, TypeOK, ModeTypes, ProcessorTypes, GuestTypes
<1>4. \E to \in {"guest", "failed", "saved"} : where' = [where EXCEPT ![c] = to]
  BY <1>0 DEF EnterGuest, EntryFails, EntryRejected
<1>5. Placed /\ TypeOK /\ (~smp => c = 0) /\ (smp => active[c] = g)
  BY <1>1 DEF ExitInv, RunsOn, Placed, Pcpu, Vm
<1>6. Placed'
  <2>1. smp => active' = active
    BY <1>1, <1>2, <1>5
  <2>2. ~smp => where'[1] = where[1]
    BY <1>2, <1>4, <1>5 DEF Pcpu
  <2> QED BY <1>1, <1>5, <2>1, <2>2 DEF Placed, mode
<1>7. Serving(c)'
  <2>1. Serving(c)
    BY DEF ExitInv
  <2>2. stop'[c] = FALSE /\ ~raxPatch'[c].pending /\ ~cpuidPatch'[c].pending
    BY <1>1, <1>3, <2>1 DEF Serving, Slots, patches
  <2>3. CASE where'[c] \in {"guest", "failed"}
    BY <2>2, <2>3 DEF Serving, Delivered, Pushed, Slots, Decided, StopOf
  <2>4. CASE where'[c] = "saved"
    <3>1. EntryRejected(c, g)
      BY <1>0, <1>2, <2>4 DEF EnterGuest, EntryFails
    <3>2. /\ saved'[c] = HostRegisters
          /\ asked'[c] = [NoExit EXCEPT !.reason = "invalid guest state"]
      BY <1>2, <3>1 DEF EntryRejected
    <3>3. asked'[c].got = HostRegisters /\ asked'[c].reason = "invalid guest state"
      BY <3>2 DEF NoExit
    <3> QED BY <2>2, <2>4, <3>2, <3>3
            DEF Serving, Delivered, Pushed, Slots, Decided, StopOf
  <2> QED BY <1>2, <1>4, <2>3, <2>4
<1>8. ASSUME NEW e \in Pcpu, e # c PROVE Serving(e)'
  <2>1. /\ where'[e] = where[e] /\ active'[e] = active[e]
        /\ asked'[e] = asked[e] /\ saved'[e] = saved[e]
    BY <1>0, <1>1, <1>2, <1>4, <1>8 DEF EnterGuest, EntryFails, EntryRejected
  <2>2. stop'[e] = stop[e]
    BY <1>1, <1>3, <1>8
  <2>3. where[e] # "over" => rip'[active[e]] = rip[active[e]]
    <3>1. where[e] # "over" => active[e] # g
      BY <1>1, <1>5, <1>8, Apart
    <3> QED BY <1>1, <1>2, <3>1
  <2>4. UNCHANGED <<concurrent, payloadLen, resume, raxPatch, cpuidPatch>>
    BY <1>1 DEF mode, patches
  <2> QED BY <2>1, <2>2, <2>3, <2>4, ServingKept DEF ExitInv
<1>9. ASSUME NEW h \in Vm PROVE Counted(h)'
  <2>1. CASE smp
    <3>1. ASSUME NEW e \in Pcpu, where'[e] = "host", RunsOn(h, e)'
          PROVE  ~started'[h]
      <4>1. e # c /\ where[e] = "host" /\ RunsOn(h, e)
        BY <1>1, <1>2, <1>4, <3>1 DEF RunsOn, mode
      <4>2. h # g
        BY <1>1, <4>1 DEF RunsOn
      <4>3. ~started[h]
        BY <2>1, <4>1 DEF ExitInv, Counted
      <4> QED BY ONLY <1>1, <1>3, <4>2, <4>3
    <3> QED BY <1>1, <2>1, <3>1 DEF Counted, mode
  <2>2. CASE ~smp
    <3>1. started[h] /\ rip[h] # "entry" => launched[h]
      BY <1>1, <1>5, <2>2 DEF ExitInv, Counted
    <3>2. launched'[h] = launched[h]
      BY ONLY <1>1, <1>3, <2>2, h \in Vm
    <3>3. h # g => started'[h] = started[h] /\ rip'[h] = rip[h]
      BY <1>1
    <3>4. h = g => rip'[h] = IF launched[h] THEN rip[h] ELSE "entry"
      BY <1>1, <1>2, <2>2 DEF SetsUp
    <3>5. started'[h] /\ rip'[h] # "entry" => launched'[h]
      BY <3>1, <3>2, <3>3, <3>4
    <3> QED BY <1>1, <2>2, <3>5 DEF Counted, mode
  <2> QED BY <1>3, <2>1, <2>2
<1> QED BY <1>6, <1>7, <1>8, <1>9

\* A step of a processor that is at an exit leaves the others alone: this is
\* what of such a step the frame lemma needs to know.
LEMMA OthersKept ==
  ASSUME ExitInv, NEW c \in Pcpu, where[c] # "over",
         NEW to, where' = [where EXCEPT ![c] = to],
         NEW at, rip' = [rip EXCEPT ![active[c]] = at],
         UNCHANGED <<mode, active>>,
         \A e \in Pcpu \ {c} : /\ asked'[e] = asked[e] /\ saved'[e] = saved[e]
                               /\ resume'[e] = resume[e] /\ stop'[e] = stop[e]
                               /\ raxPatch'[e] = raxPatch[e]
                               /\ cpuidPatch'[e] = cpuidPatch[e]
  PROVE  \A e \in Pcpu \ {c} : Serving(e)'
<1> SUFFICES ASSUME NEW e \in Pcpu, e # c PROVE Serving(e)'
  OBVIOUS
<1>1. where'[e] = where[e]
  BY DEF ExitInv, TypeOK, ProcessorTypes
<1>2. where[e] # "over" => rip'[active[e]] = rip[active[e]]
  <2>1. where[e] # "over" => active[e] # active[c]
    BY Apart DEF ExitInv
  <2> QED BY <2>1 DEF ExitInv, TypeOK, ProcessorTypes, GuestTypes
<1> QED BY <1>1, <1>2, ServingKept DEF ExitInv, mode

\* Placed and, with a processor of its own, Counted only speak of how a guest
\* is entered.
LEMMA PlacedKept ==
  ASSUME ExitInv, NEW c \in Pcpu, where[c] \notin {"over", "host"},
         NEW to, where' = [where EXCEPT ![c] = to], UNCHANGED <<mode, active, started>>,
         smp => to # "host"
  PROVE  Placed' /\ (smp => \A g \in Vm : Counted(g)') /\ (~smp => c = 0)
<1>1. ~smp => c = 0
  BY DEF ExitInv, Placed, Pcpu
<1>2. Placed'
  BY <1>1 DEF ExitInv, Placed, mode, Pcpu
<1>3. ASSUME smp, NEW g \in Vm PROVE Counted(g)'
  BY <1>3 DEF ExitInv, Counted, TypeOK, ProcessorTypes, mode, RunsOn
<1> QED BY <1>1, <1>2, <1>3

LEMMA ExitKeeps ==
  ASSUME ExitInv, NEW c \in Pcpu, GuestExits(c)
  PROVE  /\ Placed'
         /\ \A e \in Pcpu : Serving(e)'
         /\ \A g \in Vm : Counted(g)'
<1>1. PICK reason, issued, got :
        /\ Exit(c, reason, issued, got)
        /\ reason = "VMCALL" => issued.rcx \in Rcx /\ got \in {issued, Swapped(issued)}
  <2>1. CASE GuestCalls(c)
    <3>1. PICK rax \in Rax, rcx \in Rcx :
            LET r == Own(active[c], rax, rcx)
            IN  Exit(c, "VMCALL", r, r) \/ Exit(c, "VMCALL", r, Swapped(r))
      BY <2>1 DEF GuestCalls
    <3>2. Own(active[c], rax, rcx).rcx \in Rcx
      BY DEF Own
    <3> QED BY <3>1, <3>2
  <2>2. CASE GuestIdentifies(c)
    BY <2>2 DEF GuestIdentifies
  <2>3. CASE GuestHalts(c)
    BY <2>3 DEF GuestHalts
  <2>4. CASE GuestDies(c)
    <3>1. PICK fatal \in Fatal :
            Exit(c, fatal, Own(active[c], "0", "41"), Own(active[c], "0", "41"))
      BY <2>4 DEF GuestDies
    <3>2. fatal # "VMCALL"
      BY DEF Fatal
    <3> QED BY <3>1, <3>2
  <2> QED BY <2>1, <2>2, <2>3, <2>4 DEF GuestExits
<1>2. /\ where[c] = "guest" /\ where' = [where EXCEPT ![c] = "saved"]
      /\ saved' = [saved EXCEPT ![c] = got]
      /\ asked' = [asked EXCEPT ![c] = [reason |-> reason, issued |-> issued, got |-> got]]
      /\ rip' = [rip EXCEPT ![active[c]] = "at"]
      /\ UNCHANGED <<mode, active, resume, patches, stop, launched, started>>
  BY <1>1 DEF Exit
<1>3. /\ where \in [Pcpu -> Place] /\ saved \in [Pcpu -> Registers]
      /\ asked \in [Pcpu -> Taken] /\ rip \in [Vm -> {"entry", "at", "past"}]
  BY DEF ExitInv, TypeOK, ProcessorTypes, GuestTypes
<1>4. Placed' /\ (smp => \A g \in Vm : Counted(g)') /\ (~smp => c = 0)
  BY <1>2, PlacedKept
<1>5. \A e \in Pcpu \ {c} : Serving(e)'
  BY <1>2, <1>3, OthersKept DEF patches
<1>6. Serving(c)'
  <2>1. ~stop[c] /\ ~raxPatch[c].pending /\ ~cpuidPatch[c].pending
    BY <1>2 DEF ExitInv, Serving, StopOf, Slots
  <2>2. /\ where'[c] = "saved" /\ saved'[c] = got
        /\ asked'[c].reason = reason /\ asked'[c].issued = issued /\ asked'[c].got = got
    BY <1>2, <1>3
  <2> QED BY <1>1, <1>2, <2>1, <2>2
          DEF Serving, Delivered, Pushed, Slots, Decided, StopOf, patches
<1>7. ASSUME ~smp, NEW g \in Vm PROVE Counted(g)'
  <2>1. where'[0] = "saved" /\ c = 0
    BY <1>2, <1>3, <1>4, <1>7
  <2>2. CASE g = active[0]
    BY <1>2, <1>7, <2>1, <2>2 DEF Counted, mode
  <2>3. CASE g # active[0]
    <3>1. rip'[g] = rip[g]
      BY <1>2, <1>3, <2>1, <2>3
    <3> QED BY <1>2, <1>7, <2>3, <3>1 DEF ExitInv, Counted, mode
  <2> QED BY <2>2, <2>3
<1> QED BY <1>4, <1>5, <1>6, <1>7

\* The handler: each exit leaves the slots, the stop flag and the decision that
\* its reason and its call ask for.
LEMMA HandleServes ==
  ASSUME ExitInv, NEW c \in Pcpu, Handle(c)
  PROVE  Serving(c)'
<1> DEFINE a == asked[c]
<1>1. /\ where[c] = "saved" /\ saved[c] = a.got /\ a.got \in Registers /\ a.reason \in Reasons
      /\ ~stop[c] /\ ~raxPatch[c].pending /\ ~cpuidPatch[c].pending
  <2>1. where[c] = "saved"
    BY HandleDoes DEF Handled
  <2> QED BY <2>1 DEF ExitInv, TypeOK, ProcessorTypes, Taken, Serving, Pushed, StopOf, Slots
<1>2. /\ where \in [Pcpu -> Place] /\ raxPatch \in [Pcpu -> RaxSlot]
      /\ cpuidPatch \in [Pcpu -> CpuidSlot] /\ rip \in [Vm -> {"entry", "at", "past"}]
      /\ active[c] \in Vm
  BY DEF ExitInv, TypeOK, ProcessorTypes, GuestTypes
<1>3. resume \in [Pcpu -> BOOLEAN] /\ stop \in [Pcpu -> BOOLEAN]
  BY DEF ExitInv, TypeOK, ProcessorTypes
<1>4. /\ UNCHANGED <<mode, active, saved, asked>>
      /\ saved'[c] = a.got /\ asked'[c] = a
  BY <1>1, HandleDoes DEF Handled
<1>5. /\ Meant(a.got).rax = SHUTDOWN <=> a.got.rax = SHUTDOWN
      /\ Meant(a.got).rax = GET_PAYLOAD_LEN <=> a.got.rax = GET_PAYLOAD_LEN
      /\ Meant(a.got).rax \in Calls \/ Meant(a.got) = a.got
  BY <1>1, MeantCall
<1>6. PUTCHAR # SHUTDOWN /\ PUTCHAR # GET_PAYLOAD_LEN /\ SHUTDOWN # GET_PAYLOAD_LEN
      /\ SHUTDOWN \in Calls /\ GET_PAYLOAD_LEN \in Calls /\ "VMCALL" \notin Fatal
      /\ "HLT" \notin Fatal /\ "CPUID" \notin Fatal
  BY DEF PUTCHAR, SHUTDOWN, GET_PAYLOAD_LEN, Calls, Fatal
<1> HIDE DEF a
<1>7. ASSUME NEW to, where'[c] = to, to \in {"handled", "parked"},
             stop'[c] <=> Is(a, SHUTDOWN),
             raxPatch'[c].pending <=> to = "handled" /\ Is(a, GET_PAYLOAD_LEN),
             Is(a, GET_PAYLOAD_LEN) => raxPatch'[c].value = payloadLen,
             cpuidPatch'[c].pending <=> to = "handled" /\ a.reason = "CPUID",
             a.reason = "CPUID" =>
               cpuidPatch'[c].value = Answered(HostRegisters, Meant(a.got).rax),
             IF resume'[c]
             THEN /\ rip'[active[c]] = "past"
                  /\ ~Is(a, SHUTDOWN)
                  /\ a.reason \notin Fatal
             ELSE \/ Is(a, SHUTDOWN)
                  \/ a.reason \in Fatal
                  \/ a.reason = "HLT" /\ ~concurrent
      PROVE  Serving(c)'
  <2>1. Is(asked[c], SHUTDOWN)' = Is(a, SHUTDOWN)
        /\ Is(asked[c], GET_PAYLOAD_LEN)' = Is(a, GET_PAYLOAD_LEN)
    BY <1>4 DEF Is
  <2>2. Delivered(c)' /\ Pushed(c)'
    BY <1>4, <1>7 DEF Delivered, Pushed
  <2>3. Slots(c)'
    BY <1>4, <1>7, <2>1 DEF Slots, mode
  <2>4. Decided(c)'
    BY <1>4, <1>7, <2>1 DEF Decided, mode
  <2>5. StopOf(c)'
    <3>1. stop'[c] \in BOOLEAN /\ Is(a, SHUTDOWN) \in BOOLEAN
      BY HandleTypes DEF ExitInv, TypeOK, ProcessorTypes, Is
    <3> QED BY <1>7, <2>1, <3>1 DEF StopOf
  <2> QED BY <2>2, <2>3, <2>4, <2>5 DEF Serving
<1>8. ASSUME NEW reason, NEW answer \in BOOLEAN, Handled(c, reason, TRUE, answer)
      PROVE  a.reason = reason /\ resume'[c] = answer /\ rip'[active[c]] = "past"
  BY <1>2, <1>3, <1>8 DEF Handled, a
<1>9. CASE HandlePutchar(c) \/ HandleUnknown(c)
  <2>1. a.reason = "VMCALL" /\ resume'[c] = TRUE /\ rip'[active[c]] = "past"
    BY <1>8, <1>9 DEF HandlePutchar, HandleUnknown
  <2>2. ~Is(a, SHUTDOWN) /\ ~Is(a, GET_PAYLOAD_LEN)
    BY <1>1, <1>5, <1>6, <1>9 DEF HandlePutchar, HandleUnknown, Is
  <2>3. where'[c] = "handled" /\ UNCHANGED <<patches, stop>>
    BY <1>2, <1>9 DEF HandlePutchar, HandleUnknown, ToPatch
  <2> QED BY <1>1, <1>3, <1>6, <1>7, <2>1, <2>2, <2>3 DEF patches
<1>10. CASE HandleLen(c)
  <2>1. a.reason = "VMCALL" /\ resume'[c] = TRUE /\ rip'[active[c]] = "past"
    BY <1>8, <1>10 DEF HandleLen
  <2>2. ~Is(a, SHUTDOWN) /\ Is(a, GET_PAYLOAD_LEN)
    BY <1>1, <1>5, <1>6, <1>10, <2>1 DEF HandleLen, Is
  <2>3. /\ where'[c] = "handled" /\ UNCHANGED <<cpuidPatch, stop>>
        /\ raxPatch'[c] = [pending |-> TRUE, value |-> payloadLen]
    BY <1>2, <1>10 DEF HandleLen, ToPatch
  <2> QED BY <1>1, <1>3, <1>6, <1>7, <2>1, <2>2, <2>3
<1>11. CASE HandleShutdown(c)
  <2>1. a.reason = "VMCALL" /\ resume'[c] = FALSE
    BY <1>8, <1>11 DEF HandleShutdown
  <2>2. Is(a, SHUTDOWN) /\ ~Is(a, GET_PAYLOAD_LEN)
    BY <1>1, <1>5, <1>6, <1>11, <2>1 DEF HandleShutdown, Is
  <2>3. where'[c] \in {"handled", "parked"} /\ UNCHANGED patches
    BY <1>2, <1>11 DEF HandleShutdown
  <2>4. stop'[c] = TRUE
    BY <1>3, <1>11 DEF HandleShutdown
  <2> QED BY <1>1, <1>6, <1>7, <2>1, <2>2, <2>3, <2>4 DEF patches
<1>12. CASE HandleHlt(c)
  <2>0. concurrent \in BOOLEAN
    BY DEF ExitInv, TypeOK, ModeTypes
  <2>1. a.reason = "HLT" /\ resume'[c] = concurrent /\ rip'[active[c]] = "past"
    BY <1>8, <1>12, <2>0 DEF HandleHlt
  <2>2. ~Is(a, SHUTDOWN) /\ ~Is(a, GET_PAYLOAD_LEN)
    BY <2>1 DEF Is
  <2>3. where'[c] = "handled" /\ UNCHANGED <<patches, stop>>
    BY <1>2, <1>12 DEF HandleHlt, ToPatch
  <2> QED BY <1>1, <1>3, <1>6, <1>7, <2>1, <2>2, <2>3 DEF patches
<1>13. CASE HandleCpuid(c)
  <2>1. a.reason = "CPUID" /\ resume'[c] = TRUE /\ rip'[active[c]] = "past"
    BY <1>8, <1>13 DEF HandleCpuid
  <2>2. ~Is(a, SHUTDOWN) /\ ~Is(a, GET_PAYLOAD_LEN)
    BY <2>1 DEF Is
  <2>3. /\ where'[c] = "handled" /\ UNCHANGED <<raxPatch, stop>>
        /\ cpuidPatch'[c] =
             [pending |-> TRUE, value |-> Answered(HostRegisters, Meant(a.got).rax)]
    BY <1>1, <1>2, <1>13 DEF HandleCpuid, ToPatch
  <2> QED BY <1>1, <1>3, <1>6, <1>7, <2>1, <2>2, <2>3
<1>14. CASE HandleFatal(c)
  <2>1. a.reason \in Fatal /\ resume'[c] = FALSE
    BY <1>3, <1>14 DEF HandleFatal, Handled, a
  <2>2. ~Is(a, SHUTDOWN) /\ ~Is(a, GET_PAYLOAD_LEN) /\ a.reason # "CPUID"
    BY <1>6, <2>1 DEF Is
  <2>3. where'[c] = "handled" /\ UNCHANGED <<patches, stop>>
    BY <1>2, <1>14 DEF HandleFatal, ToPatch
  <2> QED BY <1>1, <1>3, <1>7, <2>1, <2>2, <2>3 DEF patches
<1> QED BY <1>9, <1>10, <1>11, <1>12, <1>13, <1>14 DEF Handle

LEMMA HandleKeeps ==
  ASSUME ExitInv, NEW c \in Pcpu, Handle(c)
  PROVE  /\ Placed'
         /\ \A e \in Pcpu : Serving(e)'
         /\ \A g \in Vm : Counted(g)'
<1>1. /\ where[c] = "saved" /\ UNCHANGED <<mode, active, saved, asked, started>>
      /\ launched' = [launched EXCEPT ![active[c]] = TRUE]
      /\ \E at : rip' = [rip EXCEPT ![active[c]] = at]
      /\ \E answer : resume' = [resume EXCEPT ![c] = answer]
  BY HandleDoes DEF Handled
<1>2. \E to \in {"handled", "parked"} : where' = [where EXCEPT ![c] = to]
  BY DEF Handle, HandlePutchar, HandleLen, HandleShutdown, HandleUnknown, HandleHlt,
         HandleCpuid, HandleFatal, ToPatch
<1>3. Placed' /\ (smp => \A g \in Vm : Counted(g)') /\ (~smp => c = 0)
  BY <1>1, <1>2, PlacedKept
<1>4. \A e \in Pcpu \ {c} : Serving(e)'
  <2>1. UNCHANGED stop \/ stop' = [stop EXCEPT ![c] = TRUE]
    BY DEF Handle, HandlePutchar, HandleLen, HandleShutdown, HandleUnknown, HandleHlt,
           HandleCpuid, HandleFatal
  <2>2. UNCHANGED raxPatch \/ \E v : raxPatch' = [raxPatch EXCEPT ![c] = v]
    BY DEF Handle, HandlePutchar, HandleLen, HandleShutdown, HandleUnknown, HandleHlt,
           HandleCpuid, HandleFatal, patches
  <2>3. UNCHANGED cpuidPatch \/ \E v : cpuidPatch' = [cpuidPatch EXCEPT ![c] = v]
    BY DEF Handle, HandlePutchar, HandleLen, HandleShutdown, HandleUnknown, HandleHlt,
           HandleCpuid, HandleFatal, patches
  <2>4. resume \in [Pcpu -> BOOLEAN] /\ stop \in [Pcpu -> BOOLEAN]
        /\ raxPatch \in [Pcpu -> RaxSlot] /\ cpuidPatch \in [Pcpu -> CpuidSlot]
    BY DEF ExitInv, TypeOK, ProcessorTypes
  <2>5. \A e \in Pcpu \ {c} :
          /\ resume'[e] = resume[e] /\ stop'[e] = stop[e]
          /\ raxPatch'[e] = raxPatch[e] /\ cpuidPatch'[e] = cpuidPatch[e]
    BY <1>1, <2>1, <2>2, <2>3, <2>4
  <2> QED BY <1>1, <1>2, <2>5, OthersKept
<1>5. ASSUME ~smp, NEW g \in Vm PROVE Counted(g)'
  <2>1. c = 0 /\ active[0] \in Vm
    BY <1>3, <1>5 DEF ExitInv, TypeOK, ProcessorTypes
  <2>2. launched \in [Vm -> BOOLEAN] /\ rip \in [Vm -> {"entry", "at", "past"}]
    BY DEF ExitInv, TypeOK, GuestTypes
  <2>3. CASE g = active[0]
    <3>1. launched'[g] = TRUE
      BY ONLY <1>1, <2>1, <2>2, <2>3
    <3> QED BY <1>1, <1>5, <3>1 DEF Counted, mode
  <2>4. CASE g # active[0]
    <3>1. launched'[g] = launched[g]
      BY ONLY <1>1, <2>1, <2>2, <2>4, g \in Vm
    <3>2. rip'[g] = rip[g]
      BY <1>1, <2>1, <2>2, <2>4
    <3> QED BY <1>1, <1>5, <2>4, <3>1, <3>2 DEF ExitInv, Counted, mode
  <2> QED BY <2>3, <2>4
<1> QED BY <1>3, <1>4, <1>5, HandleServes

\* apply_cpuid_patch turns what was pushed into the reply.
LEMMA PatchedIsReply ==
  ASSUME TypeOK, NEW c \in Pcpu, Serving(c), where[c] = "handled"
  PROVE  Patched(c) = Reply(asked[c])
<1>1. saved[c] = asked[c].got /\ Slots(c)
  BY DEF Serving, Pushed
<1>2. CASE asked[c].reason = "CPUID"
  BY <1>1, <1>2 DEF Slots, Patched, Base, Reply, Is
<1>3. CASE Is(asked[c], GET_PAYLOAD_LEN)
  BY <1>1, <1>3 DEF Slots, Patched, Base, Reply, Is
<1>4. CASE asked[c].reason # "CPUID" /\ ~Is(asked[c], GET_PAYLOAD_LEN)
  BY <1>1, <1>4 DEF Slots, Patched, Base, Reply
<1> QED BY <1>2, <1>3, <1>4

LEMMA StubKeeps ==
  ASSUME ExitInv, NEW c \in Pcpu, Stub(c)
  PROVE  /\ Placed'
         /\ \A e \in Pcpu : Serving(e)'
         /\ \A g \in Vm : Counted(g)'
<1>1. /\ where \in [Pcpu -> Place] /\ regs \in [Pcpu -> Registers]
      /\ saved \in [Pcpu -> Registers] /\ asked \in [Pcpu -> Taken]
      /\ raxPatch \in [Pcpu -> RaxSlot] /\ cpuidPatch \in [Pcpu -> CpuidSlot]
      /\ rip \in [Vm -> {"entry", "at", "past"}]
  BY DEF ExitInv, TypeOK, ProcessorTypes, GuestTypes
<1>2. resume \in [Pcpu -> BOOLEAN] /\ smp \in BOOLEAN
  BY DEF ExitInv, TypeOK, ModeTypes, ProcessorTypes
<1>3. /\ where[c] \in {"handled", "patched"}
      /\ UNCHANGED <<mode, active, stop, launched, rip, started>>
      /\ rip' = [rip EXCEPT ![active[c]] = rip[active[c]]]
  BY <1>1 DEF Stub, Patch, Resume, Yield, guests
<1>4. PICK to \in {"patched", "guest", "over", "host"} :
        where' = [where EXCEPT ![c] = to] /\ (smp => to # "host")
  BY DEF Stub, Patch, Resume, Yield
<1>5. Placed' /\ (smp => \A g \in Vm : Counted(g)') /\ (~smp => c = 0)
  BY <1>3, <1>4, PlacedKept
<1>6. \A e \in Pcpu \ {c} : Serving(e)'
  <2>1. \A e \in Pcpu \ {c} :
          /\ asked'[e] = asked[e] /\ saved'[e] = saved[e]
          /\ raxPatch'[e] = raxPatch[e] /\ cpuidPatch'[e] = cpuidPatch[e]
    BY <1>1 DEF Stub, Patch, Resume, Yield, Popped, patches
  <2>2. \A e \in Pcpu \ {c} : resume'[e] = resume[e]
    BY <1>2 DEF Stub, Patch, Resume, Yield, Popped
  <2> QED BY <1>3, <1>4, <2>1, <2>2, OthersKept
<1>7. Serving(c)'
  <2>0. Serving(c)
    BY DEF ExitInv
  <2>1. CASE Patch(c)
    <3>1. where[c] = "handled" /\ where'[c] = "patched"
      BY <1>1, <2>1, PatchDoes
    <3>2. UNCHANGED <<mode, active, resume, stop, rip, asked>>
      BY <2>1, PatchDoes DEF guests
    <3>3. saved'[c] = Reply(asked[c])
      BY <1>1, <2>0, <2>1, <3>1, PatchDoes, PatchedIsReply DEF ExitInv
    <3>4. ~raxPatch'[c].pending /\ ~cpuidPatch'[c].pending
      BY <1>1, <2>1, PatchDoes DEF RaxSlot, CpuidSlot
    <3>5. Delivered(c)' /\ Slots(c)'
      BY <3>1, <3>4 DEF Delivered, Slots
    <3>6. Pushed(c)'
      BY <3>1, <3>2, <3>3 DEF Pushed, Reply, Is, mode
    <3>7. Decided(c)'
      BY <2>0, <3>1, <3>2 DEF Serving, Decided, Is, mode
    <3>8. StopOf(c)'
      BY <2>0, <3>1, <3>2 DEF Serving, StopOf, Is
    <3> QED BY <3>5, <3>6, <3>7, <3>8 DEF Serving
  <2>2. CASE Resume(c) \/ Yield(c)
    <3>1. UNCHANGED <<patches, stop>> /\ where[c] = "patched"
      BY <2>2 DEF Resume, Yield
    <3>2. ~raxPatch'[c].pending /\ ~cpuidPatch'[c].pending
      BY <2>0, <3>1 DEF Serving, Slots, patches
    <3>3. where'[c] \in {"guest", "over", "host"}
      BY <1>1, <2>2 DEF Resume, Yield
    <3>4. where'[c] = "guest" => ~stop'[c]
      <4>1. where'[c] = "guest" => resume[c]
        BY <1>1, <2>2 DEF Resume, Yield
      <4>2. resume[c] => ~Is(asked[c], SHUTDOWN)
        BY <2>0, <3>1 DEF Serving, Decided
      <4>3. stop[c] = Is(asked[c], SHUTDOWN)
        BY <2>0, <3>1 DEF Serving, StopOf
      <4> QED BY <3>1, <4>1, <4>2, <4>3
    <3> QED BY <3>2, <3>3, <3>4 DEF Serving, Delivered, Pushed, Slots, Decided, StopOf
  <2> QED BY <2>1, <2>2 DEF Stub
<1>8. ASSUME ~smp, NEW g \in Vm PROVE Counted(g)'
  BY <1>3, <1>5, <1>8 DEF ExitInv, Counted, mode
<1> QED BY <1>5, <1>6, <1>7, <1>8

\* The host's two steps between the runs.
LEMMA BetweenRunsKeeps ==
  ASSUME ExitInv, NewTrial \/ ConcurrentEnds
  PROVE  /\ Placed'
         /\ \A e \in Pcpu : Serving(e)'
         /\ \A g \in Vm : Counted(g)'
<1>1. CASE NewTrial
  <2>1. /\ ~smp /\ ~smp' /\ where[0] = "host" /\ where[1] = "over"
        /\ UNCHANGED <<concurrent, where, active, saved, resume, patches, stop, rip, asked>>
    BY <1>1 DEF NewTrial, ExitInv, Placed
  <2>2. ASSUME NEW e \in Pcpu PROVE Serving(e)'
    <3>1. where'[e] \in {"host", "over"}
      BY <2>1 DEF Pcpu
    <3>2. ~raxPatch'[e].pending /\ ~cpuidPatch'[e].pending
      BY <2>1, <3>1 DEF ExitInv, Serving, Slots, patches
    <3> QED BY <3>1, <3>2 DEF Serving, Delivered, Pushed, Slots, Decided, StopOf
  <2>3. ASSUME NEW g \in Vm PROVE Counted(g)'
    <3>1. ~started'[g]
      BY <1>1 DEF NewTrial
    <3> QED BY <2>1, <3>1 DEF Counted
  <2> QED BY <2>1, <2>2, <2>3 DEF Placed
<1>2. CASE ConcurrentEnds
  <2>1. /\ ~concurrent'
        /\ UNCHANGED <<smp, payloadLen, where, active, saved, resume, patches, stop,
                       guests, asked>>
    BY <1>2 DEF ConcurrentEnds
  <2>2. ASSUME NEW e \in Pcpu PROVE Serving(e)'
    BY <2>1, ServingKept DEF ExitInv, patches, guests
  <2>3. ASSUME NEW g \in Vm PROVE Counted(g)'
    BY <2>1 DEF ExitInv, Counted, guests, RunsOn
  <2> QED BY <2>1, <2>2, <2>3 DEF ExitInv, Placed
<1> QED BY <1>1, <1>2

LEMMA ExitStep == ExitInv /\ [Next]_vars => ExitInv'
<1> SUFFICES ASSUME ExitInv, [Next]_vars PROVE ExitInv'
  OBVIOUS
<1>1. TypeOK'
  BY ExitTypeStep DEF ExitInv
<1>2. CASE NewTrial \/ ConcurrentEnds
  BY <1>1, <1>2, BetweenRunsKeeps DEF ExitInv
<1>3. ASSUME NEW c \in Pcpu, Host(c) \/ GuestExits(c) \/ Handle(c) \/ Stub(c)
      PROVE  ExitInv'
  BY <1>1, <1>3, HostKeeps, ExitKeeps, HandleKeeps, StubKeeps DEF ExitInv
<1>4. CASE UNCHANGED vars
  <2>1. ASSUME NEW e \in Pcpu PROVE Serving(e)'
    BY <1>4, ServingKept DEF ExitInv, vars, mode, patches, guests
  <2>2. ASSUME NEW g \in Vm PROVE Counted(g)'
    BY <1>4 DEF ExitInv, Counted, RunsOn, vars, mode, guests
  <2> QED BY <1>1, <1>4, <2>1, <2>2 DEF ExitInv, Placed, vars, mode
<1> QED BY <1>2, <1>3, <1>4 DEF Next

\* No exit is answered from another's slots, and the processors and guests are
\* counted right: the invariant behind every theorem below.
THEOREM ExitInvariant == Spec => []ExitInv
<1> QED BY ExitInitial, ExitStep, PTL DEF Spec
-------------------------------------------------------------------------------
(***************************************************************************)
(* What follows                                                            *)
(***************************************************************************)

\* The stop flag of a processor tells of the guest it entered last, and of no
\* guest of the other processor or of an earlier slice.
THEOREM ExitStopIsOwn == Spec => []StopIsOwn
<1>1. ExitInv => StopIsOwn
  BY DEF ExitInv, Serving, StopOf, StopIsOwn
<1> QED BY <1>1, ExitInvariant, PTL

\* Which step takes a processor from one place to another.
LEMMA StepOfProcessor ==
  ASSUME TypeOK, [Next]_vars, NEW c \in Pcpu, where'[c] # where[c]
  PROVE  Host(c) \/ GuestExits(c) \/ Handle(c) \/ Stub(c)
<1>1. where \in [Pcpu -> Place]
  BY DEF TypeOK, ProcessorTypes
<1>2. ~UNCHANGED where
  OBVIOUS
<1>3. PICK e \in Pcpu : Host(e) \/ GuestExits(e) \/ Handle(e) \/ Stub(e)
  BY <1>2 DEF Next, NewTrial, ConcurrentEnds, vars
<1>4. \E to : where' = [where EXCEPT ![e] = to]
  <2>1. CASE Host(e)
    BY <2>1 DEF Host, EnterGuest, EntryFails, EntryRejected
  <2>2. CASE GuestExits(e)
    BY <2>2 DEF GuestExits, GuestCalls, GuestIdentifies, GuestHalts, GuestDies, Exit
  <2>3. CASE Handle(e)
    BY <2>3 DEF Handle, HandlePutchar, HandleLen, HandleShutdown, HandleUnknown, HandleHlt,
                HandleCpuid, HandleFatal, ToPatch
  <2>4. CASE Stub(e)
    BY <2>4 DEF Stub, Patch, Resume, Yield
  <2> QED BY <1>3, <2>1, <2>2, <2>3, <2>4
<1>5. e = c
  BY <1>1, <1>4
<1> QED BY <1>3, <1>5

\* Where a processor stands tells which part of the program moves it.
LEMMA StandsAt ==
  ASSUME NEW c \in Pcpu
  PROVE  /\ Host(c) => where[c] = "host"
         /\ GuestExits(c) => where[c] = "guest"
         /\ Handle(c) => where[c] = "saved"
         /\ Stub(c) => where[c] \in {"handled", "patched"}
         /\ Patch(c) => where[c] = "handled"
<1>1. Host(c) => where[c] = "host"
  BY DEF Host, EnterGuest, EntryFails, EntryRejected, Enter
<1>2. GuestExits(c) => where[c] = "guest"
  BY DEF GuestExits, GuestCalls, GuestIdentifies, GuestHalts, GuestDies, Exit
<1>3. Handle(c) => where[c] = "saved"
  BY HandleDoes DEF Handled
<1>4. /\ Stub(c) => where[c] \in {"handled", "patched"}
      /\ Patch(c) => where[c] = "handled"
  BY DEF Stub, Patch, Resume, Yield
<1> QED BY <1>1, <1>2, <1>3, <1>4

\* From the patched frame the stub resumes the guest or gives the processor
\* back.
LEMMA LeavesPatched ==
  ASSUME TypeOK, [Next]_vars, NEW c \in Pcpu, where[c] = "patched", where'[c] # "patched"
  PROVE  Resume(c) \/ Yield(c)
<1>1. Host(c) \/ GuestExits(c) \/ Handle(c) \/ Stub(c)
  BY StepOfProcessor
<1>2. Stub(c) /\ ~Patch(c)
  BY <1>1, StandsAt
<1> QED BY <1>2 DEF Stub

\* A resumed guest finds the answer to the exit it took, in the registers the
\* call names, and stands past the instruction, whatever the other processor
\* and the other guest do meanwhile.
THEOREM ExitAnsweredAsAsked == Spec => AnsweredAsAsked
<1>1. ASSUME ExitInv, [Next]_vars, NEW c \in Pcpu,
             where[c] = "patched", where'[c] = "guest"
      PROVE  /\ ~(asked[c].reason = "CPUID" /\ Meant(asked[c].got) # asked[c].got) =>
                  regs'[c] = Answer(asked[c])
             /\ rip[active[c]] = "past"
  <2>1. Resume(c) \/ Yield(c)
    BY <1>1, LeavesPatched DEF ExitInv
  <2>2. where \in [Pcpu -> Place] /\ regs \in [Pcpu -> Registers] /\ asked[c] \in Taken
    BY <1>1 DEF ExitInv, TypeOK, ProcessorTypes
  <2>3. Resume(c)
    BY <1>1, <2>1, <2>2 DEF Yield
  <2>4. resume[c] /\ regs'[c] = saved[c]
    BY <2>2, <2>3 DEF Resume
  <2>5. saved[c] = Reply(asked[c]) /\ rip[active[c]] = "past"
    BY <1>1, <2>4 DEF ExitInv, Serving, Pushed, Decided
  <2> QED BY <2>2, <2>4, <2>5, ReplyIsAnswer
<1>2. ExitInv /\ [Next]_vars =>
        [\A c \in Pcpu : where[c] = "patched" /\ where'[c] = "guest" =>
           LET a == asked[c]
           IN  /\ ~(a.reason = "CPUID" /\ Meant(a.got) # a.got) =>
                    regs'[c] = Answer(a)
               /\ rip[active[c]] = "past"]_vars
  BY <1>1
<1> QED BY <1>2, ExitInvariant, PTL DEF Spec, AnsweredAsAsked

\* A printed byte reaches the line as the guest issued it, and under its name,
\* even where the platform swaps the registers of the call.
THEOREM ExitPutcharIsHeard == Spec => PutcharIsHeard
<1>1. ASSUME ExitInv, [Next]_vars, NEW c \in Pcpu,
             where[c] = "saved", where'[c] # "saved", asked[c].reason = "VMCALL",
             asked[c].issued.rax = PUTCHAR
      PROVE  printed'[c] = [vm |-> active[c], byte |-> asked[c].issued.rcx]
  <2> DEFINE a == asked[c]
  <2>1. Handle(c)
    <3>1. Host(c) \/ GuestExits(c) \/ Handle(c) \/ Stub(c)
      BY <1>1, StepOfProcessor DEF ExitInv
    <3> QED BY <1>1, <3>1, StandsAt
  <2>2. /\ a.issued \in Registers /\ a.issued.rcx \in Rcx
        /\ a.got \in {a.issued, Swapped(a.issued)} /\ saved[c] = a.got
    BY <1>1 DEF ExitInv, TypeOK, ProcessorTypes, Taken, Serving, Delivered, Pushed
  <2>3. Meant(saved[c]).rax = PUTCHAR /\ Meant(saved[c]).rcx = a.issued.rcx
    BY <1>1, <2>2, MeantPutchar
  <2>4. HandlePutchar(c)
    <3>1. ~HandleHlt(c) /\ ~HandleCpuid(c) /\ ~HandleFatal(c)
      BY <1>1 DEF HandleHlt, HandleCpuid, HandleFatal, Handled, Fatal
    <3>2. ~HandleLen(c) /\ ~HandleShutdown(c) /\ ~HandleUnknown(c)
      BY <2>3 DEF HandleLen, HandleShutdown, HandleUnknown, PUTCHAR, GET_PAYLOAD_LEN,
                  SHUTDOWN, Calls
    <3> QED BY <2>1, <3>1, <3>2 DEF Handle
  <2>5. printed \in [Pcpu -> Byte]
    BY <1>1 DEF ExitInv, TypeOK, ProcessorTypes
  <2> QED BY <2>3, <2>4, <2>5 DEF HandlePutchar
<1>2. ExitInv /\ [Next]_vars =>
        [\A c \in Pcpu :
           LET a == asked[c]
           IN  where[c] = "saved" /\ where'[c] # "saved" /\ a.reason = "VMCALL"
                 /\ a.issued.rax = PUTCHAR =>
                   printed'[c] = [vm |-> active[c], byte |-> a.issued.rcx]]_vars
  BY <1>1
<1> QED BY <1>2, ExitInvariant, PTL DEF Spec, PutcharIsHeard

\* A guest loses its processor by a shutdown, by dying or by a HLT outside the
\* concurrent mode, and never after any other exit.
THEOREM ExitYieldsWhenMeant == Spec => YieldsWhenMeant
<1>1. ASSUME ExitInv, [Next]_vars, NEW c \in Pcpu, where[c] = "patched"
      PROVE  /\ where'[c] \in {"host", "over"} =>
                  \/ Is(asked[c], SHUTDOWN)
                  \/ asked[c].reason \in Fatal
                  \/ asked[c].reason = "HLT" /\ ~concurrent
             /\ where'[c] = "guest" =>
                  ~Is(asked[c], SHUTDOWN) /\ asked[c].reason \notin Fatal
  <2>1. where \in [Pcpu -> Place] /\ Decided(c)
    BY <1>1 DEF ExitInv, TypeOK, ProcessorTypes, Serving
  <2>2. CASE where'[c] \in {"host", "over"}
    <3>1. ~resume[c]
      BY <1>1, <2>1, <2>2, LeavesPatched DEF ExitInv, Resume, Yield
    <3> QED BY <1>1, <2>1, <2>2, <3>1 DEF Decided
  <2>3. CASE where'[c] = "guest"
    <3>1. resume[c]
      BY <1>1, <2>1, <2>3, LeavesPatched DEF ExitInv, Resume, Yield
    <3> QED BY <1>1, <2>1, <2>3, <3>1 DEF Decided
  <2> QED BY <2>2, <2>3
<1>2. ExitInv /\ [Next]_vars =>
        [\A c \in Pcpu : where[c] = "patched" =>
           LET a == asked[c]
           IN  /\ where'[c] \in {"host", "over"} =>
                    \/ Is(a, SHUTDOWN)
                    \/ a.reason \in Fatal
                    \/ a.reason = "HLT" /\ ~concurrent
               /\ where'[c] = "guest" => ~Is(a, SHUTDOWN) /\ a.reason \notin Fatal]_vars
  BY <1>1
<1> QED BY <1>2, ExitInvariant, PTL DEF Spec, YieldsWhenMeant

\* A guest under way is never set up anew within a trial: no slice forgets that
\* an earlier one launched it.
THEOREM ExitNotRestarted == Spec => NotRestarted
<1>1. ASSUME ExitInv, [Next]_vars, NEW g \in Vm, started[g], rip[g] # "entry"
      PROVE  rip'[g] # "entry"
  <2>1. rip \in [Vm -> {"entry", "at", "past"}]
    BY <1>1 DEF ExitInv, TypeOK, GuestTypes
  <2>2. ASSUME NEW c \in Pcpu, Host(c) PROVE rip'[g] # "entry"
    <3>1. PICK h \in Vm : Enter(c, h)
      BY <2>2 DEF Host, EnterGuest, EntryFails, EntryRejected
    <3>2. where[c] = "host" /\ RunsOn(h, c)
          /\ rip' = [rip EXCEPT ![h] = IF SetsUp(h) THEN "entry" ELSE @]
      BY <3>1 DEF Enter
    <3>3. h = g => ~SetsUp(h)
      <4>1. ASSUME smp PROVE h # g
        BY <1>1, <3>2, <4>1 DEF ExitInv, Counted
      <4>2. ASSUME ~smp, h = g PROVE launched[h]
        <5>1. c = 0
          BY <3>2, <4>2 DEF RunsOn
        <5> QED BY <1>1, <3>2, <4>2, <5>1 DEF ExitInv, Counted
      <4> QED BY <4>1, <4>2 DEF SetsUp
    <3> QED BY <1>1, <2>1, <3>2, <3>3
  <2>3. ASSUME NEW c \in Pcpu, GuestExits(c) PROVE rip'[g] # "entry"
    <3>1. rip' = [rip EXCEPT ![active[c]] = "at"]
      BY <2>3 DEF GuestExits, GuestCalls, GuestIdentifies, GuestHalts, GuestDies, Exit
    <3> QED BY <1>1, <2>1, <3>1
  <2>4. ASSUME NEW c \in Pcpu, Handle(c) PROVE rip'[g] # "entry"
    <3>1. rip' = [rip EXCEPT ![active[c]] = "past"] \/ UNCHANGED rip
      <4>1. active[c] \in Vm
        BY <1>1 DEF ExitInv, TypeOK, ProcessorTypes
      <4> QED BY <2>1, <2>4, <4>1, HandleDoes DEF Handled
    <3> QED BY <1>1, <2>1, <3>1
  <2>5. ASSUME NEW c \in Pcpu, Stub(c) PROVE rip'[g] # "entry"
    BY <1>1, <2>5 DEF Stub, Patch, Resume, Yield, guests
  <2>6. CASE NewTrial \/ ConcurrentEnds \/ UNCHANGED vars
    BY <1>1, <2>6 DEF NewTrial, ConcurrentEnds, guests, vars
  <2> QED BY <1>1, <2>2, <2>3, <2>4, <2>5, <2>6 DEF Next
<1>2. ExitInv /\ [Next]_vars =>
        [\A g \in Vm : started[g] /\ rip[g] # "entry" => rip'[g] # "entry"]_vars
  BY <1>1
<1> QED BY <1>2, ExitInvariant, PTL DEF Spec, NotRestarted
===============================================================================
