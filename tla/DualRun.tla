------------------------------- MODULE DualRun -------------------------------
(***************************************************************************)
(* Target B without a second processor: run_dual_partitions and            *)
(* run_until_both_shutdown of dual_run.rs run the two guests in turn, a    *)
(* slice each, on the boot processor, once for each payload size.  A slice *)
(* (run_vcpu_once of guest_run.rs) ends when the guest halts or shuts      *)
(* down.  VM1 sends bursts of packets on the forward ring, VM2 takes them  *)
(* and posts an acknowledgement for each (the _start of vm1-app, vm2-app). *)
(*                                                                         *)
(* Everything runs on one processor, so a packet is sent or taken in one   *)
(* step.  A packet is its number within the trial; a guest's other exits   *)
(* (putchar, payload length, CPUID) resume it at once and are left out.    *)
(*                                                                         *)
(* StartTrialKeepingRing, EnterKeepingStop, BurstOverUncounted,            *)
(* SentHeadStale and V2RecvUncounted are mutated forms of the definition   *)
(* that follows them; nothing uses them.                                   *)
(***************************************************************************)
EXTENDS RingIndex

CONSTANTS
  Target,     \* THROUGHPUT_TARGET_PACKETS: 10_000 in the code
  Burst,      \* BURST_PER_SLICE: 16 in the code
  Trials,     \* number of PAYLOAD_SIZES: 5 in the code
  MaxSlices,  \* bound of the loop on slices: 50_000_000 in the code
  NoPacket,   \* what a slot holds before it is written
  Faults      \* what may fail: "entry", "guest"

ASSUME DualRunAssumption ==
  /\ Target \in Nat \ {0} /\ Target < IndexSize
  /\ Burst \in Nat \ {0}
  /\ Trials \in Nat \ {0}
  /\ MaxSlices \in Nat
  /\ NoPacket \notin Nat
  /\ Faults \subseteq {"entry", "guest"}

Vm == {1, 2}

VARIABLES
  trial,        \* trials completed
  host,         \* "trial", "loop", "slice", "guest", "check", "finished"
  vm,           \* whose slice it is
  slices,       \* rounds of the loop of run_until_both_shutdown
  done,         \* vm1_done, vm2_done
  launched,     \* the launched flag of each vCPU
  guest_stop,   \* GUEST_STOP[0]: the boot processor's, whichever guest it runs
  outcome,      \* "none", "ok", "mismatch", "incomplete", "entry failed"
  tail, head, queue,   \* the forward ring
  ack_tail,            \* the acknowledgement ring: nobody reads it
  PROD_CACHED_HEAD,    \* VM1's copy of head, in its .bss
  CONS_CACHED_TAIL,    \* VM2's copy of tail, in its .bss
  gpc,          \* each guest: "start", "work", "halted", "shutdown", "dead"
  count,        \* SENT and RECEIVED
  burst         \* packets of the running guest's burst

hostVars == <<trial, slices, done, outcome>>
ringVars == <<tail, head, queue, ack_tail, PROD_CACHED_HEAD, CONS_CACHED_TAIL>>
vars == <<hostVars, host, vm, launched, guest_stop, ringVars, gpc, count, burst>>

NoPackets == [s \in 0 .. Capacity - 1 |-> NoPacket]

Init ==
  /\ trial = 0 /\ host = "trial" /\ vm = 1 /\ slices = 0
  /\ done = [v \in Vm |-> FALSE] /\ launched = [v \in Vm |-> FALSE]
  /\ guest_stop = FALSE /\ outcome = "none"
  /\ tail = 0 /\ head = 0 /\ queue = NoPackets /\ ack_tail = 0
  /\ PROD_CACHED_HEAD = 0 /\ CONS_CACHED_TAIL = 0
  /\ gpc = [v \in Vm |-> "start"] /\ count = [v \in Vm |-> 0] /\ burst = 0
-------------------------------------------------------------------------------
(***************************************************************************)
(* The host                                                                *)
(***************************************************************************)

StartTrialKeepingRing ==
  /\ host = "trial"
  /\ launched' = [v \in Vm |-> FALSE]
  /\ gpc' = [v \in Vm |-> "start"]
  /\ done' = [v \in Vm |-> FALSE]
  /\ slices' = 0
  /\ host' = "loop"
  /\ UNCHANGED <<trial, vm, guest_stop, outcome, ringVars, count, burst>>

\* init_ipc_at_hpa, load_vm_payload and the reset of the launched flags.  The
\* guest images are flat: whether they cover .bss is up to the build, and the
\* cached indices of the last trial survive where they do not.
StartTrial ==
  /\ host = "trial"
  /\ tail' = 0 /\ head' = 0 /\ queue' = NoPackets /\ ack_tail' = 0
  /\ \/ UNCHANGED <<PROD_CACHED_HEAD, CONS_CACHED_TAIL, count>>
     \/ /\ PROD_CACHED_HEAD' = 0 /\ CONS_CACHED_TAIL' = 0
        /\ count' = [v \in Vm |-> 0]
  /\ launched' = [v \in Vm |-> FALSE]
  /\ gpc' = [v \in Vm |-> "start"]
  /\ done' = [v \in Vm |-> FALSE]
  /\ slices' = 0
  /\ host' = "loop"
  /\ UNCHANGED <<trial, vm, guest_stop, outcome, burst>>

Loop ==
  /\ host = "loop"
  /\ IF \A v \in Vm : done[v]
       THEN host' = "check" /\ UNCHANGED <<vm, slices, outcome>>
     ELSE IF slices < MaxSlices
       THEN host' = "slice" /\ vm' = 1 /\ slices' = slices + 1
              /\ UNCHANGED outcome
     ELSE host' = "finished" /\ outcome' = "incomplete"
              /\ UNCHANGED <<vm, slices>>
  /\ UNCHANGED <<trial, done, launched, guest_stop, ringVars, gpc, count, burst>>

\* VM1's slice is followed by VM2's, and that by the next round.
AfterSlice == IF vm = 1 THEN host' = "slice" /\ vm' = 2
                        ELSE host' = "loop" /\ UNCHANGED vm

SkipSlice ==
  /\ host = "slice" /\ done[vm]
  /\ AfterSlice
  /\ UNCHANGED <<hostVars, launched, guest_stop, ringVars, gpc, count, burst>>

EnterKeepingStop ==
  /\ host = "slice" /\ ~done[vm]
  /\ host' = "guest"
  /\ UNCHANGED <<hostVars, vm, launched, guest_stop, ringVars, gpc, count, burst>>

\* run_vcpu_once: clear the stop flag and enter the guest.
Enter ==
  /\ host = "slice" /\ ~done[vm]
  /\ guest_stop' = FALSE
  /\ host' = "guest"
  /\ UNCHANGED <<hostVars, vm, launched, ringVars, gpc, count, burst>>

EntryFails ==
  /\ host = "slice" /\ ~done[vm] /\ "entry" \in Faults
  /\ guest_stop' = FALSE
  /\ outcome' = "entry failed"
  /\ host' = "finished"
  /\ UNCHANGED <<trial, slices, done, vm, launched, ringVars, gpc, count, burst>>

\* A VM exit that ends the slice, answered Ok(true) or, if the guest asked to
\* stop, Ok(false): any exit counts as having been launched.
ExitTo(place, stop) ==
  /\ gpc' = [gpc EXCEPT ![vm] = place]
  /\ guest_stop' = (guest_stop \/ stop)
  /\ launched' = [launched EXCEPT ![vm] = TRUE]
  /\ done' = [done EXCEPT ![vm] = guest_stop']
  /\ AfterSlice
  /\ UNCHANGED <<trial, slices, outcome>>

\* sent is the forward tail, received the forward head.
Check ==
  /\ host = "check"
  /\ IF tail = Target /\ head = Target
       THEN /\ trial' = trial + 1
            /\ IF trial + 1 = Trials
                 THEN host' = "finished" /\ outcome' = "ok"
                 ELSE host' = "trial" /\ UNCHANGED outcome
       ELSE /\ host' = "finished" /\ outcome' = "mismatch"
            /\ UNCHANGED trial
  /\ UNCHANGED <<slices, done, vm, launched, guest_stop, ringVars, gpc, count,
                 burst>>
-------------------------------------------------------------------------------
(***************************************************************************)
(* The guests                                                              *)
(***************************************************************************)
Runs(v, place) == host = "guest" /\ vm = v /\ gpc[v] = place

\* The counters are reset by the guest, the cached indices are not.
GuestStart ==
  /\ Runs(vm, "start")
  /\ count' = [count EXCEPT ![vm] = 0]
  /\ burst' = 0
  /\ gpc' = [gpc EXCEPT ![vm] = "work"]
  /\ UNCHANGED <<hostVars, host, vm, launched, guest_stop, ringVars>>

\* Behind the HLT: another burst, or the end.
GuestResume ==
  /\ Runs(vm, "halted")
  /\ burst' = 0
  /\ gpc' = [gpc EXCEPT ![vm] = IF count[vm] < Target THEN "work"
                                                      ELSE "shutdown"]
  /\ UNCHANGED <<hostVars, host, vm, launched, guest_stop, ringVars, count>>

BurstOverUncounted == burst >= Burst

BurstOver == burst >= Burst \/ count[vm] >= Target

SentHeadStale == PROD_CACHED_HEAD

\* channel_send with its own cached head.
SentHead == IF Full(tail, PROD_CACHED_HEAD) THEN head ELSE PROD_CACHED_HEAD

V1Send ==
  /\ Runs(1, "work") /\ ~BurstOver
  /\ ~Full(tail, SentHead)
  /\ PROD_CACHED_HEAD' = SentHead
  /\ queue' = [queue EXCEPT ![Slot(tail)] = count[1]]
  /\ tail' = WrappingAdd1(tail)
  /\ count' = [count EXCEPT ![1] = @ + 1]
  /\ burst' = burst + 1
  /\ UNCHANGED <<hostVars, host, vm, launched, guest_stop, head, ack_tail,
                 CONS_CACHED_TAIL, gpc>>

\* VM1 halts when its burst is over or the ring is full.
V1Halt ==
  /\ Runs(1, "work")
  /\ \/ BurstOver /\ UNCHANGED PROD_CACHED_HEAD
     \/ ~BurstOver /\ Full(tail, SentHead) /\ PROD_CACHED_HEAD' = SentHead
  /\ ExitTo("halted", FALSE)
  /\ UNCHANGED <<tail, head, queue, ack_tail, CONS_CACHED_TAIL, count, burst>>

SeenTail == IF head = CONS_CACHED_TAIL THEN tail ELSE CONS_CACHED_TAIL

V2RecvUncounted ==
  /\ Runs(2, "work") /\ ~BurstOver
  /\ head # SeenTail
  /\ CONS_CACHED_TAIL' = SeenTail
  /\ head' = WrappingAdd1(head)
  /\ ack_tail' = WrappingAdd1(ack_tail)
  /\ count' = [count EXCEPT ![2] = @ + 1]
  /\ UNCHANGED <<hostVars, host, vm, launched, guest_stop, tail, queue,
                 PROD_CACHED_HEAD, gpc, burst>>

\* Take a packet, post an acknowledgement without a look at the ring's head.
V2Recv ==
  /\ Runs(2, "work") /\ ~BurstOver
  /\ head # SeenTail
  /\ CONS_CACHED_TAIL' = SeenTail
  /\ head' = WrappingAdd1(head)
  /\ ack_tail' = WrappingAdd1(ack_tail)
  /\ count' = [count EXCEPT ![2] = @ + 1]
  /\ burst' = burst + 1
  /\ UNCHANGED <<hostVars, host, vm, launched, guest_stop, tail, queue,
                 PROD_CACHED_HEAD, gpc>>

\* VM2 halts when its burst is over or the ring is empty.
V2Halt ==
  /\ Runs(2, "work")
  /\ \/ BurstOver /\ UNCHANGED CONS_CACHED_TAIL
     \/ ~BurstOver /\ head = SeenTail /\ CONS_CACHED_TAIL' = SeenTail
  /\ ExitTo("halted", FALSE)
  /\ UNCHANGED <<tail, head, queue, ack_tail, PROD_CACHED_HEAD, count, burst>>

GuestShutdown ==
  /\ Runs(vm, "shutdown")
  /\ ExitTo("shutdown", TRUE)
  /\ UNCHANGED <<ringVars, count, burst>>

\* A triple fault, an EPT violation or any exit the handler does not know.
\* A guest that faulted faults again when it is entered again.
GuestFault ==
  /\ host = "guest"
  /\ gpc[vm] = "dead" \/ "guest" \in Faults
  /\ ExitTo("dead", FALSE)
  /\ UNCHANGED <<ringVars, count, burst>>
-------------------------------------------------------------------------------
Next ==
  \/ StartTrial
  \/ Loop
  \/ SkipSlice
  \/ Enter
  \/ EntryFails
  \/ Check
  \/ GuestStart
  \/ GuestResume
  \/ V1Send
  \/ V1Halt
  \/ V2Recv
  \/ V2Halt
  \/ GuestShutdown
  \/ GuestFault

Spec == Init /\ [][Next]_vars

\* One processor, running.
FairSpec == Spec /\ WF_vars(Next)
-------------------------------------------------------------------------------
(***************************************************************************)
(* Properties                                                              *)
(***************************************************************************)
TypeOK ==
  /\ trial \in 0 .. Trials
  /\ host \in {"trial", "loop", "slice", "guest", "check", "finished"}
  /\ vm \in Vm /\ slices \in 0 .. MaxSlices
  /\ done \in [Vm -> BOOLEAN] /\ launched \in [Vm -> BOOLEAN]
  /\ guest_stop \in BOOLEAN
  /\ outcome \in {"none", "ok", "mismatch", "incomplete", "entry failed"}
  /\ tail \in Index /\ head \in Index /\ ack_tail \in Index
  /\ queue \in [0 .. Capacity - 1 -> 0 .. Target - 1 \union {NoPacket}]
  /\ PROD_CACHED_HEAD \in Index /\ CONS_CACHED_TAIL \in Index
  /\ gpc \in [Vm -> {"start", "work", "halted", "shutdown", "dead"}]
  /\ count \in [Vm -> 0 .. Target] /\ burst \in 0 .. Burst

\* While VM1 lives, VM2 takes each packet of the trial once and in order, never
\* a slot VM1 has not filled: also in a later trial, where the rings are new and
\* the cached indices may be those of the trial before.  (Once VM1 is dead they
\* are not: VM2 then takes slots up to the old cached tail.)
FreshPackets ==
  [][head' = WrappingAdd1(head) /\ host = "guest" /\ gpc[1] # "dead" =>
       queue[Slot(head)] = count[2] /\ head # tail]_vars

\* A guest is written off only when it has done its work, although the flag
\* that says so belongs to the processor and both guests run on it; and success
\* is never reported after a guest died, although the host takes a dead guest
\* for a runnable one.
DoneMeansDone ==
  /\ \A v \in Vm : done[v] => count[v] = Target
  /\ outcome = "ok" => \A v \in Vm : gpc[v] # "dead"

\* Whether a guest has started in this trial, and lives.
Begun(v) == gpc[v] \notin {"start", "dead"}

\* The host judges a trial by the shared indices and not by what the guests have
\* counted: from its first instructions in a trial to its last, each guest's own
\* count is the index it moves, whatever the resets between trials left in place
\* and whatever the other guest does; and no trial ends in a mismatch.
CountsAgree ==
  /\ Begun(1) => count[1] = tail
  /\ Begun(2) => count[2] = head
  /\ outcome # "mismatch"

\* If no guest dies and no entry fails, the run completes within MaxSlices
\* rounds: a guest that has nothing to do gives way to the other, and each
\* waits for the other only.
NothingFails == outcome # "entry failed" /\ \A v \in Vm : gpc[v] # "dead"
Completes == []NothingFails => <>(outcome = "ok")
-------------------------------------------------------------------------------
(***************************************************************************)
(* The inductive invariant behind them                                     *)
(***************************************************************************)

\* The host's books: a trial is under way until the last is counted, the stop
\* flag is down while a guest runs, a verdict is given once, and a trial is
\* only judged, and the run only called a success, when both guests are done.
Books ==
  /\ host # "finished" => trial < Trials
  /\ host = "guest" => ~guest_stop
  /\ host = "finished" <=> outcome # "none"
  /\ outcome # "mismatch"
  /\ host = "check" \/ outcome = "ok" => \A v \in Vm : done[v]

\* A guest's own count and the index it moves agree once it has started; one
\* that shuts down has reached the target, and nobody else is done.
Counted ==
  /\ \A v \in Vm : /\ done[v] => gpc[v] = "shutdown"
                   /\ gpc[v] = "shutdown" => count[v] = Target
  /\ Begun(1) => tail = count[1]
  /\ Begun(2) => head = count[2]
  /\ gpc[1] = "start" => tail = 0
  /\ gpc[2] = "start" => head = 0

\* The ring while VM1 lives: the slots from head to tail hold the packets of
\* these numbers.  VM1's copy of head is at or behind it, or from an earlier
\* trial and then still ahead of tail.
Ring ==
  /\ PROD_CACHED_HEAD \in 0 .. Target
  /\ gpc[1] # "dead" /\ host # "trial" =>
       /\ head <= tail /\ tail <= head + Capacity /\ tail <= Target
       /\ \A i \in head .. tail - 1 : queue[Slot(i)] = i
       /\ PROD_CACHED_HEAD <= head \/ PROD_CACHED_HEAD > tail

\* VM1 stays a burst ahead, or has sent everything: VM2, whose copy of tail may
\* be that of the trial before, never gets to a slot that is not filled.
Ahead ==
  gpc[1] # "dead" =>
    /\ gpc[1] = "work" => host = "guest" /\ vm = 1 /\ tail >= head + burst
    /\ host \in {"slice", "guest"} /\ vm = 2 =>
         \/ tail = Target
         \/ tail >= head + Burst
         \/ host = "guest" /\ gpc[2] = "work" /\ tail + burst >= head + Burst

DualInv == TypeOK /\ Books /\ Counted

FreshInv == DualInv /\ Ring /\ Ahead
==============================================================================
