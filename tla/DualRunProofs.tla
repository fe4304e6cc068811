---------------------------- MODULE DualRunProofs ----------------------------
(***************************************************************************)
(* The alternating run judges every trial right and hands VM2 every packet *)
(* once and in order, for any target, burst, number of trials and faults.  *)
(***************************************************************************)
EXTENDS DualRun, TLAPS

\* The numbers a run is made of.
LEMMA Sizes ==
  /\ Capacity \in Nat /\ IndexSize \in Nat /\ Target \in Nat /\ Burst \in Nat
  /\ Trials \in Nat /\ MaxSlices \in Nat
  /\ Capacity >= 1 /\ IndexSize >= 2 * Capacity /\ IndexSize >= 2
  /\ Target >= 1 /\ Target < IndexSize /\ Burst >= 1 /\ Trials >= 1
BY CapacityAssumption, IndexSizeAssumption, DualRunAssumption

\* Counts up to the target are indices that have not wrapped.
LEMMA NoWrap ==
  ASSUME NEW i \in 0 .. Target, NEW j \in 0 .. Target
  PROVE  /\ i \in Index
         /\ i < Target => WrappingAdd1(i) = i + 1
         /\ i >= j => WrappingSub(i, j) = i - j
         /\ i < j => WrappingSub(i, j) = (i + IndexSize) - j
BY Sizes DEF Index, WrappingAdd1, WrappingSub

LEMMA NextIndex ==
  ASSUME NEW i \in Index
  PROVE  WrappingAdd1(i) \in Index /\ WrappingAdd1(i) # i
BY Sizes DEF Index, WrappingAdd1

\* A slot number is that of a slot, and packets less than a ring apart lie in
\* different slots.
LEMMA SlotIs ==
  ASSUME NEW n \in Nat
  PROVE  /\ n \div Capacity \in Int
         /\ Slot(n) \in 0 .. Capacity - 1
         /\ n = Capacity * (n \div Capacity) + Slot(n)
BY CapacityAssumption DEF Slot

LEMMA SlotsApart ==
  ASSUME NEW i \in Nat, NEW j \in Nat, i < j, j < i + Capacity
  PROVE  Slot(i) # Slot(j)
<1> SUFFICES ASSUME Slot(i) = Slot(j) PROVE FALSE
  OBVIOUS
<1> DEFINE q == (j \div Capacity) - (i \div Capacity)
<1>1. q \in Int /\ j - i = Capacity * q
  <2> DEFINE a == i \div Capacity
             b == j \div Capacity
  <2>1. /\ a \in Int /\ b \in Int /\ Slot(i) \in Int
        /\ i = Capacity * a + Slot(i) /\ j = Capacity * b + Slot(i)
    BY SlotIs, Sizes
  <2> HIDE DEF a, b
  <2>2. Capacity * (b - a) = Capacity * b - Capacity * a
    BY <2>1, Sizes
  <2> QED BY <2>1, <2>2, Sizes DEF a, b
<1> HIDE DEF q
<1>2. CASE q >= 1
  <2>1. Capacity * q >= Capacity * 1
    BY <1>1, <1>2, Sizes
  <2> QED BY <1>1, <2>1, Sizes
<1>3. CASE q <= 0
  <2>1. Capacity * q <= Capacity * 0
    BY <1>1, <1>3, Sizes
  <2> QED BY <1>1, <2>1, Sizes
<1> QED BY <1>1, <1>2, <1>3
-------------------------------------------------------------------------------
(***************************************************************************)
(* The books and the counts: with any burst, whatever fails                *)
(***************************************************************************)

LEMMA DualInitial == Init => DualInv
<1> SUFFICES ASSUME Init PROVE DualInv
  OBVIOUS
<1>1. done \in [Vm -> BOOLEAN] /\ launched \in [Vm -> BOOLEAN] /\ guest_stop \in BOOLEAN
  BY DEF Init
<1>2. queue \in [0 .. Capacity - 1 -> 0 .. Target - 1 \union {NoPacket}]
  BY DEF Init, NoPackets
<1>3. TypeOK
  BY <1>1, <1>2, Sizes DEF Init, TypeOK, Vm, Index
<1>4. Books
  BY Sizes DEF Init, Books
<1>5. Counted
  <2>1. \A v \in Vm : ~done[v] /\ gpc[v] = "start"
    BY DEF Init
  <2>2. tail = 0 /\ head = 0
    BY DEF Init
  <2> QED BY <2>1, <2>2 DEF Counted, Begun, Vm
<1> QED BY <1>3, <1>4, <1>5 DEF DualInv

\* What each group of variables does in a step: the flags first.
LEMMA FlagTypes ==
  ASSUME TypeOK, [Next]_vars
  PROVE  done' \in [Vm -> BOOLEAN] /\ launched' \in [Vm -> BOOLEAN] /\ guest_stop' \in BOOLEAN
<1>1. done \in [Vm -> BOOLEAN] /\ launched \in [Vm -> BOOLEAN] /\ guest_stop \in BOOLEAN
  BY DEF TypeOK
<1>2. guest_stop' \in BOOLEAN
  <2>1. \/ guest_stop' = guest_stop \/ guest_stop' = FALSE
        \/ guest_stop' = (guest_stop \/ TRUE) \/ guest_stop' = (guest_stop \/ FALSE)
    BY DEF Next, StartTrial, Loop, SkipSlice, Enter, EntryFails, Check, GuestStart,
           GuestResume, V1Send, V1Halt, V2Recv, V2Halt, GuestShutdown, GuestFault, ExitTo,
           vars
  <2> QED BY ONLY <1>1, <2>1
<1>3. done' \in [Vm -> BOOLEAN]
  <2>1. \/ done' = done \/ done' = [v \in Vm |-> FALSE]
        \/ done' = [done EXCEPT ![vm] = guest_stop']
    BY DEF Next, StartTrial, Loop, SkipSlice, Enter, EntryFails, Check, GuestStart,
           GuestResume, V1Send, V1Halt, V2Recv, V2Halt, GuestShutdown, GuestFault, ExitTo,
           vars, hostVars
  <2> QED BY ONLY <1>1, <1>2, <2>1
<1>4. launched' \in [Vm -> BOOLEAN]
  <2>1. \/ launched' = launched \/ launched' = [v \in Vm |-> FALSE]
        \/ launched' = [launched EXCEPT ![vm] = TRUE]
    BY DEF Next, StartTrial, Loop, SkipSlice, Enter, EntryFails, Check, GuestStart,
           GuestResume, V1Send, V1Halt, V2Recv, V2Halt, GuestShutdown, GuestFault, ExitTo,
           vars
  <2> QED BY ONLY <1>1, <2>1
<1> QED BY <1>2, <1>3, <1>4

LEMMA HostTypes ==
  ASSUME TypeOK, Books, [Next]_vars
  PROVE  /\ trial' \in 0 .. Trials /\ slices' \in 0 .. MaxSlices /\ vm' \in Vm
         /\ host' \in {"trial", "loop", "slice", "guest", "check", "finished"}
         /\ outcome' \in {"none", "ok", "mismatch", "incomplete", "entry failed"}
<1>0. Trials \in Nat /\ MaxSlices \in Nat
  BY Sizes
<1>1. /\ trial \in 0 .. Trials /\ slices \in 0 .. MaxSlices /\ vm \in Vm
      /\ host \in {"trial", "loop", "slice", "guest", "check", "finished"}
      /\ outcome \in {"none", "ok", "mismatch", "incomplete", "entry failed"}
  BY DEF TypeOK
<1>2. 1 \in Vm /\ 2 \in Vm
  BY DEF Vm
<1>3. CASE StartTrial \/ SkipSlice \/ Enter \/ EntryFails
  <2>1. slices' \in 0 .. MaxSlices
    <3>1. slices' = slices \/ slices' = 0
      BY <1>3 DEF StartTrial, SkipSlice, Enter, EntryFails, hostVars
    <3>2. slices \in 0 .. MaxSlices
      BY <1>1
    <3> QED BY ONLY <1>0, <3>1, <3>2
  <2>2. CASE StartTrial \/ Enter
    BY <1>1, <2>1, <2>2 DEF StartTrial, Enter, hostVars
  <2>3. CASE SkipSlice
    BY <1>1, <1>2, <2>1, <2>3 DEF SkipSlice, AfterSlice, hostVars
  <2>4. CASE EntryFails
    BY <1>1, <2>1, <2>4 DEF EntryFails
  <2> QED BY <1>3, <2>2, <2>3, <2>4
<1>4. CASE Loop
  <2>1. slices' = slices \/ (slices < MaxSlices /\ slices' = slices + 1)
    BY <1>4 DEF Loop
  <2>2. slices' \in 0 .. MaxSlices
    <3>1. slices \in 0 .. MaxSlices
      BY <1>1
    <3> QED BY ONLY <1>0, <2>1, <3>1
  <2> QED BY <1>1, <1>2, <1>4, <2>2 DEF Loop
<1>5. CASE Check
  <2>1. trial < Trials /\ (trial' = trial \/ trial' = trial + 1)
    BY <1>5 DEF Books, Check
  <2>2. trial' \in 0 .. Trials
    <3>1. trial \in 0 .. Trials
      BY <1>1
    <3> QED BY ONLY <1>0, <2>1, <3>1
  <2> QED BY <1>1, <1>5, <2>2 DEF Check
<1>6. CASE GuestStart \/ GuestResume \/ V1Send \/ V2Recv
  BY <1>1, <1>6 DEF GuestStart, GuestResume, V1Send, V2Recv, hostVars
<1>7. CASE V1Halt \/ V2Halt \/ GuestShutdown \/ GuestFault
  BY <1>1, <1>2, <1>7
     DEF V1Halt, V2Halt, GuestShutdown, GuestFault, ExitTo, AfterSlice
<1>8. CASE UNCHANGED vars
  BY <1>1, <1>8 DEF vars, hostVars
<1> QED BY <1>3, <1>4, <1>5, <1>6, <1>7, <1>8 DEF Next

LEMMA RingTypes ==
  ASSUME TypeOK, [Next]_vars
  PROVE  /\ tail' \in Index /\ head' \in Index /\ ack_tail' \in Index
         /\ queue' \in [0 .. Capacity - 1 -> 0 .. Target - 1 \union {NoPacket}]
         /\ PROD_CACHED_HEAD' \in Index /\ CONS_CACHED_TAIL' \in Index
<1>1. /\ tail \in Index /\ head \in Index /\ ack_tail \in Index
      /\ queue \in [0 .. Capacity - 1 -> 0 .. Target - 1 \union {NoPacket}]
      /\ PROD_CACHED_HEAD \in Index /\ CONS_CACHED_TAIL \in Index
      /\ count \in [Vm -> 0 .. Target]
  BY DEF TypeOK
<1>2. 0 \in Index
  BY Sizes DEF Index
<1>3. SentHead \in Index /\ SeenTail \in Index
  BY <1>1 DEF SentHead, SeenTail
<1>4. CASE StartTrial
  BY <1>1, <1>2, <1>4 DEF StartTrial, NoPackets
<1>5. CASE V1Send
  <2>1. count[1] \in 0 .. Target - 1
    BY <1>1, <1>5, Sizes DEF V1Send, BurstOver, Runs, Vm
  <2> QED BY <1>1, <1>3, <1>5, <2>1, NextIndex DEF V1Send
<1>6. CASE V2Recv
  BY <1>1, <1>3, <1>6, NextIndex DEF V2Recv
<1>7. CASE V1Halt \/ V2Halt
  BY <1>1, <1>3, <1>7 DEF V1Halt, V2Halt
<1>8. CASE UNCHANGED ringVars
  BY <1>1, <1>8 DEF ringVars
<1>9. \/ StartTrial \/ V1Send \/ V2Recv \/ V1Halt \/ V2Halt \/ UNCHANGED ringVars
  BY DEF Next, Loop, SkipSlice, Enter, EntryFails, Check, GuestStart, GuestResume,
         GuestShutdown, GuestFault, vars
<1> QED BY <1>4, <1>5, <1>6, <1>7, <1>8, <1>9

LEMMA GuestTypes ==
  ASSUME TypeOK, [Next]_vars
  PROVE  /\ gpc' \in [Vm -> {"start", "work", "halted", "shutdown", "dead"}]
         /\ count' \in [Vm -> 0 .. Target] /\ burst' \in 0 .. Burst
<1> USE Sizes
<1>1. /\ gpc \in [Vm -> {"start", "work", "halted", "shutdown", "dead"}]
      /\ count \in [Vm -> 0 .. Target] /\ burst \in 0 .. Burst /\ vm \in Vm
      /\ 1 \in Vm /\ 2 \in Vm
  BY DEF TypeOK, Vm
<1>2. CASE StartTrial
  BY <1>1, <1>2 DEF StartTrial
<1>3. CASE GuestStart \/ GuestResume
  BY <1>1, <1>3 DEF GuestStart, GuestResume
<1>4. CASE V1Send
  <2>1. count[1] + 1 \in 0 .. Target /\ burst + 1 \in 0 .. Burst
    BY <1>1, <1>4 DEF V1Send, BurstOver, Runs
  <2> QED BY <1>1, <1>4, <2>1 DEF V1Send
<1>5. CASE V2Recv
  <2>1. count[2] + 1 \in 0 .. Target /\ burst + 1 \in 0 .. Burst
    BY <1>1, <1>5 DEF V2Recv, BurstOver, Runs
  <2> QED BY <1>1, <1>5, <2>1 DEF V2Recv
<1>6. CASE V1Halt \/ V2Halt \/ GuestShutdown \/ GuestFault
  BY <1>1, <1>6 DEF V1Halt, V2Halt, GuestShutdown, GuestFault, ExitTo
<1>7. CASE UNCHANGED <<gpc, count, burst>>
  BY <1>1, <1>7
<1>8. UNCHANGED <<gpc, count, burst>>
      \/ StartTrial \/ GuestStart \/ GuestResume \/ V1Send \/ V2Recv
      \/ V1Halt \/ V2Halt \/ GuestShutdown \/ GuestFault
  BY DEF Next, Loop, SkipSlice, Enter, EntryFails, Check, vars
<1> QED BY <1>2, <1>3, <1>4, <1>5, <1>6, <1>7, <1>8

LEMMA DualTypeStep == TypeOK /\ Books /\ [Next]_vars => TypeOK'
<1> SUFFICES ASSUME TypeOK, Books, [Next]_vars PROVE TypeOK'
  OBVIOUS
<1>1. /\ trial' \in 0 .. Trials /\ slices' \in 0 .. MaxSlices /\ vm' \in Vm
      /\ host' \in {"trial", "loop", "slice", "guest", "check", "finished"}
      /\ outcome' \in {"none", "ok", "mismatch", "incomplete", "entry failed"}
  BY HostTypes
<1>2. done' \in [Vm -> BOOLEAN] /\ launched' \in [Vm -> BOOLEAN] /\ guest_stop' \in BOOLEAN
  BY FlagTypes
<1> QED BY <1>1, <1>2, RingTypes, GuestTypes DEF TypeOK

\* A slice ends with the running guest somewhere else, and done only if it has
\* asked to stop: the flag was down when it was entered.
LEMMA ExitDoes ==
  ASSUME DualInv, host = "guest", NEW place, NEW stop \in BOOLEAN, ExitTo(place, stop)
  PROVE  /\ guest_stop' = stop /\ done' = [done EXCEPT ![vm] = stop]
         /\ gpc' = [gpc EXCEPT ![vm] = place]
         /\ host' \in {"slice", "loop"}
         /\ UNCHANGED <<trial, slices, outcome>>
<1>1. guest_stop = FALSE
  BY DEF DualInv, Books, TypeOK
<1>2. guest_stop' = (guest_stop \/ stop) /\ done' = [done EXCEPT ![vm] = guest_stop']
  BY DEF ExitTo
<1>3. guest_stop' = stop
  BY ONLY <1>1, <1>2, stop \in BOOLEAN
<1>4. done' = [done EXCEPT ![vm] = stop]
  BY <1>2, <1>3
<1> QED BY <1>3, <1>4 DEF ExitTo, AfterSlice

LEMMA BooksKept ==
  ASSUME DualInv, [Next]_vars
  PROVE  Books'
<1>1. /\ trial \in 0 .. Trials /\ Trials \in Nat
      /\ done \in [Vm -> BOOLEAN] /\ guest_stop \in BOOLEAN
  BY Sizes DEF DualInv, TypeOK
<1>2. Books /\ Counted
  BY DEF DualInv
<1>3. CASE StartTrial
  BY <1>2, <1>3 DEF StartTrial, Books
<1>4. CASE Loop
  BY <1>2, <1>4 DEF Loop, Books
<1>5. CASE SkipSlice
  BY <1>2, <1>5 DEF SkipSlice, AfterSlice, Books, hostVars
<1>6. CASE Enter \/ EntryFails
  BY <1>2, <1>6 DEF Enter, EntryFails, Books, hostVars
<1>7. CASE Check
  <2>1. tail = Target /\ head = Target
    <3>1. \A v \in Vm : done[v]
      BY <1>2, <1>7 DEF Books, Check
    <3>2. gpc[1] = "shutdown" /\ gpc[2] = "shutdown" /\ count[1] = Target /\ count[2] = Target
      BY <1>2, <3>1 DEF Counted, Vm
    <3> QED BY <1>2, <3>2 DEF Counted, Begun
  <2>2. trial < Trials /\ trial' = trial + 1
    BY <1>2, <1>7, <2>1 DEF Books, Check
  <2>3. trial + 1 # Trials => trial' < Trials
    <3>1. trial \in 0 .. Trials
      BY <1>1
    <3> QED BY ONLY <1>1, <2>2, <3>1
  <2> QED BY <1>2, <1>7, <2>1, <2>3 DEF Books, Check
<1>8. CASE GuestStart \/ GuestResume \/ V1Send \/ V2Recv
  BY <1>2, <1>8 DEF GuestStart, GuestResume, V1Send, V2Recv, Books, hostVars
<1>9. CASE V1Halt \/ V2Halt \/ GuestShutdown \/ GuestFault
  <2>1. /\ host = "guest" /\ host' \in {"slice", "loop"}
        /\ UNCHANGED <<trial, outcome>>
    BY <1>9 DEF V1Halt, V2Halt, GuestShutdown, GuestFault, Runs, ExitTo, AfterSlice
  <2> QED BY <1>2, <2>1 DEF Books
<1>10. CASE UNCHANGED vars
  BY <1>2, <1>10 DEF Books, vars, hostVars
<1> QED BY <1>3, <1>4, <1>5, <1>6, <1>7, <1>8, <1>9, <1>10 DEF Next

LEMMA CountedKept ==
  ASSUME DualInv, [Next]_vars
  PROVE  Counted'
<1>1. /\ gpc \in [Vm -> {"start", "work", "halted", "shutdown", "dead"}]
      /\ count \in [Vm -> 0 .. Target] /\ vm \in Vm /\ Vm = {1, 2}
  BY DEF DualInv, TypeOK, Vm
<1>2. done \in [Vm -> BOOLEAN]
  BY DEF DualInv, TypeOK
<1>3. Books /\ Counted
  BY DEF DualInv
<1>4. CASE StartTrial
  <2>1. \A v \in Vm : ~done'[v] /\ gpc'[v] = "start"
    BY <1>4 DEF StartTrial
  <2>2. tail' = 0 /\ head' = 0
    BY <1>4 DEF StartTrial
  <2> QED BY <1>1, <2>1, <2>2 DEF Counted, Begun
<1>5. CASE UNCHANGED <<tail, head, done, gpc, count>>
  BY <1>3, <1>5 DEF Counted, Begun
<1>6. CASE GuestStart
  <2>1. /\ gpc[vm] = "start" /\ gpc' = [gpc EXCEPT ![vm] = "work"]
        /\ count' = [count EXCEPT ![vm] = 0] /\ UNCHANGED <<tail, head, done>>
    BY <1>6 DEF GuestStart, Runs, hostVars, ringVars
  <2>2. \A v \in Vm : done'[v] => gpc'[v] = "shutdown"
    BY <1>1, <1>3, <2>1 DEF Counted
  <2> QED BY <1>1, <1>3, <2>1, <2>2 DEF Counted, Begun
<1>7. CASE GuestResume
  <2>1. /\ gpc[vm] = "halted" /\ UNCHANGED <<tail, head, done, count>>
        /\ gpc' = [gpc EXCEPT ![vm] = IF count[vm] < Target THEN "work" ELSE "shutdown"]
    BY <1>7 DEF GuestResume, Runs, hostVars, ringVars
  <2>2. gpc'[vm] = "shutdown" => count[vm] = Target
    BY <1>1, <2>1, Sizes
  <2>3. \A v \in Vm : done'[v] => gpc'[v] = "shutdown"
    BY <1>1, <1>3, <2>1 DEF Counted
  <2> QED BY <1>1, <1>3, <2>1, <2>2, <2>3 DEF Counted, Begun
<1>8. CASE V1Send
  <2>1. /\ gpc[1] = "work" /\ tail = count[1] /\ count[1] < Target
        /\ count' = [count EXCEPT ![1] = @ + 1] /\ tail' = WrappingAdd1(tail)
        /\ UNCHANGED <<head, done, gpc>>
    BY <1>1, <1>3, <1>8, Sizes DEF V1Send, BurstOver, Runs, Counted, Begun, hostVars
  <2>2. tail' = count'[1]
    BY <1>1, <2>1, NoWrap
  <2>3. count'[2] = count[2]
    BY <1>1, <2>1
  <2> QED BY <1>1, <1>3, <2>1, <2>2, <2>3 DEF Counted, Begun
<1>9. CASE V2Recv
  <2>1. /\ gpc[2] = "work" /\ head = count[2] /\ count[2] < Target
        /\ count' = [count EXCEPT ![2] = @ + 1] /\ head' = WrappingAdd1(head)
        /\ UNCHANGED <<tail, done, gpc>>
    <3>1. /\ gpc[2] = "work" /\ vm = 2 /\ ~(count[vm] >= Target)
          /\ count' = [count EXCEPT ![2] = @ + 1] /\ head' = WrappingAdd1(head)
          /\ UNCHANGED <<tail, done, gpc>>
      BY <1>9 DEF V2Recv, BurstOver, Runs, hostVars
    <3>2. head = count[2]
      BY <1>3, <3>1 DEF Counted, Begun
    <3> QED BY <1>1, <3>1, <3>2, Sizes
  <2>2. head' = count'[2]
    BY <1>1, <2>1, NoWrap
  <2>3. count'[1] = count[1]
    BY <1>1, <2>1
  <2> QED BY <1>1, <1>3, <2>1, <2>2, <2>3 DEF Counted, Begun
<1>10. ASSUME NEW place \in {"halted", "dead"}, host = "guest", ExitTo(place, FALSE),
              UNCHANGED <<tail, head, count>>, gpc[vm] \in {"start", "work"} \/ place = "dead",
              place = "halted" => gpc[vm] = "work"
       PROVE  Counted'
  <2>1. done' = [done EXCEPT ![vm] = FALSE] /\ gpc' = [gpc EXCEPT ![vm] = place]
    BY <1>10, ExitDoes
  <2>2. \A v \in Vm : done'[v] => done[v] /\ v # vm
    BY ONLY <1>1, <1>2, <2>1
  <2>3. \A v \in Vm : done'[v] => gpc'[v] = "shutdown"
    BY <1>1, <1>3, <2>1, <2>2 DEF Counted
  <2> QED BY <1>1, <1>3, <1>10, <2>1, <2>3 DEF Counted, Begun
<1>11. CASE V1Halt
  BY <1>10, <1>11 DEF V1Halt, Runs
<1>12. CASE V2Halt
  BY <1>10, <1>12 DEF V2Halt, Runs
<1>13. CASE GuestFault
  BY <1>10, <1>13 DEF GuestFault, ringVars
<1>14. CASE GuestShutdown
  <2>1. /\ gpc[vm] = "shutdown" /\ gpc' = [gpc EXCEPT ![vm] = "shutdown"]
        /\ done' = [done EXCEPT ![vm] = TRUE]
        /\ UNCHANGED <<tail, head, count>>
    BY <1>14, ExitDoes DEF GuestShutdown, Runs, ringVars
  <2>2. gpc' = gpc
    BY <1>1, <2>1
  <2>3. \A v \in Vm : done'[v] => done[v] \/ v = vm
    BY ONLY <1>1, <1>2, <2>1
  <2> QED BY <1>1, <1>3, <2>1, <2>2, <2>3 DEF Counted, Begun
<1>15. \/ UNCHANGED <<tail, head, done, gpc, count>>
       \/ StartTrial \/ GuestStart \/ GuestResume \/ V1Send \/ V2Recv
       \/ V1Halt \/ V2Halt \/ GuestShutdown \/ GuestFault
  BY DEF Next, Loop, SkipSlice, Enter, EntryFails, Check, vars, hostVars, ringVars
<1> QED BY <1>4, <1>5, <1>6, <1>7, <1>8, <1>9, <1>11, <1>12, <1>13, <1>14, <1>15

LEMMA DualInvariant == Spec => []DualInv
<1>1. DualInv /\ [Next]_vars => DualInv'
  <2> SUFFICES ASSUME DualInv, [Next]_vars PROVE DualInv'
    OBVIOUS
  <2>1. TypeOK'
    BY DualTypeStep DEF DualInv
  <2> QED BY <2>1, BooksKept, CountedKept DEF DualInv
<1> QED BY DualInitial, <1>1, PTL DEF Spec

\* The types, among them that no count passes the target and no burst its end,
\* however the slices fall.
THEOREM DualTypeOK == Spec => []TypeOK
<1>1. DualInv => TypeOK
  BY DEF DualInv
<1> QED BY <1>1, DualInvariant, PTL

\* A guest is written off only when it has done its work, whichever guest the
\* processor's stop flag was last about, and no success is reported over a dead
\* guest.
THEOREM DualDoneMeansDone == Spec => []DoneMeansDone
<1>1. DualInv => DoneMeansDone
  <2> SUFFICES ASSUME DualInv PROVE DoneMeansDone
    OBVIOUS
  <2>1. \A v \in Vm : done[v] => count[v] = Target /\ gpc[v] # "dead"
    BY DEF DualInv, Counted
  <2>2. outcome = "ok" => \A v \in Vm : done[v]
    BY DEF DualInv, Books
  <2> QED BY <2>1, <2>2 DEF DoneMeansDone
<1> QED BY <1>1, DualInvariant, PTL

\* The ring indices by which the host judges a trial (dual_run.rs:206) are at every
\* moment the counts of the guests that move them, and have not wrapped, so that a
\* trial both have finished is never judged a mismatch.
THEOREM DualCountsAgree == Spec => []CountsAgree
<1>1. DualInv => CountsAgree
  BY DEF DualInv, Books, Counted, CountsAgree
<1> QED BY <1>1, DualInvariant, PTL
-------------------------------------------------------------------------------
(***************************************************************************)
(* The packets: as long as a burst fits the ring, which is all that keeps  *)
(* VM2 off the slots of the trial before once its copy of tail is stale    *)
(***************************************************************************)

\* Where VM1 stands when it sends: the ring has room as far as it can tell, and
\* what it can tell is safe.
LEMMA RoomToSend ==
  ASSUME FreshInv, gpc[1] # "dead", host # "trial", ~Full(tail, SentHead), tail < Target
  PROVE  /\ tail \in Nat /\ head \in Nat /\ head <= tail /\ tail < head + Capacity
         /\ SentHead \in 0 .. Target
         /\ SentHead <= head \/ SentHead > tail + 1
<1>1. /\ tail \in 0 .. Target /\ head \in 0 .. Target /\ PROD_CACHED_HEAD \in 0 .. Target
      /\ head <= tail /\ tail <= head + Capacity
      /\ PROD_CACHED_HEAD <= head \/ PROD_CACHED_HEAD > tail
  <2>1. tail \in Int /\ head \in Int /\ 0 <= tail /\ 0 <= head /\ Target \in Int
    <3>1. tail \in Index /\ head \in Index
      BY DEF FreshInv, DualInv, TypeOK
    <3> QED BY ONLY <3>1, Sizes DEF Index
  <2>2. /\ head <= tail /\ tail <= head + Capacity /\ tail <= Target
        /\ PROD_CACHED_HEAD <= head \/ PROD_CACHED_HEAD > tail
    BY DEF FreshInv, Ring
  <2>3. PROD_CACHED_HEAD \in 0 .. Target
    BY DEF FreshInv, Ring
  <2> QED BY ONLY <2>1, <2>2, <2>3
<1>2. SentHead = head \/ SentHead = PROD_CACHED_HEAD
  BY DEF SentHead
<1>3. SentHead \in 0 .. Target /\ (SentHead <= head \/ SentHead > tail)
  BY <1>1, <1>2, Sizes
<1>4. WrappingSub(tail, SentHead) < Capacity
  <2>1. WrappingSub(tail, SentHead) \in Int
    BY <1>1, <1>3, Sizes DEF WrappingSub
  <2>2. ~(WrappingSub(tail, SentHead) >= Capacity)
    BY DEF Full
  <2> QED BY <2>1, <2>2, Sizes
<1>5. CASE SentHead <= head
  <2>1. WrappingSub(tail, SentHead) = tail - SentHead
    BY <1>1, <1>3, <1>5, NoWrap, Sizes
  <2> QED BY <1>1, <1>3, <1>4, <1>5, <2>1, Sizes
<1>6. CASE SentHead > tail
  <2>1. (tail + IndexSize) - SentHead < Capacity
    BY <1>1, <1>3, <1>4, <1>6, NoWrap, Sizes
  <2>2. IndexSize >= Capacity + Capacity /\ Capacity >= 1
    BY Sizes
  <2>3. SentHead > tail + Capacity
    BY <1>1, <1>3, <2>1, <2>2, Sizes
  <2>4. SentHead # head /\ Full(tail, PROD_CACHED_HEAD) = FALSE
    BY <1>1, <1>2, <1>4, <1>6, Sizes DEF Full, SentHead
  <2>5. tail < head + Capacity
    <3>1. tail < SentHead - Capacity
      BY <1>1, <1>3, <2>3, Sizes
    <3>2. tail + (IndexSize - SentHead) < Capacity /\ IndexSize > SentHead
      BY <1>1, <1>3, <2>1, Sizes
    <3> QED BY <1>1, <1>3, <3>2, Sizes
  <2> QED BY <1>1, <1>3, <2>2, <2>3, <2>5, Sizes
<1> QED BY <1>3, <1>5, <1>6

LEMMA FreshInitial == Init => FreshInv
<1> SUFFICES ASSUME Init PROVE FreshInv
  OBVIOUS
<1>1. DualInv
  BY DualInitial
<1>2. Ring
  <2>1. host = "trial" /\ PROD_CACHED_HEAD = 0
    BY DEF Init
  <2> QED BY <2>1, Sizes DEF Ring
<1>3. Ahead
  <2>1. gpc[1] = "start" /\ host = "trial"
    BY DEF Init, Vm
  <2> QED BY <2>1 DEF Ahead
<1> QED BY <1>1, <1>2, <1>3 DEF FreshInv

\* VM2 takes a packet only where VM1 is ahead of it.
LEMMA PacketToTake ==
  ASSUME FreshInv, gpc[1] # "dead", V2Recv
  PROVE  /\ head = count[2] /\ head \in Nat /\ tail \in Nat /\ head < tail /\ tail <= Target
         /\ queue[Slot(head)] = head
         /\ tail = Target \/ tail + burst >= head + Burst
<1>1. /\ host = "guest" /\ vm = 2 /\ gpc[2] = "work" /\ ~(burst >= Burst)
      /\ ~(count[2] >= Target)
  BY DEF V2Recv, Runs, BurstOver
<1>2. /\ head = count[2] /\ count[2] \in 0 .. Target /\ burst \in 0 .. Burst
      /\ tail \in Index
  BY <1>1 DEF FreshInv, DualInv, TypeOK, Counted, Begun, Vm
<1>3. /\ tail <= Target /\ \A i \in head .. tail - 1 : queue[Slot(i)] = i
  BY <1>1 DEF FreshInv, Ring
<1>4. /\ head \in Nat /\ tail \in Nat /\ head < Target /\ burst < Burst /\ burst \in Nat
  BY <1>1, <1>2, Sizes DEF Index
<1>5. tail = Target \/ tail + burst >= head + Burst
  <2>1. tail = Target \/ tail >= head + Burst \/ tail + burst >= head + Burst
    BY <1>1 DEF FreshInv, Ahead
  <2> QED BY <1>4, <2>1, Sizes
<1>6. head < tail
  BY <1>4, <1>5, Sizes
<1> QED BY <1>2, <1>3, <1>4, <1>5, <1>6

LEMMA RingKept ==
  ASSUME FreshInv, [Next]_vars
  PROVE  Ring'
<1>1. /\ tail \in Int /\ head \in Int /\ 0 <= tail /\ 0 <= head
      /\ Capacity \in Int /\ Capacity >= 1 /\ Target \in Int /\ Target >= 1
  <2>1. tail \in Index /\ head \in Index
    BY DEF FreshInv, DualInv, TypeOK
  <2> QED BY <2>1, Sizes DEF Index
<1>2. /\ gpc \in [Vm -> {"start", "work", "halted", "shutdown", "dead"}] /\ Vm = {1, 2}
      /\ vm \in Vm /\ queue \in [0 .. Capacity - 1 -> 0 .. Target - 1 \union {NoPacket}]
  BY DEF FreshInv, DualInv, TypeOK, Vm
<1>3. Ring /\ PROD_CACHED_HEAD \in 0 .. Target
  BY DEF FreshInv, Ring
<1>4. CASE StartTrial
  <2>1. tail' = 0 /\ head' = 0
    BY <1>4 DEF StartTrial
  <2>2. PROD_CACHED_HEAD' \in 0 .. Target
    BY <1>1, <1>3, <1>4 DEF StartTrial
  <2> QED BY <1>1, <2>1, <2>2 DEF Ring
<1>5. CASE V1Send
  <2>1. /\ gpc[1] = "work" /\ host = "guest" /\ ~Full(tail, SentHead)
        /\ tail' = WrappingAdd1(tail) /\ PROD_CACHED_HEAD' = SentHead
        /\ queue' = [queue EXCEPT ![Slot(tail)] = count[1]]
        /\ UNCHANGED <<head, gpc, host>> /\ vm = 1 /\ ~(count[1] >= Target)
    BY <1>5 DEF V1Send, Runs, BurstOver
  <2>2. tail = count[1] /\ tail < Target
    BY <1>1, <2>1 DEF FreshInv, DualInv, Counted, Begun
  <2>3. /\ head <= tail /\ tail < head + Capacity /\ SentHead \in 0 .. Target
        /\ SentHead <= head \/ SentHead > tail + 1
    BY <2>1, <2>2, RoomToSend
  <2>4. tail' = tail + 1
    BY <1>1, <2>1, <2>2, NoWrap
  <2>5. ASSUME NEW i \in head .. tail' - 1 PROVE queue'[Slot(i)] = i
    <3>1. i \in Nat /\ tail \in Nat /\ i <= tail /\ head <= i
      BY <1>1, <2>3, <2>4, <2>5
    <3>2. Slot(i) \in 0 .. Capacity - 1 /\ Slot(tail) \in 0 .. Capacity - 1
      BY <3>1, SlotIs
    <3>3. CASE i = tail
      BY <1>2, <2>1, <2>2, <3>2, <3>3
    <3>4. CASE i < tail
      <4>1. Slot(i) # Slot(tail)
        BY <1>1, <2>3, <3>1, <3>4, SlotsApart
      <4>2. queue[Slot(i)] = i
        BY <1>1, <1>3, <2>1, <3>1, <3>4 DEF Ring
      <4> QED BY <1>2, <2>1, <3>2, <4>1, <4>2
    <3> QED BY <1>1, <3>1, <3>3, <3>4
  <2>6. /\ head' <= tail' /\ tail' <= head' + Capacity /\ tail' <= Target
        /\ PROD_CACHED_HEAD' <= head' \/ PROD_CACHED_HEAD' > tail'
    BY <1>1, <2>1, <2>2, <2>3, <2>4
  <2> QED BY <2>1, <2>3, <2>5, <2>6 DEF Ring
<1>6. CASE V1Halt
  <2>1. PROD_CACHED_HEAD' = PROD_CACHED_HEAD \/ PROD_CACHED_HEAD' = head
    BY <1>6 DEF V1Halt, SentHead
  <2>2. /\ gpc[1] = "work" /\ host = "guest" /\ UNCHANGED <<tail, head, queue>>
    BY <1>6 DEF V1Halt, Runs
  <2>3. /\ head <= tail /\ tail <= Target
    BY <1>3, <2>2 DEF Ring
  <2> QED BY <1>1, <1>3, <2>1, <2>2, <2>3 DEF Ring
<1>7. CASE V2Recv
  <2>1. /\ UNCHANGED <<tail, queue, PROD_CACHED_HEAD, gpc, host>> /\ host = "guest"
        /\ head' = WrappingAdd1(head)
    BY <1>7 DEF V2Recv, Runs
  <2>2. CASE gpc[1] = "dead"
    BY <1>3, <2>1, <2>2 DEF Ring
  <2>3. CASE gpc[1] # "dead"
    <3>1. head < tail /\ tail <= Target
      BY <1>7, <2>3, PacketToTake
    <3>2. head' = head + 1
      BY <1>1, <2>1, <3>1, NoWrap
    <3>3. \A i \in head .. tail - 1 : queue[Slot(i)] = i
      BY <1>3, <2>1, <2>3 DEF Ring
    <3>4. \A i \in head' .. tail' - 1 : queue'[Slot(i)] = i
      BY <1>1, <2>1, <3>1, <3>2, <3>3
    <3>5. /\ tail <= head + Capacity
          /\ PROD_CACHED_HEAD <= head \/ PROD_CACHED_HEAD > tail
      BY <1>3, <2>1, <2>3 DEF Ring
    <3>6. /\ head' <= tail' /\ tail' <= head' + Capacity /\ tail' <= Target
          /\ PROD_CACHED_HEAD' <= head' \/ PROD_CACHED_HEAD' > tail'
      BY <1>1, <1>3, <2>1, <3>1, <3>2, <3>5
    <3> QED BY <1>3, <2>1, <3>4, <3>6 DEF Ring
  <2> QED BY <2>2, <2>3
<1>8. CASE /\ UNCHANGED <<tail, head, queue, PROD_CACHED_HEAD>>
           /\ gpc'[1] # "dead" /\ host' # "trial" => gpc[1] # "dead" /\ host # "trial"
  BY <1>3, <1>8 DEF Ring
<1>9. \/ StartTrial \/ V1Send \/ V1Halt \/ V2Recv
      \/ Check
      \/ /\ UNCHANGED <<tail, head, queue, PROD_CACHED_HEAD>>
         /\ gpc'[1] # "dead" /\ host' # "trial" => gpc[1] # "dead" /\ host # "trial"
  <2>1. CASE Loop \/ SkipSlice \/ Enter \/ EntryFails
    BY <2>1 DEF Loop, SkipSlice, Enter, EntryFails, AfterSlice, ringVars
  <2>2. CASE GuestStart \/ GuestResume
    BY <1>2, <2>2 DEF GuestStart, GuestResume, Runs, ringVars
  <2>3. CASE V2Halt
    BY <1>2, <2>3 DEF V2Halt, Runs, ExitTo
  <2>4. CASE GuestShutdown
    BY <1>2, <2>4 DEF GuestShutdown, Runs, ExitTo, ringVars
  <2>5. CASE GuestFault
    BY <1>2, <2>5 DEF GuestFault, ExitTo, ringVars
  <2>6. CASE UNCHANGED vars
    BY <2>6 DEF vars, ringVars
  <2> QED BY <2>1, <2>2, <2>3, <2>4, <2>5, <2>6 DEF Next
<1>10. CASE Check
  BY <1>3, <1>10 DEF Check, Ring, ringVars
<1> QED BY <1>4, <1>5, <1>6, <1>7, <1>8, <1>9, <1>10

LEMMA AheadKept ==
  ASSUME FreshInv, Burst <= Capacity, [Next]_vars
  PROVE  Ahead'
<1>1. /\ tail \in Int /\ head \in Int /\ 0 <= tail /\ 0 <= head
      /\ Capacity \in Int /\ Burst \in Int /\ Target \in Int
  <2>1. tail \in Index /\ head \in Index
    BY DEF FreshInv, DualInv, TypeOK
  <2> QED BY <2>1, Sizes DEF Index
<1>2. /\ gpc \in [Vm -> {"start", "work", "halted", "shutdown", "dead"}] /\ Vm = {1, 2}
      /\ vm \in Vm
  BY DEF FreshInv, DualInv, TypeOK, Vm
<1>3. burst \in Int
  <2>1. burst \in 0 .. Burst
    BY DEF FreshInv, DualInv, TypeOK
  <2> QED BY ONLY <1>1, <2>1
<1>4. Ahead /\ Ring /\ Counted
  BY DEF FreshInv, DualInv
<1>5. CASE StartTrial
  <2>1. gpc'[1] = "start" /\ host' = "loop"
    BY <1>2, <1>5 DEF StartTrial
  <2> QED BY <2>1 DEF Ahead
<1>6. CASE Loop
  <2>1. host = "loop" /\ gpc' = gpc /\ ~(host' \in {"slice", "guest"} /\ vm' = 2)
    BY <1>6 DEF Loop
  <2> QED BY <1>4, <2>1 DEF Ahead
\* The end of a slice: VM1's leaves VM2 a burst to take.
<1>7. ASSUME AfterSlice, UNCHANGED <<tail, head>>, gpc'[1] # "work",
             vm = 1 /\ gpc'[1] # "dead" => tail = Target \/ tail >= head + Burst
      PROVE  Ahead'
  BY <1>2, <1>7 DEF AfterSlice, Ahead
<1>8. CASE SkipSlice
  <2>1. done[vm] /\ AfterSlice /\ UNCHANGED <<tail, head, gpc>> /\ host = "slice"
    BY <1>8 DEF SkipSlice, ringVars
  <2>2. vm = 1 => tail = Target
    BY <1>2, <1>4, <2>1 DEF Counted, Begun
  <2>3. gpc'[1] # "work"
    BY <1>4, <2>1 DEF Ahead
  <2> QED BY <1>7, <2>1, <2>2, <2>3
<1>9. CASE Enter
  <2>1. /\ host = "slice" /\ host' = "guest" /\ UNCHANGED <<vm, tail, head, gpc, burst>>
    BY <1>9 DEF Enter, ringVars
  <2> QED BY <1>4, <2>1 DEF Ahead
<1>10. CASE EntryFails \/ Check
  <2>1. /\ host \in {"slice", "check"} /\ host' \in {"finished", "trial"} /\ gpc' = gpc
    BY <1>10 DEF EntryFails, Check
  <2> QED BY <1>4, <2>1 DEF Ahead
<1>11. CASE GuestStart \/ GuestResume
  <2>1. /\ host = "guest" /\ burst' = 0 /\ UNCHANGED <<host, vm, tail, head>>
        /\ gpc[vm] \in {"start", "halted"} /\ gpc' = [gpc EXCEPT ![vm] = gpc'[vm]]
    BY <1>2, <1>11 DEF GuestStart, GuestResume, Runs, ringVars
  <2>2. CASE vm = 1
    <3>1. gpc'[1] # "dead" => tail >= head
      BY <1>1, <1>4, <2>1, <2>2 DEF Ring
    <3> QED BY <1>1, <2>1, <2>2, <3>1 DEF Ahead
  <2>3. CASE vm = 2
    <3>1. gpc'[1] = gpc[1] /\ gpc[2] # "work"
      BY <1>2, <2>1, <2>3
    <3>2. gpc[1] # "dead" => gpc[1] # "work" /\ (tail = Target \/ tail >= head + Burst)
      BY <1>4, <2>1, <2>3, <3>1 DEF Ahead
    <3> QED BY <1>1, <2>1, <2>3, <3>1, <3>2 DEF Ahead
  <2> QED BY <1>2, <2>2, <2>3
<1>12. CASE V1Send
  <2>1. /\ gpc[1] = "work" /\ host = "guest" /\ vm = 1 /\ burst' = burst + 1
        /\ tail' = WrappingAdd1(tail) /\ UNCHANGED <<host, vm, head, gpc>>
        /\ ~(count[1] >= Target)
    BY <1>12 DEF V1Send, Runs, BurstOver
  <2>2. tail = count[1] /\ tail < Target
    BY <1>1, <1>4, <2>1 DEF Counted, Begun
  <2>3. tail' = tail + 1
    BY <1>1, <2>1, <2>2, NoWrap
  <2>4. tail' >= head' + burst'
    BY <1>1, <1>3, <1>4, <2>1, <2>3 DEF Ahead
  <2> QED BY <2>1, <2>4 DEF Ahead
<1>13. CASE V1Halt
  <2>1. /\ gpc[1] = "work" /\ vm = 1 /\ host = "guest" /\ AfterSlice
        /\ UNCHANGED <<tail, head>> /\ gpc' = [gpc EXCEPT ![vm] = "halted"]
        /\ BurstOver \/ Full(tail, SentHead)
    BY <1>13 DEF V1Halt, Runs, ExitTo
  <2>2. tail = count[1] /\ tail >= head + burst /\ head <= tail /\ tail <= Target
    BY <1>4, <2>1 DEF Ahead, Counted, Begun, Ring
  <2>3. CASE burst >= Burst
    BY <1>1, <1>2, <1>3, <1>7, <2>1, <2>2, <2>3
  <2>4. CASE count[1] >= Target
    BY <1>1, <1>2, <1>7, <2>1, <2>2, <2>4
  <2>5. CASE Full(tail, SentHead)
    <3>1. Full(tail, head)
      BY <2>5 DEF SentHead
    <3>2. tail - head >= Capacity
      BY <1>1, <2>2, <3>1 DEF Full, WrappingSub
    <3> QED BY <1>1, <1>2, <1>7, <2>1, <3>2
  <2> QED BY <2>1, <2>3, <2>4, <2>5 DEF BurstOver
<1>14. CASE V2Recv
  <2>1. /\ gpc[2] = "work" /\ host = "guest" /\ vm = 2 /\ burst' = burst + 1
        /\ head' = WrappingAdd1(head) /\ UNCHANGED <<host, vm, tail, gpc>>
    BY <1>14 DEF V2Recv, Runs
  <2>2. CASE gpc[1] = "dead"
    BY <2>1, <2>2 DEF Ahead
  <2>3. CASE gpc[1] # "dead"
    <3>1. /\ head < tail /\ tail <= Target
          /\ tail = Target \/ tail + burst >= head + Burst
      BY <1>14, <2>3, PacketToTake
    <3>2. head' = head + 1
      BY <1>1, <2>1, <3>1, NoWrap
    <3>3. tail' = Target \/ tail' + burst' >= head' + Burst
      BY <1>1, <1>3, <2>1, <3>1, <3>2
    <3>4. gpc[1] # "work"
      BY <1>4, <2>1, <2>3 DEF Ahead
    <3> QED BY <2>1, <3>3, <3>4 DEF Ahead
  <2> QED BY <2>2, <2>3
<1>15. CASE V2Halt \/ GuestShutdown \/ GuestFault
  <2>1. PICK place \in {"halted", "shutdown", "dead"} :
          /\ host = "guest" /\ AfterSlice /\ UNCHANGED <<tail, head>>
          /\ gpc' = [gpc EXCEPT ![vm] = place]
          /\ vm = 2 \/ place = "dead" \/ (place = "shutdown" /\ gpc[vm] = "shutdown")
    BY <1>15 DEF V2Halt, GuestShutdown, GuestFault, ExitTo, Runs, ringVars
  <2>2. gpc'[1] # "work"
    BY <1>2, <1>4, <2>1 DEF Ahead
  <2>3. vm = 1 /\ gpc'[1] # "dead" => tail = Target
    BY <1>2, <1>4, <2>1 DEF Counted, Begun
  <2> QED BY <1>7, <2>1, <2>2, <2>3
<1>16. CASE UNCHANGED vars
  BY <1>4, <1>16 DEF Ahead, vars, ringVars
<1> QED BY <1>5, <1>6, <1>8, <1>9, <1>10, <1>11, <1>12, <1>13, <1>14, <1>15, <1>16 DEF Next

LEMMA FreshInvariant ==
  ASSUME Burst <= Capacity
  PROVE  Spec => []FreshInv
<1>1. FreshInv /\ [Next]_vars => FreshInv'
  <2> SUFFICES ASSUME FreshInv, [Next]_vars PROVE FreshInv'
    OBVIOUS
  <2>1. TypeOK'
    BY DualTypeStep DEF FreshInv, DualInv
  <2>2. Books' /\ Counted'
    BY BooksKept, CountedKept DEF FreshInv
  <2> QED BY <2>1, <2>2, RingKept, AheadKept DEF FreshInv, DualInv
<1> QED BY FreshInitial, <1>1, PTL DEF Spec

\* While VM1 lives, VM2 takes each packet of the trial once and in order, from
\* a slot VM1 has filled, also with a copy of tail left over from the trial
\* before; provided a burst fits the ring, as 16 and 16 do in the code.
THEOREM DualFreshPackets ==
  ASSUME Burst <= Capacity
  PROVE  Spec => FreshPackets
<1>1. ASSUME FreshInv, [Next]_vars, head' = WrappingAdd1(head), host = "guest",
             gpc[1] # "dead"
      PROVE  queue[Slot(head)] = count[2] /\ head # tail
  <2>1. V2Recv
    <3>1. head \in Index
      BY <1>1 DEF FreshInv, DualInv, TypeOK
    <3>2. head' # head
      BY <1>1, <3>1, NextIndex
    <3> QED BY <1>1, <3>2
            DEF Next, StartTrial, Loop, SkipSlice, Enter, EntryFails, Check, GuestStart,
                GuestResume, V1Send, V1Halt, V2Halt, GuestShutdown, GuestFault, vars,
                ringVars
  <2>2. /\ head = count[2] /\ head \in Nat /\ tail \in Nat /\ head < tail
        /\ queue[Slot(head)] = head
    BY <1>1, <2>1, PacketToTake
  <2> QED BY <2>2
<1>2. FreshInv /\ [Next]_vars =>
        [head' = WrappingAdd1(head) /\ host = "guest" /\ gpc[1] # "dead" =>
           queue[Slot(head)] = count[2] /\ head # tail]_vars
  BY <1>1
<1> QED BY <1>2, FreshInvariant, PTL DEF Spec, FreshPackets
===============================================================================
