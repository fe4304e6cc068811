----------------------------- MODULE DeviceProofs -----------------------------
(***************************************************************************)
(* The two I/O devices: the serial line all processors print on, for any   *)
(* number of processors and whatever stacks they are on, and the emulated  *)
(* network card, for rings of any size, any length the driver gives them,  *)
(* any number of frames and of times the driver starts over.               *)
(***************************************************************************)
EXTENDS SerialLine, E1000, SequenceTheorems, FiniteSetTheorems, TLAPS

(***************************************************************************)
(* The serial line                                                         *)
(***************************************************************************)

\* Every shared variable and place keeps its type: in particular the length of
\* a guest's buffer stays below its size (guest_putchar_line).
THEOREM SerialTypeOK == Spec => []TypeOK
<1> USE SerialAssumption
<1>0. ASSUME NEW c \in Cpu, TypeOK PROVE Me(c) \in Number
  BY <1>0 DEF Me, Number
<1>1. Init => TypeOK
  <2> SUFFICES ASSUME Init PROVE TypeOK
    OBVIOUS
  <2>1. lock \in BOOLEAN /\ at_line_start \in BOOLEAN
    BY DEF Init
  <2>2. pc \in [Cpu -> Place] /\ kind \in [Cpu -> {"host", "locked", "guest"}]
    BY DEF Init, Place
  <2>3. guestLen \in [Number -> 0 .. LineMax - 1] /\ left \in [Cpu -> 0 .. MaxText]
    BY DEF Init
  <2>4. \A c \in Cpu : pc[c] = "idle" /\ kind[c] = "host"
    BY DEF Init
  <2>5. stack \in [Cpu -> {"own", "firmware"}]
    BY DEF Init
  <2> QED BY <2>1, <2>2, <2>3, <2>4, <2>5 DEF Init, TypeOK
<1>2. TypeOK /\ [Next]_vars => TypeOK'
  <2> SUFFICES ASSUME TypeOK, [Next]_vars PROVE TypeOK'
    OBVIOUS
  <2> USE DEF TypeOK, Goto, shared, ids
  <2>1. ASSUME NEW c \in Cpu, Begin(c) PROVE TypeOK'
    <3>1. ASSUME NEW k \in {"host", "locked"}, NEW n \in 0 .. MaxText,
                 SerialPrint(c, k, n)
          PROVE  TypeOK'
      BY <3>1 DEF SerialPrint, Enter, Place
    <3>2. CASE GuestKeep(c)
      BY <3>2, <1>0 DEF GuestKeep
    <3>3. CASE GuestFlush(c)
      BY <3>3 DEF GuestFlush, Enter, Place
    <3>4. CASE Switch(c)
      BY <3>4 DEF Switch
    <3> QED BY <2>1, <3>1, <3>2, <3>3, <3>4 DEF Begin
  <2>2. ASSUME NEW c \in Cpu, Proceed(c) PROVE TypeOK'
    <3>1. CASE Own(c)
      BY <3>1 DEF Own, Place, HoldingPc
    <3>2. CASE Lock(c)
      BY <3>2 DEF Lock, Place
    <3>3. CASE Claim(c)
      BY <3>3, <1>0 DEF Claim, Place, HoldingPc
    <3>4. CASE Start(c)
      BY <3>4 DEF Start, Place, HoldingPc
    <3>5. CASE Tag(c) \/ Byte(c) \/ GuestText(c) \/ CarriageReturn(c)
      <4>2. line' \subseteq Cpu
        BY <3>5 DEF Put, Tag, Byte, GuestText, CarriageReturn
      <4>3. pc' \in [Cpu -> Place]
        BY <3>5 DEF Tag, Byte, GuestText, CarriageReturn, Place, HoldingPc
      <4> QED
        BY <3>5, <4>2, <4>3 DEF Tag, Byte, GuestText, CarriageReturn
    <3>6. CASE Mark(c)
      <4>1. left[c] \in 1 .. MaxText
        BY <3>6 DEF Mark
      <4>2. left[c] - 1 \in 0 .. MaxText
        BY <4>1
      <4>3. left' \in [Cpu -> 0 .. MaxText]
        BY <4>2, <3>6 DEF Mark
      <4>4. pc' \in [Cpu -> Place]
        BY <3>6 DEF Mark, Place, HoldingPc
      <4>5. \A d \in Cpu : pc'[d] \in {"tag", "tagged", "byte", "next"}
                            => left'[d] > 0
        BY <4>1, <3>6 DEF Mark
      <4>6. \A d \in Cpu : kind'[d] = "guest" => left'[d] \in {0, 1}
        <5>1. left'[c] \in {left[c], left[c] - 1} /\ \A d \in Cpu \ {c} : left'[d] = left[d]
          BY <3>6 DEF Mark
        <5>2. kind' = kind
          BY <3>6 DEF Mark
        <5> QED BY <4>1, <5>1, <5>2
      <4>7. \A d \in Cpu : pc'[d] = "refill" => kind'[d] = "guest"
        BY <3>6 DEF Mark
      <4> QED BY <4>3, <4>4, <4>5, <4>6, <4>7, <3>6 DEF Mark
    <3>7. CASE LineFeed(c)
      BY <3>7 DEF LineFeed, Place, HoldingPc
    <3>8. CASE Disown(c)
      BY <3>8 DEF Disown, Place
    <3>9. CASE Unlock(c)
      BY <3>9 DEF Unlock, Place
    <3>10. CASE Restart(c)
      BY <3>10 DEF Restart, Place
    <3>11. CASE Refill(c)
      BY <3>11, <1>0 DEF Refill, Place
    <3>12. CASE Check(c)
      BY <3>12 DEF Check, Place, HoldingPc
    <3> QED BY <2>2, <3>1, <3>2, <3>3, <3>4, <3>5, <3>6, <3>7, <3>8, <3>9,
               <3>10, <3>11, <3>12 DEF Proceed
  <2>3. CASE UNCHANGED vars
    BY <2>3 DEF vars
  <2> QED BY <2>1, <2>2, <2>3 DEF Next
<1> QED BY <1>1, <1>2, PTL DEF Spec

\* A step of one processor lets it take the lock only if no other has it.
LEMMA OneHolderKept ==
  ASSUME OneHolder, NEW c \in Cpu,
         \A d \in Cpu \ {c} : Has(d)' => Has(d),
         Has(c)' => Has(c) \/ \A d \in Cpu \ {c} : ~Has(d)
  PROVE  OneHolder'
<1> SUFFICES ASSUME NEW d \in Cpu, NEW e \in Cpu, Has(d)', Has(e)' PROVE d = e
  BY DEF OneHolder
<1>1. CASE d = c /\ e # c
  BY <1>1 DEF OneHolder
<1>2. CASE e = c /\ d # c
  BY <1>2 DEF OneHolder
<1>3. CASE d # c /\ e # c
  BY <1>3 DEF OneHolder
<1> QED BY <1>1, <1>2, <1>3

LEMMA NumberIs ==
  ASSUME TypeOK, NEW c \in Cpu
  PROVE  Me(c) \in Number /\ Me(c) # NoOwner
BY SerialAssumption DEF Me, Number, TypeOK

\* Within a message a processor keeps its number, and the others are not
\* touched.
LEMMA ProceedFrame ==
  ASSUME TypeOK, NEW c \in Cpu, Proceed(c)
  PROVE  /\ \A d \in Cpu : Me(d)' = Me(d)
         /\ \A d \in Cpu \ {c} : pc'[d] = pc[d]
         /\ clash' = clash
         /\ pc[c] # "idle"
<1>1. stack' = stack /\ clash' = clash
  BY DEF Proceed, Own, Lock, Claim, Start, Tag, Byte, Mark, GuestText, CarriageReturn,
         LineFeed, Disown, Unlock, Restart, Refill, Check, ids
<1>2. \A d \in Cpu \ {c} : pc'[d] = pc[d]
  BY DEF Proceed, Own, Lock, Claim, Start, Tag, Byte, Mark, GuestText, CarriageReturn,
         LineFeed, Disown, Unlock, Restart, Refill, Check, Goto, TypeOK
<1>3. pc[c] # "idle"
  BY DEF Proceed, Own, Lock, Claim, Start, Tag, Byte, Mark, GuestText, CarriageReturn,
         LineFeed, Disown, Unlock, Restart, Refill, Check
<1> QED BY <1>1, <1>2, <1>3 DEF Me

\* What each access of a message does to the lock and to the line.
LEMMA ProceedSteps ==
  ASSUME TypeOK, NEW c \in Cpu, Proceed(c)
  PROVE  \/ /\ pc[c] = "own" /\ pc'[c] = IF owner = Me(c) THEN "start" ELSE "lock"
            /\ UNCHANGED <<lock, owner, line>>
         \/ /\ pc[c] = "lock" /\ pc'[c] = "claim" /\ ~lock /\ lock'
            /\ UNCHANGED <<owner, line>>
         \/ /\ pc[c] = "claim" /\ pc'[c] = "start" /\ owner' = Me(c)
            /\ UNCHANGED <<lock, line>>
         \/ /\ pc[c] \in HoldingPc \ {"disown"}
            /\ pc'[c] \in (HoldingPc \union {"own"}) \ {"disown"}
            /\ line' \in {line, line \union {c}}
            /\ UNCHANGED <<lock, owner>>
         \/ /\ pc[c] = "lf" /\ pc'[c] = "disown" /\ line' = {}
            /\ UNCHANGED <<lock, owner>>
         \/ /\ pc[c] = "disown" /\ pc'[c] = "unlock" /\ owner' = NoOwner
            /\ UNCHANGED <<lock, line>>
         \/ /\ pc[c] = "unlock" /\ pc'[c] = "restart" /\ ~lock'
            /\ UNCHANGED <<owner, line>>
         \/ /\ pc[c] \in {"restart", "refill", "check"}
            /\ pc'[c] \in {"idle", "check", "refill"}
            /\ UNCHANGED <<lock, owner, line>>
         \/ /\ pc[c] = "check" /\ pc'[c] = "disown" /\ owner = Me(c)
            /\ UNCHANGED <<lock, owner, line>>
<1> USE DEF TypeOK, Goto, shared
<1>1. CASE Own(c)
  BY <1>1 DEF Own
<1>2. CASE Lock(c)
  BY <1>2 DEF Lock
<1>3. CASE Claim(c)
  BY <1>3 DEF Claim
<1>4. CASE Start(c) \/ Mark(c)
  <2>1. /\ pc[c] \in HoldingPc \ {"disown"} /\ UNCHANGED <<lock, owner, line>>
        /\ pc'[c] \in (HoldingPc \union {"own"}) \ {"disown"}
    BY <1>4 DEF Start, Mark, HoldingPc
  <2> QED BY ONLY <2>1
<1>5. CASE Tag(c) \/ Byte(c) \/ GuestText(c) \/ CarriageReturn(c)
  <2>1. /\ pc[c] \in HoldingPc \ {"disown"} /\ UNCHANGED <<lock, owner>>
        /\ pc'[c] \in (HoldingPc \union {"own"}) \ {"disown"}
    BY <1>5 DEF Tag, Byte, GuestText, CarriageReturn, HoldingPc
  <2>2. line' = line \union {c}
    BY <1>5 DEF Tag, Byte, GuestText, CarriageReturn, Put
  <2> QED BY ONLY <2>1, <2>2
<1>6. CASE LineFeed(c)
  BY <1>6 DEF LineFeed
<1>7. CASE Disown(c)
  BY <1>7 DEF Disown
<1>8. CASE Unlock(c)
  BY <1>8 DEF Unlock
<1>9. CASE Restart(c) \/ Refill(c)
  BY <1>9 DEF Restart, Refill
<1>10. CASE Check(c)
  BY <1>10 DEF Check
<1> QED BY <1>1, <1>2, <1>3, <1>4, <1>5, <1>6, <1>7, <1>8, <1>9, <1>10 DEF Proceed

\* Whatever the processors pass for, the lock has one that will give it back
\* and a processor that has written a part of a line is still in its message.
LEMMA ProceedKeepsTrack ==
  ASSUME TypeOK, OwnerIsBusy, LockIsClaimed, LineIsUnderWay, NEW c \in Cpu, Proceed(c)
  PROVE  OwnerIsBusy' /\ LockIsClaimed' /\ LineIsUnderWay'
<1> DEFINE InLine(d) == Me(d) = owner /\ pc[d] \in HoldingPc \union {"own"}
           Claims(d) == pc[d] \in {"claim", "unlock"}
<1>1. /\ \A d \in Cpu : Me(d)' = Me(d)
      /\ \A d \in Cpu \ {c} : pc'[d] = pc[d]
  BY ProceedFrame
<1>2. OwnerIsBusy'
  <2> SUFFICES ASSUME owner' # NoOwner PROVE \E d \in Cpu : InLine(d)'
    BY DEF OwnerIsBusy
  <2>1. ASSUME owner' = owner, InLine(c) => InLine(c)' PROVE \E d \in Cpu : InLine(d)'
    <3>1. PICK d \in Cpu : InLine(d)
      BY <2>1 DEF OwnerIsBusy
    <3>2. CASE d = c
      BY <2>1, <3>1, <3>2
    <3>3. CASE d # c
      BY <2>1, <3>1, <3>3, <1>1
    <3> QED BY <3>2, <3>3
  <2>2. ASSUME pc'[c] \in HoldingPc, owner' = Me(c) PROVE \E d \in Cpu : InLine(d)'
    BY <2>2, <1>1
  <2> QED BY <2>1, <2>2, <1>1, ProceedSteps DEF HoldingPc
<1>3. LockIsClaimed'
  <2> SUFFICES ASSUME lock', owner' = NoOwner PROVE \E d \in Cpu : Claims(d)'
    BY DEF LockIsClaimed
  <2>1. ASSUME lock' = lock, owner' = owner, ~Claims(c) PROVE \E d \in Cpu : Claims(d)'
    <3>1. PICK d \in Cpu : Claims(d)
      BY <2>1 DEF LockIsClaimed
    <3> QED BY <2>1, <3>1, <1>1
  <2>2. ASSUME pc'[c] \in {"claim", "unlock"} PROVE \E d \in Cpu : Claims(d)'
    BY <2>2
  <2>3. Me(c) # NoOwner
    BY NumberIs
  <2> QED BY <2>1, <2>2, <2>3, ProceedSteps DEF HoldingPc
<1>4. LineIsUnderWay'
  <2> SUFFICES ASSUME NEW d \in line'
               PROVE  pc'[d] \in (HoldingPc \ {"disown"}) \union {"own", "lock", "claim"}
    BY DEF LineIsUnderWay
  <2>1. CASE d # c
    <3>1. line' \subseteq line \union {c}
      BY ProceedSteps
    <3> QED BY <2>1, <3>1, <1>1 DEF LineIsUnderWay, TypeOK
  <2>2. CASE d = c
    <3>1. CASE d \in line
      <4>1. pc[c] \in (HoldingPc \ {"disown"}) \union {"own", "lock", "claim"}
        BY <2>2, <3>1 DEF LineIsUnderWay
      <4> QED BY <2>2, <4>1, ProceedSteps DEF HoldingPc
    <3>2. CASE d \notin line
      BY <2>2, <3>2, ProceedSteps DEF HoldingPc
    <3> QED BY <3>1, <3>2
  <2> QED BY <2>1, <2>2
<1> QED BY <1>2, <1>3, <1>4

\* Processors in messages that have different numbers leave each other's lock
\* and line alone.
LEMMA ProceedIsOrderly ==
  ASSUME TypeOK, Orderly, LineIsUnderWay, NEW c \in Cpu, Proceed(c)
  PROVE  Orderly'
<1> USE DEF Orderly
<1>1. /\ \A d \in Cpu : Me(d)' = Me(d)
      /\ \A d \in Cpu \ {c} : pc'[d] = pc[d]
      /\ pc[c] # "idle"
  BY ProceedFrame
<1>2. Distinct'
  BY <1>1 DEF Distinct
<1>3. \A d \in Cpu : Me(d) # NoOwner
  BY NumberIs
<1>4. \A d \in Cpu \ {c} : Has(d)' => Has(d) \/ owner' = Me(d)
  BY <1>1 DEF Has
<1>5. \A d \in Cpu \ {c} : owner' = Me(d) /\ pc[d] # "idle" => owner' # Me(c)
  BY <1>1 DEF Distinct
<1>6. owner' \in {owner, Me(c), NoOwner}
  BY ProceedSteps
<1>7. \A d \in Cpu \ {c} : Has(d)' => Has(d)
  <2> SUFFICES ASSUME NEW d \in Cpu \ {c}, Has(d)' PROVE Has(d)
    OBVIOUS
  <2>1. CASE pc[d] = "own"
    <3>1. owner' = Me(d)
      BY <2>1, <1>1 DEF Has, HoldingPc
    <3>2. owner' = owner
      BY <3>1, <2>1, <1>3, <1>5, <1>6
    <3> QED BY <3>1, <3>2, <2>1 DEF Has
  <2>2. CASE pc[d] # "own"
    BY <2>2, <1>1 DEF Has
  <2> QED BY <2>1, <2>2
<1>8. Has(c)' => Has(c) \/ \A d \in Cpu \ {c} : ~Has(d)
  <2>1. ASSUME ~lock PROVE \A d \in Cpu : ~Has(d)
    BY <2>1 DEF HeldIsLocked
  <2>2. pc[c] \in {"restart", "refill", "check"} => owner # Me(c)
    BY DEF OwnerHolds, HoldingPc
  <2> QED BY <1>1, <2>1, <2>2, ProceedSteps DEF Has, HoldingPc
<1>9. OneHolder'
  BY ONLY <1>7, <1>8, Orderly, OneHolderKept, c \in Cpu DEF Orderly
<1>10. ASSUME Has(c) PROVE \A d \in Cpu \ {c} : ~Has(d)
  BY <1>10 DEF OneHolder
<1>11. pc[c] \in {"restart", "refill", "check"} => owner # Me(c)
  BY DEF OwnerHolds, HoldingPc
<1>12. HeldIsLocked'
  <2> SUFFICES ASSUME NEW d \in Cpu, Has(d)' PROVE lock'
    BY DEF HeldIsLocked
  <2>1. CASE d = c
    <3>1. Has(c) => lock
      BY DEF HeldIsLocked
    <3> QED BY <2>1, <3>1, <1>1, <1>11, ProceedSteps DEF Has, HoldingPc
  <2>2. CASE d # c
    <3>1. Has(d) /\ lock
      BY <2>2, <1>7 DEF HeldIsLocked
    <3>2. pc[c] # "unlock"
      BY <3>1, <2>2, <1>10 DEF Has
    <3> QED BY <3>1, <3>2, ProceedSteps
  <2> QED BY <2>1, <2>2
<1>13. OwnerHolds'
  <2> SUFFICES ASSUME NEW d \in Cpu
               PROVE  /\ pc'[d] \in HoldingPc => owner' = Me(d)
                      /\ owner' = Me(d) => pc'[d] \in HoldingPc \union {"own", "idle"}
    BY <1>1 DEF OwnerHolds
  <2>1. CASE d = c
    <3>1. /\ pc[c] \in HoldingPc => owner = Me(c)
          /\ owner = Me(c) => pc[c] \in HoldingPc \union {"own", "idle"}
      BY DEF OwnerHolds
    <3>2. Me(c) # NoOwner
      BY <1>3
    <3> QED BY <2>1, <3>1, <3>2, <1>11, ProceedSteps DEF HoldingPc
  <2>2. CASE d # c
    <3>1. /\ pc[d] \in HoldingPc => owner = Me(d)
          /\ owner = Me(d) => pc[d] \in HoldingPc \union {"own", "idle"}
      BY DEF OwnerHolds
    <3>2. pc'[d] = pc[d]
      BY <2>2, <1>1
    <3>3. CASE owner' = owner
      BY <3>1, <3>2, <3>3
    <3>4. CASE owner' # owner
      <4>1. Has(c)
        BY <3>4, ProceedSteps DEF Has, HoldingPc
      <4>2. pc[d] \notin HoldingPc
        BY <4>1, <2>2, <1>10 DEF Has
      <4>3. owner' = Me(d) => pc[d] = "idle"
        BY <3>4, <2>2, <1>3, <1>5, <1>6
      <4> QED BY <3>2, <4>2, <4>3
    <3> QED BY <3>3, <3>4
  <2> QED BY <2>1, <2>2
<1>14. LineIsHolders'
  <2>1. ASSUME NEW d \in line', d # c
        PROVE  owner' = Me(d) /\ pc'[d] \in HoldingPc \union {"own"}
    <3>1. d \in line /\ d \in Cpu
      BY <2>1, ProceedSteps DEF TypeOK
    <3>2. owner = Me(d) /\ pc[d] \in HoldingPc \union {"own"}
      BY <3>1 DEF LineIsHolders
    <3>3. ~Has(c)
      BY <3>1, <3>2, <2>1, <1>10 DEF Has
    <3>4. owner' = owner
      BY <3>3, ProceedSteps DEF Has, HoldingPc
    <3> QED BY <2>1, <3>1, <3>2, <3>4, <1>1
  <2>2. ASSUME c \in line' PROVE owner' = Me(c) /\ pc'[c] \in HoldingPc \union {"own"}
    <3>1. c \in line => owner = Me(c) /\ pc[c] \in HoldingPc \union {"own"}
      BY DEF LineIsHolders
    <3>2. c \in line => pc[c] # "disown"
      BY DEF LineIsHolders
    <3>3. pc[c] \in HoldingPc => owner = Me(c)
      BY DEF OwnerHolds
    <3> QED BY <2>2, <3>1, <3>2, <3>3, ProceedSteps DEF HoldingPc
  <2>3. ASSUME NEW d \in Cpu, pc'[d] = "disown" PROVE line' = {}
    <3>1. CASE d = c
      BY <3>1, <2>3, <1>11, ProceedSteps DEF HoldingPc
    <3>2. CASE d # c
      <4>1. pc[d] = "disown" /\ line = {} /\ Has(d)
        BY <3>2, <2>3, <1>1 DEF LineIsHolders, Has, HoldingPc
      <4>2. pc[c] \notin HoldingPc
        BY <4>1, <3>2, <1>10 DEF Has
      <4> QED BY <4>1, <4>2, ProceedSteps DEF HoldingPc
    <3> QED BY <3>1, <3>2
  <2> QED BY <1>1, <2>1, <2>2, <2>3, ProceedSteps DEF LineIsHolders, TypeOK
<1> QED BY <1>2, <1>9, <1>12, <1>13, <1>14

\* Between messages a processor may change its stack, and enters a message with
\* the number of the one it is on: that is a clash, or none of the others in a
\* message has that number.
LEMMA BeginFrame ==
  ASSUME TypeOK, NEW c \in Cpu, Begin(c)
  PROVE  /\ UNCHANGED <<lock, owner, line>> /\ pc[c] = "idle"
         /\ \A d \in Cpu \ {c} : Me(d)' = Me(d) /\ pc'[d] = pc[d]
         /\ \/ pc'[c] = "idle" /\ clash' = clash
            \/ Enter(c) /\ pc'[c] = "own" /\ Me(c)' = Me(c)
<1>1. ASSUME NEW k \in {"host", "locked"}, NEW n \in 0 .. MaxText, SerialPrint(c, k, n)
      PROVE  /\ UNCHANGED <<lock, owner, line, stack>> /\ pc[c] = "idle"
             /\ Enter(c) /\ pc'[c] = "own"
             /\ \A d \in Cpu \ {c} : pc'[d] = pc[d]
  BY <1>1 DEF SerialPrint, shared, Enter, Goto, TypeOK
<1>2. ASSUME GuestFlush(c)
      PROVE  /\ UNCHANGED <<lock, owner, line, stack>> /\ pc[c] = "idle"
             /\ Enter(c) /\ pc'[c] = "own"
             /\ \A d \in Cpu \ {c} : pc'[d] = pc[d]
  BY <1>2 DEF GuestFlush, shared, Enter, Goto, TypeOK
<1>3. ASSUME GuestKeep(c) \/ Switch(c)
      PROVE  /\ UNCHANGED <<lock, owner, line, pc, clash>> /\ pc[c] = "idle"
             /\ \A d \in Cpu \ {c} : stack'[d] = stack[d]
  BY <1>3 DEF GuestKeep, Switch, shared, ids, TypeOK
<1> QED BY <1>1, <1>2, <1>3 DEF Begin, Me

LEMMA BeginKeepsTrack ==
  ASSUME TypeOK, OwnerIsBusy, LockIsClaimed, LineIsUnderWay, NEW c \in Cpu, Begin(c)
  PROVE  OwnerIsBusy' /\ LockIsClaimed' /\ LineIsUnderWay'
<1>1. /\ UNCHANGED <<lock, owner, line>> /\ pc[c] = "idle"
      /\ \A d \in Cpu \ {c} : Me(d)' = Me(d) /\ pc'[d] = pc[d]
  BY BeginFrame
<1>2. OwnerIsBusy'
  BY <1>1 DEF OwnerIsBusy, HoldingPc
<1>3. LockIsClaimed'
  BY <1>1 DEF LockIsClaimed
<1>4. LineIsUnderWay'
  BY <1>1 DEF LineIsUnderWay, HoldingPc, TypeOK
<1> QED BY <1>2, <1>3, <1>4

\* Where nobody is in a message, nothing is left of what went before.
LEMMA BeginIsOrderly ==
  ASSUME TypeOK, OwnerIsBusy, LockIsClaimed, LineIsUnderWay, ~clash => Orderly,
         NEW c \in Cpu, Begin(c), ~clash'
  PROVE  Orderly'
<1>1. /\ UNCHANGED <<lock, owner, line>> /\ pc[c] = "idle"
      /\ \A d \in Cpu \ {c} : Me(d)' = Me(d) /\ pc'[d] = pc[d]
      /\ \/ pc'[c] = "idle" /\ clash' = clash
         \/ Enter(c) /\ pc'[c] = "own" /\ Me(c)' = Me(c)
  BY BeginFrame
<1>2. c \notin line /\ line \subseteq Cpu
  BY <1>1 DEF LineIsUnderWay, HoldingPc, TypeOK
<1>3. CASE pc'[c] = "idle" /\ clash' = clash
  <2>1. Orderly
    BY <1>3
  <2>2. \A d \in Cpu : Has(d)' = Has(d)
    BY <1>1, <1>3 DEF Has, HoldingPc
  <2>3. Distinct'
    BY <2>1, <1>1, <1>3 DEF Orderly, Distinct
  <2>4. OneHolder' /\ HeldIsLocked'
    BY ONLY <2>1, <2>2, <1>1 DEF Orderly, OneHolder, HeldIsLocked
  <2>5. OwnerHolds'
    BY <2>1, <1>1, <1>3 DEF Orderly, OwnerHolds, HoldingPc
  <2>6. LineIsHolders'
    BY <2>1, <1>1, <1>2, <1>3 DEF Orderly, LineIsHolders
  <2> QED BY <2>3, <2>4, <2>5, <2>6 DEF Orderly
<1>4. CASE Enter(c) /\ pc'[c] = "own" /\ Me(c)' = Me(c)
  <2>1. /\ ~clash \/ Others(c) = {}
        /\ \A d \in Others(c) : Me(d) # Me(c)
    BY <1>4 DEF Enter
  <2>2. \A d \in Cpu \ {c} : pc[d] # "idle" => Me(d) # Me(c)
    BY <2>1 DEF Others
  <2>3. owner # Me(c)
    <3> SUFFICES ASSUME owner = Me(c) PROVE FALSE
      OBVIOUS
    <3>1. owner # NoOwner
      BY NumberIs
    <3>2. PICK d \in Cpu : Me(d) = owner /\ pc[d] \in HoldingPc \union {"own"}
      BY <3>1 DEF OwnerIsBusy
    <3>3. d # c /\ pc[d] # "idle"
      BY <3>2, <1>1 DEF HoldingPc
    <3> QED BY <3>2, <3>3, <2>2
  <2>4. CASE ~clash
    <3>1. Orderly
      BY <2>4
    <3>2. \A d \in Cpu : Has(d)' = Has(d)
      BY <1>1, <1>4, <2>3 DEF Has, HoldingPc
    <3>3. Distinct'
      BY <3>1, <1>1, <1>4, <2>2 DEF Orderly, Distinct
    <3>4. OneHolder' /\ HeldIsLocked'
      BY ONLY <3>1, <3>2, <1>1 DEF Orderly, OneHolder, HeldIsLocked
    <3>5. OwnerHolds'
      BY <3>1, <1>1, <1>4, <2>3 DEF Orderly, OwnerHolds, HoldingPc
    <3>6. LineIsHolders'
      BY <3>1, <1>1, <1>2, <1>4 DEF Orderly, LineIsHolders
    <3> QED BY <3>3, <3>4, <3>5, <3>6 DEF Orderly
  <2>5. CASE Others(c) = {}
    <3>1. \A d \in Cpu : pc[d] = "idle"
      BY <2>5, <1>1 DEF Others
    <3>2. owner = NoOwner
      BY <3>1 DEF OwnerIsBusy, HoldingPc
    <3>3. line = {}
      BY <3>1, <1>2 DEF LineIsUnderWay, HoldingPc
    <3>4. \A d \in Cpu : pc'[d] \in {"own", "idle"} /\ ~Has(d)'
      <4>1. \A d \in Cpu : Me(d)' # NoOwner
        <5>1. \A d \in Cpu \ {c} : Me(d)' = Me(d)
          BY <1>1
        <5> QED BY <5>1, <1>4, NumberIs
      <4> QED BY <4>1, <3>1, <3>2, <1>1, <1>4 DEF Has, HoldingPc
    <3>5. Distinct'
      BY <3>1, <1>1 DEF Distinct
    <3>6. OneHolder' /\ HeldIsLocked'
      BY ONLY <3>4 DEF OneHolder, HeldIsLocked
    <3>7. OwnerHolds' /\ LineIsHolders'
      BY <3>3, <3>4, <1>1 DEF OwnerHolds, LineIsHolders, HoldingPc
    <3> QED BY <3>5, <3>6, <3>7 DEF Orderly
  <2> QED BY <2>1, <2>4, <2>5
<1> QED BY <1>1, <1>3, <1>4

\* The lock protects the line: who has it is recognised by SERIAL_OWNER, and
\* only its holder has written on the current line.
LEMMA SerialInvariant == Spec => []SerialInv
<1> USE DEF SerialInv
<1>1. Init /\ TypeOK => SerialInv
  BY DEF Init, OwnerIsBusy, LockIsClaimed, LineIsUnderWay, Orderly, Distinct, OneHolder,
         HeldIsLocked, OwnerHolds, LineIsHolders, Has, HoldingPc
<1>2. SerialInv /\ TypeOK' /\ [Next]_vars => SerialInv'
  <2> SUFFICES ASSUME SerialInv, TypeOK', [Next]_vars PROVE SerialInv'
    OBVIOUS
  <2>1. ASSUME NEW c \in Cpu, Begin(c) PROVE SerialInv'
    <3>1. OwnerIsBusy' /\ LockIsClaimed' /\ LineIsUnderWay'
      BY <2>1, BeginKeepsTrack
    <3>2. ~clash' => Orderly'
      BY <2>1, BeginIsOrderly
    <3> QED BY <3>1, <3>2
  <2>2. ASSUME NEW c \in Cpu, Proceed(c) PROVE SerialInv'
    <3>1. OwnerIsBusy' /\ LockIsClaimed' /\ LineIsUnderWay'
      BY <2>2, ProceedKeepsTrack
    <3>2. clash' = clash
      BY <2>2, ProceedFrame
    <3>3. ~clash' => Orderly'
      BY <2>2, <3>2, ProceedIsOrderly
    <3> QED BY <3>1, <3>3
  <2>3. CASE UNCHANGED vars
    BY <2>3 DEF vars, ids, OwnerIsBusy, LockIsClaimed, LineIsUnderWay, Orderly, Distinct,
                OneHolder, HeldIsLocked, OwnerHolds, LineIsHolders, Has, Me
  <2> QED BY <2>1, <2>2, <2>3 DEF Next
<1>3. Spec => []TypeOK
  BY SerialTypeOK
<1> QED BY <1>1, <1>2, <1>3, PTL DEF Spec

\* No message is split on the port, whatever stacks the processors are on,
\* but for the time in which two of them pass for one another (acquire_line,
\* release_line, write_host_byte, guest_putchar_line).
THEOREM SerialWholeLines == Spec => []WholeLines
<1>1. SerialInv => WholeLines
  BY DEF SerialInv, Orderly, WholeLines, NeverSplit, LineIsHolders, TypeOK, Distinct,
         HoldingPc
<1>2. Spec => []SerialInv
  BY SerialInvariant
<1> QED BY <1>1, <1>2, PTL

\* The lock is taken only together with a processor that will give it back
\* (acquire_line, release_line): no path through a message loses it, and no
\* two processors that pass for one another do.
THEOREM SerialLockHasHolder == Spec => []LockHasHolder
<1>1. SerialInv => LockHasHolder
  <2> SUFFICES ASSUME SerialInv, lock PROVE \E c \in Cpu : Has(c)
    BY DEF LockHasHolder
  <2>1. CASE owner = NoOwner
    BY <2>1 DEF SerialInv, LockIsClaimed, Has
  <2>2. CASE owner # NoOwner
    BY <2>2 DEF SerialInv, OwnerIsBusy, Has
  <2> QED BY <2>1, <2>2
<1>2. Spec => []SerialInv
  BY SerialInvariant
<1> QED BY <1>1, <1>2, PTL

(***************************************************************************)
(* The card: arithmetic of its rings                                       *)
(***************************************************************************)

LEMMA CardSizes ==
  /\ TxSlots \in Nat /\ TxSlots >= 1 /\ RxSlots \in Nat /\ RxSlots >= 1
  /\ DescSize \in Nat /\ DescSize >= 1 /\ OutBound \in Nat
  /\ MaxQueued \in Nat /\ MaxArrived \in Nat
  /\ MaxSetups \in Nat /\ MaxSetups >= 1
BY SizeAssumption

\* A length the ring may have makes no more descriptors than there are.
LEMMA RingSlotsFit ==
  ASSUME NEW slots \in Nat, NEW length \in 0 .. slots * DescSize
  PROVE  RingSlots(length) \in 0 .. slots
<1> DEFINE q == length \div DescSize
           r == length % DescSize
<1>1. q \in Int /\ r \in Int /\ length = DescSize * q + r /\ 0 <= r /\ r < DescSize
  BY CardSizes
<1> HIDE DEF q, r
<1>2. q >= 0
  <2> SUFFICES ASSUME q <= -1 PROVE FALSE
    BY <1>1
  <2>1. DescSize * q <= DescSize * (-1)
    BY <1>1, CardSizes
  <2> QED BY <1>1, <2>1, CardSizes
<1>3. q <= slots
  <2> SUFFICES ASSUME q >= slots + 1 PROVE FALSE
    BY <1>1, CardSizes
  <2>1. DescSize * q >= DescSize * (slots + 1)
    BY <1>1, CardSizes
  <2>2. DescSize * (slots + 1) = slots * DescSize + DescSize
    BY CardSizes
  <2>3. slots * DescSize \in Nat
    BY CardSizes
  <2> QED BY <1>1, <2>1, <2>2, <2>3, CardSizes
<1> QED BY <1>1, <1>2, <1>3, CardSizes DEF RingSlots, q

LEMMA NextSlotIs ==
  ASSUME NEW n \in Nat \ {0}, NEW i \in 0 .. n - 1
  PROVE  /\ NextSlot(i, n) = IF i + 1 = n THEN 0 ELSE i + 1
         /\ NextSlot(i, n) \in 0 .. n - 1
<1>1. i + 1 = n => (i + 1) % n = 0
  OBVIOUS
<1>2. i + 1 < n => (i + 1) % n = i + 1
  OBVIOUS
<1> QED BY <1>1, <1>2 DEF NextSlot

LEMMA DriverSlotsFit == CardTypeOK => DriverSlots \in 0 .. TxSlots
<1> SUFFICES ASSUME CardTypeOK PROVE DriverSlots \in 0 .. TxSlots
  OBVIOUS
<1>1. tdlen \in 0 .. TxSlots * DescSize /\ stored.tdlen \in 0 .. TxSlots * DescSize
  BY DEF CardTypeOK, TxTypeOK
<1>2. RingSlots(tdlen) \in 0 .. TxSlots /\ RingSlots(stored.tdlen) \in 0 .. TxSlots
  BY <1>1, CardSizes, RingSlotsFit
<1> QED BY <1>2 DEF DriverSlots

(***************************************************************************)
(* Sequences of frames that rise                                           *)
(***************************************************************************)

LEMMA RisesAppend ==
  ASSUME NEW m \in Nat, NEW s \in Seq(0 .. m), NEW f \in 0 .. m,
         Rises(s), \A x \in ToSet(s) : x < f
  PROVE  /\ Append(s, f) \in Seq(0 .. m)
         /\ Rises(Append(s, f))
         /\ ToSet(Append(s, f)) = ToSet(s) \cup {f}
<1> DEFINE t == Append(s, f)
<1>1. /\ t \in Seq(0 .. m) /\ Len(t) = Len(s) + 1 /\ Len(s) \in Nat
      /\ t[Len(s) + 1] = f
      /\ \A i \in 1 .. Len(s) : t[i] = s[i]
  OBVIOUS
<1>2. DOMAIN t = 1 .. Len(s) + 1 /\ DOMAIN s = 1 .. Len(s)
  BY <1>1, LenProperties
<1> HIDE DEF t
<1>3. \A i \in 1 .. Len(s) : s[i] \in ToSet(s) /\ s[i] \in 0 .. m
  BY <1>2 DEF ToSet
<1>4. Rises(t)
  <2> SUFFICES ASSUME NEW i \in 1 .. Len(s) PROVE t[i] < t[i + 1]
    BY <1>1 DEF Rises
  <2>1. CASE i = Len(s)
    BY <1>1, <1>3, <2>1
  <2>2. CASE i < Len(s)
    <3>1. i \in 1 .. Len(s) - 1 /\ i + 1 \in 1 .. Len(s)
      BY <1>1, <2>2
    <3> QED BY <1>1, <3>1 DEF Rises
  <2> QED BY <2>1, <2>2, <1>1
<1>5. ToSet(t) = ToSet(s) \cup {f}
  <2>1. ASSUME NEW x \in ToSet(t) PROVE x \in ToSet(s) \cup {f}
    <3>1. PICK i \in 1 .. Len(s) + 1 : x = t[i]
      BY <1>2, <2>1 DEF ToSet
    <3> QED BY <1>1, <1>3, <3>1
  <2>2. ASSUME NEW x \in ToSet(s) \cup {f} PROVE x \in ToSet(t)
    <3>1. CASE x = f
      <4>1. Len(s) + 1 \in DOMAIN t /\ t[Len(s) + 1] = x
        BY <1>1, <1>2, <3>1
      <4> QED BY Zenon, <4>1 DEF ToSet
    <3>2. CASE x \in ToSet(s)
      <4>1. PICK i \in 1 .. Len(s) : x = s[i]
        BY <1>2, <3>2 DEF ToSet
      <4>2. i \in DOMAIN t /\ t[i] = x
        BY <1>1, <1>2, <4>1
      <4> QED BY Zenon, <4>2 DEF ToSet
    <3> QED BY <2>2, <3>1, <3>2
  <2> QED BY <2>1, <2>2
<1> QED BY <1>1, <1>4, <1>5 DEF t

(***************************************************************************)
(* The card: transmission                                                  *)
(***************************************************************************)

LEMMA CardStarts == CardInit => CardTypeOK /\ TxInv
<1> SUFFICES ASSUME CardInit PROVE CardTypeOK /\ TxInv
  OBVIOUS
<1> USE CardSizes DEF CardInit
<1>1. 0 \in TxSlot /\ 0 \in RxSlot /\ 0 \in TxFrame /\ 0 \in RxFrame
  BY DEF TxSlot, RxSlot, TxFrame, RxFrame
<1>2. TxSlots * DescSize \in Nat /\ RxSlots * DescSize \in Nat
  OBVIOUS
<1>3. NoTx \in [frame : TxFrame, good : BOOLEAN, dd : BOOLEAN]
      /\ NoRx \in [buffer : BOOLEAN, frame : RxFrame, dd : BOOLEAN]
  BY <1>1 DEF NoTx, NoRx
<1>4. <<>> \in Seq(TxFrame) /\ <<>> \in Seq(RxFrame) /\ Len(<<>>) = 0
  OBVIOUS
<1>5. TxTypeOK
  <2>1. tx \in [TxSlot -> [frame : TxFrame, good : BOOLEAN, dd : BOOLEAN]]
    BY <1>3
  <2>2. stored \in [tdt : TxSlot, tdlen : 0 .. TxSlots * DescSize]
        /\ tdlen \in 0 .. TxSlots * DescSize
    BY <1>1, <1>2
  <2>3. setup \in Setup /\ setups \in 1 .. MaxSetups /\ vm_id \in {0, 1}
    BY DEF Setup
  <2>4. out \in Seq(TxFrame) /\ Len(out) <= OutBound /\ sent \in Seq(TxFrame)
    BY <1>4
  <2>5. icr \subseteq {TXDW, RXT0} /\ dropped \subseteq TxFrame
    OBVIOUS
  <2> QED BY <1>1, <2>1, <2>2, <2>3, <2>4, <2>5 DEF TxTypeOK
<1>6. RxTypeOK
  <2>1. rx \in [RxSlot -> [buffer : BOOLEAN, frame : RxFrame, dd : BOOLEAN]]
    BY <1>3
  <2>2. storedRx \in [rdlen : 0 .. RxSlots * DescSize, rdbal : Base]
        /\ rdlen \in 0 .. RxSlots * DescSize /\ rdbal \in Base
    BY <1>2 DEF Base
  <2> QED BY <1>1, <1>4, <2>1, <2>2 DEF RxTypeOK
<1>7. \A i \in TxSlot : tx[i].frame = 0 /\ ~tx[i].good
  BY DEF NoTx
<1>8. Rises(sent) /\ ToSet(sent) = {} /\ 1 .. 0 = {}
  BY DEF Rises, ToSet
<1> QED BY <1>5, <1>6, <1>7, <1>8 DEF CardTypeOK, TxInv, Blank, Books, Busy

LEMMA TransmitTypes ==
  ASSUME out \in Seq(TxFrame), Len(out) <= OutBound, sent \in Seq(TxFrame),
         dropped \subseteq TxFrame,
         NEW d \in [frame : TxFrame, good : BOOLEAN, dd : BOOLEAN], Transmit(d)
  PROVE  /\ out' \in Seq(TxFrame) /\ Len(out') <= OutBound
         /\ sent' \in Seq(TxFrame) /\ dropped' \subseteq TxFrame
<1>1. d.frame \in TxFrame
  OBVIOUS
<1>2. dropped' \subseteq TxFrame
  BY <1>1 DEF Transmit
<1>3. sent' = sent \/ sent' = Append(sent, d.frame)
  BY Zenon DEF Transmit
<1>4. out' = out \/ (out' = Append(out, d.frame) /\ ~(Len(out) >= OutBound))
  BY Zenon DEF Transmit
<1>5. Len(out) \in Nat /\ OutBound \in Nat
  BY LenProperties, CardSizes
<1>6. /\ Append(out, d.frame) \in Seq(TxFrame)
      /\ Len(Append(out, d.frame)) = Len(out) + 1
      /\ Append(sent, d.frame) \in Seq(TxFrame)
  BY <1>1, AppendProperties
<1>7. sent' \in Seq(TxFrame)
  <2>1. CASE sent' = sent
    BY Zenon, <2>1
  <2>2. CASE sent' = Append(sent, d.frame)
    BY Zenon, <1>6, <2>2
  <2> QED BY <1>3, <2>1, <2>2
<1>8. out' \in Seq(TxFrame) /\ Len(out') <= OutBound
  <2>1. CASE out' = out
    BY Zenon, <2>1
  <2>2. CASE out' = Append(out, d.frame) /\ ~(Len(out) >= OutBound)
    <3>1. out' \in Seq(TxFrame) /\ Len(out') = Len(out) + 1
      BY Zenon, <1>6, <2>2
    <3> QED BY <1>5, <2>2, <3>1
  <2> QED BY <1>4, <2>1, <2>2
<1> QED BY <1>2, <1>7, <1>8

LEMMA TxTypes ==
  ASSUME CardTypeOK, TxInv, CardNext
  PROVE  TxTypeOK'
<1> USE CardSizes DEF CardTypeOK, TxTypeOK
<1>1. 0 \in TxSlot /\ 0 \in TxFrame
  BY DEF TxSlot, TxFrame
<1>2. \A i \in TxSlot : tx[i] \in [frame : TxFrame, good : BOOLEAN, dd : BOOLEAN]
  OBVIOUS
<1>3. TxSlots \in Nat /\ setup \in Setup
  OBVIOUS
<1>4. ASSUME NEW tail \in TxSlot, NEW length \in 0 .. TxSlots * DescSize,
             ProcessTx(tail, length)
      PROVE  /\ tdh' \in TxSlot /\ tdt' \in TxSlot
             /\ tdlen' \in 0 .. TxSlots * DescSize
             /\ icr' \subseteq {TXDW, RXT0}
             /\ tx' \in [TxSlot -> [frame : TxFrame, good : BOOLEAN, dd : BOOLEAN]]
             /\ out' \in Seq(TxFrame) /\ Len(out') <= OutBound
             /\ sent' \in Seq(TxFrame) /\ dropped' \subseteq TxFrame
             /\ halted' \in BOOLEAN
  <2>1. RingSlots(length) \in 0 .. TxSlots
    BY <1>3, RingSlotsFit
  <2>2. icr' \subseteq {TXDW, RXT0} /\ halted' \in BOOLEAN
    BY <1>4 DEF ProcessTx, Raise
  <2>3. tx' \in [TxSlot -> [frame : TxFrame, good : BOOLEAN, dd : BOOLEAN]]
    <3> DEFINE d == [tx[tdh] EXCEPT !.dd = TRUE]
    <3>1. d \in [frame : TxFrame, good : BOOLEAN, dd : BOOLEAN]
      BY <1>2
    <3>2. tx' = tx \/ tx' = [tx EXCEPT ![tdh] = d]
      BY <1>4 DEF ProcessTx
    <3> HIDE DEF d
    <3> QED BY <3>1, <3>2
  <2>4. out' \in Seq(TxFrame) /\ Len(out') <= OutBound
        /\ sent' \in Seq(TxFrame) /\ dropped' \subseteq TxFrame
    <3>1. tx[tdh].frame \in TxFrame
      BY <1>2
    <3>2. CASE HasWork(tail, length)
      <4>1. Transmit(tx[tdh])
        BY <1>4, <3>2 DEF ProcessTx
      <4> QED BY <1>2, <4>1, TransmitTypes
    <3>3. CASE ~HasWork(tail, length)
      BY <1>4, <3>3 DEF ProcessTx
    <3> QED BY <3>2, <3>3
  <2>5. tdh' \in TxSlot
    <3>1. CASE tdh' = tdh
      BY <3>1
    <3>2. CASE tdh' # tdh
      <4>1. tdh' = (tdh + 1) % RingSlots(length) /\ RingSlots(length) > 0
        BY <1>4, <2>1, <3>2 DEF ProcessTx, NextSlot
      <4>2. tdh + 1 \in Nat
        BY DEF TxSlot
      <4>3. tdh' \in 0 .. RingSlots(length) - 1
        BY <2>1, <4>1, <4>2
      <4> QED BY <2>1, <4>3 DEF TxSlot
    <3> QED BY <3>1, <3>2
  <2> QED BY <1>4, <2>2, <2>3, <2>4, <2>5 DEF ProcessTx
<1>5. ASSUME NEW tail \in TxSlot, WriteTdt(tail)
      PROVE  /\ tdh' \in TxSlot /\ tdt' \in TxSlot
             /\ tdlen' \in 0 .. TxSlots * DescSize
             /\ icr' \subseteq {TXDW, RXT0}
             /\ stored' \in [tdt : TxSlot, tdlen : 0 .. TxSlots * DescSize]
             /\ tx' \in [TxSlot -> [frame : TxFrame, good : BOOLEAN, dd : BOOLEAN]]
             /\ out' \in Seq(TxFrame) /\ Len(out') <= OutBound
             /\ sent' \in Seq(TxFrame) /\ dropped' \subseteq TxFrame
             /\ halted' \in BOOLEAN
  <2>1. CASE trapped
    BY <1>4, <1>5, <2>1 DEF WriteTdt
  <2>2. CASE ~trapped
    BY <1>5, <2>2 DEF WriteTdt
  <2> QED BY <2>1, <2>2
<1>6. ASSUME setup = "up", DriverSlots > 0
      PROVE  NextSlot(ntu, DriverSlots) \in TxSlot /\ NextSlot(ntc, DriverSlots) \in TxSlot
  <2>1. DriverSlots \in 1 .. TxSlots
    BY <1>6, DriverSlotsFit
  <2>2. ntu \in 0 .. DriverSlots - 1 /\ ntc \in 0 .. DriverSlots - 1
    BY <1>6, <2>1 DEF TxInv, Indices, InRing, TxSlot
  <2>3. NextSlot(ntu, DriverSlots) \in 0 .. DriverSlots - 1
        /\ NextSlot(ntc, DriverSlots) \in 0 .. DriverSlots - 1
    <3> DEFINE n == DriverSlots
    <3>1. n \in Nat \ {0} /\ ntu \in 0 .. n - 1 /\ ntc \in 0 .. n - 1
      BY <2>1, <2>2
    <3> HIDE DEF n
    <3>2. NextSlot(ntu, n) \in 0 .. n - 1 /\ NextSlot(ntc, n) \in 0 .. n - 1
      BY <3>1, NextSlotIs
    <3> QED BY <3>2 DEF n
  <2> QED BY <2>1, <2>3 DEF TxSlot
<1>7. CASE Reset
  <2>1. Pending \subseteq TxFrame
    BY DEF Pending
  <2>2. setups' \in 1 .. MaxSetups
    BY <1>7 DEF Reset
  <2> QED BY <1>1, <1>7, <2>1, <2>2 DEF Reset, Setup, rxVars
<1>8. CASE \E l \in Lengths : SetTdlen(l)
  <2>1. PICK l \in 0 .. TxSlots * DescSize : SetTdlen(l)
    BY <1>8, SizeAssumption
  <2> QED BY <2>1 DEF SetTdlen, Setup, rxVars
<1>9. CASE SetTdh
  <2>1. tx' \in [TxSlot -> [frame : TxFrame, good : BOOLEAN, dd : BOOLEAN]]
    BY <1>1, <1>9 DEF SetTdh, NoTx
  <2> QED BY <1>1, <1>9, <2>1 DEF SetTdh, Setup, rxVars
<1>10. CASE SetTdt
  BY <1>1, <1>5, <1>10 DEF SetTdt, Setup, rxVars
<1>11. CASE SetRdh \/ (\E l \in RxLengths : SetRdlen(l))
           \/ (\E base \in Base \ {"zero"} : SetRdbal(base))
  BY <1>11 DEF SetRdh, SetRdlen, SetRdbal, Setup, txVars
<1>12. CASE Ring
  BY <1>5, <1>12 DEF Ring, rxVars
<1>13. CASE Clean
  <2>1. DriverSlots > 0
    BY <1>13, DriverSlotsFit DEF Clean, TxInv, Indices, InRing, TxSlot
  <2> QED BY <1>6, <1>13, <2>1 DEF Clean, rxVars
<1>14. CASE TakeOut
  <2>1. out' \in Seq(TxFrame) /\ Len(out') <= OutBound
    BY <1>14 DEF TakeOut
  <2> QED BY <1>14, <2>1 DEF TakeOut, rxVars
<1>15. CASE SyncMmio
  BY <1>4, <1>15 DEF SyncMmio, rxVars
<1>16. ASSUME NEW good \in BOOLEAN, Queue(good)
       PROVE  TxTypeOK'
  <2>1. queued + 1 \in TxFrame
    BY <1>16 DEF Queue, TxFrame
  <2>2. tx' \in [TxSlot -> [frame : TxFrame, good : BOOLEAN, dd : BOOLEAN]]
    BY <1>16, <2>1 DEF Queue
  <2>3. ntu' \in TxSlot
    <3>1. DriverSlots > 0
      BY <1>16, DriverSlotsFit DEF Queue
    <3> QED BY <1>6, <1>16, <3>1 DEF Queue
  <2> QED BY <1>16, <2>1, <2>2, <2>3 DEF Queue, rxVars
<1>17. CASE DeliverRxPacket
  <2>1. icr' \subseteq {TXDW, RXT0} /\ halted' \in BOOLEAN
    BY <1>17 DEF DeliverRxPacket, Raise
  <2> QED BY <1>17, <2>1 DEF DeliverRxPacket, txVars
<1>18. CASE Receive
  BY <1>18 DEF Receive, ReadIcr, Look, ReadFrame, RingEmpty, txVars
<1>19. ASSUME NEW i \in RxSlot, Post(i)
       PROVE  TxTypeOK'
  BY <1>19 DEF Post, txVars
<1> QED
  BY <1>7, <1>8, <1>9, <1>10, <1>11, <1>12, <1>13, <1>14, <1>15, <1>16, <1>17,
     <1>18, <1>19
  DEF CardNext, SetUp

LEMMA AheadType ==
  ASSUME NEW n \in Nat, NEW a \in Nat, NEW b \in Nat,
         a = 0 \/ a < n, b = 0 \/ b < n
  PROVE  /\ Ahead(a, b, n) \in Nat
         /\ Ahead(a, b, n) = 0 <=> a = b
         /\ n > 0 => Ahead(a, b, n) < n
BY DEF Ahead

\* A slot between two others divides the way.
LEMMA AheadSplits ==
  ASSUME NEW n \in Nat, NEW a \in 0 .. n - 1, NEW b \in 0 .. n - 1,
         NEW i \in 0 .. n - 1, Ahead(a, i, n) < Ahead(a, b, n)
  PROVE  Ahead(a, i, n) + Ahead(i, b, n) = Ahead(a, b, n)
BY DEF Ahead

LEMMA AheadNext ==
  ASSUME NEW n \in Nat, NEW a \in 0 .. n - 1, NEW b \in 0 .. n - 1
  PROVE  /\ a # b => Ahead(NextSlot(a, n), b, n) = Ahead(a, b, n) - 1
         /\ a = b => Ahead(NextSlot(a, n), b, n) = n - 1
         /\ NextSlot(b, n) # a => Ahead(a, NextSlot(b, n), n) = Ahead(a, b, n) + 1
         /\ Ahead(a, b, n) < n - 1 <=> NextSlot(b, n) # a
<1>1. NextSlot(a, n) = (IF a + 1 = n THEN 0 ELSE a + 1)
      /\ NextSlot(b, n) = (IF b + 1 = n THEN 0 ELSE b + 1)
  BY NextSlotIs, n \in Nat \ {0}
<1> QED BY <1>1 DEF Ahead

LEMMA AheadDiffers ==
  ASSUME NEW n \in Nat, NEW a \in 0 .. n - 1, NEW b \in 0 .. n - 1,
         NEW c \in 0 .. n - 1, b # c
  PROVE  Ahead(a, b, n) # Ahead(a, c, n)
BY DEF Ahead

LEMMA RingSlotsOfZero == RingSlots(0) = 0
<1>1. 0 \div DescSize = 0
  BY CardSizes
<1> QED BY <1>1 DEF RingSlots

\* The ring types of transmission, as numbers.
LEMMA TxSizes ==
  ASSUME CardTypeOK
  PROVE  /\ TxSlots \in Nat /\ TxSlot = 0 .. TxSlots - 1 /\ tdh \in TxSlot
         /\ sent \in Seq(TxFrame)
         /\ tx \in [TxSlot -> [frame : TxFrame, good : BOOLEAN, dd : BOOLEAN]]
         /\ \A i \in TxSlot : tx[i].frame \in TxFrame /\ tx[i].frame \in Nat
<1>1. TxSlots \in Nat /\ TxSlot = 0 .. TxSlots - 1
  BY CardSizes DEF TxSlot
<1>2. tdh \in TxSlot /\ sent \in Seq(TxFrame)
  BY DEF CardTypeOK, TxTypeOK
<1>3. tx \in [TxSlot -> [frame : TxFrame, good : BOOLEAN, dd : BOOLEAN]]
  BY DEF CardTypeOK, TxTypeOK
<1>4. \A i \in TxSlot : tx[i].frame \in TxFrame
  BY ONLY <1>3
<1>5. TxFrame \subseteq Nat
  BY CardSizes DEF TxFrame
<1> QED BY ONLY <1>1, <1>2, <1>3, <1>4, <1>5

\* The indices of a driver that is up, as numbers.
LEMMA IndexTypes ==
  ASSUME CardTypeOK, TxInv, setup = "up"
  PROVE  /\ DriverSlots \in Nat /\ DriverSlots <= TxSlots
         /\ tdh \in Nat /\ ntu \in Nat /\ ntc \in Nat /\ queued \in Nat /\ stored.tdt \in Nat
         /\ DriverSlots = 0 => tdh = 0 /\ ntu = 0 /\ ntc = 0
         /\ DriverSlots > 0 =>
              /\ tdh \in 0 .. DriverSlots - 1 /\ ntu \in 0 .. DriverSlots - 1
              /\ ntc \in 0 .. DriverSlots - 1
         /\ Busy = Ahead(tdh, ntu, DriverSlots) /\ Busy \in Nat /\ Busy <= queued
         /\ Ahead(ntc, tdh, DriverSlots) \in Nat
         /\ DriverSlots > 0 => Ahead(ntc, tdh, DriverSlots) + Busy < DriverSlots
<1>1. DriverSlots \in 0 .. TxSlots
  BY DriverSlotsFit
<1>2. tdh \in Nat /\ ntu \in Nat /\ ntc \in Nat /\ queued \in Nat /\ stored.tdt \in Nat
  BY CardSizes DEF CardTypeOK, TxTypeOK, TxSlot, TxFrame
<1>3. InRing(tdh) /\ InRing(ntu) /\ InRing(ntc)
  BY DEF TxInv, Indices
<1>4. Busy = Ahead(tdh, ntu, DriverSlots) /\ Busy <= queued
  BY DEF TxInv, Books, Busy
<1>5. Ahead(ntc, tdh, DriverSlots) + Ahead(tdh, ntu, DriverSlots) = Ahead(ntc, ntu, DriverSlots)
  BY DEF TxInv, Indices
<1> DEFINE n == DriverSlots
<1>6. n \in Nat /\ n <= TxSlots
  BY <1>1, CardSizes
<1>7. (tdh = 0 \/ tdh < n) /\ (ntu = 0 \/ ntu < n) /\ (ntc = 0 \/ ntc < n)
  BY <1>3 DEF InRing
<1> HIDE DEF n
<1>8. /\ Ahead(tdh, ntu, n) \in Nat /\ Ahead(ntc, tdh, n) \in Nat
      /\ n > 0 => Ahead(ntc, ntu, n) < n
  BY <1>2, <1>6, <1>7, AheadType
<1> QED BY <1>2, <1>4, <1>5, <1>6, <1>7, <1>8 DEF n

\* What is pending are the frames queued last.
LEMMA PendingIs ==
  ASSUME CardTypeOK, TxInv, setup = "up"
  PROVE  Pending = (queued - Busy) + 1 .. queued
<1> DEFINE n == DriverSlots
<1>1. /\ n \in Nat /\ tdh \in Nat /\ ntu \in Nat /\ queued \in Nat
      /\ Busy \in Nat /\ Busy = Ahead(tdh, ntu, n) /\ Busy <= queued
      /\ n = 0 => tdh = 0 /\ ntu = 0
      /\ n > 0 => tdh \in 0 .. n - 1 /\ ntu \in 0 .. n - 1
  BY IndexTypes
<1>2. /\ TxSlot = 0 .. TxSlots - 1 /\ n <= TxSlots /\ TxSlots \in Nat
      /\ \A i \in TxSlot : tx[i].frame \in Nat
      /\ \A i \in TxSlot :
           IF i < n /\ Ahead(tdh, i, n) < Busy
           THEN ~tx[i].dd /\ tx[i].frame + Ahead(i, ntu, n) = queued + 1
           ELSE tx[i].dd \/ tx[i].frame = 0
  <2>1. \A i \in TxSlot : tx[i].frame \in Nat
    BY ONLY CardTypeOK, TxSizes
  <2> QED BY <2>1, IndexTypes, CardSizes DEF TxSlot, TxInv, Descriptors
<1> HIDE DEF n
<1>3. ASSUME NEW f \in Pending PROVE f \in (queued - Busy) + 1 .. queued
  <2>1. PICK i \in TxSlot : ~tx[i].dd /\ tx[i].frame > 0 /\ f = tx[i].frame
    BY <1>3 DEF Pending
  <2>2. i < n /\ Ahead(tdh, i, n) < Busy /\ f + Ahead(i, ntu, n) = queued + 1
    BY <1>2, <2>1
  <2>3. i \in 0 .. n - 1 /\ Ahead(tdh, i, n) \in Nat
    BY <1>1, <1>2, <2>2, AheadType
  <2>4. Ahead(tdh, i, n) + Ahead(i, ntu, n) = Busy
    BY <1>1, <2>2, <2>3, AheadSplits
  <2>5. Ahead(i, ntu, n) \in Nat /\ f \in Nat
    BY <1>1, <1>2, <2>1, <2>3, AheadType
  <2> QED BY <1>1, <2>2, <2>3, <2>4, <2>5
<1>4. ASSUME NEW f \in (queued - Busy) + 1 .. queued PROVE f \in Pending
  <2> DEFINE k == (queued + 1) - f
             i == IF ntu >= k THEN ntu - k ELSE (ntu + n) - k
  <2>1. k \in 1 .. Busy /\ f > 0 /\ f \in Nat
    BY <1>1
  <2>2. n > 0 /\ Busy < n
    <3>1. n > 0
      BY <1>1, <2>1 DEF Ahead
    <3> QED BY <1>1, <3>1, AheadType
  <2>3. i \in 0 .. n - 1 /\ Ahead(i, ntu, n) = k
    BY <1>1, <2>1, <2>2 DEF Ahead
  <2>4. Ahead(tdh, i, n) = Busy - k
    BY <1>1, <2>1, <2>2 DEF Ahead
  <2> HIDE DEF i
  <2>5. i \in TxSlot
    BY <1>1, <1>2, <2>3
  <2>6. ~tx[i].dd /\ tx[i].frame + k = queued + 1
    <3>1. IF i < n /\ Ahead(tdh, i, n) < Busy
          THEN ~tx[i].dd /\ tx[i].frame + Ahead(i, ntu, n) = queued + 1
          ELSE tx[i].dd \/ tx[i].frame = 0
      BY ONLY <1>2, <2>5
    <3>2. i < n /\ Ahead(tdh, i, n) < Busy
      BY ONLY <1>1, <2>1, <2>3, <2>4
    <3> QED BY ONLY <2>3, <3>1, <3>2
  <2>7. tx[i].frame = f
    <3>1. tx[i].frame \in Nat
      BY ONLY <1>2, <2>5
    <3> QED BY ONLY <1>1, <2>1, <2>6, <3>1 DEF k
  <2> QED BY <2>1, <2>5, <2>6, <2>7 DEF Pending
<1> QED BY <1>3, <1>4

LEMMA TransmitOutcome ==
  ASSUME NEW d, Transmit(d), d.good => d.frame # 0
  PROVE  \/ dropped' = dropped \cup ({d.frame} \ {0}) /\ sent' = sent
         \/ d.good /\ sent' = Append(sent, d.frame) /\ dropped' = dropped
<1>1. CASE ~d.good
  BY Zenon, <1>1 DEF Transmit
<1>2. CASE d.good
  <2>1. {d.frame} = {d.frame} \ {0}
    BY <1>2
  <2>2. \/ dropped' = dropped \cup {d.frame} /\ sent' = sent
        \/ sent' = Append(sent, d.frame) /\ dropped' = dropped
    BY Zenon, <1>2 DEF Transmit
  <2> QED BY <1>2, <2>1, <2>2
<1> QED BY <1>1, <1>2

\* Nothing of the transmit ring changes.
LEMMA TxStays ==
  ASSUME TxInv, DriverSlots' = DriverSlots, stored'.tdt = stored.tdt,
         UNCHANGED <<trapped, setup, tdh, tx, queued, ntu, ntc, sent, dropped>>
  PROVE  TxInv'
<1>1. Busy' = Busy
  BY DEF Busy, Ahead
<1>2. Books'
  BY <1>1 DEF TxInv, Books
<1>3. Blank => Blank'
  BY DEF Blank
<1>4. Descriptors => Descriptors'
  BY <1>1 DEF Descriptors, Ahead
<1>5. Indices => Indices'
  BY DEF Indices, InRing, Ahead
<1> QED BY <1>2, <1>3, <1>4, <1>5 DEF TxInv

\* process_tx keeps the books: the frame at the head, the oldest in the ring,
\* leaves it, sent or dropped, and only if the tail is ahead.
LEMMA SendKeepsOrder ==
  ASSUME CardTypeOK, TxInv, setup = "up",
         NEW tail \in Nat, NEW length, RingSlots(length) = DriverSlots,
         InRing(tail),
         Ahead(tdh, tail, DriverSlots) <= Ahead(tdh, ntu, DriverSlots),
         ~trapped => tail = stored.tdt,
         ProcessTx(tail, length), DriverSlots' = DriverSlots,
         UNCHANGED <<trapped, setup, stored, queued, ntu, ntc>>
  PROVE  TxInv'
<1> DEFINE n == DriverSlots
           d == tx[tdh]
<1>1. /\ n \in Nat /\ n <= TxSlots /\ tdh \in Nat /\ ntu \in Nat /\ ntc \in Nat
      /\ queued \in Nat /\ Busy \in Nat /\ Busy <= queued
      /\ Busy = Ahead(tdh, ntu, n) /\ Ahead(ntc, tdh, n) \in Nat
      /\ n = 0 => tdh = 0 /\ ntu = 0 /\ ntc = 0
      /\ n > 0 => /\ tdh \in 0 .. n - 1 /\ ntu \in 0 .. n - 1 /\ ntc \in 0 .. n - 1
                  /\ Ahead(ntc, tdh, n) + Busy < n
  BY IndexTypes
<1>2. /\ tdh \in TxSlot /\ TxSlot = 0 .. TxSlots - 1 /\ TxSlots \in Nat
      /\ \A i \in TxSlot : tx[i].frame \in Nat
      /\ d.frame \in TxFrame /\ sent \in Seq(TxFrame)
      /\ tx \in [TxSlot -> [frame : TxFrame, good : BOOLEAN, dd : BOOLEAN]]
  BY ONLY CardTypeOK, TxSizes
<1>3. /\ \A i \in TxSlot : tx[i].good => tx[i].frame > 0
      /\ Indices /\ Descriptors /\ Books
  BY DEF TxInv
<1>4. CASE ~HasWork(tail, length)
  <2>1. UNCHANGED <<trapped, setup, tdh, tx, queued, ntu, ntc, sent, dropped>>
        /\ stored'.tdt = stored.tdt
    BY <1>4 DEF ProcessTx
  <2> QED BY <2>1, TxStays
<1>5. CASE HasWork(tail, length)
  <2>1. /\ Transmit(d) /\ tx' = [tx EXCEPT ![tdh].dd = TRUE]
        /\ RingSlots(length) = 0 => tdh' = tdh
        /\ RingSlots(length) # 0 => tdh' = NextSlot(tdh, RingSlots(length))
    BY <1>5 DEF ProcessTx
  <2>2. \/ dropped' = dropped \cup ({d.frame} \ {0}) /\ sent' = sent
        \/ d.good /\ sent' = Append(sent, d.frame) /\ dropped' = dropped
    BY <1>2, <1>3, <2>1, TransmitOutcome
  <2>3. \A i \in TxSlot :
          /\ tx'[i].frame = tx[i].frame /\ tx'[i].good = tx[i].good
          /\ i = tdh => tx'[i].dd
          /\ i # tdh => tx'[i].dd = tx[i].dd
    BY <1>2, <2>1
  <2>4. \A i \in TxSlot : tx'[i].good => tx'[i].frame > 0
    BY <1>3, <2>3
  <2>5. CASE n = 0
    <3>1. tdh' = tdh
      BY <2>1, <2>5
    <3>2. \A i \in TxSlot : tx[i].frame = 0
      BY <1>3, <2>5 DEF Descriptors
    <3>3. dropped' = dropped /\ sent' = sent
      <4>1. d.frame = 0 /\ ~d.good
        BY <1>2, <1>3, <3>2
      <4> QED BY <2>2, <4>1
    <3>4. Busy' = Busy
      BY <3>1 DEF Busy, Ahead
    <3>5. Books'
      BY <1>3, <3>3, <3>4 DEF Books
    <3>6. Indices'
      BY <1>3, <3>1 DEF Indices, InRing, Ahead
    <3>7. Descriptors'
      <4>1. DriverSlots' = 0 /\ \A i \in TxSlot : tx'[i].frame = 0
        BY <2>3, <2>5, <3>2
      <4>2. \A i \in TxSlot : ~(i < DriverSlots')
        BY <1>2, <4>1
      <4> QED BY <4>1, <4>2 DEF Descriptors
    <3> QED BY <2>4, <3>5, <3>6, <3>7 DEF TxInv
  <2>6. CASE n > 0
    <3>1. length # 0
      BY <2>6, RingSlotsOfZero
    <3>2. tdh # tail /\ tail \in 0 .. n - 1
      <4>1. tdh # tail
        BY <1>5, <3>1 DEF HasWork
      <4>2. tail = 0 \/ tail < n
        BY DEF InRing
      <4> QED BY <1>1, <2>6, <4>1, <4>2
    <3>3. Ahead(tdh, tail, n) > 0 /\ Busy >= 1 /\ tdh # ntu
      BY <1>1, <2>6, <3>2 DEF Ahead
    <3>4. tdh' = NextSlot(tdh, n) /\ tdh' \in 0 .. n - 1
      BY <1>1, <2>1, <2>6, NextSlotIs, n \in Nat \ {0}
    <3>5. /\ Ahead(tdh', ntu, n) = Busy - 1
          /\ Ahead(tdh', tail, n) = Ahead(tdh, tail, n) - 1
      BY <1>1, <2>6, <3>2, <3>3, <3>4, AheadNext
    <3>6. Ahead(ntc, tdh', n) = Ahead(ntc, tdh, n) + 1
      <4>1. Ahead(ntc, tdh, n) < n - 1
        BY <1>1, <2>6, <3>3
      <4> QED BY <1>1, <2>6, <3>4, <4>1, AheadNext
    <3>7. Busy' = Busy - 1
      BY <3>5 DEF Busy, Ahead
    <3>8. ~d.dd /\ d.frame = (queued - Busy) + 1
      <4>1. Ahead(tdh, tdh, n) = 0
        BY <1>1 DEF Ahead
      <4>2. ~d.dd /\ d.frame + Ahead(tdh, ntu, n) = queued + 1
        <5>1. IF tdh < n /\ Ahead(tdh, tdh, n) < Busy
              THEN ~d.dd /\ d.frame + Ahead(tdh, ntu, n) = queued + 1
              ELSE d.dd \/ d.frame = 0
          BY <1>2, <1>3 DEF Descriptors
        <5>2. tdh < n /\ Ahead(tdh, tdh, n) < Busy
          BY <1>1, <2>6, <3>3, <4>1
        <5> QED BY ONLY <5>1, <5>2
      <4>3. d.frame \in Nat
        BY <1>2
      <4> QED BY ONLY <1>1, <4>2, <4>3
    <3>9. Books'
      <4>1. /\ Rises(sent) /\ ToSet(sent) \cap dropped = {}
            /\ ToSet(sent) \cup dropped = 1 .. queued - Busy
        BY <1>3 DEF Books
      <4>2. d.frame \in Nat /\ d.frame > 0 /\ {d.frame} \ {0} = {d.frame}
            /\ d.frame \notin ToSet(sent) \cup dropped
        BY <1>1, <3>8, <4>1
      <4>3. (1 .. queued - Busy) \cup {d.frame} = 1 .. queued - (Busy - 1)
        BY <1>1, <3>3, <3>8
      <4>4. CASE dropped' = dropped \cup ({d.frame} \ {0}) /\ sent' = sent
        <5>1. Rises(sent') /\ ToSet(sent') \cap dropped' = {}
              /\ ToSet(sent') \cup dropped' = 1 .. queued - (Busy - 1)
          BY <4>1, <4>2, <4>3, <4>4
        <5> QED BY <1>1, <3>3, <3>7, <5>1 DEF Books
      <4>5. CASE d.good /\ sent' = Append(sent, d.frame) /\ dropped' = dropped
        <5>1. \A x \in ToSet(sent) : x < d.frame
          BY <1>1, <3>8, <4>1
        <5>2. Rises(sent') /\ ToSet(sent') = ToSet(sent) \cup {d.frame}
          <6> DEFINE f == d.frame
          <6>1. /\ MaxQueued \in Nat /\ sent \in Seq(0 .. MaxQueued)
                /\ f \in 0 .. MaxQueued
            BY <1>2, CardSizes DEF TxFrame
          <6>2. Rises(sent) /\ \A x \in ToSet(sent) : x < f
            BY <4>1, <5>1
          <6> HIDE DEF f
          <6>3. Rises(Append(sent, f)) /\ ToSet(Append(sent, f)) = ToSet(sent) \cup {f}
            BY ONLY <6>1, <6>2, RisesAppend
          <6> QED BY <4>5, <6>3 DEF f
        <5>3. ToSet(sent') \cap dropped' = {}
              /\ ToSet(sent') \cup dropped' = 1 .. queued - (Busy - 1)
          BY <4>1, <4>2, <4>3, <4>5, <5>2
        <5> QED BY <1>1, <3>3, <3>7, <5>2, <5>3 DEF Books
      <4> QED BY <2>2, <4>4, <4>5
    <3>10. Indices'
      <4>1. Ahead(ntc, tdh', n) + Ahead(tdh', ntu, n) = Ahead(ntc, ntu, n)
        BY <1>1, <1>3, <3>5, <3>6 DEF Indices
      <4>2. ~trapped => /\ stored.tdt < n
                        /\ Ahead(tdh', stored.tdt, n) <= Ahead(tdh', ntu, n)
        <5>1. Ahead(tdh, tail, n) \in Nat
          BY <1>1, <2>6, <3>2, AheadType
        <5> QED BY <1>1, <3>2, <3>5, <5>1
      <4> QED BY <1>1, <2>6, <3>4, <4>1, <4>2 DEF Indices, InRing, Ahead
    <3>11. Descriptors'
      <4> SUFFICES ASSUME NEW i \in TxSlot
                   PROVE  /\ IF i < n /\ Ahead(tdh', i, n) < Busy - 1
                             THEN ~tx'[i].dd /\ tx'[i].frame + Ahead(i, ntu, n) = queued + 1
                             ELSE tx'[i].dd \/ tx'[i].frame = 0
                          /\ i < n /\ Ahead(ntc, i, n) < Ahead(ntc, tdh', n) => tx'[i].dd
        BY <2>6, <3>7 DEF Descriptors, Ahead
      <4>1. /\ IF i < n /\ Ahead(tdh, i, n) < Busy
               THEN ~tx[i].dd /\ tx[i].frame + Ahead(i, ntu, n) = queued + 1
               ELSE tx[i].dd \/ tx[i].frame = 0
            /\ i < n /\ Ahead(ntc, i, n) < Ahead(ntc, tdh, n) => tx[i].dd
        BY <1>3 DEF Descriptors
      <4>2. CASE i = tdh
        <5>1. tx'[i].dd
          BY <2>3, <4>2
        <5>2. Ahead(tdh', i, n) = n - 1
          BY <1>1, <2>6, <3>4, <4>2, AheadNext
        <5> QED BY <1>1, <2>6, <5>1, <5>2
      <4>3. ASSUME i < n
            PROVE  /\ n \in Nat /\ i \in 0 .. n - 1
                   /\ ntc \in 0 .. n - 1 /\ tdh \in 0 .. n - 1
        BY <1>1, <1>2, <2>6, <4>3
      <4>4. CASE i # tdh /\ i < n
        <5>1. Ahead(tdh', i, n) = Ahead(tdh, i, n) - 1
          BY <1>1, <1>2, <2>6, <3>4, <4>4, AheadNext
        <5>2. Ahead(ntc, i, n) # Ahead(ntc, tdh, n)
          BY <4>4, <4>3 DEF Ahead
        <5>3. Ahead(ntc, i, n) \in Nat /\ Ahead(tdh, i, n) \in Nat
          BY <4>4, <4>3 DEF Ahead
        <5>4. tx'[i].frame = tx[i].frame /\ tx'[i].dd = tx[i].dd
          BY <2>3, <4>4
        <5> QED BY <1>1, <3>6, <4>1, <4>4, <5>1, <5>2, <5>3, <5>4
      <4>5. CASE i # tdh /\ ~(i < n)
        BY <2>3, <4>1, <4>5
      <4> QED BY <4>2, <4>4, <4>5
    <3> QED BY <2>4, <3>9, <3>10, <3>11 DEF TxInv
  <2> QED BY <1>1, <2>5, <2>6
<1> QED BY <1>4, <1>5

\* While the driver sets the card up there is nothing to send, whatever length
\* the card goes by: with a length of zero the host panics instead.
LEMMA SetUpSendsNothing ==
  ASSUME CardTypeOK, TxInv, setup # "up", setup' # "up",
         ~trapped => stored'.tdt = 0,
         tdh = 0, \A i \in TxSlot : tx[i].frame = 0,
         NEW length, ProcessTx(0, length),
         UNCHANGED <<trapped, queued, ntu, ntc>>
  PROVE  TxInv'
<1> DEFINE d == tx[tdh]
<1>1. /\ tdh \in TxSlot
      /\ tx \in [TxSlot -> [frame : TxFrame, good : BOOLEAN, dd : BOOLEAN]]
  BY DEF CardTypeOK, TxTypeOK
<1>2. /\ \A i \in TxSlot : tx[i].good => tx[i].frame > 0
      /\ Blank /\ Books
  BY DEF TxInv
<1>3. ~d.good /\ d.frame = 0
  BY <1>1, <1>2
<1>4. /\ tdh' = 0 /\ dropped' = dropped /\ sent' = sent
      /\ \A i \in TxSlot : tx'[i].frame = tx[i].frame /\ tx'[i].good = tx[i].good
  <2>1. CASE HasWork(0, length)
    <3>1. length = 0 /\ RingSlots(length) = 0
      BY <2>1, RingSlotsOfZero DEF HasWork
    <3>2. Transmit(d) /\ tx' = [tx EXCEPT ![tdh].dd = TRUE] /\ tdh' = tdh
      BY <2>1, <3>1 DEF ProcessTx
    <3>3. dropped' = dropped /\ sent' = sent
      BY <1>3, <3>2, TransmitOutcome
    <3> QED BY <1>1, <3>2, <3>3
  <2>2. CASE ~HasWork(0, length)
    BY <2>2 DEF ProcessTx
  <2> QED BY <2>1, <2>2
<1>5. Busy = 0 /\ Busy' = 0
  BY DEF Busy
<1>6. Books'
  BY <1>2, <1>4, <1>5 DEF Books
<1>7. Blank'
  BY <1>2, <1>4 DEF Blank
<1> QED BY <1>2, <1>4, <1>6, <1>7 DEF TxInv

\* A frame is queued behind the others.
LEMMA QueueKeepsOrder ==
  ASSUME CardTypeOK, TxInv, NEW good \in BOOLEAN, Queue(good)
  PROVE  TxInv'
<1> DEFINE n == DriverSlots
<1>1. /\ n \in Nat /\ n <= TxSlots /\ n > 1
      /\ queued \in Nat /\ Busy \in Nat /\ Busy <= queued
      /\ Busy = Ahead(tdh, ntu, n) /\ Ahead(ntc, tdh, n) \in Nat
      /\ tdh \in 0 .. n - 1 /\ ntu \in 0 .. n - 1 /\ ntc \in 0 .. n - 1
      /\ setup = "up" /\ setup' = "up"
  BY IndexTypes DEF Queue
<1>2. /\ \A i \in TxSlot : tx[i].good => tx[i].frame > 0
      /\ Indices /\ Descriptors /\ Books
  BY <1>1 DEF TxInv
<1>3. /\ TxSlot = 0 .. TxSlots - 1 /\ TxSlots \in Nat
      /\ \A i \in TxSlot : tx[i].frame \in Nat
      /\ tx \in [TxSlot -> [frame : TxFrame, good : BOOLEAN, dd : BOOLEAN]]
  BY ONLY CardTypeOK, TxSizes
<1>4. /\ NextSlot(ntu, n) # ntc /\ ntu' = NextSlot(ntu, n) /\ queued' = queued + 1
      /\ tx' = [tx EXCEPT ![ntu] = [frame |-> queued + 1, good |-> good, dd |-> FALSE]]
      /\ UNCHANGED <<trapped, setup, tdh, tdlen, stored, ntc, sent, dropped>>
  BY DEF Queue
<1>5. DriverSlots' = n
  BY <1>4 DEF DriverSlots
<1>6. \A i \in TxSlot :
        /\ i = ntu => tx'[i] = [frame |-> queued + 1, good |-> good, dd |-> FALSE]
        /\ i # ntu => tx'[i] = tx[i]
  BY <1>3, <1>4
<1>7. Ahead(ntc, ntu, n) < n - 1 /\ Ahead(ntc, tdh, n) + Busy = Ahead(ntc, ntu, n)
  BY <1>1, <1>2, <1>4, AheadNext DEF Indices
<1>8. Busy < n - 1
  BY <1>1, <1>7
<1> HIDE DEF n
<1>9. /\ ntu' \in 0 .. n - 1
      /\ Ahead(ntc, ntu', n) = Ahead(ntc, ntu, n) + 1
      /\ Ahead(tdh, ntu', n) = Busy + 1
  BY <1>1, <1>4, <1>7, <1>8, AheadNext, NextSlotIs, n \in Nat \ {0}
<1>10. Busy' = Busy + 1
  BY <1>1, <1>4, <1>5, <1>9 DEF Busy, Ahead
<1>11. \A i \in TxSlot : tx'[i].good => tx'[i].frame > 0
  BY <1>1, <1>2, <1>6
<1>12. Books'
  <2>1. queued' - Busy' = queued - Busy /\ Busy' <= queued'
    BY <1>1, <1>4, <1>10
  <2> QED BY <1>2, <1>4, <2>1 DEF Books
<1>13. Indices'
  <2>1. InRing(tdh)' /\ InRing(ntu)' /\ InRing(ntc)'
    BY <1>1, <1>4, <1>5, <1>9 DEF InRing
  <2>2. Ahead(ntc, tdh, n) + Ahead(tdh, ntu', n) = Ahead(ntc, ntu', n)
    BY <1>1, <1>7, <1>9
  <2>3. ~trapped => /\ InRing(stored.tdt)
                    /\ Ahead(tdh, stored.tdt, n) <= Busy
    BY <1>1, <1>2 DEF Indices, n
  <2>4. stored.tdt \in Nat /\ Ahead(tdh, stored.tdt, n) \in Int
    <3>1. stored.tdt \in Nat
      BY CardSizes DEF CardTypeOK, TxTypeOK, TxSlot
    <3> QED BY <1>1, <3>1 DEF Ahead
  <2>5. ~trapped => Ahead(tdh, stored.tdt, n) <= Ahead(tdh, ntu', n)
    BY <1>1, <1>9, <2>3, <2>4
  <2>6. ~trapped' => InRing(stored.tdt)'
    BY <1>4, <1>5, <2>3 DEF InRing, n
  <2>7. /\ Ahead(ntc, tdh, DriverSlots)' = Ahead(ntc, tdh, n)
        /\ Ahead(tdh, ntu, DriverSlots)' = Ahead(tdh, ntu', n)
        /\ Ahead(ntc, ntu, DriverSlots)' = Ahead(ntc, ntu', n)
        /\ Ahead(tdh, stored.tdt, DriverSlots)' = Ahead(tdh, stored.tdt, n)
    BY <1>4, <1>5 DEF Ahead
  <2> QED BY <1>4, <2>1, <2>2, <2>5, <2>6, <2>7 DEF Indices
<1>14. Descriptors'
  <2> SUFFICES ASSUME NEW i \in TxSlot
               PROVE  /\ IF i < n /\ Ahead(tdh, i, n) < Busy + 1
                         THEN ~tx'[i].dd /\ tx'[i].frame + Ahead(i, ntu', n) = queued + 2
                         ELSE tx'[i].dd \/ tx'[i].frame = 0
                      /\ i < n /\ Ahead(ntc, i, n) < Ahead(ntc, tdh, n) => tx'[i].dd
    <3>1. queued' + 1 = queued + 2
      BY <1>1, <1>4
    <3>2. \A j \in TxSlot :
            /\ Ahead(tdh, j, DriverSlots)' = Ahead(tdh, j, n)
            /\ Ahead(j, ntu, DriverSlots)' = Ahead(j, ntu', n)
            /\ Ahead(ntc, j, DriverSlots)' = Ahead(ntc, j, n)
      BY <1>4, <1>5 DEF Ahead
    <3>3. Ahead(ntc, tdh, DriverSlots)' = Ahead(ntc, tdh, n)
      BY <1>4, <1>5 DEF Ahead
    <3> QED BY <1>1, <1>4, <1>5, <1>10, <3>1, <3>2, <3>3 DEF Descriptors
  <2>1. /\ IF i < n /\ Ahead(tdh, i, n) < Busy
           THEN ~tx[i].dd /\ tx[i].frame + Ahead(i, ntu, n) = queued + 1
           ELSE tx[i].dd \/ tx[i].frame = 0
        /\ i < n /\ Ahead(ntc, i, n) < Ahead(ntc, tdh, n) => tx[i].dd
    BY <1>2 DEF Descriptors, n
  <2>2. CASE i = ntu
    <3>1. ~tx'[i].dd /\ tx'[i].frame = queued + 1
      BY <1>6, <2>2
    <3>2. Ahead(i, ntu', n) = 1 /\ Ahead(tdh, i, n) = Busy
      <4>1. Ahead(ntu, ntu, n) = 0
        BY <1>1 DEF Ahead
      <4>2. NextSlot(ntu, n) # ntu
        BY <1>1, <4>1, AheadNext
      <4> QED BY <1>1, <1>4, <2>2, <4>1, <4>2, AheadNext
    <3>3. ~(Ahead(ntc, i, n) < Ahead(ntc, tdh, n))
      BY <1>1, <1>7, <2>2
    <3>4. Ahead(tdh, i, n) < Busy + 1 /\ i < n
      BY <1>1, <2>2, <3>2
    <3>5. tx'[i].frame + Ahead(i, ntu', n) = queued + 2
      BY <1>1, <3>1, <3>2
    <3> QED BY <3>1, <3>3, <3>4, <3>5
  <2>3. CASE i # ntu /\ i < n
    <3>1. i \in 0 .. n - 1
      BY <1>1, <1>3, <2>3
    <3>2. Ahead(tdh, i, n) # Busy /\ Ahead(tdh, i, n) \in Nat
      BY <1>1, <2>3, <3>1, AheadDiffers, AheadType
    <3>3. ASSUME Ahead(tdh, i, n) < Busy
          PROVE  Ahead(i, ntu', n) = Ahead(i, ntu, n) + 1 /\ Ahead(i, ntu, n) \in Nat
      <4>1. Ahead(tdh, i, n) + Ahead(i, ntu, n) = Busy /\ Ahead(i, ntu, n) \in Nat
        BY <1>1, <3>1, <3>3, AheadSplits, AheadType
      <4>2. Ahead(i, ntu, n) < n - 1
        BY <1>1, <1>8, <3>2, <4>1
      <4> QED BY <1>1, <1>4, <3>1, <4>1, <4>2, AheadNext
    <3>4. tx'[i] = tx[i]
      BY <1>6, <2>3
    <3>5. CASE Ahead(tdh, i, n) < Busy
      <4>1. ~tx[i].dd /\ tx[i].frame + Ahead(i, ntu, n) = queued + 1 /\ tx[i].frame \in Nat
        BY <1>3, <2>1, <2>3, <3>5
      <4>2. tx[i].frame + Ahead(i, ntu', n) = queued + 2
        BY <1>1, <3>3, <3>5, <4>1
      <4>3. Ahead(tdh, i, n) < Busy + 1
        BY <1>1, <3>2, <3>5
      <4> QED BY <2>1, <2>3, <3>4, <4>1, <4>2, <4>3
    <3>6. CASE ~(Ahead(tdh, i, n) < Busy)
      <4>1. ~(Ahead(tdh, i, n) < Busy + 1)
        BY <1>1, <3>2, <3>6
      <4> QED BY <2>1, <2>3, <3>4, <3>6, <4>1
    <3> QED BY <3>5, <3>6
  <2>4. CASE i # ntu /\ ~(i < n)
    BY <1>6, <2>1, <2>4
  <2> QED BY <2>2, <2>3, <2>4
<1> QED BY <1>1, <1>11, <1>12, <1>13, <1>14 DEF TxInv

\* The driver cleans up to the head and no further.
LEMMA CleanKeepsOrder ==
  ASSUME CardTypeOK, TxInv, Clean
  PROVE  TxInv'
<1> DEFINE n == DriverSlots
<1>1. /\ n \in Nat /\ n <= TxSlots
      /\ Busy \in Nat /\ Busy = Ahead(tdh, ntu, n) /\ Ahead(ntc, tdh, n) \in Nat
      /\ n = 0 => tdh = 0 /\ ntu = 0 /\ ntc = 0
      /\ n > 0 => tdh \in 0 .. n - 1 /\ ntu \in 0 .. n - 1 /\ ntc \in 0 .. n - 1
      /\ setup = "up" /\ setup' = "up"
  BY IndexTypes DEF Clean
<1>2. /\ \A i \in TxSlot : tx[i].good => tx[i].frame > 0
      /\ Indices /\ Descriptors /\ Books
  BY <1>1 DEF TxInv
<1>3. TxSlot = 0 .. TxSlots - 1 /\ TxSlots \in Nat
  BY CardSizes DEF TxSlot
<1>4. /\ ntc # ntu /\ tx[ntc].dd /\ ntc' = NextSlot(ntc, n)
      /\ UNCHANGED <<trapped, setup, tdh, tdlen, stored, tx, queued, ntu, sent, dropped>>
  BY DEF Clean
<1>5. DriverSlots' = n
  BY <1>4 DEF DriverSlots
<1>6. n > 0 /\ tdh \in 0 .. n - 1 /\ ntu \in 0 .. n - 1 /\ ntc \in 0 .. n - 1
  BY <1>1, <1>4
<1>7. ntc # tdh
  <2> SUFFICES ASSUME ntc = tdh PROVE FALSE
    OBVIOUS
  <2>1. ntc \in TxSlot /\ ntc < n
    BY <1>1, <1>3, <1>6
  <2>2. Ahead(tdh, ntc, n) < Busy
    BY <1>1, <1>4, <1>6 DEF Ahead
  <2>3. ~tx[ntc].dd
    BY <1>2, <2>1, <2>2 DEF Descriptors
  <2> QED BY <1>4, <2>3
<1>8. /\ Ahead(ntc, tdh, n) + Busy = Ahead(ntc, ntu, n)
      /\ ~trapped => InRing(stored.tdt) /\ Ahead(tdh, stored.tdt, n) <= Busy
  BY <1>1, <1>2 DEF Indices
<1>9. \A i \in TxSlot :
        /\ IF i < n /\ Ahead(tdh, i, n) < Busy
           THEN ~tx[i].dd /\ tx[i].frame + Ahead(i, ntu, n) = queued + 1
           ELSE tx[i].dd \/ tx[i].frame = 0
        /\ i < n /\ Ahead(ntc, i, n) < Ahead(ntc, tdh, n) => tx[i].dd
  BY <1>2 DEF Descriptors
<1>10. ~trapped' => InRing(stored.tdt)'
  BY <1>4, <1>5, <1>8 DEF InRing
<1> HIDE DEF n
<1>11. /\ ntc' \in 0 .. n - 1
       /\ Ahead(ntc', tdh, n) = Ahead(ntc, tdh, n) - 1
       /\ Ahead(ntc', ntu, n) = Ahead(ntc, ntu, n) - 1
  BY <1>1, <1>4, <1>6, <1>7, AheadNext, NextSlotIs, n \in Nat \ {0}
<1>12. Busy' = Busy
  BY <1>1, <1>4, <1>5 DEF Busy, Ahead
<1>13. Books'
  BY <1>2, <1>4, <1>12 DEF Books
<1>14. /\ Ahead(ntc, tdh, DriverSlots)' = Ahead(ntc', tdh, n)
       /\ Ahead(tdh, ntu, DriverSlots)' = Ahead(tdh, ntu, n)
       /\ Ahead(ntc, ntu, DriverSlots)' = Ahead(ntc', ntu, n)
       /\ Ahead(tdh, stored.tdt, DriverSlots)' = Ahead(tdh, stored.tdt, n)
  BY <1>4, <1>5 DEF Ahead
<1>15. Indices'
  <2>1. InRing(tdh)' /\ InRing(ntu)' /\ InRing(ntc)'
    BY <1>1, <1>4, <1>5, <1>6, <1>11 DEF InRing
  <2>2. Ahead(ntc, tdh, n) + Ahead(tdh, ntu, n) = Ahead(ntc, ntu, n)
        /\ Ahead(ntc, ntu, n) \in Nat
    BY <1>1, <1>8
  <2>3. Ahead(ntc', tdh, n) + Ahead(tdh, ntu, n) = Ahead(ntc', ntu, n)
    BY <1>1, <1>11, <2>2
  <2> QED BY <1>1, <1>4, <1>8, <1>10, <1>14, <2>1, <2>3 DEF Indices
<1>16. Descriptors'
  <2> SUFFICES ASSUME NEW i \in TxSlot, i < n, Ahead(ntc', i, n) < Ahead(ntc', tdh, n)
               PROVE  tx[i].dd
    <3>1. \A j \in TxSlot :
            /\ Ahead(tdh, j, DriverSlots)' = Ahead(tdh, j, n)
            /\ Ahead(j, ntu, DriverSlots)' = Ahead(j, ntu, n)
            /\ Ahead(ntc, j, DriverSlots)' = Ahead(ntc', j, n)
      BY <1>4, <1>5 DEF Ahead
    <3> QED BY <1>4, <1>5, <1>6, <1>9, <1>12, <1>14, <3>1 DEF Descriptors
  <2>1. i \in 0 .. n - 1
    BY <1>1, <1>3
  <2>2. i # ntc
    <3>1. Ahead(ntc', ntc, n) = n - 1
      BY <1>4, <1>6, <1>1, AheadNext
    <3>2. Ahead(ntc', tdh, n) < n
      BY <1>1, <1>6, <1>11, AheadType
    <3>3. Ahead(ntc', tdh, n) \in Int
      BY <1>1, <1>11
    <3> QED BY <1>1, <3>1, <3>2, <3>3
  <2>3. Ahead(ntc', i, n) = Ahead(ntc, i, n) - 1 /\ Ahead(ntc, i, n) \in Nat
    BY <1>1, <1>4, <1>6, <2>1, <2>2, AheadNext, AheadType
  <2> QED BY <1>1, <1>9, <1>11, <2>3
<1> QED BY <1>1, <1>2, <1>4, <1>13, <1>15, <1>16 DEF TxInv

LEMMA TxInvStep ==
  ASSUME CardTypeOK, TxInv, CardNext
  PROVE  TxInv'
<1>1. ASSUME UNCHANGED <<trapped, setup, txVars>>
      PROVE  TxInv'
  <2>1. DriverSlots' = DriverSlots
    BY <1>1 DEF DriverSlots, txVars
  <2> QED BY <1>1, <2>1, TxStays DEF txVars
<1>2. CASE Reset
  <2>1. setup = "up" /\ setup' = "tdlen" /\ trapped /\ trapped' = trapped
        /\ dropped' = dropped \cup Pending /\ ntu' = 0 /\ ntc' = 0
        /\ UNCHANGED <<tx, queued, sent>>
    BY <1>2 DEF Reset
  <2>2. Pending = (queued - Busy) + 1 .. queued
    BY <2>1, PendingIs
  <2>3. queued \in Nat /\ Busy \in Nat /\ Busy <= queued
    BY <2>1, IndexTypes
  <2>4. /\ Rises(sent) /\ ToSet(sent) \cap dropped = {}
        /\ ToSet(sent) \cup dropped = 1 .. queued - Busy
        /\ \A i \in TxSlot : tx[i].good => tx[i].frame > 0
    BY DEF TxInv, Books
  <2>5. (1 .. queued - Busy) \cap Pending = {}
        /\ (1 .. queued - Busy) \cup Pending = 1 .. queued
    BY <2>2, <2>3
  <2>6. ToSet(sent) \cap dropped' = {} /\ ToSet(sent) \cup dropped' = 1 .. queued
    BY <2>1, <2>4, <2>5
  <2>7. Busy' = 0 /\ queued - 0 = queued
    BY <2>1, <2>3 DEF Busy
  <2>8. Books'
    BY <2>1, <2>3, <2>4, <2>6, <2>7 DEF Books
  <2> QED BY <2>1, <2>4, <2>8 DEF TxInv, Blank
<1>3. ASSUME NEW l \in Lengths, SetTdlen(l)
      PROVE  TxInv'
  <2>1. setup = "tdlen" /\ setup' = "tdh" /\ stored'.tdt = stored.tdt
        /\ UNCHANGED <<trapped, tdh, tx, queued, ntu, ntc, sent, dropped>>
    <3>1. stored \in [tdt : TxSlot, tdlen : 0 .. TxSlots * DescSize]
      BY DEF CardTypeOK, TxTypeOK
    <3> QED BY <1>3, <3>1 DEF SetTdlen
  <2>2. Busy = 0 /\ Busy' = 0
    BY <2>1 DEF Busy
  <2> QED BY <2>1, <2>2 DEF TxInv, Blank, Books
<1>4. CASE SetTdh
  <2>1. setup = "tdh" /\ setup' = "tdt" /\ tdh' = (IF trapped THEN 0 ELSE tdh)
        /\ UNCHANGED <<trapped, stored, queued, ntu, ntc, sent, dropped>>
        /\ \A i \in TxSlot : tx'[i].frame = 0 /\ ~tx'[i].good
    BY <1>4 DEF SetTdh, NoTx
  <2>2. Busy = 0 /\ Busy' = 0
    BY <2>1 DEF Busy
  <2> QED BY <2>1, <2>2 DEF TxInv, Blank, Books
<1>5. CASE SetTdt
  <2>1. setup = "tdt" /\ setup' = "rx" /\ WriteTdt(0) /\ UNCHANGED <<trapped, queued, ntu, ntc>>
    BY <1>5 DEF SetTdt
  <2>2. Blank /\ tdh = 0 /\ \A i \in TxSlot : tx[i].frame = 0
    BY <2>1 DEF TxInv, Blank
  <2>3. CASE trapped
    BY <2>1, <2>2, <2>3, SetUpSendsNothing DEF WriteTdt
  <2>4. CASE ~trapped
    <3>1. stored'.tdt = 0 /\ UNCHANGED <<tdh, tx, sent, dropped>>
      <4>1. stored \in [tdt : TxSlot, tdlen : 0 .. TxSlots * DescSize]
        BY DEF CardTypeOK, TxTypeOK
      <4> QED BY <2>1, <2>4, <4>1 DEF WriteTdt
    <3>2. Busy = 0 /\ Busy' = 0
      BY <2>1 DEF Busy
    <3> QED BY <2>1, <2>2, <3>1, <3>2 DEF TxInv, Blank, Books
  <2> QED BY <2>3, <2>4
<1>6. CASE SetRdh
  <2>1. setup = "rdh" /\ setup' = "up" /\ UNCHANGED <<trapped, txVars>>
    BY <1>6 DEF SetRdh
  <2>2. /\ tdh = 0 /\ ntu = 0 /\ ntc = 0 /\ \A i \in TxSlot : tx[i].frame = 0
        /\ ~trapped => stored.tdt = 0
    BY <2>1 DEF TxInv, Blank
  <2>3. /\ tdh' = 0 /\ ntu' = 0 /\ ntc' = 0 /\ tx' = tx /\ trapped' = trapped
        /\ stored' = stored /\ queued' = queued /\ sent' = sent /\ dropped' = dropped
    BY <2>1, <2>2 DEF txVars
  <2>4. \A m : Ahead(0, 0, m) = 0
    BY DEF Ahead
  <2>5. Busy = 0 /\ Busy' = 0
    BY <2>1, <2>3, <2>4 DEF Busy
  <2>6. Books'
    BY <2>3, <2>5 DEF TxInv, Books
  <2>7. Indices'
    BY <2>2, <2>3, <2>4 DEF Indices, InRing
  <2>8. Descriptors'
    <3>1. \A i \in TxSlot : ~(Ahead(0, i, DriverSlots') < 0)
      BY CardSizes DEF TxSlot, Ahead
    <3> QED BY <2>2, <2>3, <2>4, <2>5, <3>1 DEF Descriptors
  <2> QED BY <2>1, <2>3, <2>6, <2>7, <2>8 DEF TxInv
<1>7. CASE Ring
  <2>1. setup = "up" /\ WriteTdt(ntu) /\ UNCHANGED <<trapped, setup, queued, ntu, ntc>>
    BY <1>7 DEF Ring
  <2>2. /\ ntu \in Nat /\ tdh \in Nat /\ Ahead(tdh, ntu, DriverSlots) \in Nat
        /\ InRing(ntu)
    BY <2>1, IndexTypes DEF TxInv, Indices
  <2>3. CASE trapped
    <3>1. ProcessTx(ntu, tdlen) /\ stored' = stored /\ RingSlots(tdlen) = DriverSlots
      BY <2>1, <2>3 DEF WriteTdt, DriverSlots
    <3>2. DriverSlots' = DriverSlots
      BY <2>1, <2>3, <3>1 DEF DriverSlots, ProcessTx
    <3> QED BY <2>1, <2>2, <2>3, <3>1, <3>2, SendKeepsOrder
  <2>4. CASE ~trapped
    <3>1. stored'.tdt = ntu /\ stored'.tdlen = stored.tdlen /\ UNCHANGED <<tdh, tx, sent, dropped>>
      <4>1. stored \in [tdt : TxSlot, tdlen : 0 .. TxSlots * DescSize]
        BY DEF CardTypeOK, TxTypeOK
      <4> QED BY <2>1, <2>4, <4>1 DEF WriteTdt
    <3>2. DriverSlots' = DriverSlots
      BY <2>1, <2>4, <3>1 DEF DriverSlots
    <3>3. Busy' = Busy
      BY <2>1, <3>1, <3>2 DEF Busy, Ahead
    <3>4. Books'
      BY <2>1, <3>1, <3>3 DEF TxInv, Books
    <3>5. Descriptors'
      BY <2>1, <3>1, <3>2, <3>3 DEF TxInv, Descriptors, Ahead
    <3>6. Indices'
      <4>1. InRing(tdh)' /\ InRing(ntu)' /\ InRing(ntc)' /\ (~trapped' => InRing(stored.tdt)')
        BY <2>1, <2>2, <3>1, <3>2 DEF TxInv, Indices, InRing
      <4>2. (Ahead(ntc, tdh, DriverSlots) + Ahead(tdh, ntu, DriverSlots)
              = Ahead(ntc, ntu, DriverSlots))'
        BY <2>1, <3>1, <3>2 DEF TxInv, Indices, Ahead
      <4>3. Ahead(tdh, stored.tdt, DriverSlots)' = Ahead(tdh, ntu, DriverSlots)
            /\ Ahead(tdh, ntu, DriverSlots)' = Ahead(tdh, ntu, DriverSlots)
        BY <2>1, <3>1, <3>2 DEF Ahead
      <4> QED BY <2>2, <4>1, <4>2, <4>3 DEF Indices
    <3> QED BY <2>1, <3>1, <3>4, <3>5, <3>6 DEF TxInv
  <2> QED BY <2>3, <2>4
<1>8. CASE SyncMmio
  <2>1. /\ ~trapped /\ ProcessTx(stored.tdt, stored.tdlen)
        /\ UNCHANGED <<trapped, setup, stored, queued, ntu, ntc>>
    BY <1>8 DEF SyncMmio
  <2>2. CASE setup = "up"
    <3>1. RingSlots(stored.tdlen) = DriverSlots /\ DriverSlots' = DriverSlots
      BY <2>1 DEF DriverSlots
    <3>2. /\ stored.tdt \in Nat /\ InRing(stored.tdt)
          /\ Ahead(tdh, stored.tdt, DriverSlots) <= Ahead(tdh, ntu, DriverSlots)
      BY <2>1, <2>2, IndexTypes DEF TxInv, Indices
    <3> QED BY <2>1, <2>2, <3>1, <3>2, SendKeepsOrder
  <2>3. CASE setup # "up"
    <3>1. stored.tdt = 0 /\ tdh = 0 /\ \A i \in TxSlot : tx[i].frame = 0
      BY <2>1, <2>3 DEF TxInv, Blank
    <3> QED BY <2>1, <2>3, <3>1, SetUpSendsNothing
  <2> QED BY <2>2, <2>3
<1>9. CASE TakeOut
  <2>1. DriverSlots' = DriverSlots
    BY <1>9 DEF TakeOut, DriverSlots
  <2> QED BY <1>9, <2>1, TxStays DEF TakeOut
<1>10. ASSUME DeliverRxPacket \/ Receive \/ \E i \in RxSlot : Post(i)
       PROVE  TxInv'
  BY <1>1, <1>10 DEF DeliverRxPacket, Receive, ReadIcr, Look, ReadFrame, RingEmpty, Post
<1>11. ASSUME \/ \E l \in RxLengths : SetRdlen(l)
              \/ \E base \in Base \ {"zero"} : SetRdbal(base)
       PROVE  TxInv'
  <2>1. setup \in {"rx", "rdlen", "rdbal"} /\ setup' \in {"rdlen", "rdbal", "rdh"}
        /\ UNCHANGED <<trapped, txVars>>
    BY <1>11 DEF SetRdlen, SetRdbal
  <2>2. Busy = 0 /\ Busy' = 0
    BY <2>1 DEF Busy
  <2> QED BY <2>1, <2>2 DEF TxInv, Blank, Books, txVars
<1> QED
  BY <1>2, <1>3, <1>4, <1>5, <1>6, <1>7, <1>8, <1>9, <1>10, <1>11,
     QueueKeepsOrder, CleanKeepsOrder
  DEF CardNext, SetUp

\* What the driver can see of the order, from what is in the ring.
LEMMA TxInvGivesOrder ==
  ASSUME CardTypeOK, TxInv
  PROVE  TxInOrder
<1>1. /\ Rises(sent) /\ ToSet(sent) \cap dropped = {}
      /\ ToSet(sent) \cup dropped = 1 .. queued - Busy
  BY DEF TxInv, Books
<1>2. ASSUME setup = "up"
      PROVE  ToSet(sent) \cup dropped \cup Pending = 1 .. queued
  <2>1. Pending = (queued - Busy) + 1 .. queued
        /\ queued \in Nat /\ Busy \in Nat /\ Busy <= queued
    BY <1>2, PendingIs, IndexTypes
  <2>2. (1 .. queued - Busy) \cup ((queued - Busy) + 1 .. queued) = 1 .. queued
    BY <2>1
  <2> QED BY <1>1, <2>1, <2>2
<1>3. ASSUME setup = "up", NEW i \in 0 .. DriverSlots - 1
      PROVE  /\ Between(i, ntc, tdh) => tx[i].dd
             /\ Between(i, tdh, ntu) => ~tx[i].dd
  <2> DEFINE n == DriverSlots
  <2>1. /\ n \in Nat /\ n <= TxSlots /\ i \in 0 .. n - 1 /\ i < n
        /\ Busy = Ahead(tdh, ntu, n)
        /\ n > 0 => tdh \in 0 .. n - 1 /\ ntu \in 0 .. n - 1 /\ ntc \in 0 .. n - 1
    BY <1>3, IndexTypes
  <2>2. i \in TxSlot
    BY <2>1, CardSizes DEF TxSlot
  <2>3. /\ Ahead(tdh, i, n) < Busy => ~tx[i].dd
        /\ Ahead(ntc, i, n) < Ahead(ntc, tdh, n) => tx[i].dd
    BY <1>3, <2>1, <2>2 DEF TxInv, Descriptors
  <2> HIDE DEF n
  <2>4. n > 0 /\ tdh \in 0 .. n - 1 /\ ntu \in 0 .. n - 1 /\ ntc \in 0 .. n - 1
    BY <2>1
  <2>5. Between(i, tdh, ntu) => Ahead(tdh, i, n) < Ahead(tdh, ntu, n)
    BY <2>1, <2>4 DEF Between, Ahead
  <2>6. Between(i, ntc, tdh) => Ahead(ntc, i, n) < Ahead(ntc, tdh, n)
    BY <2>1, <2>4 DEF Between, Ahead
  <2> QED BY <2>1, <2>3, <2>5, <2>6
<1> QED BY <1>1, <1>2, <1>3 DEF TxInOrder

(***************************************************************************)
(* The card: reception                                                     *)
(***************************************************************************)

LEMMA FunctionIsSeq ==
  ASSUME NEW S, NEW n \in Nat, NEW f \in [1 .. n -> S]
  PROVE  f \in Seq(S) /\ Len(f) = n
OBVIOUS

\* The slot k places behind slot a.
LEMMA PlacesBehind ==
  ASSUME NEW n \in Nat \ {0}, NEW a \in 0 .. n - 1, NEW k \in 0 .. n
  PROVE  /\ (a + k) % n = IF a + k < n THEN a + k ELSE (a + k) - n
         /\ (a + k) % n \in 0 .. n - 1
         /\ k < n => Ahead(a, (a + k) % n, n) = k
<1>1. (a + k) % n = IF a + k < n THEN a + k ELSE (a + k) - n
  <2>1. CASE a + k < n
    BY <2>1
  <2>2. CASE a + k >= n
    <3>1. (a + k) - n \in 0 .. n - 1 /\ a + k = n * 1 + ((a + k) - n)
      BY <2>2
    <3> QED BY <2>2, <3>1
  <2> QED BY <2>1, <2>2
<1> QED BY <1>1 DEF Ahead

LEMMA PlacesFromNext ==
  ASSUME NEW n \in Nat \ {0}, NEW a \in 0 .. n - 1, NEW j \in 0 .. n - 1
  PROVE  (NextSlot(a, n) + j) % n = (a + (j + 1)) % n
<1> DEFINE b == NextSlot(a, n)
<1>1. b \in 0 .. n - 1 /\ b = IF a + 1 = n THEN 0 ELSE a + 1
  BY NextSlotIs
<1> HIDE DEF b
<1>2. j \in 0 .. n /\ j + 1 \in 0 .. n
  OBVIOUS
<1>3. (b + j) % n = IF b + j < n THEN b + j ELSE (b + j) - n
  BY <1>1, <1>2, PlacesBehind
<1>4. (a + (j + 1)) % n = IF a + (j + 1) < n THEN a + (j + 1) ELSE (a + (j + 1)) - n
  BY <1>2, PlacesBehind
<1>5. CASE a + 1 = n
  <2>1. b + j < n /\ ~(a + (j + 1) < n) /\ (a + (j + 1)) - n = b + j
    BY <1>1, <1>5
  <2>2. (b + j) % n = b + j
    BY Zenon, <1>3, <2>1
  <2>3. (a + (j + 1)) % n = b + j
    BY Zenon, <1>4, <2>1
  <2> QED BY Zenon, <2>2, <2>3 DEF b
<1>6. CASE a + 1 # n
  <2>1. b + j = a + (j + 1)
    BY <1>1, <1>6
  <2> QED BY Zenon, <2>1 DEF b
<1> QED BY Zenon, <1>5, <1>6

LEMMA PlaceOfSlot ==
  ASSUME NEW n \in Nat \ {0}, NEW a \in 0 .. n - 1, NEW i \in 0 .. n - 1
  PROVE  (a + Ahead(a, i, n)) % n = i
<1> DEFINE k == Ahead(a, i, n)
<1>1. k \in 0 .. n /\ a + k = IF a <= i THEN i ELSE i + n
  BY DEF Ahead
<1> HIDE DEF k
<1>2. (a + k) % n = IF a + k < n THEN a + k ELSE (a + k) - n
  BY <1>1, PlacesBehind
<1>3. (IF a + k < n THEN a + k ELSE (a + k) - n) = i
  BY <1>1
<1>4. (a + k) % n = i
  BY Zenon, <1>2, <1>3
<1> QED BY <1>4 DEF k

LEMMA ToSetConcat ==
  ASSUME NEW S, NEW s \in Seq(S), NEW t \in Seq(S)
  PROVE  ToSet(s \o t) = ToSet(s) \cup ToSet(t)
<1>1. /\ s \o t \in Seq(S) /\ Len(s \o t) = Len(s) + Len(t)
      /\ \A i \in 1 .. Len(s) + Len(t) :
           (s \o t)[i] = IF i <= Len(s) THEN s[i] ELSE t[i - Len(s)]
  BY ConcatProperties
<1>2. /\ Len(s) \in Nat /\ Len(t) \in Nat
      /\ DOMAIN s = 1 .. Len(s) /\ DOMAIN t = 1 .. Len(t)
      /\ DOMAIN (s \o t) = 1 .. Len(s) + Len(t)
  BY <1>1, LenProperties
<1> DEFINE u == s \o t
<1> HIDE DEF u
<1>3. ASSUME NEW x \in ToSet(u) PROVE x \in ToSet(s) \cup ToSet(t)
  <2>1. PICK i \in 1 .. Len(s) + Len(t) : x = u[i]
    BY <1>2, <1>3 DEF ToSet, u
  <2>2. CASE i <= Len(s)
    BY <1>1, <1>2, <2>1, <2>2 DEF ToSet, u
  <2>3. CASE i > Len(s)
    <3>1. i - Len(s) \in 1 .. Len(t) /\ x = t[i - Len(s)]
      BY <1>1, <1>2, <2>1, <2>3 DEF u
    <3> QED BY <1>2, <3>1 DEF ToSet
  <2> QED BY <1>2, <2>2, <2>3
<1>4. ASSUME NEW x \in ToSet(s) \cup ToSet(t) PROVE x \in ToSet(u)
  <2>1. CASE x \in ToSet(s)
    <3>1. PICK i \in 1 .. Len(s) : x = s[i]
      BY <1>2, <2>1 DEF ToSet
    <3>2. i \in 1 .. Len(s) + Len(t) /\ u[i] = x
      BY <1>1, <1>2, <3>1 DEF u
    <3> QED BY <1>2, <3>2 DEF ToSet, u
  <2>2. CASE x \in ToSet(t)
    <3>1. PICK i \in 1 .. Len(t) : x = t[i]
      BY <1>2, <2>2 DEF ToSet
    <3>2. i + Len(s) \in 1 .. Len(s) + Len(t) /\ u[i + Len(s)] = x
      BY <1>1, <1>2, <3>1 DEF u
    <3> QED BY <1>2, <3>2 DEF ToSet, u
  <2> QED BY <1>4, <2>1, <2>2
<1> QED BY <1>3, <1>4 DEF u

LEMMA RisesPrefix ==
  ASSUME NEW m \in Nat, NEW s \in Seq(0 .. m), NEW t \in Seq(0 .. m), Rises(s \o t)
  PROVE  Rises(s)
<1> DEFINE u == s \o t
<1>1. /\ Len(s) \in Nat /\ Len(t) \in Nat /\ Len(u) = Len(s) + Len(t)
      /\ \A i \in 1 .. Len(s) : u[i] = s[i]
  BY ConcatProperties, LenProperties
<1>2. \A i \in 1 .. Len(u) - 1 : u[i] < u[i + 1]
  BY DEF Rises
<1> HIDE DEF u
<1>3. ASSUME NEW i \in 1 .. Len(s) - 1 PROVE s[i] < s[i + 1]
  <2>1. i \in 1 .. Len(s) /\ i + 1 \in 1 .. Len(s) /\ i \in 1 .. Len(u) - 1
    BY <1>1
  <2> QED BY <1>1, <1>2, <2>1
<1> QED BY <1>3 DEF Rises

\* The driver's ring is in the memory it set aside.
LEMMA RxSizes ==
  ASSUME CardTypeOK
  PROVE  /\ RxSlots \in Nat \ {0} /\ RxSlot = 0 .. RxSlots - 1
         /\ DriverRxSlots \in Nat /\ DriverRxSlots <= RxSlots
         /\ RingSlots(rdlen) \in Nat /\ RingSlots(rdlen) <= RxSlots
         /\ ntr \in RxSlot /\ rdh \in RxSlot /\ ntr \in Nat /\ rdh \in Nat
         /\ arrived \in Nat /\ arrived \in RxFrame /\ RxFrame = 0 .. MaxArrived
         /\ MaxArrived \in Nat
         /\ got \in Seq(RxFrame) /\ missed \subseteq RxFrame
         /\ rx \in [RxSlot -> [buffer : BOOLEAN, frame : RxFrame, dd : BOOLEAN]]
         /\ \A i \in RxSlot : rx[i].frame \in RxFrame /\ rx[i].dd \in BOOLEAN
<1>1. RxSlots \in Nat \ {0} /\ RxSlot = 0 .. RxSlots - 1
      /\ MaxArrived \in Nat /\ RxFrame = 0 .. MaxArrived
  BY CardSizes DEF RxSlot, RxFrame
<1>2. /\ ntr \in RxSlot /\ rdh \in RxSlot /\ arrived \in RxFrame
      /\ got \in Seq(RxFrame) /\ missed \subseteq RxFrame
      /\ rdlen \in 0 .. RxSlots * DescSize
      /\ storedRx.rdlen \in 0 .. RxSlots * DescSize
  BY DEF CardTypeOK, RxTypeOK
<1>3. rx \in [RxSlot -> [buffer : BOOLEAN, frame : RxFrame, dd : BOOLEAN]]
  BY DEF CardTypeOK, RxTypeOK
<1>4. \A i \in RxSlot : rx[i].frame \in RxFrame /\ rx[i].dd \in BOOLEAN
  BY ONLY <1>3
<1>5. arrived \in Nat /\ ntr \in Nat /\ rdh \in Nat
  BY ONLY <1>1, <1>2
<1>6. RingSlots(rdlen) \in 0 .. RxSlots /\ RingSlots(storedRx.rdlen) \in 0 .. RxSlots
  BY ONLY <1>1, <1>2, RingSlotsFit
<1>7. DriverRxSlots \in 0 .. RxSlots
  BY <1>6 DEF DriverRxSlots
<1> QED BY ONLY <1>1, <1>2, <1>3, <1>4, <1>5, <1>6, <1>7

\* And what is in use of it is inside.
LEMMA RxInside ==
  ASSUME CardTypeOK, RxPlaces
  PROVE  /\ DriverRxSlots = 0 => ntr = 0 /\ \A i \in RxSlot : ~rx[i].dd
         /\ DriverRxSlots > 0 => ntr \in 0 .. DriverRxSlots - 1
         /\ \A i \in RxSlot : rx[i].dd => i \in 0 .. DriverRxSlots - 1
<1>1. /\ DriverRxSlots \in Nat /\ ntr \in Nat /\ RxSlot = 0 .. RxSlots - 1
      /\ RxSlots \in Nat
  BY RxSizes
<1>2. /\ ntr = 0 \/ ntr < DriverRxSlots
      /\ \A i \in RxSlot : rx[i].dd => i < DriverRxSlots
  BY DEF RxPlaces
<1> QED BY ONLY <1>1, <1>2

LEMMA RxTypes ==
  ASSUME CardTypeOK, RxPlaces, CardNext
  PROVE  RxTypeOK'
<1>1. /\ rdlen \in 0 .. RxSlots * DescSize /\ rdbal \in Base
      /\ storedRx \in [rdlen : 0 .. RxSlots * DescSize, rdbal : Base]
      /\ polling \in BOOLEAN /\ overrun \in BOOLEAN /\ strayed \in BOOLEAN
  BY DEF CardTypeOK, RxTypeOK
<1>2. /\ 0 \in RxSlot /\ ntr \in RxSlot /\ rdh \in RxSlot /\ arrived \in RxFrame
      /\ got \in Seq(RxFrame) /\ missed \subseteq RxFrame
      /\ rx \in [RxSlot -> [buffer : BOOLEAN, frame : RxFrame, dd : BOOLEAN]]
      /\ \A i \in RxSlot : rx[i].frame \in RxFrame
      /\ \A i \in RxSlot : rx[i] \in [buffer : BOOLEAN, frame : RxFrame, dd : BOOLEAN]
  BY RxSizes
<1>3. ASSUME UNCHANGED rxVars
      PROVE  RxTypeOK'
  BY <1>1, <1>2, <1>3 DEF rxVars, rxRegs, RxTypeOK
<1>4. CASE Reset
  <2>1. rx' \in [RxSlot -> [buffer : BOOLEAN, frame : RxFrame, dd : BOOLEAN]]
    BY <1>4, CardSizes DEF Reset, NoRx, RxFrame
  <2>2. missed' \subseteq RxFrame
    BY <1>2, <1>4 DEF Reset
  <2> QED BY <1>1, <1>2, <1>4, <2>1, <2>2 DEF Reset, rxRegs, RxTypeOK
<1>5. CASE (\E l \in Lengths : SetTdlen(l)) \/ SetTdh \/ SetTdt \/ Ring \/ Clean \/ TakeOut
           \/ (\E good \in BOOLEAN : Queue(good))
  BY <1>3, <1>5 DEF SetTdlen, SetTdh, SetTdt, Ring, Clean, TakeOut, Queue
<1>6. ASSUME NEW l \in RxLengths, SetRdlen(l)
      PROVE  RxTypeOK'
  <2>1. l \in 0 .. RxSlots * DescSize
    BY SizeAssumption
  <2> QED BY <1>1, <1>2, <1>6, <2>1 DEF SetRdlen, RxTypeOK
<1>7. ASSUME NEW base \in Base \ {"zero"}, SetRdbal(base)
      PROVE  RxTypeOK'
  BY <1>1, <1>2, <1>7 DEF SetRdbal, RxTypeOK
<1>8. CASE SetRdh
  BY <1>1, <1>2, <1>8 DEF SetRdh, RxTypeOK
<1>9. CASE SyncMmio
  BY <1>1, <1>2, <1>9 DEF SyncMmio, TakeRxRing, RxTypeOK
<1>10. CASE DeliverRxPacket
  <2>1. arrived' \in RxFrame
    <3>1. arrived' = arrived + 1 /\ arrived < MaxArrived
      BY <1>10 DEF DeliverRxPacket
    <3> QED BY <3>1, RxSizes
  <2>2. UNCHANGED <<rdlen, rdbal, storedRx, ntr, polling, got>>
    BY <1>10 DEF DeliverRxPacket
  <2>3. CASE RingSlots(rdlen) = 0
    <3>1. missed' = missed \cup {arrived'} /\ UNCHANGED <<rdh, rx, overrun, strayed>>
      BY <1>10, <2>3 DEF DeliverRxPacket
    <3> QED BY <1>1, <1>2, <2>1, <2>2, <3>1 DEF RxTypeOK
  <2>4. CASE RingSlots(rdlen) # 0
    <3>1. PICK buffer \in BufferAtHead : WriteDescriptor(buffer)
      BY <1>10, <2>4 DEF DeliverRxPacket
    <3>2. missed' = missed \/ missed' = missed \cup {arrived'}
      BY <3>1 DEF WriteDescriptor
    <3>3. overrun' \in BOOLEAN /\ strayed' \in BOOLEAN
      BY <1>1, <1>2, <3>1 DEF WriteDescriptor
    <3>4. rdh' \in RxSlot
      <4>1. rdh' = rdh \/ rdh' = (rdh + 1) % RingSlots(rdlen)
        BY <3>1 DEF WriteDescriptor, NextRdh, NextSlot
      <4>2. CASE rdh' = (rdh + 1) % RingSlots(rdlen)
        <5> DEFINE q == RingSlots(rdlen)
        <5>1. q \in Nat /\ q > 0 /\ q <= RxSlots /\ rdh + 1 \in Nat
              /\ RxSlots \in Nat /\ RxSlot = 0 .. RxSlots - 1
          BY <2>4, RxSizes
        <5> HIDE DEF q
        <5>2. (rdh + 1) % q \in 0 .. q - 1
          BY <5>1
        <5>3. (rdh + 1) % q \in RxSlot
          BY <5>1, <5>2
        <5> QED BY <4>2, <5>3 DEF q
      <4> QED BY <1>2, <4>1, <4>2
    <3>5. rx' \in [RxSlot -> [buffer : BOOLEAN, frame : RxFrame, dd : BOOLEAN]]
      <4> DEFINE d == [rx[rdh] EXCEPT !.frame = arrived', !.dd = TRUE]
      <4>1. d \in [buffer : BOOLEAN, frame : RxFrame, dd : BOOLEAN]
        BY <1>2, <2>1
      <4>2. rx' = rx \/ rx' = [rx EXCEPT ![rdh] = d]
        BY <3>1 DEF WriteDescriptor
      <4> HIDE DEF d
      <4> QED BY <1>2, <4>1, <4>2
    <3> QED BY <1>1, <1>2, <2>1, <2>2, <3>2, <3>3, <3>4, <3>5 DEF RxTypeOK
  <2> QED BY <2>3, <2>4
<1>11. CASE ReadIcr \/ Look \/ RingEmpty
  <2>1. polling' \in BOOLEAN
    <3>1. CASE ReadIcr
      BY <3>1 DEF ReadIcr
    <3>2. CASE Look \/ RingEmpty
      BY <3>2 DEF Look, RingEmpty
    <3> QED BY <1>11, <3>1, <3>2
  <2>2. UNCHANGED <<rxRegs, rx, arrived, ntr, got, missed, overrun, strayed>>
    BY <1>11 DEF ReadIcr, Look, RingEmpty
  <2> QED BY <1>1, <1>2, <2>1, <2>2 DEF rxRegs, RxTypeOK
<1>12. CASE ReadFrame
  <2>1. /\ rx[ntr].dd /\ got' = Append(got, rx[ntr].frame)
        /\ rx' = [rx EXCEPT ![ntr].dd = FALSE]
        /\ ntr' = NextSlot(ntr, DriverRxSlots)
        /\ UNCHANGED <<rxRegs, arrived, polling, missed, overrun, strayed>>
    BY <1>12 DEF ReadFrame
  <2>2. got' \in Seq(RxFrame)
    BY <1>2, <2>1
  <2>3. ntr' \in RxSlot
    <3> DEFINE n == DriverRxSlots
    <3>1. n \in Nat \ {0} /\ ntr \in 0 .. n - 1 /\ n <= RxSlots
      BY <1>2, <2>1, RxInside, RxSizes
    <3> HIDE DEF n
    <3>2. NextSlot(ntr, n) \in 0 .. n - 1
      BY <3>1, NextSlotIs
    <3> QED BY <2>1, <3>1, <3>2, RxSizes DEF n
  <2>4. rx' \in [RxSlot -> [buffer : BOOLEAN, frame : RxFrame, dd : BOOLEAN]]
    <3> DEFINE d == [rx[ntr] EXCEPT !.dd = FALSE]
    <3>1. d \in [buffer : BOOLEAN, frame : RxFrame, dd : BOOLEAN]
      BY <1>2
    <3>2. rx' = [rx EXCEPT ![ntr] = d]
      BY <2>1
    <3> HIDE DEF d
    <3> QED BY <1>2, <3>1, <3>2
  <2> QED BY <1>1, <1>2, <2>1, <2>2, <2>3, <2>4 DEF rxRegs, RxTypeOK
<1>13. ASSUME NEW i \in RxSlot, Post(i)
       PROVE  RxTypeOK'
  <2>1. rx' = [rx EXCEPT ![i].buffer = TRUE]
        /\ UNCHANGED <<rxRegs, arrived, ntr, polling, got, missed, overrun, strayed>>
    BY <1>13 DEF Post
  <2>2. rx' \in [RxSlot -> [buffer : BOOLEAN, frame : RxFrame, dd : BOOLEAN]]
    <3> DEFINE d == [rx[i] EXCEPT !.buffer = TRUE]
    <3>1. d \in [buffer : BOOLEAN, frame : RxFrame, dd : BOOLEAN]
      BY <1>2
    <3>2. rx' = [rx EXCEPT ![i] = d]
      BY <2>1
    <3> HIDE DEF d
    <3> QED BY <1>2, <3>1, <3>2
  <2> QED BY <1>1, <1>2, <2>1, <2>2 DEF rxRegs, RxTypeOK
<1> QED
  BY <1>4, <1>5, <1>6, <1>7, <1>8, <1>9, <1>10, <1>11, <1>12, <1>13
  DEF CardNext, SetUp, Receive

\* Where things are in the receive ring, after every step.
LEMMA RxPlacesStep ==
  ASSUME CardTypeOK, RxPlaces, CardNext
  PROVE  RxPlaces'
<1>1. /\ ntr = 0 \/ ntr < DriverRxSlots
      /\ \A i \in RxSlot : rx[i].dd => i < DriverRxSlots
      /\ setup # "up" => ntr = 0 /\ ~polling /\ \A i \in RxSlot : ~rx[i].dd
  BY DEF RxPlaces
<1>2. ASSUME DriverRxSlots' = DriverRxSlots \/ setup # "up", UNCHANGED ntr,
             \A i \in RxSlot : rx'[i].dd = rx[i].dd,
             setup' # "up" => setup # "up" /\ polling' = polling
      PROVE  RxPlaces'
  BY <1>1, <1>2 DEF RxPlaces
<1>3. CASE Reset
  BY <1>3 DEF Reset, NoRx, RxPlaces
<1>4. CASE \/ (\E l \in Lengths : SetTdlen(l)) \/ SetTdh \/ SetTdt \/ Ring \/ Clean
           \/ TakeOut \/ (\E good \in BOOLEAN : Queue(good))
  <2>1. UNCHANGED <<trapped, rxVars>>
        /\ (setup' = setup \/ setup # "up")
    BY <1>4 DEF SetTdlen, SetTdh, SetTdt, Ring, Clean, TakeOut, Queue
  <2>2. DriverRxSlots' = DriverRxSlots
    BY <2>1 DEF rxVars, rxRegs, DriverRxSlots
  <2> QED BY <1>2, <2>1, <2>2 DEF rxVars
<1>5. CASE \/ (\E l \in RxLengths : SetRdlen(l))
           \/ (\E base \in Base \ {"zero"} : SetRdbal(base)) \/ SetRdh
  <2>1. setup # "up" /\ UNCHANGED <<ntr, rx, polling>>
    BY <1>5 DEF SetRdlen, SetRdbal, SetRdh
  <2> QED BY <1>2, <2>1
<1>6. CASE SyncMmio
  <2>1. ~trapped /\ UNCHANGED <<trapped, setup, storedRx, ntr, rx, polling>>
    BY <1>6 DEF SyncMmio
  <2>2. DriverRxSlots' = DriverRxSlots
    BY <2>1 DEF DriverRxSlots
  <2> QED BY <1>2, <2>1, <2>2
<1>7. CASE DeliverRxPacket
  <2>1. UNCHANGED <<trapped, setup, rdlen, storedRx, ntr, polling>>
    BY <1>7 DEF DeliverRxPacket
  <2>2. DriverRxSlots' = DriverRxSlots
    BY <2>1 DEF DriverRxSlots
  <2>3. CASE rx' = rx
    BY <1>2, <2>1, <2>2, <2>3
  <2>4. CASE rx' # rx
    <3>1. HeadInRing /\ rx' = [rx EXCEPT ![rdh].frame = arrived', ![rdh].dd = TRUE]
      BY <1>7, <2>4 DEF DeliverRxPacket, WriteDescriptor
    <3>2. setup = "up" /\ rdh < DriverRxSlots
      BY <3>1 DEF HeadInRing
    <3>3. \A i \in RxSlot : i # rdh => rx'[i] = rx[i]
      BY <3>1, RxSizes
    <3> QED BY <1>1, <2>1, <2>2, <3>2, <3>3 DEF RxPlaces
  <2> QED BY <2>3, <2>4
<1>8. CASE ReadIcr \/ Look \/ RingEmpty
  <2>1. setup = "up" /\ UNCHANGED <<trapped, setup, rxRegs, ntr, rx>>
    BY <1>8 DEF ReadIcr, Look, RingEmpty
  <2>2. DriverRxSlots' = DriverRxSlots
    BY <2>1 DEF rxRegs, DriverRxSlots
  <2> QED BY <1>2, <2>1, <2>2
<1>9. CASE ReadFrame
  <2>1. /\ setup = "up" /\ UNCHANGED <<trapped, setup, rxRegs>>
        /\ rx[ntr].dd /\ rx' = [rx EXCEPT ![ntr].dd = FALSE]
        /\ ntr' = NextSlot(ntr, DriverRxSlots)
    BY <1>9 DEF ReadFrame
  <2>2. DriverRxSlots' = DriverRxSlots
    BY <2>1 DEF rxRegs, DriverRxSlots
  <2>3. \A i \in RxSlot : rx'[i].dd => rx[i].dd
    BY <2>1, RxSizes
  <2>4. ntr' < DriverRxSlots
    <3> DEFINE n == DriverRxSlots
    <3>1. n \in Nat \ {0} /\ ntr \in 0 .. n - 1
      BY <2>1, RxInside, RxSizes
    <3> HIDE DEF n
    <3>2. NextSlot(ntr, n) \in 0 .. n - 1
      BY <3>1, NextSlotIs
    <3>3. NextSlot(ntr, n) < n
      BY <3>1, <3>2
    <3> QED BY <2>1, <3>3 DEF n
  <2> QED BY <1>1, <2>1, <2>2, <2>3, <2>4 DEF RxPlaces
<1>10. ASSUME NEW i \in RxSlot, Post(i)
       PROVE  RxPlaces'
  <2>1. setup = "up" /\ UNCHANGED <<trapped, setup, rxRegs, ntr>>
        /\ rx' = [rx EXCEPT ![i].buffer = TRUE]
    BY <1>10 DEF Post
  <2>2. DriverRxSlots' = DriverRxSlots
    BY <2>1 DEF rxRegs, DriverRxSlots
  <2>3. \A j \in RxSlot : rx'[j].dd = rx[j].dd
    BY <2>1, RxSizes
  <2> QED BY <1>2, <2>1, <2>2, <2>3
<1> QED
  BY <1>3, <1>4, <1>5, <1>6, <1>7, <1>8, <1>9, <1>10 DEF CardNext, SetUp, Receive

\* What waits: its number and its frames.
LEMMA UnreadIs ==
  ASSUME CardTypeOK, RxPlaces
  PROVE  /\ IsFiniteSet({i \in RxSlot : rx[i].dd})
         /\ Unread \in 0 .. DriverRxSlots
         /\ Unread = 0 <=> \A i \in RxSlot : ~rx[i].dd
         /\ Unread = DriverRxSlots => \A i \in 0 .. DriverRxSlots - 1 : rx[i].dd
         /\ Waiting \in Seq(RxFrame) /\ Len(Waiting) = Unread
<1> DEFINE D == {i \in RxSlot : rx[i].dd}
           n == DriverRxSlots
           S == 0 .. n - 1
<1>1. /\ n \in Nat /\ n <= RxSlots /\ RxSlots \in Nat /\ RxSlot = 0 .. RxSlots - 1
      /\ ntr \in Nat /\ \A i \in RxSlot : rx[i].frame \in RxFrame
  BY RxSizes
<1>2. D \in SUBSET S /\ S \subseteq RxSlot
  BY <1>1, RxInside
<1>3. IsFiniteSet(S) /\ Cardinality(S) = n
  <2>1. /\ IsFiniteSet(0 .. n - 1)
        /\ Cardinality(0 .. n - 1) = (IF 0 > n - 1 THEN 0 ELSE (n - 1) - 0 + 1)
    BY <1>1, FS_Interval
  <2> QED BY <1>1, <2>1
<1>4. /\ IsFiniteSet(D) /\ Cardinality(D) <= n
      /\ Cardinality(D) = n => D = S
  BY <1>2, <1>3, FS_Subset
<1>5. Cardinality(D) \in Nat /\ (Cardinality(D) = 0 <=> D = {})
  BY <1>4, FS_CardinalityType, FS_EmptySet
<1>6. Unread = Cardinality(D)
  BY DEF Unread
<1>7. Unread \in Nat /\ Unread <= n
  BY <1>4, <1>5, <1>6
<1>8. D = {} <=> \A i \in RxSlot : ~rx[i].dd
  OBVIOUS
<1>9. D = S => \A i \in S : rx[i].dd
  OBVIOUS
<1> HIDE DEF D, S
<1>10. Waiting \in [1 .. Unread -> RxFrame]
  <2>1. ASSUME NEW k \in 1 .. Unread
        PROVE  rx[(ntr + k - 1) % n].frame \in RxFrame
    <3>1. (ntr + k) - 1 \in Int /\ n >= 1
      BY <1>1, <1>7
    <3>2. (ntr + k - 1) % n \in 0 .. n - 1
      BY <1>1, <3>1
    <3>3. (ntr + k - 1) % n \in RxSlot
      BY <1>2, <3>2 DEF S
    <3> QED BY <1>1, <3>3
  <2> QED BY <2>1 DEF Waiting
<1>11. Waiting \in Seq(RxFrame) /\ Len(Waiting) = Unread
  BY <1>7, <1>10, FunctionIsSeq
<1>12. Unread \in 0 .. n
  BY <1>1, <1>7
<1> QED BY <1>4, <1>5, <1>6, <1>8, <1>9, <1>11, <1>12 DEF D, S

\* The slot of the k-th frame that waits, and its frame.
LEMMA WaitingAt ==
  ASSUME CardTypeOK, RxPlaces, NEW k \in 1 .. Unread
  PROVE  /\ Waiting[k] = rx[(ntr + (k - 1)) % DriverRxSlots].frame
         /\ (ntr + (k - 1)) % DriverRxSlots \in RxSlot
         /\ Ahead(ntr, (ntr + (k - 1)) % DriverRxSlots, DriverRxSlots) = k - 1
<1> DEFINE n == DriverRxSlots
           j == k - 1
<1>1. /\ n \in Nat \ {0} /\ n <= RxSlots /\ ntr \in 0 .. n - 1 /\ Unread \in 0 .. n
      /\ RxSlots \in Nat /\ RxSlot = 0 .. RxSlots - 1
  <2>1. Unread \in 0 .. n /\ n \in Nat /\ n <= RxSlots
        /\ RxSlots \in Nat /\ RxSlot = 0 .. RxSlots - 1
    BY UnreadIs, RxSizes
  <2>2. n > 0
    BY <2>1
  <2> QED BY <2>1, <2>2, RxInside
<1> HIDE DEF n
<1>2. j \in 0 .. n /\ j < n /\ (ntr + k) - 1 = ntr + j
  BY <1>1
<1>3. Waiting[k] = rx[(ntr + j) % n].frame
  <2>1. Waiting[k] = rx[(ntr + k - 1) % n].frame
    BY DEF Waiting, n
  <2> QED BY <1>2, <2>1
<1> HIDE DEF j
<1>4. (ntr + j) % n \in 0 .. n - 1 /\ Ahead(ntr, (ntr + j) % n, n) = j
  BY <1>1, <1>2, PlacesBehind
<1>5. (ntr + j) % n \in RxSlot
  BY <1>1, <1>4
<1> QED BY <1>3, <1>4, <1>5 DEF j, n

\* The same of the sequence as a whole.
LEMMA WaitingTypes ==
  CardTypeOK /\ RxPlaces =>
    /\ Waiting \in Seq(RxFrame) /\ Len(Waiting) = Unread
    /\ Unread = 0 <=> \A i \in RxSlot : ~rx[i].dd
    /\ \A k \in 1 .. Unread :
         /\ Waiting[k] = rx[(ntr + (k - 1)) % DriverRxSlots].frame
         /\ (ntr + (k - 1)) % DriverRxSlots \in RxSlot
BY UnreadIs, WaitingAt

LEMMA WaitingTypesNext ==
  (CardTypeOK /\ RxPlaces =>
    /\ Waiting \in Seq(RxFrame) /\ Len(Waiting) = Unread
    /\ Unread = 0 <=> \A i \in RxSlot : ~rx[i].dd
    /\ \A k \in 1 .. Unread :
         /\ Waiting[k] = rx[(ntr + (k - 1)) % DriverRxSlots].frame
         /\ (ntr + (k - 1)) % DriverRxSlots \in RxSlot)'
BY WaitingTypes, PTL

\* The frames that wait are those of the descriptors that are done.
LEMMA WaitingFrames ==
  ASSUME CardTypeOK, RxPlaces, DriverRxSlots > 0 => Window
  PROVE  ToSet(Waiting) = {rx[i].frame : i \in {j \in RxSlot : rx[j].dd}}
<1> DEFINE F == {rx[i].frame : i \in {j \in RxSlot : rx[j].dd}}
           n == DriverRxSlots
<1>1. /\ n \in Nat /\ n <= RxSlots /\ RxSlots \in Nat /\ RxSlot = 0 .. RxSlots - 1
      /\ n > 0 => ntr \in 0 .. n - 1
      /\ Unread \in 0 .. n
      /\ \A i \in RxSlot : rx[i].dd => i \in 0 .. n - 1
  BY RxSizes, RxInside, UnreadIs
<1>2. DOMAIN Waiting = 1 .. Unread
  BY DEF Waiting
<1>3. n > 0 => \A i \in RxSlot : rx[i].dd <=> i < n /\ Ahead(ntr, i, n) < Unread
  BY DEF Window
<1> HIDE DEF n
<1>4. ASSUME NEW x \in ToSet(Waiting) PROVE x \in F
  <2>1. PICK k \in 1 .. Unread : x = Waiting[k]
    BY <1>2, <1>4 DEF ToSet
  <2> DEFINE i == (ntr + (k - 1)) % n
  <2>2. i \in RxSlot /\ x = rx[i].frame /\ Ahead(ntr, i, n) = k - 1
    BY <2>1, WaitingAt DEF n
  <2>3. n > 0 /\ i < n
    <3>1. n \in Nat \ {0} /\ ntr \in 0 .. n - 1 /\ k - 1 \in 0 .. n /\ n > 0
      BY <1>1
    <3> DEFINE j == k - 1
    <3> HIDE DEF j
    <3>2. (ntr + j) % n \in 0 .. n - 1
      BY <3>1, PlacesBehind DEF j
    <3>3. (ntr + j) % n < n
      BY <3>1, <3>2
    <3> QED BY <3>1, <3>3 DEF j
  <2> HIDE DEF i
  <2>4. Ahead(ntr, i, n) < Unread
    BY <1>1, <2>2
  <2> QED BY <1>3, <2>2, <2>3, <2>4
<1>5. ASSUME NEW x \in F PROVE x \in ToSet(Waiting)
  <2>1. PICK i \in RxSlot : rx[i].dd /\ x = rx[i].frame
    BY <1>5
  <2>2. n \in Nat \ {0} /\ i \in 0 .. n - 1 /\ ntr \in 0 .. n - 1
    BY <1>1, <2>1
  <2>3. Ahead(ntr, i, n) < Unread /\ Ahead(ntr, i, n) \in Nat
    BY <1>3, <2>1, <2>2 DEF Ahead
  <2> DEFINE k == Ahead(ntr, i, n) + 1
  <2>4. k \in 1 .. Unread /\ k - 1 = Ahead(ntr, i, n)
    BY <1>1, <2>3
  <2>5. (ntr + Ahead(ntr, i, n)) % n = i
    BY <2>2, PlaceOfSlot
  <2> HIDE DEF k
  <2>6. Waiting[k] = x
    BY <2>1, <2>4, <2>5, WaitingAt DEF n
  <2> QED BY <1>2, <2>4, <2>6 DEF ToSet
<1> QED BY <1>4, <1>5

\* Nothing that is received changes.
LEMMA RxStays ==
  ASSUME CardTypeOK, RxPlaces,
         \/ DriverRxSlots' = DriverRxSlots
         \/ \A i \in RxSlot : ~rx[i].dd,
         UNCHANGED <<ntr, arrived, got, missed, overrun, strayed>>,
         \A i \in RxSlot : rx'[i].dd = rx[i].dd /\ rx'[i].frame = rx[i].frame
  PROVE  /\ Unread' = Unread
         /\ Window /\ DriverRxSlots' = DriverRxSlots /\ rdh' = rdh => Window'
         /\ RxInOrder => RxInOrder'
<1>1. Unread' = Unread
  <2>1. {i \in RxSlot : rx'[i].dd} = {i \in RxSlot : rx[i].dd}
    OBVIOUS
  <2> QED BY <2>1 DEF Unread
<1>2. Waiting' = Waiting
  <2>1. ASSUME NEW k \in 1 .. Unread
        PROVE  rx'[(ntr' + k - 1) % DriverRxSlots'].frame
                 = rx[(ntr + k - 1) % DriverRxSlots].frame
    <3> DEFINE n == DriverRxSlots
    <3>1. /\ n \in Nat /\ n <= RxSlots /\ RxSlots \in Nat /\ RxSlot = 0 .. RxSlots - 1
          /\ ntr \in Nat /\ Unread \in 0 .. n
      BY RxSizes, UnreadIs
    <3>2. Unread # 0 /\ (ntr + k) - 1 \in Int /\ n >= 1
      BY <3>1
    <3>3. n' = n
      BY <3>2, UnreadIs
    <3> HIDE DEF n
    <3>4. (ntr + k - 1) % n \in 0 .. n - 1
      BY <3>1, <3>2
    <3>5. (ntr + k - 1) % n \in RxSlot
      BY <3>1, <3>4
    <3> QED BY <3>3, <3>5 DEF n
  <2> QED BY <1>1, <2>1 DEF Waiting
<1>3. Window /\ DriverRxSlots' = DriverRxSlots /\ rdh' = rdh => Window'
  BY <1>1 DEF Window, Ahead
<1>4. RxInOrder => RxInOrder'
  BY <1>2 DEF RxInOrder
<1> QED BY <1>1, <1>3, <1>4

\* The driver gives up the ring with all that waits in it.
LEMMA ResetKeepsOrder ==
  ASSUME CardTypeOK, RxInv, CardTypeOK', RxPlaces', Reset
  PROVE  RxInv'
<1> DEFINE F == {rx[i].frame : i \in {j \in RxSlot : rx[j].dd}}
<1>1. /\ missed' = missed \cup F /\ setup = "up" /\ setup' = "tdlen"
      /\ UNCHANGED <<trapped, arrived, got, overrun, strayed>> /\ trapped
      /\ \A i \in RxSlot : ~rx'[i].dd
  BY DEF Reset, NoRx
<1>2. Waiting' = <<>>
  <2>1. Waiting' \in Seq(RxFrame) /\ Len(Waiting') = 0
    BY <1>1, WaitingTypesNext
  <2> QED BY <2>1, EmptySeq
<1>3. FrameIsAnnounced'
  BY <1>1 DEF FrameIsAnnounced
<1>4. RxInOrder'
  <2> SUFFICES ASSUME ~overrun, ~strayed
               PROVE  /\ Rises(got \o <<>>)
                      /\ ToSet(got \o <<>>) \cup missed' = 1 .. arrived
    BY <1>1, <1>2 DEF RxInOrder
  <2>1. /\ RxPlaces /\ (DriverRxSlots > 0 => Window)
        /\ Rises(got \o Waiting)
        /\ ToSet(got \o Waiting) \cup missed = 1 .. arrived
    BY <1>1 DEF RxInv, RxInOrder
  <2>2. got \in Seq(RxFrame) /\ Waiting \in Seq(RxFrame)
        /\ RxFrame = 0 .. MaxArrived /\ MaxArrived \in Nat
    BY <2>1, RxSizes, UnreadIs
  <2>3. got \o <<>> = got
    BY <2>2, ConcatEmptySeq
  <2>4. Rises(got)
    BY <2>1, <2>2, RisesPrefix
  <2>5. ToSet(got \o Waiting) = ToSet(got) \cup F
    BY <2>1, <2>2, ToSetConcat, WaitingFrames
  <2> HIDE DEF F
  <2> QED BY <1>1, <2>1, <2>3, <2>4, <2>5
<1> QED BY <1>1, <1>3, <1>4 DEF RxInv

\* A frame put into a descriptor of the driver is behind those that wait.
LEMMA PutBehind ==
  ASSUME CardTypeOK, RxPlaces, CardTypeOK', RxPlaces',
         NEW n \in Nat \ {0}, DriverRxSlots = n, DriverRxSlots' = n,
         UNCHANGED <<ntr, got, missed>>,
         NEW f, f = arrived + 1, arrived' = f,
         Window, Rises(got \o Waiting),
         ToSet(got \o Waiting) \cup missed = 1 .. arrived,
         rdh \in 0 .. n - 1, ~rx[rdh].dd, rdh' = NextSlot(rdh, n),
         rx' = [rx EXCEPT ![rdh].frame = f, ![rdh].dd = TRUE]
  PROVE  /\ Window'
         /\ Rises(got' \o Waiting')
         /\ ToSet(got' \o Waiting') \cup missed' = 1 .. arrived'
<1>1. arrived' = f /\ UNCHANGED <<ntr, got, missed>> /\ DriverRxSlots' = n
  OBVIOUS
<1>2. /\ n \in Nat \ {0} /\ n <= RxSlots /\ RxSlots \in Nat /\ RxSlot = 0 .. RxSlots - 1
      /\ ntr \in 0 .. n - 1 /\ rdh \in 0 .. n - 1 /\ rdh \in RxSlot
      /\ arrived \in Nat /\ got \in Seq(RxFrame) /\ f \in RxFrame
      /\ RxFrame = 0 .. MaxArrived /\ MaxArrived \in Nat
      /\ rx \in [RxSlot -> [buffer : BOOLEAN, frame : RxFrame, dd : BOOLEAN]]
      /\ Waiting \in Seq(RxFrame) /\ Len(Waiting) = Unread /\ Unread \in 0 .. n
      /\ Waiting' \in Seq(RxFrame) /\ Len(Waiting') = Unread'
  <2>1. f \in RxFrame
    BY DEF CardTypeOK, RxTypeOK
  <2>2. Waiting' \in Seq(RxFrame) /\ Len(Waiting') = Unread'
    BY WaitingTypesNext
  <2>3. Waiting \in Seq(RxFrame) /\ Len(Waiting) = Unread /\ Unread \in 0 .. n
    BY UnreadIs
  <2>4. ntr \in 0 .. n - 1
    BY RxInside
  <2>5. /\ n <= RxSlots /\ RxSlots \in Nat /\ RxSlot = 0 .. RxSlots - 1
        /\ rdh \in RxSlot /\ arrived \in Nat /\ got \in Seq(RxFrame)
        /\ RxFrame = 0 .. MaxArrived /\ MaxArrived \in Nat
        /\ rx \in [RxSlot -> [buffer : BOOLEAN, frame : RxFrame, dd : BOOLEAN]]
    BY RxSizes
  <2> QED BY <2>1, <2>2, <2>3, <2>4, <2>5
<1>3. ~rx[rdh].dd /\ missed' = missed /\ rdh' = NextSlot(rdh, n)
      /\ rx' = [rx EXCEPT ![rdh].frame = f, ![rdh].dd = TRUE]
  OBVIOUS
<1>4. \A i \in RxSlot :
        /\ i = rdh => rx'[i].dd /\ rx'[i].frame = f
        /\ i # rdh => rx'[i] = rx[i]
  BY <1>2, <1>3
<1>5. /\ \A i \in RxSlot : rx[i].dd <=> i < n /\ Ahead(ntr, i, n) < Unread
      /\ rdh = (ntr + Unread) % n
      /\ Rises(got \o Waiting)
      /\ ToSet(got \o Waiting) \cup missed = 1 .. arrived
  BY DEF Window
<1>6. Unread < n
  <2>1. Unread # n
    BY <1>2, <1>3, UnreadIs
  <2> QED BY <1>2, <2>1
<1>7. Ahead(ntr, rdh, n) = Unread
  BY <1>2, <1>5, <1>6, PlacesBehind
<1>8. Unread' = Unread + 1
  <2> DEFINE D == {i \in RxSlot : rx[i].dd}
             E == {i \in RxSlot : rx'[i].dd}
  <2>1. E = D \cup {rdh} /\ rdh \notin D
    BY <1>2, <1>3, <1>4
  <2>2. IsFiniteSet(D)
    BY UnreadIs
  <2> HIDE DEF D, E
  <2>3. Cardinality(E) = Cardinality(D) + 1
    BY <2>1, <2>2, FS_AddElement
  <2> QED BY <2>3 DEF Unread, D, E
<1>9. Window'
  <2>1. ASSUME NEW i \in RxSlot
        PROVE  rx'[i].dd <=> i < n /\ Ahead(ntr, i, n) < Unread + 1
    <3>1. CASE ~(i < n)
      <4>1. i # rdh /\ ~rx[i].dd
        BY <1>2, <1>5, <3>1
      <4> QED BY <1>4, <3>1, <4>1
    <3>2. CASE i < n
      <4>1. i \in 0 .. n - 1 /\ Ahead(ntr, i, n) \in Nat /\ Unread \in Nat
        <5>1. /\ n \in Nat /\ ntr \in 0 .. n - 1 /\ RxSlots \in Nat
              /\ RxSlot = 0 .. RxSlots - 1 /\ Unread \in 0 .. n
          BY <1>2
        <5> QED BY ONLY <2>1, <3>2, <5>1 DEF Ahead
      <4>2. CASE i = rdh
        <5>1. rx'[i].dd
          BY <1>4, <4>2
        <5>2. Ahead(ntr, i, n) = Unread
          BY <1>7, <4>2
        <5> QED BY ONLY <3>2, <4>1, <5>1, <5>2
      <4>3. CASE i # rdh
        <5>1. Ahead(ntr, i, n) # Unread
          BY <1>2, <1>7, <4>1, <4>3, AheadDiffers
        <5>2. rx'[i].dd = rx[i].dd
          BY <1>4, <4>3
        <5>3. rx[i].dd <=> Ahead(ntr, i, n) < Unread
          BY <1>5, <3>2
        <5> QED BY ONLY <3>2, <4>1, <5>1, <5>2, <5>3
      <4> QED BY <4>2, <4>3
    <3> QED BY <3>1, <3>2
  <2>2. rdh' = (ntr + (Unread + 1)) % n
    <3>1. rdh = (IF ntr + Unread < n THEN ntr + Unread ELSE (ntr + Unread) - n)
      BY <1>2, <1>5, PlacesBehind
    <3>2. rdh' = (IF rdh + 1 = n THEN 0 ELSE rdh + 1)
      BY <1>2, <1>3, NextSlotIs
    <3>3. Unread + 1 \in 0 .. n
      BY <1>2, <1>6
    <3>4. (ntr + (Unread + 1)) % n
            = IF ntr + (Unread + 1) < n THEN ntr + (Unread + 1)
                                       ELSE (ntr + (Unread + 1)) - n
      BY <1>2, <3>3, PlacesBehind
    <3>5. rdh' = IF ntr + (Unread + 1) < n THEN ntr + (Unread + 1)
                                          ELSE (ntr + (Unread + 1)) - n
      <4>1. n \in Nat /\ ntr \in 0 .. n - 1 /\ Unread \in 0 .. n
        BY ONLY <1>2
      <4> QED BY ONLY <1>6, <3>1, <3>2, <4>1
    <3> QED BY Zenon, <3>4, <3>5
  <2> QED BY <1>1, <1>8, <2>1, <2>2 DEF Window, Ahead
<1>10. Waiting' = Append(Waiting, f)
  <2>1. /\ Append(Waiting, f) \in Seq(RxFrame)
        /\ Len(Append(Waiting, f)) = Unread + 1
        /\ \A k \in 1 .. Unread : Append(Waiting, f)[k] = Waiting[k]
        /\ Append(Waiting, f)[Unread + 1] = f
    BY <1>2, AppendProperties
  <2>2. ASSUME NEW k \in 1 .. Unread + 1
        PROVE  Waiting'[k] = Append(Waiting, f)[k]
    <3> DEFINE i == (ntr + (k - 1)) % n
    <3>1. Waiting'[k] = rx'[i].frame /\ i \in RxSlot /\ Ahead(ntr, i, n) = k - 1
      <4>1. k \in (1 .. Unread)'
        BY <1>8
      <4>2. /\ Waiting'[k] = rx'[(ntr' + (k - 1)) % DriverRxSlots'].frame
            /\ (ntr' + (k - 1)) % DriverRxSlots' \in RxSlot
        BY <4>1, WaitingTypesNext
      <4>3. k - 1 \in 0 .. n /\ k - 1 < n
        <5>1. n \in Nat /\ Unread \in Nat
          BY <1>2
        <5> QED BY ONLY <1>6, <2>2, <5>1
      <4>4. Ahead(ntr, i, n) = k - 1
        BY <1>2, <4>3, PlacesBehind
      <4> QED BY <1>1, <4>2, <4>4
    <3>2. CASE k = Unread + 1
      <4>1. i = rdh
        BY <1>2, <1>5, <3>2
      <4> QED BY <1>4, <2>1, <3>1, <3>2, <4>1
    <3>3. CASE k \in 1 .. Unread
      <4>1. i # rdh
        BY <1>2, <1>7, <3>1, <3>3
      <4>2. Waiting[k] = rx[i].frame
        BY <3>3, WaitingAt
      <4>3. rx'[i].frame = rx[i].frame
        BY <1>4, <3>1, <4>1
      <4> QED BY ONLY <2>1, <3>1, <3>3, <4>2, <4>3
    <3>4. Unread \in Nat
      BY <1>2
    <3>5. k = Unread + 1 \/ k \in 1 .. Unread
      BY ONLY <2>2, <3>4
    <3> QED BY ONLY <3>2, <3>3, <3>5
  <2> QED BY <1>2, <1>8, <2>1, <2>2, SeqEqual
<1>11. /\ Rises(got' \o Waiting')
      /\ ToSet(got' \o Waiting') \cup missed' = 1 .. arrived'
  <2> DEFINE s == got \o Waiting
  <2>1. s \in Seq(RxFrame) /\ Rises(s) /\ ToSet(s) \cup missed = 1 .. arrived
    <3>1. got \in Seq(RxFrame) /\ Waiting \in Seq(RxFrame)
      BY ONLY <1>2
    <3>2. s \in Seq(RxFrame)
      BY ONLY <3>1, ConcatProperties
    <3> QED BY ONLY <1>5, <3>2
  <2>2. got \o Append(Waiting, f) = Append(s, f)
    <3>1. <<f>> \in Seq(RxFrame)
      BY <1>2
    <3>2. Append(Waiting, f) = Waiting \o <<f>> /\ Append(s, f) = s \o <<f>>
      BY <1>2, <2>1, AppendIsConcat
    <3>3. (got \o Waiting) \o <<f>> = got \o (Waiting \o <<f>>)
      <4>1. got \in Seq(RxFrame) /\ Waiting \in Seq(RxFrame)
        BY <1>2
      <4> QED BY ONLY <3>1, <4>1, ConcatAssociative
    <3> QED BY <3>2, <3>3
  <2>3. \A x \in ToSet(s) : x < f
    BY <1>2, <2>1
  <2> HIDE DEF s
  <2>4. Rises(Append(s, f)) /\ ToSet(Append(s, f)) = ToSet(s) \cup {f}
    <3>1. MaxArrived \in Nat /\ s \in Seq(0 .. MaxArrived) /\ f \in 0 .. MaxArrived
      BY <1>2, <2>1
    <3>2. Rises(s)
      BY <2>1
    <3> QED BY ONLY <2>3, <3>1, <3>2, RisesAppend
  <2>5. (1 .. arrived) \cup {f} = 1 .. arrived'
    <3>1. arrived \in Nat /\ f = arrived + 1 /\ arrived' = f
      BY <1>2
    <3> QED BY ONLY <3>1
  <2>6. got' \o Waiting' = Append(s, f)
    BY <1>1, <1>10, <2>2
  <2> QED BY <1>3, <2>1, <2>4, <2>5, <2>6
<1> QED BY <1>9, <1>11

\* A frame is put behind those that wait, or is missed.
LEMMA DeliveryKeepsOrder ==
  ASSUME CardTypeOK, RxInv, CardTypeOK', RxPlaces', DeliverRxPacket
  PROVE  RxInv'
<1> DEFINE f == arrived + 1
           n == DriverRxSlots
           q == RingSlots(rdlen)
<1>1. /\ arrived' = f
      /\ UNCHANGED <<trapped, setup, rdlen, rdbal, storedRx, ntr, polling, got>>
      /\ q = 0 => /\ missed' = missed \cup {f}
                  /\ UNCHANGED <<rdh, rx, overrun, strayed, icr>>
      /\ q # 0 => RXT0 \in icr'
      /\ q # 0 => \E buffer \in BufferAtHead : WriteDescriptor(buffer)
  BY DEF DeliverRxPacket, Raise
<1>2. n' = n /\ (SameRing' <=> SameRing)
  BY <1>1 DEF DriverRxSlots, SameRing, DriverBase
<1>3. FrameIsAnnounced'
  BY <1>1 DEF RxInv, FrameIsAnnounced
<1>4. trapped' => ~strayed'
  BY <1>1 DEF RxInv, WriteDescriptor
<1>5. /\ n \in Nat /\ n <= RxSlots /\ RxSlots \in Nat /\ RxSlot = 0 .. RxSlots - 1
      /\ n > 0 => ntr \in 0 .. n - 1
      /\ rdh \in RxSlot /\ arrived \in Nat /\ f \in RxFrame
      /\ MaxArrived \in Nat /\ RxFrame = 0 .. MaxArrived
      /\ got \in Seq(RxFrame)
      /\ rx \in [RxSlot -> [buffer : BOOLEAN, frame : RxFrame, dd : BOOLEAN]]
      /\ Waiting \in Seq(RxFrame) /\ Len(Waiting) = Unread /\ Unread \in 0 .. n
      /\ Waiting' \in Seq(RxFrame) /\ Len(Waiting') = Unread'
  <2>1. f \in RxFrame
    BY <1>1 DEF CardTypeOK, RxTypeOK
  <2>2. Waiting' \in Seq(RxFrame) /\ Len(Waiting') = Unread'
    BY WaitingTypesNext
  <2>3. RxPlaces
    BY DEF RxInv
  <2> QED BY <2>1, <2>2, <2>3, RxSizes, RxInside, UnreadIs
<1>6. ASSUME ~overrun, ~strayed
      PROVE  /\ setup = "up" /\ n > 0 => Window
             /\ ~trapped /\ ~SameRing => NothingYet
             /\ Rises(got \o Waiting)
             /\ ToSet(got \o Waiting) \cup missed = 1 .. arrived
  BY <1>6 DEF RxInv, RxInOrder
<1>7. (1 .. arrived) \cup {f} = 1 .. arrived'
  <2>1. arrived \in Nat /\ arrived' = arrived + 1
    BY <1>1, <1>5
  <2> QED BY ONLY <2>1
<1>8. CASE overrun' \/ strayed'
  BY <1>3, <1>4, <1>8 DEF RxInv, RxInOrder
<1>9. ASSUME ~overrun, ~strayed, UNCHANGED rx, missed' = missed \cup {f}
      PROVE  RxInOrder'
  <2>1. Unread' = Unread /\ Waiting' = Waiting
    BY <1>1, <1>2, <1>9 DEF Unread, Waiting
  <2> QED BY <1>1, <1>6, <1>7, <1>9, <2>1 DEF RxInOrder
<1>10. CASE ~overrun' /\ ~strayed' /\ rx' = rx /\ rdh' = rdh
  <2>1. /\ ~overrun /\ ~strayed /\ missed' = missed \cup {f}
    <3>1. CASE q = 0
      BY <1>1, <1>10, <3>1
    <3>2. CASE q # 0
      <4>1. PICK buffer \in BufferAtHead : WriteDescriptor(buffer)
        BY <1>1, <3>2
      <4>2. ~(buffer /\ HeadInRing)
        <5> SUFFICES ASSUME buffer, HeadInRing PROVE FALSE
          OBVIOUS
        <5>1. rdh' = NextRdh(rdh)
          BY <4>1 DEF WriteDescriptor
        <5>2. rx' = [rx EXCEPT ![rdh].frame = f, ![rdh].dd = TRUE]
              /\ overrun' = (overrun \/ rx[rdh].dd)
          BY <1>1, <4>1 DEF WriteDescriptor
        <5>3. rx'[rdh].dd
          BY <1>5, <5>2
        <5> QED BY <1>10, <5>2, <5>3
      <4>3. missed' = missed \cup {f}
        BY <1>1, <4>1, <4>2 DEF WriteDescriptor
      <4>4. ~overrun /\ ~strayed
        BY <1>10, <4>1, <4>2 DEF WriteDescriptor
      <4> QED BY <4>3, <4>4
    <3> QED BY <3>1, <3>2
  <2>2. RxInOrder'
    BY <1>9, <1>10, <2>1
  <2>3. Unread' = Unread
    BY <1>10 DEF Unread
  <2>4. setup' = "up" /\ n' > 0 => Window'
    BY <1>1, <1>2, <1>6, <1>10, <2>1, <2>3 DEF Window, Ahead
  <2>5. ~trapped' /\ ~SameRing' => NothingYet'
    BY <1>1, <1>2, <1>6, <1>10, <2>1 DEF NothingYet
  <2> QED BY <1>3, <1>4, <2>2, <2>4, <2>5 DEF RxInv
<1>11. CASE ~overrun' /\ ~strayed' /\ ~(rx' = rx /\ rdh' = rdh)
  <2>1. PICK buffer \in BufferAtHead : WriteDescriptor(buffer)
    BY <1>1, <1>11
  <2>2. /\ buffer /\ rdh' = NextRdh(rdh) /\ q # 0
        /\ ~overrun /\ ~strayed /\ (trapped \/ SameRing)
    BY <1>1, <1>11, <2>1 DEF WriteDescriptor
  <2>3. setup = "up" => q = n /\ rdbal = DriverBase
    BY <2>2 DEF SameRing, DriverBase, DriverRxSlots
  <2>4. CASE ~HeadInRing
    <3>1. UNCHANGED rx /\ missed' = missed \cup {f}
      BY <1>1, <2>1, <2>2, <2>4 DEF WriteDescriptor
    <3>2. setup # "up"
      <4> SUFFICES ASSUME setup = "up" PROVE FALSE
        OBVIOUS
      <4>1. q = n /\ n > 0 /\ rdbal = DriverBase /\ Window
        BY <1>5, <1>6, <2>2, <2>3
      <4>2. rdh = (ntr + Unread) % n
        BY <4>1 DEF Window
      <4> HIDE DEF n
      <4>3. (ntr + Unread) % n \in 0 .. n - 1
        BY <1>5, <4>1, PlacesBehind, n \in Nat \ {0}
      <4>4. rdh < n
        BY <1>5, <4>2, <4>3
      <4> QED BY <2>4, <4>1, <4>4 DEF HeadInRing, n
    <3>3. RxInOrder'
      BY <1>9, <2>2, <3>1
    <3> QED BY <1>1, <1>2, <1>3, <1>4, <2>2, <3>2, <3>3 DEF RxInv
  <2>5. CASE HeadInRing
    <3>1. setup = "up" /\ n > 0 /\ rdh \in 0 .. n - 1 /\ q = n
      BY <1>5, <2>2, <2>3, <2>5 DEF HeadInRing
    <3>2. /\ rdh' = NextSlot(rdh, n) /\ ~rx[rdh].dd /\ missed' = missed
          /\ rx' = [rx EXCEPT ![rdh].frame = f, ![rdh].dd = TRUE]
      BY <1>1, <1>11, <2>1, <2>2, <2>5, <3>1 DEF WriteDescriptor, NextRdh
    <3>3. /\ Window' /\ Rises(got' \o Waiting')
          /\ ToSet(got' \o Waiting') \cup missed' = 1 .. arrived'
      <4>1. /\ n \in Nat \ {0} /\ RxPlaces /\ Window /\ Rises(got \o Waiting)
            /\ ToSet(got \o Waiting) \cup missed = 1 .. arrived
        BY <1>5, <1>6, <2>2, <3>1 DEF RxInv
      <4>2. DriverRxSlots = n /\ DriverRxSlots' = n /\ UNCHANGED <<ntr, got, missed>>
        BY <1>1, <1>2, <3>2
      <4> HIDE DEF n, f
      <4>3. f = arrived + 1 /\ arrived' = f
        BY <1>1 DEF f
      <4> QED BY ONLY CardTypeOK, CardTypeOK', RxPlaces', <3>1, <3>2, <4>1, <4>2, <4>3, PutBehind
    <3>4. SameRing' \/ trapped'
      BY <1>1, <1>2, <2>2
    <3> QED BY <1>1, <1>3, <1>4, <3>3, <3>4 DEF RxInv, RxInOrder
  <2> QED BY <2>4, <2>5
<1> QED BY <1>8, <1>10, <1>11

\* The driver takes the first of those that wait.
LEMMA ReadKeepsOrder ==
  ASSUME CardTypeOK, RxInv, RxPlaces, CardTypeOK', RxPlaces', ReadFrame
  PROVE  RxInv'
<1> DEFINE n == DriverRxSlots
           f == rx[ntr].frame
<1>1. /\ polling' = polling /\ polling /\ rx[ntr].dd
      /\ got' = Append(got, f) /\ rx' = [rx EXCEPT ![ntr].dd = FALSE]
      /\ ntr' = NextSlot(ntr, n)
      /\ UNCHANGED <<trapped, setup, rdh, rdlen, rdbal, storedRx, arrived, missed,
                     overrun, strayed>>
  BY DEF ReadFrame, rxRegs
<1>2. FrameIsAnnounced' /\ (trapped' => ~strayed')
  BY <1>1 DEF RxInv, FrameIsAnnounced
<1>3. /\ n \in Nat \ {0} /\ n <= RxSlots /\ RxSlots \in Nat /\ RxSlot = 0 .. RxSlots - 1
      /\ ntr \in 0 .. n - 1 /\ ntr \in RxSlot /\ ntr' \in 0 .. n - 1
      /\ got \in Seq(RxFrame) /\ f \in RxFrame
      /\ rx \in [RxSlot -> [buffer : BOOLEAN, frame : RxFrame, dd : BOOLEAN]]
      /\ Waiting \in Seq(RxFrame) /\ Len(Waiting) = Unread /\ Unread \in 0 .. n
      /\ Waiting' \in Seq(RxFrame) /\ Len(Waiting') = Unread'
  <2>1. n \in Nat \ {0} /\ ntr \in 0 .. n - 1
    BY <1>1, RxSizes, RxInside
  <2>2. ntr' \in 0 .. n - 1
    <3> HIDE DEF n
    <3> QED BY <1>1, <2>1, NextSlotIs
  <2>3. Waiting' \in Seq(RxFrame) /\ Len(Waiting') = Unread'
    BY WaitingTypesNext
  <2> QED BY <2>1, <2>2, <2>3, RxSizes, UnreadIs
<1>4. DriverRxSlots' = n /\ (SameRing' <=> SameRing)
  BY <1>1 DEF DriverRxSlots, SameRing, DriverBase
<1> HIDE DEF n
<1>5. CASE overrun \/ strayed
  BY <1>1, <1>2, <1>5 DEF RxInv, RxInOrder
<1>6. CASE ~overrun /\ ~strayed
  <2>1. \A i \in RxSlot :
          /\ rx'[i].frame = rx[i].frame
          /\ i = ntr => ~rx'[i].dd
          /\ i # ntr => rx'[i].dd = rx[i].dd
    BY <1>1, <1>3
  <2>2. /\ \A i \in RxSlot : rx[i].dd <=> i < n /\ Ahead(ntr, i, n) < Unread
        /\ rdh = (ntr + Unread) % n
        /\ Rises(got \o Waiting)
        /\ ToSet(got \o Waiting) \cup missed = 1 .. arrived
    <3>1. setup = "up" /\ n > 0
      BY <1>3 DEF ReadFrame
    <3>2. Window
      BY <1>6, <3>1 DEF RxInv, n
    <3> QED BY <1>6, <3>2 DEF RxInv, RxInOrder, Window, n
  <2>3. Unread >= 1
    <3>1. Ahead(ntr, ntr, n) < Unread
      BY <1>1, <1>3, <2>2
    <3>2. Ahead(ntr, ntr, n) = 0
      BY <1>3 DEF Ahead
    <3> QED BY <1>3, <3>1, <3>2
  <2>4. Unread' = Unread - 1
    <3> DEFINE D == {i \in RxSlot : rx[i].dd}
               E == {i \in RxSlot : rx'[i].dd}
    <3>1. E = D \ {ntr} /\ ntr \in D
      BY <1>1, <1>3, <2>1
    <3>2. IsFiniteSet(D)
      BY UnreadIs
    <3> HIDE DEF D, E
    <3>3. Cardinality(E) = Cardinality(D) - 1
      BY <3>1, <3>2, FS_RemoveElement
    <3> QED BY <3>3 DEF Unread, D, E
  <2>6. \A j \in 0 .. n - 1 : (ntr' + j) % n = (ntr + (j + 1)) % n
    BY <1>1, <1>3, PlacesFromNext
  <2>7. Window'
    <3>1. ASSUME NEW i \in RxSlot
          PROVE  rx'[i].dd <=> i < n /\ Ahead(ntr', i, n) < Unread - 1
      <4>1. CASE ~(i < n)
        BY <1>3, <2>1, <2>2, <4>1
      <4>2. CASE i < n
        <5>1. i \in 0 .. n - 1 /\ Ahead(ntr, i, n) \in Nat /\ Unread \in Nat
          BY <1>3, <4>2 DEF Ahead
        <5>2. CASE i = ntr
          <6>1. Ahead(ntr', i, n) = n - 1
            BY <1>1, <1>3, <5>2, AheadNext
          <6>2. ~rx'[i].dd
            BY <2>1, <5>2
          <6> QED BY <1>3, <6>1, <6>2
        <5>3. CASE i # ntr
          <6>1. Ahead(ntr', i, n) = Ahead(ntr, i, n) - 1
            BY <1>1, <1>3, <5>1, <5>3, AheadNext
          <6>2. rx'[i].dd = rx[i].dd
            BY <2>1, <5>3
          <6>3. rx[i].dd <=> Ahead(ntr, i, n) < Unread
            BY <2>2, <4>2
          <6> QED BY ONLY <4>2, <5>1, <6>1, <6>2, <6>3
        <5> QED BY <5>2, <5>3
      <4> QED BY <4>1, <4>2
    <3>2. rdh' = (ntr' + (Unread - 1)) % n
      <4> DEFINE j == Unread - 1
      <4>1. j \in 0 .. n - 1 /\ j + 1 = Unread
        BY <1>3, <2>3
      <4> HIDE DEF j
      <4>2. (ntr' + j) % n = (ntr + Unread) % n
        BY <2>6, <4>1
      <4> QED BY <1>1, <2>2, <4>2 DEF j
    <3> QED BY <1>4, <2>4, <3>1, <3>2 DEF Window, Ahead
  <2>8. \A k \in 1 .. Unread - 1 : Waiting'[k] = Waiting[k + 1]
    <3> TAKE k \in 1 .. Unread - 1
    <3>1. k \in (1 .. Unread)' /\ k + 1 \in 1 .. Unread
          /\ k - 1 \in 0 .. n - 1 /\ (k - 1) + 1 = (k + 1) - 1
      BY <1>3, <2>4
    <3>2. Waiting'[k] = rx'[(ntr' + (k - 1)) % n].frame /\ (ntr' + (k - 1)) % n \in RxSlot
      BY <3>1, WaitingTypesNext, <1>4
    <3>3. Waiting[k + 1] = rx[(ntr + ((k + 1) - 1)) % n].frame
      BY <3>1, WaitingAt DEF n
    <3>4. (ntr' + (k - 1)) % n = (ntr + ((k + 1) - 1)) % n
      BY <2>6, <3>1
    <3> QED BY <2>1, <3>2, <3>3, <3>4
  <2>9. Waiting[1] = f
    <3>1. 1 \in 1 .. Unread /\ 1 - 1 = 0
      BY <1>3, <2>3
    <3>2. Waiting[1] = rx[(ntr + 0) % n].frame
      BY <3>1, WaitingAt DEF n
    <3>3. (ntr + 0) % n = ntr
      <4>1. (ntr + 0) % n = IF ntr + 0 < n THEN ntr + 0 ELSE (ntr + 0) - n
        BY <1>3, 0 \in 0 .. n, PlacesBehind
      <4>2. ntr + 0 = ntr /\ ntr < n
        BY <1>3
      <4> QED BY Zenon, <4>1, <4>2
    <3> QED BY <3>2, <3>3
  <2>10. got' \o Waiting' = got \o Waiting
    <3> DEFINE s == got' \o Waiting'
               t == got \o Waiting
               g == Len(got)
    <3>1. /\ got' \in Seq(RxFrame) /\ Len(got') = g + 1 /\ g \in Nat
          /\ got'[g + 1] = f
          /\ \A i \in 1 .. g : got'[i] = got[i]
      <4>1. got \in Seq(RxFrame) /\ f \in RxFrame /\ got' = Append(got, f)
        BY <1>1, <1>3
      <4> HIDE DEF f
      <4>2. g \in Nat
        BY ONLY <4>1, LenProperties
      <4>3. /\ Append(got, f) \in Seq(RxFrame) /\ Len(Append(got, f)) = g + 1
            /\ \A i \in 1 .. g : Append(got, f)[i] = got[i]
            /\ Append(got, f)[g + 1] = f
        BY ONLY <4>1, AppendProperties
      <4> QED BY ONLY <4>1, <4>2, <4>3
    <3>2. /\ s \in Seq(RxFrame) /\ Len(s) = Len(got') + Len(Waiting')
          /\ \A i \in 1 .. Len(got') + Len(Waiting') :
               s[i] = IF i <= Len(got') THEN got'[i] ELSE Waiting'[i - Len(got')]
      <4>1. got' \in Seq(RxFrame) /\ Waiting' \in Seq(RxFrame)
        BY ONLY <1>3, <3>1
      <4> QED BY ONLY <4>1, ConcatProperties
    <3>3. /\ t \in Seq(RxFrame) /\ Len(t) = g + Len(Waiting)
          /\ \A i \in 1 .. g + Len(Waiting) :
               t[i] = IF i <= g THEN got[i] ELSE Waiting[i - g]
      <4>1. got \in Seq(RxFrame) /\ Waiting \in Seq(RxFrame)
        BY ONLY <1>3
      <4> QED BY ONLY <4>1, ConcatProperties
    <3> HIDE DEF s, t, g
    <3>4. Len(s) = g + Unread /\ Len(t) = g + Unread
      BY <1>3, <2>4, <3>1, <3>2, <3>3
    <3>a. /\ Unread \in Nat /\ Unread >= 1 /\ g \in Nat
          /\ Len(Waiting) = Unread /\ Len(Waiting') = Unread - 1
      BY ONLY <1>3, <2>3, <2>4, <3>1
    <3>b. \A i \in 1 .. g + Unread :
            /\ s[i] = IF i <= g + 1 THEN got'[i] ELSE Waiting'[i - (g + 1)]
            /\ t[i] = IF i <= g THEN got[i] ELSE Waiting[i - g]
      <4>1. \A i \in 1 .. g + Unread : i \in 1 .. Len(got') + Len(Waiting')
        BY ONLY <3>1, <3>a
      <4> QED BY ONLY <3>1, <3>2, <3>3, <3>a, <4>1
    <3>5. ASSUME NEW i \in 1 .. g + Unread PROVE s[i] = t[i]
      <4>1. CASE i <= g
        <5>1. s[i] = got'[i] /\ t[i] = got[i] /\ i \in 1 .. g
          BY ONLY <3>a, <3>b, <3>5, <4>1
        <5> QED BY <3>1, <5>1
      <4>2. CASE i = g + 1
        <5>1. s[i] = got'[g + 1] /\ t[i] = Waiting[1]
          BY ONLY <3>a, <3>b, <3>5, <4>2
        <5> QED BY <2>9, <3>1, <5>1
      <4>3. CASE i > g + 1
        <5>1. (i - (g + 1)) \in 1 .. Unread - 1 /\ (i - (g + 1)) + 1 = i - g
          BY <1>3, <3>1, <4>3
        <5>2. s[i] = Waiting'[i - (g + 1)] /\ t[i] = Waiting[i - g]
          BY ONLY <3>a, <3>b, <3>5, <4>3
        <5> QED BY <2>8, <5>1, <5>2
      <4> QED BY <3>1, <4>1, <4>2, <4>3, <1>3
    <3>6. s = t
      BY <3>2, <3>3, <3>4, <3>5, SeqEqual
    <3> QED BY <3>6 DEF s, t
  <2>11. RxInOrder'
    BY <1>1, <2>2, <2>10 DEF RxInOrder
  <2>12. trapped \/ SameRing
    <3>1. ntr \in RxSlot /\ rx[ntr].dd
      BY <1>1, <1>3
    <3> QED BY <1>6, <3>1 DEF RxInv, NothingYet
  <2> QED BY <1>1, <1>2, <1>4, <2>7, <2>11, <2>12 DEF RxInv
<1> QED BY <1>5, <1>6

LEMMA DriverRxSlotsTypeNext == (CardTypeOK => DriverRxSlots \in Nat)'
<1>1. CardTypeOK => DriverRxSlots \in Nat
  BY RxSizes
<1> QED BY <1>1, PTL

LEMMA RxInvStep ==
  ASSUME CardTypeOK, RxInv, CardNext, CardTypeOK'
  PROVE  RxInv'
<1>1. RxPlaces /\ RxPlaces'
  BY RxPlacesStep DEF RxInv
<1>2. ASSUME UNCHANGED <<trapped, rdh, ntr, arrived, got, missed, overrun, strayed>>,
             setup' = setup, DriverRxSlots' = DriverRxSlots, SameRing => SameRing',
             \A i \in RxSlot : rx'[i].dd = rx[i].dd /\ rx'[i].frame = rx[i].frame,
             FrameIsAnnounced'
      PROVE  RxInv'
  <2>1. /\ Window => Window'
        /\ RxInOrder => RxInOrder'
    BY <1>1, <1>2, RxStays
  <2>2. NothingYet => NothingYet'
    BY <1>2 DEF NothingYet
  <2> QED BY <1>1, <1>2, <2>1, <2>2 DEF RxInv
<1>3. ASSUME UNCHANGED <<trapped, rxRegs, rx, ntr, arrived, got, missed, overrun, strayed>>,
             setup' = setup, FrameIsAnnounced'
      PROVE  RxInv'
  <2>1. DriverRxSlots' = DriverRxSlots /\ (SameRing => SameRing') /\ rdh' = rdh
    BY <1>3 DEF rxRegs, DriverRxSlots, SameRing, DriverBase
  <2> QED BY <1>2, <1>3, <2>1
<1>4. ASSUME UNCHANGED <<trapped, setup, rxVars>>, icr \subseteq icr'
      PROVE  RxInv'
  <2>1. FrameIsAnnounced'
    BY <1>4 DEF RxInv, FrameIsAnnounced, rxVars
  <2> QED BY <1>3, <1>4, <2>1 DEF rxVars
<1>5. ASSUME setup # "up",
             UNCHANGED <<trapped, ntr, rx, arrived, got, missed, overrun, strayed>>,
             \/ setup' # "up" /\ (~trapped => rdh' = rdh)
             \/ rdh' = 0
      PROVE  RxInv'
  <2>1. ntr = 0 /\ \A i \in RxSlot : ~rx[i].dd
    BY <1>1, <1>5 DEF RxPlaces
  <2>2. RxInOrder'
    BY <1>1, <1>5, <2>1, RxStays DEF RxInv
  <2>3. FrameIsAnnounced'
    BY <1>5, <2>1 DEF FrameIsAnnounced
  <2>4. ~overrun /\ ~strayed /\ ~trapped => NothingYet'
    BY <1>5, <2>1 DEF RxInv, NothingYet, SameRing
  <2>5. ASSUME setup' = "up", DriverRxSlots' > 0 PROVE Window'
    <3>1. Unread' = 0 /\ ntr' = 0 /\ rdh' = 0 /\ \A i \in RxSlot : ~rx'[i].dd
      BY <1>1, <1>5, <2>1, <2>5, WaitingTypesNext
    <3>2. DriverRxSlots' \in Nat
      BY DriverRxSlotsTypeNext
    <3>3. (0 + 0) % DriverRxSlots' = 0
      <4> DEFINE m == DriverRxSlots'
      <4>1. m \in Nat /\ m > 0
        BY <2>5, <3>2
      <4> HIDE DEF m
      <4>2. m \in Nat \ {0} /\ 0 \in 0 .. m - 1 /\ 0 \in 0 .. m /\ 0 + 0 < m /\ 0 + 0 = 0
        BY ONLY <4>1
      <4>3. (0 + 0) % m = IF 0 + 0 < m THEN 0 + 0 ELSE (0 + 0) - m
        BY ONLY <4>2, PlacesBehind
      <4> QED BY Zenon, <4>2, <4>3 DEF m
    <3>4. \A i \in RxSlot : ~(Ahead(0, i, DriverRxSlots') < 0)
      BY <3>2, RxSizes DEF Ahead
    <3>5. \A i \in RxSlot : Ahead(ntr', i, DriverRxSlots') = Ahead(0, i, DriverRxSlots')
      BY <3>1
    <3> QED BY <3>1, <3>3, <3>4, <3>5 DEF Window, Ahead
  <2> QED BY <1>1, <1>5, <2>2, <2>3, <2>4, <2>5 DEF RxInv
<1>6. ASSUME NEW tail, NEW length, ProcessTx(tail, length)
      PROVE  icr \subseteq icr'
  BY <1>6 DEF ProcessTx, Raise
<1>7. ASSUME NEW tail, WriteTdt(tail)
      PROVE  icr \subseteq icr'
  BY <1>6, <1>7 DEF WriteTdt
<1>8. CASE \/ (\E l \in Lengths : SetTdlen(l)) \/ SetTdh \/ SetTdt
  <2>1. setup # "up" /\ setup' # "up" /\ UNCHANGED <<trapped, rxVars>>
    BY <1>8 DEF SetTdlen, SetTdh, SetTdt
  <2> QED BY <1>5, <2>1 DEF rxVars, rxRegs
<1>9. CASE \/ (\E l \in RxLengths : SetRdlen(l))
           \/ (\E base \in Base \ {"zero"} : SetRdbal(base))
  <2>1. /\ setup # "up" /\ setup' # "up"
        /\ UNCHANGED <<trapped, rdh, ntr, rx, arrived, got, missed, overrun, strayed>>
    BY <1>9 DEF SetRdlen, SetRdbal
  <2> QED BY <1>5, <2>1
<1>10. CASE SetRdh
  <2>1. /\ setup # "up" /\ rdh' = (IF trapped THEN 0 ELSE rdh)
        /\ UNCHANGED <<trapped, rdlen, rdbal, storedRx, ntr, rx, arrived, got, missed,
                       overrun, strayed>>
    BY <1>10 DEF SetRdh
  <2>2. CASE overrun \/ strayed
    <3>1. \A i \in RxSlot : ~rx'[i].dd
      BY <1>1, <2>1 DEF RxPlaces
    <3> QED BY <1>1, <2>1, <2>2, <3>1 DEF RxInv, RxInOrder, FrameIsAnnounced
  <2>3. CASE ~overrun /\ ~strayed
    <3>1. rdh' = 0
      BY <2>1, <2>3 DEF RxInv, NothingYet, SameRing
    <3> QED BY <1>5, <2>1, <3>1
  <2> QED BY <2>2, <2>3
<1>11. CASE Ring
  BY <1>4, <1>7, <1>11 DEF Ring
<1>12. CASE Clean \/ TakeOut \/ \E good \in BOOLEAN : Queue(good)
  BY <1>4, <1>12 DEF Clean, TakeOut, Queue
<1>13. CASE SyncMmio
  <2>1. /\ ~trapped /\ TakeRxRing /\ icr \subseteq icr'
        /\ UNCHANGED <<trapped, setup, rdh, storedRx, rx, arrived, ntr, got, missed,
                       overrun, strayed>>
    BY <1>6, <1>13 DEF SyncMmio
  <2>2. DriverRxSlots' = DriverRxSlots
    BY <2>1 DEF DriverRxSlots
  <2>3. SameRing => SameRing'
    BY <2>1 DEF SameRing, DriverBase, TakeRxRing
  <2>4. FrameIsAnnounced'
    BY <2>1 DEF FrameIsAnnounced
  <2> QED BY <1>2, <2>1, <2>2, <2>3, <2>4
<1>14. CASE ReadIcr
  <2>1. FrameIsAnnounced'
    BY <1>14 DEF ReadIcr, RxInv, FrameIsAnnounced
  <2> QED BY <1>3, <1>14, <2>1 DEF ReadIcr
<1>15. CASE Look
  <2>1. FrameIsAnnounced'
    BY <1>15 DEF Look, FrameIsAnnounced
  <2> QED BY <1>3, <1>15, <2>1 DEF Look
<1>16. CASE RingEmpty
  <2>1. /\ UNCHANGED <<trapped, setup, rxRegs, ntr, arrived, got, missed, overrun,
                       strayed, rx>>
        /\ ~rx[ntr].dd /\ setup = "up"
    BY <1>16 DEF RingEmpty
  <2>2. trapped /\ ~overrun => \A i \in RxSlot : ~rx[i].dd
    <3> SUFFICES ASSUME trapped, ~overrun PROVE \A i \in RxSlot : ~rx[i].dd
      OBVIOUS
    <3> DEFINE n == DriverRxSlots
    <3>1. CASE n = 0
      BY <1>1, <3>1, RxInside
    <3>2. CASE n # 0
      <4>1. /\ n \in Nat \ {0} /\ ntr \in 0 .. n - 1 /\ ntr \in RxSlot /\ Unread \in 0 .. n
        BY <1>1, <3>2, RxSizes, RxInside, UnreadIs
      <4>2. ~(ntr < n /\ Ahead(ntr, ntr, n) < Unread)
        BY <2>1, <4>1 DEF RxInv, Window
      <4> HIDE DEF n
      <4>3. Ahead(ntr, ntr, n) = 0
        BY <4>1 DEF Ahead
      <4>4. Unread = 0
        BY <4>1, <4>2, <4>3
      <4> QED BY <1>1, <4>4, UnreadIs
    <3> QED BY <3>1, <3>2
  <2>3. FrameIsAnnounced'
    BY <2>1, <2>2 DEF FrameIsAnnounced
  <2> QED BY <1>3, <2>1, <2>3
<1>17. ASSUME NEW i \in RxSlot, Post(i)
       PROVE  RxInv'
  <2>1. /\ UNCHANGED <<trapped, setup, rxRegs, ntr, arrived, got, missed, overrun, strayed,
                       icr, polling>>
        /\ rx' = [rx EXCEPT ![i].buffer = TRUE]
    BY <1>17 DEF Post
  <2>2. \A j \in RxSlot : rx'[j].dd = rx[j].dd /\ rx'[j].frame = rx[j].frame
    BY <2>1, RxSizes
  <2>3. DriverRxSlots' = DriverRxSlots /\ (SameRing => SameRing') /\ rdh' = rdh
    BY <2>1 DEF rxRegs, DriverRxSlots, SameRing, DriverBase
  <2>4. FrameIsAnnounced'
    BY <2>1, <2>2 DEF RxInv, FrameIsAnnounced
  <2> QED BY <1>2, <2>1, <2>2, <2>3, <2>4
<1>18. CASE Reset \/ DeliverRxPacket \/ ReadFrame
  BY <1>1, <1>18, ResetKeepsOrder, DeliveryKeepsOrder, ReadKeepsOrder
<1> QED
  BY <1>8, <1>9, <1>10, <1>11, <1>12, <1>13, <1>14, <1>15, <1>16, <1>17, <1>18
  DEF CardNext, SetUp, Receive

LEMMA RxStarts == CardInit => RxInv
<1> SUFFICES ASSUME CardInit PROVE RxInv
  OBVIOUS
<1>1. /\ \A i \in RxSlot : ~rx[i].dd
      /\ ntr = 0 /\ rdh = 0 /\ got = <<>> /\ missed = {} /\ arrived = 0
      /\ setup = "tdlen" /\ ~polling /\ ~strayed
  BY DEF CardInit, NoRx
<1>2. RxPlaces /\ NothingYet
  BY <1>1 DEF RxPlaces, NothingYet
<1>3. Waiting = <<>>
  <2>1. Waiting \in Seq(RxFrame) /\ Len(Waiting) = 0
    BY <1>1, <1>2, CardStarts, WaitingTypes
  <2> QED BY <2>1, EmptySeq
<1>4. RxInOrder
  <2>1. <<>> \o <<>> = <<>>
    BY ConcatEmptySeq, EmptySeq
  <2>2. Rises(<<>>) /\ ToSet(<<>>) = {} /\ 1 .. 0 = {}
    BY DEF Rises, ToSet
  <2> QED BY <1>1, <1>3, <2>1, <2>2 DEF RxInOrder
<1> QED BY <1>1, <1>2, <1>4 DEF RxInv, FrameIsAnnounced

(***************************************************************************)
(* The card: its theorems                                                  *)
(***************************************************************************)

\* The inductive invariant, for every size of the rings, every length and
\* place the driver may name, every number of frames and of times it starts
\* over, of a card that traps and of one that does not.
THEOREM CardInvariant == CardSpec => []CardInv
<1>1. CardInit => CardInv
  BY CardStarts, RxStarts DEF CardInv
<1>2. CardInv /\ [CardNext]_cardVars => CardInv'
  <2> SUFFICES ASSUME CardInv, [CardNext]_cardVars PROVE CardInv'
    OBVIOUS
  <2>1. CASE CardNext
    <3>1. CardTypeOK'
      BY <2>1, TxTypes, RxTypes DEF CardInv, RxInv, CardTypeOK
    <3> QED BY <2>1, <3>1, TxInvStep, RxInvStep DEF CardInv
  <2>2. CASE UNCHANGED cardVars
    <3>1. UNCHANGED <<vm_id, trapped, setup, setups, icr, halted>>
          /\ UNCHANGED txVars /\ UNCHANGED rxVars
      BY <2>2 DEF cardVars
    <3>2. CardTypeOK'
      BY <3>1 DEF CardInv, CardTypeOK, TxTypeOK, RxTypeOK, txVars, rxVars, rxRegs
    <3>3. TxInv'
      <4>1. DriverSlots' = DriverSlots
        BY <3>1 DEF DriverSlots, txVars
      <4> QED BY <3>1, <4>1, TxStays DEF CardInv, txVars
    <3>4. RxInv'
      <4>1. /\ DriverRxSlots' = DriverRxSlots /\ (SameRing' <=> SameRing)
            /\ RxPlaces' = RxPlaces /\ NothingYet' = NothingYet
            /\ FrameIsAnnounced' = FrameIsAnnounced
        BY <3>1 DEF rxVars, rxRegs, DriverRxSlots, DriverBase, SameRing, RxPlaces,
                    NothingYet, FrameIsAnnounced
      <4>2. (Window => Window') /\ (RxInOrder => RxInOrder')
        BY <3>1, <4>1, RxStays DEF CardInv, RxInv, rxVars, rxRegs
      <4> QED BY <3>1, <4>1, <4>2 DEF CardInv, RxInv, rxVars
    <3> QED BY <3>2, <3>3, <3>4 DEF CardInv
  <2> QED BY <2>1, <2>2
<1> QED BY <1>1, <1>2, PTL DEF CardSpec

\* What the driver and the card keep of each other has its type throughout:
\* heads and tails stay inside their rings (process_tx, deliver_rx_packet).
THEOREM CardTypeCorrect == CardSpec => []CardTypeOK
<1>1. CardInv => CardTypeOK
  BY DEF CardInv
<1> QED BY <1>1, CardInvariant, PTL

\* Frames leave the card in the order in which they were queued, each at most
\* once, and none is forgotten: process_tx at the head of a ring that the
\* driver refills, resets and gives another length.
THEOREM CardTxInOrder == CardSpec => []TxInOrder
<1>1. CardInv => TxInOrder
  BY TxInvGivesOrder DEF CardInv
<1> QED BY <1>1, CardInvariant, PTL

\* The frames of deliver_rx_packet are read in the order of their arrival, each
\* once, across set-ups and when sync_mmio takes the ring over late or never:
\* unless the host overruns the driver or the head strayed in another ring.
THEOREM CardRxInOrder == CardSpec => []RxInOrder
<1>1. CardInv => RxInOrder
  BY DEF CardInv, RxInv
<1> QED BY <1>1, CardInvariant, PTL

\* Where ICR can be read and unless the host overruns the driver, a frame that
\* waits has been announced: the read of mmio_read that clears the causes loses
\* none.
THEOREM CardFrameIsAnnounced == CardSpec => []FrameIsAnnounced
<1>1. CardInv => FrameIsAnnounced
  BY DEF CardInv, RxInv
<1> QED BY <1>1, CardInvariant, PTL
=============================================================================
