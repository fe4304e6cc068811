------------------------------ MODULE SerialLine ------------------------------
(***************************************************************************)
(* The UART of hypster-core/src/serial.rs, shared by the processors        *)
(* without an operating system: a processor takes a lock at the first byte *)
(* of a line and keeps it until it writes the newline, so that a message   *)
(* put together by several calls is not split.  A processor recognises its *)
(* own lock by the number current_pcpu gives it, which it takes from the   *)
(* stack: a processor has its own number on its own stack only, and that   *)
(* of the boot processor on any other.                                     *)
(*                                                                         *)
(* One step is one access to a shared variable or one write to the port;   *)
(* the five bytes of a tag and the text of a guest's line are one write.   *)
(*                                                                         *)
(* MarkNoNewline and DisownKept are mutated forms of the definition that   *)
(* follows them; nothing uses them.                                        *)
(***************************************************************************)
EXTENDS Naturals

CONSTANTS
  Cpu,       \* the processors
  Ident,     \* current_pcpu of each processor on the stack it runs guests on
  Firmware,  \* current_pcpu on a stack of the firmware: 0
  NoOwner,   \* usize::MAX
  MaxText,   \* bound: bytes of a host message before its newline
  LineMax,   \* size of GUEST_LINE: 160 in the code
  Tags       \* TAG_PCPU

ASSUME SerialAssumption ==
  /\ NoOwner \notin {Ident[c] : c \in Cpu} \union {Firmware}
  /\ MaxText \in Nat \ {0}
  /\ LineMax \in Nat /\ LineMax >= 3
  /\ Tags \in BOOLEAN

VARIABLES
  lock,           \* SERIAL_LOCK
  owner,          \* SERIAL_OWNER
  at_line_start,  \* AT_LINE_START
  guestLen,       \* GUEST_LINE_LEN
  line,           \* whose bytes the port has received since the last newline
  pc,             \* where each processor is
  kind,           \* "host", "locked" (serial_with_lock) or "guest" message
  left,           \* bytes left before the newline of a host message, or
                  \* bytes of a guest that go into its next line
  stack,          \* the stack each processor is on
  clash           \* two processors with one number were in a message at once,
                  \* and there was no moment since when none was in any

ids == <<stack, clash>>
vars == <<lock, owner, at_line_start, guestLen, line, pc, kind, left, ids>>
shared == <<lock, owner, at_line_start, guestLen, line>>

Goto(c, l) == pc' = [pc EXCEPT ![c] = l]

\* pcpu_id
Me(c) == IF stack[c] = "own" THEN Ident[c] ELSE Firmware
Number == {Ident[c] : c \in Cpu} \union {Firmware}

\* c enters a message.
Others(c) == {d \in Cpu \ {c} : pc[d] # "idle"}
Enter(c) ==
  /\ Goto(c, "own")
  /\ clash' = ((clash /\ Others(c) # {}) \/ \E d \in Others(c) : Me(d) = Me(c))

Put(c) == line' = line \union {c}

Init ==
  /\ lock = FALSE /\ owner = NoOwner /\ at_line_start = TRUE
  /\ guestLen = [i \in Number |-> 0]
  /\ line = {}
  /\ pc = [c \in Cpu |-> "idle"]
  /\ kind = [c \in Cpu |-> "host"]
  /\ left = [c \in Cpu |-> 0]
  /\ stack = [c \in Cpu |-> "firmware"]
  /\ clash = FALSE
-------------------------------------------------------------------------------
\* run_on_ap_stack, or its return: never inside a message.
Switch(c) ==
  /\ pc[c] = "idle"
  /\ stack' = [stack EXCEPT ![c] = IF @ = "own" THEN "firmware" ELSE "own"]
  /\ UNCHANGED <<shared, pc, kind, left, clash>>

\* serial_print of a message that ends in a newline, on its own or inside
\* serial_with_lock (whose own acquire_line the first byte repeats).
SerialPrint(c, k, n) ==
  /\ pc[c] = "idle"
  /\ Enter(c)
  /\ kind' = [kind EXCEPT ![c] = k]
  /\ left' = [left EXCEPT ![c] = n]
  /\ UNCHANGED <<shared, stack>>

\* guest_putchar_line keeps a byte; a carriage return changes nothing.
GuestKeep(c) ==
  /\ pc[c] = "idle" /\ stack[c] = "own"
  /\ guestLen[Me(c)] + 1 < LineMax
  /\ guestLen' = [guestLen EXCEPT ![Me(c)] = @ + 1]
  /\ UNCHANGED <<lock, owner, at_line_start, line, pc, kind, left, ids>>

\* A newline, or a byte for which there is no room, writes the line.
GuestFlush(c) ==
  /\ pc[c] = "idle" /\ stack[c] = "own"
  /\ Enter(c)
  /\ kind' = [kind EXCEPT ![c] = "guest"]
  /\ \E n \in IF guestLen[Me(c)] + 1 >= LineMax THEN {0, 1} ELSE {0} :
       left' = [left EXCEPT ![c] = n]
  /\ UNCHANGED <<shared, stack>>

\* acquire_line
Own(c) ==
  /\ pc[c] = "own"
  /\ Goto(c, IF owner = Me(c) THEN "start" ELSE "lock")
  /\ UNCHANGED <<shared, kind, left, ids>>

Lock(c) ==
  /\ pc[c] = "lock"
  /\ ~lock
  /\ lock' = TRUE
  /\ Goto(c, "claim")
  /\ UNCHANGED <<owner, at_line_start, guestLen, line, kind, left, ids>>

Claim(c) ==
  /\ pc[c] = "claim"
  /\ owner' = Me(c)
  /\ Goto(c, "start")
  /\ UNCHANGED <<lock, at_line_start, guestLen, line, kind, left, ids>>

\* write_host_byte: a tag comes first where a line starts with a host byte.
Start(c) ==
  /\ pc[c] = "start"
  /\ Goto(c, IF kind[c] = "guest" THEN "text"
             ELSE IF left[c] = 0 THEN "cr"
             ELSE IF Tags /\ at_line_start THEN "tag" ELSE "byte")
  /\ UNCHANGED <<shared, kind, left, ids>>

Tag(c) ==
  /\ pc[c] = "tag"
  /\ Put(c)
  /\ Goto(c, "tagged")
  /\ UNCHANGED <<lock, owner, at_line_start, guestLen, kind, left, ids>>

Byte(c) ==
  /\ pc[c] = "byte"
  /\ Put(c)
  /\ Goto(c, "next")
  /\ UNCHANGED <<lock, owner, at_line_start, guestLen, kind, left, ids>>

MarkNoNewline(c) ==
  /\ pc[c] \in {"tagged", "next"}
  /\ at_line_start' = FALSE
  /\ Goto(c, IF pc[c] = "tagged" THEN "byte"
             ELSE IF left[c] = 1 THEN "idle" ELSE "own")
  /\ left' = IF pc[c] = "next" THEN [left EXCEPT ![c] = @ - 1] ELSE left
  /\ UNCHANGED <<lock, owner, guestLen, line, kind, ids>>

\* The store of AT_LINE_START behind the tag and behind each byte.
Mark(c) ==
  /\ pc[c] \in {"tagged", "next"}
  /\ at_line_start' = FALSE
  /\ Goto(c, IF pc[c] = "tagged" THEN "byte" ELSE "own")
  /\ left' = IF pc[c] = "next" THEN [left EXCEPT ![c] = @ - 1] ELSE left
  /\ UNCHANGED <<lock, owner, guestLen, line, kind, ids>>

\* The guest's line goes out under its own tag.
GuestText(c) ==
  /\ pc[c] = "text"
  /\ Put(c)
  /\ Goto(c, "cr")
  /\ UNCHANGED <<lock, owner, at_line_start, guestLen, kind, left, ids>>

CarriageReturn(c) ==
  /\ pc[c] = "cr"
  /\ Put(c)
  /\ Goto(c, "lf")
  /\ UNCHANGED <<lock, owner, at_line_start, guestLen, kind, left, ids>>

LineFeed(c) ==
  /\ pc[c] = "lf"
  /\ line' = {}
  /\ Goto(c, "disown")
  /\ UNCHANGED <<lock, owner, at_line_start, guestLen, kind, left, ids>>

DisownKept(c) ==
  /\ pc[c] = "disown"
  /\ Goto(c, "unlock")
  /\ UNCHANGED <<shared, kind, left, ids>>

\* release_line: three stores.
Disown(c) ==
  /\ pc[c] = "disown"
  /\ owner' = NoOwner
  /\ Goto(c, "unlock")
  /\ UNCHANGED <<lock, at_line_start, guestLen, line, kind, left, ids>>

Unlock(c) ==
  /\ pc[c] = "unlock"
  /\ lock' = FALSE
  /\ Goto(c, "restart")
  /\ UNCHANGED <<owner, at_line_start, guestLen, line, kind, left, ids>>

\* What follows the line: nothing, the check of serial_with_lock, or the new
\* length of the guest's buffer (the byte that did not fit is its first).
Restart(c) ==
  /\ pc[c] = "restart"
  /\ at_line_start' = TRUE
  /\ Goto(c, CASE kind[c] = "host"   -> "idle"
               [] kind[c] = "locked" -> "check"
               [] kind[c] = "guest"  -> "refill")
  /\ UNCHANGED <<lock, owner, guestLen, line, kind, left, ids>>

Refill(c) ==
  /\ pc[c] = "refill"
  /\ guestLen' = [guestLen EXCEPT ![Me(c)] = left[c]]
  /\ Goto(c, "idle")
  /\ kind' = [kind EXCEPT ![c] = "host"]
  /\ left' = [left EXCEPT ![c] = 0]
  /\ UNCHANGED <<lock, owner, at_line_start, line, ids>>

Check(c) ==
  /\ pc[c] = "check"
  /\ Goto(c, IF owner = Me(c) THEN "disown" ELSE "idle")
  /\ kind' = [kind EXCEPT ![c] = "host"]
  /\ UNCHANGED <<shared, left, ids>>
-------------------------------------------------------------------------------
Begin(c) ==
  \/ \E k \in {"host", "locked"}, n \in 0 .. MaxText : SerialPrint(c, k, n)
  \/ GuestKeep(c)
  \/ GuestFlush(c)
  \/ Switch(c)

Proceed(c) ==
  \/ Own(c)
  \/ Lock(c)
  \/ Claim(c)
  \/ Start(c)
  \/ Tag(c)
  \/ Byte(c)
  \/ Mark(c)
  \/ GuestText(c)
  \/ CarriageReturn(c)
  \/ LineFeed(c)
  \/ Disown(c)
  \/ Unlock(c)
  \/ Restart(c)
  \/ Refill(c)
  \/ Check(c)

Next == \E c \in Cpu : Begin(c) \/ Proceed(c)

Spec == Init /\ [][Next]_vars

\* A processor that has begun a message runs on.  The lock is a spin lock: a
\* processor may lose every race for it.
FairSpec == Spec /\ \A c \in Cpu : WF_vars(Proceed(c))
-------------------------------------------------------------------------------
(***************************************************************************)
(* Properties                                                              *)
(***************************************************************************)
HoldingPc == {"start", "tag", "tagged", "byte", "next", "text", "cr", "lf",
              "disown"}

Place == HoldingPc \union {"idle", "own", "lock", "claim", "unlock", "restart",
                           "refill", "check"}

TypeOK ==
  /\ lock \in BOOLEAN /\ at_line_start \in BOOLEAN
  /\ owner \in Number \union {NoOwner}
  /\ guestLen \in [Number -> 0 .. LineMax - 1]
  /\ line \subseteq Cpu
  /\ pc \in [Cpu -> Place]
  /\ kind \in [Cpu -> {"host", "locked", "guest"}]
  /\ left \in [Cpu -> 0 .. MaxText]
  /\ \A c \in Cpu : pc[c] \in {"tag", "tagged", "byte", "next"} => left[c] > 0
  /\ \A c \in Cpu : kind[c] = "guest" => left[c] \in {0, 1}
  /\ \A c \in Cpu : pc[c] = "refill" => kind[c] = "guest"
  /\ stack \in [Cpu -> {"own", "firmware"}] /\ clash \in BOOLEAN

\* What the head of serial.rs says of every message.
NeverSplit == \A c, d \in line : c = d

\* A line on the port comes from one processor from its first byte to its
\* newline, although the lock is taken byte by byte, is known to its holder
\* only through SERIAL_OWNER, by a number that changes with the stack, and is
\* given back in three separate stores: except when two processors with one
\* number are in a message at the same time, and until no message is under way.
WholeLines == ~clash => NeverSplit

\* The processor that has the lock: between the exchange that took it and the
\* store that frees it, and between two bytes of a line.
Has(c) ==
  \/ pc[c] \in HoldingPc \union {"claim", "unlock"}
  \/ pc[c] = "own" /\ owner = Me(c)

OneHolder == \A c, d \in Cpu : Has(c) /\ Has(d) => c = d
HeldIsLocked == \A c \in Cpu : Has(c) => lock
OwnerHolds ==
  \A c \in Cpu :
    /\ pc[c] \in HoldingPc => owner = Me(c)
    /\ owner = Me(c) => pc[c] \in HoldingPc \union {"own", "idle"}
Distinct ==
  \A c, d \in Cpu : pc[c] # "idle" /\ pc[d] # "idle" /\ Me(c) = Me(d) => c = d
LineIsHolders ==
  /\ \A c \in line : owner = Me(c) /\ pc[c] \in HoldingPc \union {"own"}
  /\ \A c \in Cpu : pc[c] = "disown" => line = {}

\* The lock is never left behind: as long as it is taken there is a processor
\* that knows it has it and will pass the stores of release_line, also where
\* processors pass for one another and release what is not theirs.
LockHasHolder == lock => \E c \in Cpu : Has(c)

\* The inductive invariants behind them.
OwnerIsBusy ==
  owner # NoOwner =>
    \E c \in Cpu : Me(c) = owner /\ pc[c] \in HoldingPc \union {"own"}
LockIsClaimed ==
  lock /\ owner = NoOwner => \E c \in Cpu : pc[c] \in {"claim", "unlock"}
LineIsUnderWay ==
  \A c \in line : pc[c] \in (HoldingPc \ {"disown"}) \union {"own", "lock", "claim"}

Orderly == Distinct /\ OneHolder /\ HeldIsLocked /\ OwnerHolds /\ LineIsHolders

SerialInv ==
  /\ TypeOK /\ OwnerIsBusy /\ LockIsClaimed /\ LineIsUnderWay
  /\ ~clash => Orderly

\* The port is never wedged: whoever has taken the lock gives it back.
LockIsFreed == lock ~> ~lock
===============================================================================
