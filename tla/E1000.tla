------------------------------- MODULE E1000 --------------------------------
(***************************************************************************)
(* VirtualE1000 (e1000_emu.rs), the emulated network card of a VM, with    *)
(* the driver that works it from the guest.                                *)
(*                                                                         *)
(* Card and driver share a transmit and a receive ring in guest memory.    *)
(* Of the registers those are kept that decide something: heads, the tail  *)
(* and the length of the transmit ring, place and length of the receive    *)
(* ring and the interrupt causes.  The others are stored and read back.  A *)
(* descriptor holds a frame, known by its number, or none (0); good says   *)
(* that its length is one the card takes.                                  *)
(*                                                                         *)
(* Register accesses reach the card as traps (mmio_write, mmio_read) or    *)
(* the host looks for writes in guest memory (sync_mmio), as trapped says. *)
(* It leaves nothing there for the guest to read: a driver whose accesses  *)
(* do not trap has to look into its rings.                                 *)
(*                                                                         *)
(* The driver is not part of the repository: it is one that keeps the      *)
(* rules of the device, with a slot free between its tail and the oldest   *)
(* descriptor in use, and may ring as often as it likes.                   *)
(*                                                                         *)
(* NextSlotUnbounded, HasWorkAlways, RaiseIfNone and NextRdhShort are      *)
(* mutated forms of the definition that follows each.                      *)
(***************************************************************************)
EXTENDS Naturals, FiniteSets, Sequences, SequencesExt

CONSTANTS
  TxSlots,     \* descriptors of the longest transmit ring
  RxSlots,     \* descriptors of the longest receive ring
  DescSize,    \* size of a descriptor, 16 in the code
  Lengths,     \* lengths the driver may give the transmit ring
  RxLengths,   \* lengths it may give the receive ring
  OutBound,    \* packets the channel behind the card holds
  MaxQueued,   \* bound on the frames the driver sends
  MaxArrived,  \* bound on the frames that come for it
  MaxFrames,   \* bound on both together
  MaxSetups    \* bound on the times the driver sets the card up

ASSUME SizeAssumption ==
  /\ TxSlots \in Nat \ {0} /\ RxSlots \in Nat \ {0} /\ DescSize \in Nat \ {0}
  /\ Lengths \subseteq 0 .. TxSlots * DescSize
  /\ RxLengths \subseteq 0 .. RxSlots * DescSize
  /\ OutBound \in Nat /\ MaxQueued \in Nat /\ MaxArrived \in Nat
  /\ MaxFrames \in Nat
  /\ MaxSetups \in Nat \ {0}

VARIABLES
  vm_id,     \* which VM has the card: that of VM1 sends into a channel
  trapped,   \* the guest's register writes trap
  setup,     \* the register the driver sets next, "up" when it is done
  setups,    \* how often the driver began to set the card up
  tdh, tdt, tdlen, rdh, rdlen, rdbal, icr,   \* registers
  stored,    \* TDT and TDLEN as the guest left them in memory
  storedRx,  \* RDLEN and RDBAL as the guest left them in memory
  tx, rx,    \* the rings
  out,       \* the channel
  queued,    \* frames the driver queued so far
  ntu, ntc,  \* next descriptor the driver uses, next it cleans
  sent,      \* frames that left the card
  dropped,   \* frames of VM that never will
  arrived,   \* frames that came for the guest so far
  ntr,       \* next descriptor the driver reads
  polling,   \* the driver empties the receive ring
  got,       \* frames the driver read
  missed,    \* frames that came and cannot be read
  overrun,   \* a frame was put where one was still unread
  strayed,   \* the head moved on in a ring the driver does not have
  halted     \* the host has panicked

txVars == <<tdh, tdt, tdlen, stored, tx, out, queued, ntu, ntc, sent, dropped>>
rxRegs == <<rdh, rdlen, rdbal, storedRx>>
rxVars == <<rxRegs, rx, arrived, ntr, polling, got, missed, overrun, strayed>>
cardVars == <<vm_id, trapped, setup, setups, icr, halted, txVars, rxVars>>

TxSlot == 0 .. TxSlots - 1
RxSlot == 0 .. RxSlots - 1
TxFrame == 0 .. MaxQueued
RxFrame == 0 .. MaxArrived
Setup == {"tdlen", "tdh", "tdt", "rx", "rdlen", "rdbal", "rdh", "up"}

\* Where a receive ring can be: at the address every card starts with, at the
\* driver's own, or at 0, which is in memory until the driver stores another.
Base == {"preset", "own", "zero"}
TXDW == "TXDW"
RXT0 == "RXT0"

NoTx == [frame |-> 0, good |-> FALSE, dd |-> FALSE]
NoRx == [buffer |-> FALSE, frame |-> 0, dd |-> FALSE]

CardInit ==
  /\ vm_id \in {0, 1} /\ trapped \in BOOLEAN
  /\ setup = "tdlen" /\ setups = 1
  /\ tdh = 0 /\ tdt = 0 /\ tdlen = TxSlots * DescSize /\ icr = {}
  /\ rdh = 0 /\ rdlen = RxSlots * DescSize /\ rdbal = "preset"
  /\ stored = [tdt |-> 0, tdlen |-> 0] /\ storedRx = [rdlen |-> 0, rdbal |-> "zero"]
  /\ tx = [i \in TxSlot |-> NoTx] /\ rx = [i \in RxSlot |-> NoRx]
  /\ out = <<>> /\ queued = 0 /\ ntu = 0 /\ ntc = 0 /\ sent = <<>> /\ dropped = {}
  /\ arrived = 0 /\ ntr = 0 /\ polling = FALSE /\ got = <<>> /\ missed = {}
  /\ overrun = FALSE /\ strayed = FALSE /\ halted = FALSE

Running == ~halted
-----------------------------------------------------------------------------
(* Transmission.                                                           *)

RingSlots(length) == length \div DescSize
NextSlotUnbounded(i, n) == i + 1
NextSlot(i, n) == (i + 1) % n
RaiseIfNone(causes, cause) == IF causes = {} THEN {cause} ELSE causes
Raise(causes, cause) == causes \cup {cause}

\* process_tx hands a descriptor's frame on and looks at no answer: what a
\* full channel refuses is gone.
Transmit(d) ==
  IF ~d.good
  THEN dropped' = dropped \cup ({d.frame} \ {0}) /\ UNCHANGED <<out, sent>>
  ELSE IF vm_id = 0 /\ Len(out) >= OutBound
  THEN dropped' = dropped \cup {d.frame} /\ UNCHANGED <<out, sent>>
  ELSE /\ sent' = Append(sent, d.frame)
       /\ out' = IF vm_id = 0 THEN Append(out, d.frame) ELSE out
       /\ UNCHANGED dropped

HasWorkAlways(tail, length) == TRUE
HasWork(tail, length) == tdh # tail \/ length = 0

\* One descriptor is transmitted, however far the tail is.  In a ring too
\* short for one the head cannot advance: the remainder by zero panics.
ProcessTx(tail, length) ==
  /\ tdt' = tail /\ tdlen' = length
  /\ IF HasWork(tail, length)
     THEN /\ Transmit(tx[tdh])
          /\ tx' = [tx EXCEPT ![tdh].dd = TRUE]
          /\ IF RingSlots(length) = 0
             THEN halted' = TRUE /\ UNCHANGED <<tdh, icr>>
             ELSE /\ tdh' = NextSlot(tdh, RingSlots(length))
                  /\ icr' = Raise(icr, TXDW)
                  /\ UNCHANGED halted
     ELSE icr' = Raise(icr, TXDW) /\ UNCHANGED <<tdh, tx, out, sent, dropped, halted>>

\* mmio_write of TDT, or the store of it in guest memory.
WriteTdt(tail) ==
  IF trapped
  THEN ProcessTx(tail, tdlen) /\ UNCHANGED stored
  ELSE /\ stored' = [stored EXCEPT !.tdt = tail]
       /\ UNCHANGED <<tdh, tdt, tdlen, tx, out, sent, dropped, icr, halted>>

\* sync_mmio takes the transmit registers over from memory and transmits.  Of
\* the receive registers it looks at RDLEN: RDBAL is taken over with a length
\* that is none of 0 and the card's own, and the head is left where it is.
TakeRxRing ==
  IF storedRx.rdlen \in {0, rdlen}
  THEN UNCHANGED <<rdlen, rdbal>>
  ELSE rdlen' = storedRx.rdlen /\ rdbal' = storedRx.rdbal
SyncMmio ==
  /\ Running /\ ~trapped
  /\ TakeRxRing
  /\ ProcessTx(stored.tdt, stored.tdlen)
  /\ UNCHANGED <<vm_id, trapped, setup, setups, stored, queued, ntu, ntc, rdh,
                 storedRx, rx, arrived, ntr, polling, got, missed, overrun, strayed>>
-----------------------------------------------------------------------------
(* The driver sets the card up, one register after the other, and sends.   *)

\* The driver of a card it lost its hold of starts over: what it had queued
\* and what it had not read is abandoned.  CTRL_RST leaves every register but
\* the status alone, and sync_mmio knows no TDH: only a card that traps can be
\* set up again.
Pending ==
  {tx[i].frame : i \in {j \in TxSlot : ~tx[j].dd /\ tx[j].frame > 0}}
Reset ==
  /\ Running /\ trapped /\ setup = "up" /\ setups < MaxSetups
  /\ setup' = "tdlen" /\ setups' = setups + 1
  /\ dropped' = dropped \cup Pending
  /\ missed' = missed \cup {rx[i].frame : i \in {j \in RxSlot : rx[j].dd}}
  /\ rx' = [i \in RxSlot |-> NoRx]
  /\ ntu' = 0 /\ ntc' = 0 /\ ntr' = 0 /\ polling' = FALSE
  /\ UNCHANGED <<vm_id, trapped, icr, halted, tdh, tdt, tdlen, stored, tx, out,
                 queued, sent, rxRegs, arrived, got, overrun, strayed>>

SetTdlen(length) ==
  /\ Running /\ setup = "tdlen" /\ setup' = "tdh"
  /\ IF trapped THEN tdlen' = length /\ UNCHANGED stored
                ELSE stored' = [stored EXCEPT !.tdlen = length] /\ UNCHANGED tdlen
  /\ UNCHANGED <<vm_id, trapped, setups, icr, halted, tdh, tdt, tx, out, queued,
                 ntu, ntc, sent, dropped, rxVars>>

SetTdh ==
  /\ Running /\ setup = "tdh" /\ setup' = "tdt"
  /\ tdh' = IF trapped THEN 0 ELSE tdh
  /\ tx' = [i \in TxSlot |-> NoTx]
  /\ UNCHANGED <<vm_id, trapped, setups, icr, halted, tdt, tdlen, stored, out,
                 queued, ntu, ntc, sent, dropped, rxVars>>

SetTdt ==
  /\ Running /\ setup = "tdt" /\ setup' = "rx"
  /\ WriteTdt(0)
  /\ UNCHANGED <<vm_id, trapped, setups, queued, ntu, ntc, rxVars>>

\* Length and place of the receive ring, in either order.
SetRdlen(length) ==
  /\ Running /\ setup \in {"rx", "rdlen"}
  /\ setup' = IF setup = "rx" THEN "rdbal" ELSE "rdh"
  /\ IF trapped THEN rdlen' = length /\ UNCHANGED storedRx
                ELSE storedRx' = [storedRx EXCEPT !.rdlen = length] /\ UNCHANGED rdlen
  /\ UNCHANGED <<vm_id, trapped, setups, icr, halted, txVars, rdh, rdbal, rx, arrived,
                 ntr, polling, got, missed, overrun, strayed>>

SetRdbal(base) ==
  /\ Running /\ setup \in {"rx", "rdbal"}
  /\ setup' = IF setup = "rx" THEN "rdlen" ELSE "rdh"
  /\ IF trapped THEN rdbal' = base /\ UNCHANGED storedRx
                ELSE storedRx' = [storedRx EXCEPT !.rdbal = base] /\ UNCHANGED rdbal
  /\ UNCHANGED <<vm_id, trapped, setups, icr, halted, txVars, rdh, rdlen, rx, arrived,
                 ntr, polling, got, missed, overrun, strayed>>

\* sync_mmio knows no RDH either.
SetRdh ==
  /\ Running /\ setup = "rdh" /\ setup' = "up"
  /\ rdh' = IF trapped THEN 0 ELSE rdh
  /\ UNCHANGED <<vm_id, trapped, setups, icr, halted, txVars, rdlen, rdbal, storedRx,
                 rx, arrived, ntr, polling, got, missed, overrun, strayed>>

DriverSlots ==
  RingSlots(IF trapped THEN tdlen ELSE stored.tdlen)

Queue(good) ==
  /\ Running /\ setup = "up" /\ DriverSlots > 1
  /\ queued < MaxQueued /\ queued + arrived < MaxFrames
  /\ NextSlot(ntu, DriverSlots) # ntc
  /\ queued' = queued + 1
  /\ tx' = [tx EXCEPT ![ntu] = [frame |-> queued + 1, good |-> good, dd |-> FALSE]]
  /\ ntu' = NextSlot(ntu, DriverSlots)
  /\ UNCHANGED <<vm_id, trapped, setup, setups, icr, halted, tdh, tdt, tdlen, stored,
                 out, ntc, sent, dropped, rxVars>>

Ring ==
  /\ Running /\ setup = "up"
  /\ WriteTdt(ntu)
  /\ UNCHANGED <<vm_id, trapped, setup, setups, queued, ntu, ntc, rxVars>>

Clean ==
  /\ Running /\ setup = "up" /\ ntc # ntu /\ tx[ntc].dd
  /\ ntc' = NextSlot(ntc, DriverSlots)
  /\ UNCHANGED <<vm_id, trapped, setup, setups, icr, halted, tdh, tdt, tdlen, stored,
                 tx, out, queued, ntu, sent, dropped, rxVars>>

\* The other end of the channel takes a packet.
TakeOut ==
  /\ Running /\ out # <<>> /\ out' = Tail(out)
  /\ UNCHANGED <<vm_id, trapped, setup, setups, icr, halted, tdh, tdt, tdlen, stored,
                 tx, queued, ntu, ntc, sent, dropped, rxVars>>
-----------------------------------------------------------------------------
(* Reception.                                                              *)

NextRdhShort(h) == IF h + 2 >= RingSlots(rdlen) THEN 0 ELSE h + 1
NextRdh(h) == NextSlot(h, RingSlots(rdlen))

\* The driver's ring, and whether the card's is the same.
DriverRxSlots == RingSlots(IF trapped THEN rdlen ELSE storedRx.rdlen)
DriverBase == IF trapped THEN rdbal ELSE storedRx.rdbal
SameRing ==
  /\ setup = "up" /\ rdbal = DriverBase
  /\ trapped \/ rdlen = storedRx.rdlen

\* The head is at a descriptor of the driver's ring; elsewhere in the guest's
\* memory there may or may not be what passes for a buffer.
HeadInRing == setup = "up" /\ rdbal = DriverBase /\ rdh < DriverRxSlots
BufferAtHead == IF HeadInRing THEN {rx[rdh].buffer} ELSE BOOLEAN

\* The descriptor at the head is written to if it has a buffer, without a look
\* at the tail.
WriteDescriptor(buffer) ==
  IF ~buffer
  THEN missed' = missed \cup {arrived'} /\ UNCHANGED <<rdh, rx, overrun, strayed>>
  ELSE /\ rdh' = NextRdh(rdh)
       /\ strayed' = (strayed \/ (~trapped /\ ~SameRing))
       /\ IF HeadInRing
          THEN /\ rx' = [rx EXCEPT ![rdh].frame = arrived', ![rdh].dd = TRUE]
               /\ overrun' = (overrun \/ rx[rdh].dd)
               /\ UNCHANGED missed
          ELSE missed' = missed \cup {arrived'} /\ UNCHANGED <<rx, overrun>>

\* deliver_rx_packet reports success with or without a buffer.  It refuses when
\* RDLEN is 0, and panics when there is no room for a descriptor.
DeliverRxPacket ==
  /\ Running /\ arrived < MaxArrived /\ queued + arrived < MaxFrames
  /\ arrived' = arrived + 1
  /\ IF RingSlots(rdlen) = 0
     THEN /\ missed' = missed \cup {arrived'}
          /\ halted' = (rdlen # 0)
          /\ UNCHANGED <<rdh, rx, overrun, strayed, icr>>
     ELSE /\ \E buffer \in BufferAtHead : WriteDescriptor(buffer)
          /\ icr' = Raise(icr, RXT0)
          /\ UNCHANGED halted
  /\ UNCHANGED <<vm_id, trapped, setup, setups, txVars, rdlen, rdbal, storedRx, ntr,
                 polling, got>>

\* The driver gives the card a buffer, in the order of the ring.
Post(i) ==
  /\ Running /\ setup = "up" /\ i < DriverRxSlots
  /\ ~rx[i].buffer /\ \A j \in 0 .. i - 1 : rx[j].buffer
  /\ rx' = [rx EXCEPT ![i].buffer = TRUE]
  /\ UNCHANGED <<vm_id, trapped, setup, setups, icr, halted, txVars, rxRegs, arrived,
                 ntr, polling, got, missed, overrun, strayed>>

\* mmio_read of ICR clears it.
ReadIcr ==
  /\ Running /\ trapped /\ setup = "up" /\ ~polling /\ icr # {}
  /\ icr' = {} /\ polling' = (RXT0 \in icr)
  /\ UNCHANGED <<vm_id, trapped, setup, setups, halted, txVars, rxRegs, rx, arrived,
                 ntr, got, missed, overrun, strayed>>

\* A driver that cannot read ICR looks into the ring whenever it likes.
Look ==
  /\ Running /\ ~trapped /\ setup = "up" /\ ~polling /\ polling' = TRUE
  /\ UNCHANGED <<vm_id, trapped, setup, setups, icr, halted, txVars, rxRegs, rx,
                 arrived, ntr, got, missed, overrun, strayed>>

ReadFrame ==
  /\ Running /\ setup = "up" /\ polling /\ rx[ntr].dd
  /\ got' = Append(got, rx[ntr].frame)
  /\ rx' = [rx EXCEPT ![ntr].dd = FALSE]
  /\ ntr' = NextSlot(ntr, DriverRxSlots)
  /\ UNCHANGED <<vm_id, trapped, setup, setups, icr, halted, txVars, rxRegs, arrived,
                 polling, missed, overrun, strayed>>

RingEmpty ==
  /\ Running /\ setup = "up" /\ polling /\ ~rx[ntr].dd
  /\ polling' = FALSE
  /\ UNCHANGED <<vm_id, trapped, setup, setups, icr, halted, txVars, rxRegs, rx, arrived,
                 ntr, got, missed, overrun, strayed>>
-----------------------------------------------------------------------------
SetUp ==
  \/ SetTdh \/ SetTdt \/ SetRdh
  \/ \E l \in Lengths : SetTdlen(l)
  \/ \E l \in RxLengths : SetRdlen(l)
  \/ \E base \in Base \ {"zero"} : SetRdbal(base)
Receive == ReadIcr \/ Look \/ ReadFrame \/ RingEmpty

CardNext ==
  \/ Reset \/ SetUp \/ Ring \/ Clean \/ TakeOut \/ SyncMmio
  \/ \E good \in BOOLEAN : Queue(good)
  \/ DeliverRxPacket \/ Receive
  \/ \E i \in RxSlot : Post(i)

CardSpec == CardInit /\ [][CardNext]_cardVars
FairCard == CardSpec /\ WF_cardVars(SetUp) /\ WF_cardVars(Receive)
-----------------------------------------------------------------------------
TxTypeOK ==
  /\ vm_id \in {0, 1} /\ trapped \in BOOLEAN /\ setup \in Setup
  /\ setups \in 1 .. MaxSetups /\ halted \in BOOLEAN
  /\ tdh \in TxSlot /\ tdt \in TxSlot
  /\ tdlen \in 0 .. TxSlots * DescSize
  /\ icr \subseteq {TXDW, RXT0}
  /\ stored \in [tdt : TxSlot, tdlen : 0 .. TxSlots * DescSize]
  /\ tx \in [TxSlot -> [frame : TxFrame, good : BOOLEAN, dd : BOOLEAN]]
  /\ out \in Seq(TxFrame) /\ Len(out) <= OutBound
  /\ queued \in TxFrame /\ ntu \in TxSlot /\ ntc \in TxSlot
  /\ sent \in Seq(TxFrame) /\ dropped \subseteq TxFrame

RxTypeOK ==
  /\ rdh \in RxSlot /\ ntr \in RxSlot /\ polling \in BOOLEAN
  /\ rdlen \in 0 .. RxSlots * DescSize /\ rdbal \in Base
  /\ storedRx \in [rdlen : 0 .. RxSlots * DescSize, rdbal : Base]
  /\ rx \in [RxSlot -> [buffer : BOOLEAN, frame : RxFrame, dd : BOOLEAN]]
  /\ arrived \in RxFrame /\ got \in Seq(RxFrame) /\ missed \subseteq RxFrame
  /\ overrun \in BOOLEAN /\ strayed \in BOOLEAN

CardTypeOK == TxTypeOK /\ RxTypeOK

Rises(s) == \A i \in 1 .. Len(s) - 1 : s[i] < s[i + 1]

\* i is one of the slots from a up to b, b excluded.
Between(i, a, b) == IF a <= b THEN a <= i /\ i < b ELSE a <= i \/ i < b

\* Frames leave the card in the order in which the driver queued them and each
\* at most once, and none is forgotten: it left, was refused, was abandoned
\* with a reset or is still in the ring.  The driver is told so of exactly the
\* descriptors behind the head, so it never reuses one the card has not seen.
\* This holds although a ring of the doorbell transmits one descriptor only.
TxInOrder ==
  /\ Rises(sent)
  /\ ToSet(sent) \cap dropped = {}
  /\ setup = "up" =>
       /\ ToSet(sent) \cup dropped \cup Pending = 1 .. queued
       /\ \A i \in 0 .. DriverSlots - 1 :
            /\ Between(i, ntc, tdh) => tx[i].dd
            /\ Between(i, tdh, ntu) => ~tx[i].dd

\* The driver reads the frames in the order of their arrival, each once, and
\* finds all but those that met a descriptor without a buffer or no ring of its
\* own: across set-ups, and when a card that does not trap takes the ring over
\* late.  Excepted are a host that delivers into a descriptor not read yet, and
\* a head that moved on before sync_mmio took the ring over.
Unread == Cardinality({i \in RxSlot : rx[i].dd})
Waiting == [k \in 1 .. Unread |-> rx[(ntr + k - 1) % DriverRxSlots].frame]
RxInOrder ==
  ~overrun /\ ~strayed =>
    /\ Rises(got \o Waiting)
    /\ ToSet(got \o Waiting) \cup missed = 1 .. arrived

\* A frame that waits for a driver that can read ICR has been announced.  The
\* driver is at it, or will find the cause set when it reads ICR next; a frame
\* delivered while it walks through the ring is never taken for an old one.
FrameIsAnnounced ==
  trapped /\ setup = "up" /\ ~overrun /\ (\E i \in RxSlot : rx[i].dd) =>
    polling \/ RXT0 \in icr

\* No frame is left in the ring for want of an interrupt cause: ICR is cleared
\* by being read and set again by the next delivery, at any point of the
\* driver's walk through the ring.  Without ICR the driver has to look.
FramesAreRead ==
  \A f \in 1 .. MaxArrived :
    arrived >= f ~>
      f \in ToSet(got) \cup missed \/ overrun \/ strayed \/ halted
-----------------------------------------------------------------------------
(* The inductive invariant behind them.                                     *)

\* How far b is ahead of a in a ring of n descriptors.
Ahead(a, b, n) == IF a <= b THEN b - a ELSE (b + n) - a

\* Descriptors the driver has queued and the card not sent.
Busy == IF setup = "up" THEN Ahead(tdh, ntu, DriverSlots) ELSE 0

\* The driver's indices and the head are in the driver's ring: what it has to
\* clean, then what the card has to send.  The tail in memory is on the way.
InRing(i) == i = 0 \/ i < DriverSlots
Indices ==
  /\ InRing(tdh) /\ InRing(ntu) /\ InRing(ntc)
  /\ Ahead(ntc, tdh, DriverSlots) + Ahead(tdh, ntu, DriverSlots)
       = Ahead(ntc, ntu, DriverSlots)
  /\ ~trapped =>
       /\ InRing(stored.tdt)
       /\ Ahead(tdh, stored.tdt, DriverSlots) <= Ahead(tdh, ntu, DriverSlots)

\* The frames still to be sent are those queued last, in their order, and the
\* descriptors from the oldest in use to the head are done.
Descriptors ==
  /\ \A i \in TxSlot :
       IF i < DriverSlots /\ Ahead(tdh, i, DriverSlots) < Busy
       THEN ~tx[i].dd /\ tx[i].frame + Ahead(i, ntu, DriverSlots) = queued + 1
       ELSE tx[i].dd \/ tx[i].frame = 0
  /\ \A i \in TxSlot :
       /\ i < DriverSlots /\ Ahead(ntc, i, DriverSlots) < Ahead(ntc, tdh, DriverSlots)
            => tx[i].dd
       /\ DriverSlots = 0 => tx[i].frame = 0

\* Until the driver is done with the set-up no frame is in the ring it will use.
Blank ==
  /\ ntu = 0 /\ ntc = 0
  /\ ~trapped => stored.tdt = 0
  /\ ~trapped \/ setup \in {"tdt", "rx", "rdlen", "rdbal", "rdh"} =>
       tdh = 0 /\ \A i \in TxSlot : tx[i].frame = 0

Books ==
  /\ Busy <= queued
  /\ Rises(sent)
  /\ ToSet(sent) \cap dropped = {}
  /\ ToSet(sent) \cup dropped = 1 .. queued - Busy

TxInv ==
  /\ \A i \in TxSlot : tx[i].good => tx[i].frame > 0
  /\ IF setup = "up" THEN Indices /\ Descriptors ELSE Blank
  /\ Books

\* The frames to be read are those from ntr up to the head.
Window ==
  /\ \A i \in RxSlot :
       rx[i].dd <=> i < DriverRxSlots /\ Ahead(ntr, i, DriverRxSlots) < Unread
  /\ rdh = (ntr + Unread) % DriverRxSlots

\* Before the driver has a ring of its own, and before a card that does not
\* trap has taken it over, nothing was received.
NothingYet == ntr = 0 /\ rdh = 0 /\ \A i \in RxSlot : ~rx[i].dd

\* What is to be read is in the driver's ring, and that is there once it is up.
RxPlaces ==
  /\ ntr = 0 \/ ntr < DriverRxSlots
  /\ \A i \in RxSlot : rx[i].dd => i < DriverRxSlots
  /\ setup # "up" => ntr = 0 /\ ~polling /\ \A i \in RxSlot : ~rx[i].dd

RxInv ==
  /\ RxPlaces /\ (trapped => ~strayed)
  /\ ~overrun /\ ~strayed =>
       /\ setup = "up" /\ DriverRxSlots > 0 => Window
       /\ ~trapped /\ ~SameRing => NothingYet
  /\ RxInOrder /\ FrameIsAnnounced

CardInv == CardTypeOK /\ TxInv /\ RxInv
=============================================================================
