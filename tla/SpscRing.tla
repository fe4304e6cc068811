------------------------------- MODULE SpscRing -------------------------------
(***************************************************************************)
(* UnidirectionalChannel of hypster-core/src/channel.rs: a single-producer *)
(* single-consumer ring of packets without locks.  The producer owns tail  *)
(* and cached_head, the consumer owns head and cached_tail; each reads the *)
(* other's index only when its cached copy says the ring is full or empty. *)
(*                                                                         *)
(* One step is one access to memory the other side can see: the load of    *)
(* the other side's index, the copy of the packet's bytes, the access to   *)
(* its length, the store of the own index.  The two sides interleave.      *)
(***************************************************************************)
EXTENDS RingIndex, Sequences

CONSTANTS
  Byte,        \* byte values; 0 is what a new packet is filled with
  MaxLen,      \* MAX_PACKET_LEN: 1518 in the code
  Payloads,    \* the slices callers pass to send, longer than MaxLen or not
  None,        \* the None of recv, and no packet in progress
  StaleLoads   \* whether an Acquire load may return an older store

ASSUME PacketAssumption ==
  /\ MaxLen \in Nat
  /\ 0 \in Byte
  /\ Payloads \subseteq Seq(Byte)
  /\ None \notin Seq(Byte)
  /\ StaleLoads \in BOOLEAN

VARIABLES
  queue,        \* the slots: bytes and length of each Packet
  tail,         \* next index to write, stored by the producer only
  cached_head,  \* the producer's copy of head
  head,         \* next index to read, stored by the consumer only
  cached_tail,  \* the consumer's copy of tail
  sendPc,       \* where send is: "idle", "refresh", "data", "len", "publish"
  arg,          \* the slice of the send in progress, or None
  sendResult,   \* what the last send that returned answered
  recvPc,       \* where recv is: "idle", "refresh", "data", "len", "release"
  copy,         \* the packet recv has copied so far
  recvResult    \* what the last recv that returned answered

producerVars == <<cached_head, sendPc, arg, sendResult>>
consumerVars == <<cached_tail, recvPc, copy, recvResult>>
vars == <<queue, tail, head, producerVars, consumerVars>>

Packet == [data : [1 .. MaxLen -> Byte], len : 0 .. MaxLen]
EmptyPacket == [data |-> [i \in 1 .. MaxLen |-> 0], len |-> 0]

\* A packet of the abstract queue is what recv's caller sees: the bytes up to
\* the length.  The bytes behind it are leftovers of earlier packets.
Visible(p) == SubSeq(p.data, 1, p.len)

CopyLen(d) == IF Len(d) < MaxLen THEN Len(d) ELSE MaxLen
Clip(d) == SubSeq(d, 1, CopyLen(d))

\* self.queue[slot].data[..copy_len].copy_from_slice(&data[..copy_len])
Overwrite(bytes, d) ==
  [i \in 1 .. MaxLen |-> IF i <= CopyLen(d) THEN d[i] ELSE bytes[i]]

\* The values an Acquire load may return: every index stored since the one
\* this side loaded last, or only the newest.
Loadable(since, newest) ==
  IF StaleLoads
    THEN {i \in Index : WrappingSub(newest, i) <= WrappingSub(newest, since)}
    ELSE {newest}

Init ==
  /\ queue = [s \in 0 .. Capacity - 1 |-> EmptyPacket]
  /\ tail = 0 /\ cached_head = 0 /\ head = 0 /\ cached_tail = 0
  /\ sendPc = "idle" /\ arg = None /\ sendResult = TRUE
  /\ recvPc = "idle" /\ copy = EmptyPacket /\ recvResult = None
-------------------------------------------------------------------------------
(***************************************************************************)
(* send                                                                    *)
(***************************************************************************)

\* A call: load the own tail and decide on the cached head.
SendCall(d) ==
  /\ sendPc = "idle"
  /\ arg' = d
  /\ sendPc' = IF Full(tail, cached_head) THEN "refresh" ELSE "data"
  /\ UNCHANGED <<queue, tail, head, cached_head, sendResult, consumerVars>>

\* Refresh cached_head from the shared head; refuse the packet if still full.
SendRefresh(h) ==
  /\ sendPc = "refresh"
  /\ h \in Loadable(cached_head, head)
  /\ cached_head' = h
  /\ IF Full(tail, h)
       THEN sendPc' = "idle" /\ arg' = None /\ sendResult' = FALSE
       ELSE sendPc' = "data" /\ UNCHANGED <<arg, sendResult>>
  /\ UNCHANGED <<queue, tail, head, consumerVars>>

\* Copy the payload into the slot of the own tail.
SendData ==
  /\ sendPc = "data"
  /\ queue' = [queue EXCEPT ![Slot(tail)].data = Overwrite(@, arg)]
  /\ sendPc' = "len"
  /\ UNCHANGED <<tail, head, cached_head, arg, sendResult, consumerVars>>

SendLenUnclipped ==
  /\ sendPc = "len"
  /\ queue' = [queue EXCEPT ![Slot(tail)].len = MaxLen]
  /\ sendPc' = "publish"
  /\ UNCHANGED <<tail, head, cached_head, arg, sendResult, consumerVars>>

SendLen ==
  /\ sendPc = "len"
  /\ queue' = [queue EXCEPT ![Slot(tail)].len = CopyLen(arg)]
  /\ sendPc' = "publish"
  /\ UNCHANGED <<tail, head, cached_head, arg, sendResult, consumerVars>>

\* The Release store of tail + 1 hands the slot to the consumer.
SendPublish ==
  /\ sendPc = "publish"
  /\ tail' = WrappingAdd1(tail)
  /\ sendPc' = "idle" /\ arg' = None /\ sendResult' = TRUE
  /\ UNCHANGED <<queue, head, cached_head, consumerVars>>
-------------------------------------------------------------------------------
(***************************************************************************)
(* recv                                                                    *)
(***************************************************************************)

RecvCallNeverRefreshing ==
  /\ recvPc = "idle"
  /\ IF head = cached_tail
       THEN recvResult' = None /\ UNCHANGED recvPc
       ELSE recvPc' = "data" /\ UNCHANGED recvResult
  /\ UNCHANGED <<queue, tail, head, cached_tail, copy, producerVars>>

\* A call: load the own head and decide on the cached tail.
RecvCall ==
  /\ recvPc = "idle"
  /\ recvPc' = IF head = cached_tail THEN "refresh" ELSE "data"
  /\ UNCHANGED <<queue, tail, head, cached_tail, copy, recvResult, producerVars>>

RecvRefreshOverrun(t) ==
  /\ recvPc = "refresh"
  /\ t \in Loadable(cached_tail, tail)
  /\ cached_tail' = t
  /\ recvPc' = "data"
  /\ UNCHANGED <<queue, tail, head, copy, recvResult, producerVars>>

\* Refresh cached_tail from the shared tail; answer None if still empty.
RecvRefresh(t) ==
  /\ recvPc = "refresh"
  /\ t \in Loadable(cached_tail, tail)
  /\ cached_tail' = t
  /\ IF head = t
       THEN recvPc' = "idle" /\ recvResult' = None
       ELSE recvPc' = "data" /\ UNCHANGED recvResult
  /\ UNCHANGED <<queue, tail, head, copy, producerVars>>

\* let pkt = self.queue[slot_idx]: the bytes, then the length.
RecvData ==
  /\ recvPc = "data"
  /\ copy' = [copy EXCEPT !.data = queue[Slot(head)].data]
  /\ recvPc' = "len"
  /\ UNCHANGED <<queue, tail, head, cached_tail, recvResult, producerVars>>

RecvLen ==
  /\ recvPc = "len"
  /\ copy' = [copy EXCEPT !.len = queue[Slot(head)].len]
  /\ recvPc' = "release"
  /\ UNCHANGED <<queue, tail, head, cached_tail, recvResult, producerVars>>

\* The Release store of head + 1 hands the slot back; recv returns the copy.
RecvRelease ==
  /\ recvPc = "release"
  /\ head' = WrappingAdd1(head)
  /\ recvPc' = "idle" /\ copy' = EmptyPacket /\ recvResult' = Visible(copy)
  /\ UNCHANGED <<queue, tail, cached_tail, producerVars>>
-------------------------------------------------------------------------------
Send ==
  \/ \E d \in Payloads : SendCall(d)
  \/ \E h \in Index : SendRefresh(h)
  \/ SendData
  \/ SendLen
  \/ SendPublish

Recv ==
  \/ RecvCall
  \/ \E t \in Index : RecvRefresh(t)
  \/ RecvData
  \/ RecvLen
  \/ RecvRelease

Next == Send \/ Recv

Spec == Init /\ [][Next]_vars

\* A consumer that polls for ever, as both guests do, on a machine whose caches
\* make a store visible in finite time.  The producer may stop between calls
\* or inside one.
PollingConsumer ==
  /\ WF_vars(Recv)
  /\ SF_vars(RecvRefresh(tail))

FairSpec == Spec /\ PollingConsumer
-------------------------------------------------------------------------------
(***************************************************************************)
(* Properties                                                              *)
(***************************************************************************)

TypeOK ==
  /\ queue \in [0 .. Capacity - 1 -> Packet]
  /\ tail \in Index /\ cached_head \in Index
  /\ head \in Index /\ cached_tail \in Index
  /\ sendPc \in {"idle", "refresh", "data", "len", "publish"}
  /\ arg \in Payloads \union {None}
  /\ (arg = None) = (sendPc = "idle")
  /\ sendResult \in BOOLEAN
  /\ recvPc \in {"idle", "refresh", "data", "len", "release"}
  /\ copy \in Packet
  /\ recvResult \in Seq(Byte) \union {None}

\* Number of packets published and not yet released.
Used == WrappingSub(tail, head)

Writing == sendPc \in {"data", "len", "publish"}
Reading == recvPc \in {"data", "len", "release"}

\* However the indices wrap and however old the cached copies are, the ring
\* never holds more than its capacity, and each side's copy of the other
\* side's index errs only on the safe side: cached_head is behind head, never
\* so far that the window looks larger than the ring, and cached_tail is
\* between head and tail.  (send and recv decide on the copies alone.)
WindowOK ==
  /\ Used <= Capacity
  /\ Used <= WrappingSub(tail, cached_head)
  /\ WrappingSub(tail, cached_head) <= Capacity
  /\ WrappingSub(cached_tail, head) <= Used

\* The producer writes a slot and the consumer reads a slot without a lock,
\* so the two never touch the same slot at the same time: what recv copies is
\* never being overwritten, although no step of send looks at recvPc.
NoRace == Writing /\ Reading => Slot(tail) # Slot(head)

\* What a side has found out stays true while it works on its slot: the
\* producer has room for one more packet and the consumer has one to take.
DecisionsHold ==
  /\ Writing => WrappingSub(tail, cached_head) < Capacity
  /\ Reading => head # cached_tail

\* Half-way through a packet, the part already written is in the slot, and
\* the part already copied is still what the slot holds.
HalfwayOK ==
  /\ sendPc \in {"len", "publish"} =>
       \A i \in 1 .. CopyLen(arg) : queue[Slot(tail)].data[i] = arg[i]
  /\ sendPc = "publish" => queue[Slot(tail)].len = CopyLen(arg)
  /\ recvPc \in {"len", "release"} => copy.data = queue[Slot(head)].data
  /\ recvPc = "release" => copy.len = queue[Slot(head)].len

\* The inductive invariant behind WindowOK, NoRace and ImplementsFifo.
IInv == TypeOK /\ WindowOK /\ DecisionsHold /\ HalfwayOK

\* The abstract queue: the packets of the slots from index h up to index t.
ContentsOf(slots, t, h) ==
  [k \in 1 .. WrappingSub(t, h) |-> Visible(slots[Slot(Offset(h, k - 1))])]
Contents == ContentsOf(queue, tail, head)

Fifo == INSTANCE BoundedFifo WITH
  Bound <- Capacity,
  Packets <- {Clip(d) : d \in Payloads},
  SpuriousRefusal <- StaleLoads,
  fifo <- Contents,
  sending <- IF sendPc = "idle" THEN None ELSE Clip(arg),
  receiving <- recvPc # "idle"

\* The ring implements the bounded queue: packets come out whole, once, in
\* the order they were sent and clipped to MAX_PACKET_LEN, send takes effect
\* at the store of tail, recv at the store of head, and a refusal at the load
\* of the other side's index is justified at that load.
ImplementsFifo == Fifo!Spec

\* Every packet the producer published is received by a consumer that keeps
\* polling, although recv looks at tail only when its cached copy runs out.
EverythingIsReceived ==
  \A n \in Index : (tail = n) ~> (head = n)
==============================================================================
