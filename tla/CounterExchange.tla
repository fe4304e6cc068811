---------------------------- MODULE CounterExchange ----------------------------
(***************************************************************************)
(* run_ipc_counter_exchange of vm1-app and vm2-app: the two guests of the  *)
(* concurrent run, each on its own processor, over the two rings of the    *)
(* shared region.  VM1 posts a counter on the forward ring (ch0) and waits *)
(* for the same number on the acknowledgement ring (ch1); VM2 returns each *)
(* counter it receives.  Both publish the counter they completed in the    *)
(* heartbeat, which a host script reads.  No guest ever stops.             *)
(*                                                                         *)
(* One step is one access to shared memory.  The packet length is left out *)
(* (neither guest reads it) and so are the time stamps of the heartbeat.   *)
(* Counters are u64 and indices usize: both wrap at IndexSize.             *)
(*                                                                         *)
(* The specification is ExchangeSpec: RingProofs extends this module and   *)
(* SpscRing.                                                               *)
(*                                                                         *)
(* V1PublishNotAwaiting, V2SendNeverRefreshing and V2PublishAhead are      *)
(* mutated forms of the definition that follows them; nothing uses them.   *)
(***************************************************************************)
EXTENDS RingIndex

VARIABLES
  fwdTail, fwdHead, fwdQueue,   \* the forward ring: indices and slots
  ackTail, ackHead, ackQueue,   \* the acknowledgement ring
  pc1,              \* VM1: "send", "write", "publish", "recv", "read",
                    \* "release", "count"
  counter,          \* VM1: the counter it is exchanging
  fwd_cached_head,  \* VM1: its copy of fwdHead
  ack_cached_tail,  \* VM1: CONS_CACHED_TAIL, its copy of ackTail
  ack,              \* VM1: the acknowledgement it read
  pc2,              \* VM2: the same places in the order "recv", "read",
                    \* "release", "send", "write", "publish", "count"
  fwd_cached_tail,  \* VM2: its copy of fwdTail
  ack_cached_head,  \* VM2: its copy of ackHead
  received,         \* VM2: the counter it read
  vm1_count,        \* heartbeat: the last counter VM1 got acknowledged
  vm2_count         \* heartbeat: the last counter VM2 acknowledged

vm1Vars == <<pc1, counter, fwd_cached_head, ack_cached_tail, ack, vm1_count>>
vm2Vars == <<pc2, fwd_cached_tail, ack_cached_head, received, vm2_count>>
fwdVars == <<fwdTail, fwdHead, fwdQueue>>
ackVars == <<ackTail, ackHead, ackQueue>>
exchangeVars == <<fwdVars, ackVars, vm1Vars, vm2Vars>>

\* init_ipc_at_hpa zeroes the region, writes two empty rings; both guests
\* are loaded and enter their loop.
ExchangeInit ==
  /\ fwdTail = 0 /\ fwdHead = 0 /\ fwdQueue = [s \in 0 .. Capacity - 1 |-> 0]
  /\ ackTail = 0 /\ ackHead = 0 /\ ackQueue = [s \in 0 .. Capacity - 1 |-> 0]
  /\ pc1 = "send" /\ counter = 0 /\ fwd_cached_head = 0
  /\ ack_cached_tail = 0 /\ ack = 0
  /\ pc2 = "recv" /\ fwd_cached_tail = 0 /\ ack_cached_head = 0 /\ received = 0
  /\ vm1_count = 0 /\ vm2_count = 0
-------------------------------------------------------------------------------
(***************************************************************************)
(* VM1                                                                     *)
(***************************************************************************)

\* channel_send_counter: decide on the cached head, refresh it if it says
\* full, try again while the ring is full.
V1Send ==
  /\ pc1 = "send"
  /\ fwd_cached_head' =
       IF Full(fwdTail, fwd_cached_head) THEN fwdHead ELSE fwd_cached_head
  /\ pc1' = IF Full(fwdTail, fwd_cached_head') THEN "send" ELSE "write"
  /\ UNCHANGED <<fwdVars, ackVars, counter, ack_cached_tail, ack, vm1_count,
                 vm2Vars>>

V1Write ==
  /\ pc1 = "write"
  /\ fwdQueue' = [fwdQueue EXCEPT ![Slot(fwdTail)] = counter]
  /\ pc1' = "publish"
  /\ UNCHANGED <<fwdTail, fwdHead, ackVars, counter, fwd_cached_head,
                 ack_cached_tail, ack, vm1_count, vm2Vars>>

V1PublishNotAwaiting ==
  /\ pc1 = "publish"
  /\ fwdTail' = WrappingAdd1(fwdTail)
  /\ pc1' = "count"
  /\ UNCHANGED <<fwdHead, fwdQueue, ackVars, counter, fwd_cached_head,
                 ack_cached_tail, ack, vm1_count, vm2Vars>>

V1Publish ==
  /\ pc1 = "publish"
  /\ fwdTail' = WrappingAdd1(fwdTail)
  /\ pc1' = "recv"
  /\ UNCHANGED <<fwdHead, fwdQueue, ackVars, counter, fwd_cached_head,
                 ack_cached_tail, ack, vm1_count, vm2Vars>>

\* channel_recv_counter: decide on the cached tail, refresh it if it says
\* empty, poll again while the ring is empty.
V1Recv ==
  /\ pc1 = "recv"
  /\ ack_cached_tail' =
       IF ackHead = ack_cached_tail THEN ackTail ELSE ack_cached_tail
  /\ pc1' = IF ackHead = ack_cached_tail' THEN "recv" ELSE "read"
  /\ UNCHANGED <<fwdVars, ackVars, counter, fwd_cached_head, ack, vm1_count,
                 vm2Vars>>

V1Read ==
  /\ pc1 = "read"
  /\ ack' = ackQueue[Slot(ackHead)]
  /\ pc1' = "release"
  /\ UNCHANGED <<fwdVars, ackVars, counter, fwd_cached_head, ack_cached_tail,
                 vm1_count, vm2Vars>>

\* Give the slot back; any other number than the one awaited is dropped.
V1Release ==
  /\ pc1 = "release"
  /\ ackHead' = WrappingAdd1(ackHead)
  /\ pc1' = IF ack = counter THEN "count" ELSE "recv"
  /\ UNCHANGED <<fwdVars, ackTail, ackQueue, counter, fwd_cached_head,
                 ack_cached_tail, ack, vm1_count, vm2Vars>>

\* Publish the heartbeat and go on to the next counter.
V1Count ==
  /\ pc1 = "count"
  /\ vm1_count' = counter
  /\ counter' = WrappingAdd1(counter)
  /\ pc1' = "send"
  /\ UNCHANGED <<fwdVars, ackVars, fwd_cached_head, ack_cached_tail, ack,
                 vm2Vars>>
-------------------------------------------------------------------------------
(***************************************************************************)
(* VM2                                                                     *)
(***************************************************************************)

\* recv_counter
V2Recv ==
  /\ pc2 = "recv"
  /\ fwd_cached_tail' =
       IF fwdHead = fwd_cached_tail THEN fwdTail ELSE fwd_cached_tail
  /\ pc2' = IF fwdHead = fwd_cached_tail' THEN "recv" ELSE "read"
  /\ UNCHANGED <<fwdVars, ackVars, vm1Vars, ack_cached_head, received,
                 vm2_count>>

V2Read ==
  /\ pc2 = "read"
  /\ received' = fwdQueue[Slot(fwdHead)]
  /\ pc2' = "release"
  /\ UNCHANGED <<fwdVars, ackVars, vm1Vars, fwd_cached_tail, ack_cached_head,
                 vm2_count>>

V2Release ==
  /\ pc2 = "release"
  /\ fwdHead' = WrappingAdd1(fwdHead)
  /\ pc2' = "send"
  /\ UNCHANGED <<fwdTail, fwdQueue, ackVars, vm1Vars, fwd_cached_tail,
                 ack_cached_head, received, vm2_count>>

V2SendNeverRefreshing ==
  /\ pc2 = "send"
  /\ pc2' = IF Full(ackTail, ack_cached_head) THEN "send" ELSE "write"
  /\ UNCHANGED <<fwdVars, ackVars, vm1Vars, fwd_cached_tail, ack_cached_head,
                 received, vm2_count>>

\* send_counter
V2Send ==
  /\ pc2 = "send"
  /\ ack_cached_head' =
       IF Full(ackTail, ack_cached_head) THEN ackHead ELSE ack_cached_head
  /\ pc2' = IF Full(ackTail, ack_cached_head') THEN "send" ELSE "write"
  /\ UNCHANGED <<fwdVars, ackVars, vm1Vars, fwd_cached_tail, received,
                 vm2_count>>

V2Write ==
  /\ pc2 = "write"
  /\ ackQueue' = [ackQueue EXCEPT ![Slot(ackTail)] = received]
  /\ pc2' = "publish"
  /\ UNCHANGED <<fwdVars, ackTail, ackHead, vm1Vars, fwd_cached_tail,
                 ack_cached_head, received, vm2_count>>

V2PublishAhead ==
  /\ pc2 = "publish"
  /\ ackTail' = WrappingAdd1(WrappingAdd1(ackTail))
  /\ pc2' = "count"
  /\ UNCHANGED <<fwdVars, ackHead, ackQueue, vm1Vars, fwd_cached_tail,
                 ack_cached_head, received, vm2_count>>

V2Publish ==
  /\ pc2 = "publish"
  /\ ackTail' = WrappingAdd1(ackTail)
  /\ pc2' = "count"
  /\ UNCHANGED <<fwdVars, ackHead, ackQueue, vm1Vars, fwd_cached_tail,
                 ack_cached_head, received, vm2_count>>

V2Count ==
  /\ pc2 = "count"
  /\ vm2_count' = received
  /\ pc2' = "recv"
  /\ UNCHANGED <<fwdVars, ackVars, vm1Vars, fwd_cached_tail, ack_cached_head,
                 received>>
-------------------------------------------------------------------------------
VM1 == V1Send \/ V1Write \/ V1Publish \/ V1Recv \/ V1Read \/ V1Release
         \/ V1Count

VM2 == V2Recv \/ V2Read \/ V2Release \/ V2Send \/ V2Write \/ V2Publish
         \/ V2Count

ExchangeNext == VM1 \/ VM2

ExchangeSpec == ExchangeInit /\ [][ExchangeNext]_exchangeVars

\* Each guest has a processor of its own, so neither can stop the other.
FairExchange == ExchangeSpec /\ WF_exchangeVars(VM1) /\ WF_exchangeVars(VM2)
-------------------------------------------------------------------------------
(***************************************************************************)
(* Properties                                                              *)
(***************************************************************************)
Pc == {"send", "write", "publish", "recv", "read", "release", "count"}
Counters == [0 .. Capacity - 1 -> Index]

ExchangeTypeOK ==
  /\ fwdTail \in Index /\ fwdHead \in Index /\ fwdQueue \in Counters
  /\ ackTail \in Index /\ ackHead \in Index /\ ackQueue \in Counters
  /\ pc1 \in Pc /\ counter \in Index /\ ack \in Index
  /\ fwd_cached_head \in Index /\ ack_cached_tail \in Index
  /\ pc2 \in Pc /\ received \in Index
  /\ fwd_cached_tail \in Index /\ ack_cached_head \in Index
  /\ vm1_count \in Index /\ vm2_count \in Index

\* The heartbeats rise in lockstep: whenever a third party looks, and however
\* late a guest publishes, the two counters are equal or one apart.
\* (scripts/check_heartbeats.sh and the boot message of the run rely on it.)
Lockstep ==
  \/ vm1_count = vm2_count
  \/ vm1_count = WrappingAdd1(vm2_count)
  \/ vm2_count = WrappingAdd1(vm1_count)

\* At most one packet is on its way in the two rings together, so that neither
\* guest can ever find a ring full; and the acknowledgement VM1 takes is the one
\* it awaits (it would drop any other), however cached indices and rings wrap.
\* While both guests poll, one is there: they never wait for each other.
OneInFlight ==
  /\ WrappingSub(fwdTail, fwdHead) + WrappingSub(ackTail, ackHead) <= 1
  /\ pc1 = "release" => ack = counter
  /\ pc1 = "recv" /\ pc2 = "recv" =>
       WrappingSub(fwdTail, fwdHead) + WrappingSub(ackTail, ackHead) = 1

\* Why: one packet travels a circle, and the places of the two guests say where
\* it is.  Until VM2 has answered, its heartbeat is that of VM1.
Idle ==
  /\ pc2 \in {"recv", "count"} /\ fwdHead = counter /\ ackTail = counter
  /\ pc2 = "recv" => vm2_count = vm1_count
  /\ pc2 = "count" =>
       /\ received = vm1_count
       /\ vm1_count \in {vm2_count, WrappingAdd1(vm2_count)}
Taking ==
  /\ pc2 \in {"read", "release"} /\ fwdHead = counter /\ ackTail = counter
  /\ pc2 = "release" => received = counter
  /\ vm2_count = vm1_count
Answering ==
  /\ pc2 \in {"send", "write", "publish"}
  /\ fwdHead = WrappingAdd1(counter) /\ ackTail = counter
  /\ received = counter /\ vm2_count = vm1_count
  /\ pc2 = "publish" => ackQueue[Slot(counter)] = counter
Answered ==
  /\ pc2 \in {"recv", "count"}
  /\ fwdHead = WrappingAdd1(counter) /\ ackTail = WrappingAdd1(counter)
  /\ received = counter /\ ackQueue[Slot(counter)] = counter
  /\ vm2_count = IF pc2 = "count" THEN vm1_count ELSE counter

Posting ==
  /\ pc1 \in {"send", "write", "publish"}
  /\ fwdTail = counter /\ ackHead = counter
  /\ pc1 = "publish" => fwdQueue[Slot(counter)] = counter
  /\ Idle
Posted ==
  /\ pc1 = "recv"
  /\ fwdTail = WrappingAdd1(counter) /\ ackHead = counter
  /\ fwdQueue[Slot(counter)] = counter
  /\ Idle \/ Taking \/ Answering \/ Answered
Closing ==
  /\ pc1 \in {"read", "release", "count"}
  /\ fwdTail = WrappingAdd1(counter)
  /\ ackHead = IF pc1 = "count" THEN WrappingAdd1(counter) ELSE counter
  /\ pc1 = "release" => ack = counter
  /\ Answered

\* The cached tails differ from the heads only while a packet is being read.
CachesFit ==
  /\ fwd_cached_tail =
       IF pc2 \in {"read", "release"} THEN WrappingAdd1(fwdHead) ELSE fwdHead
  /\ ack_cached_tail =
       IF pc1 \in {"read", "release"} THEN WrappingAdd1(ackHead) ELSE ackHead

ExchangeInv ==
  /\ ExchangeTypeOK
  /\ Posting \/ Posted \/ Closing
  /\ CachesFit
  /\ counter \in {vm1_count, WrappingAdd1(vm1_count)}

\* Both heartbeats keep rising: no guest waits for ever, although each decides
\* on cached indices that only it refreshes.
HeartbeatsRise ==
  \A n \in Index :
    /\ vm1_count = n ~> vm1_count # n
    /\ vm2_count = n ~> vm2_count # n
===============================================================================
