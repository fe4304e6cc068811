------------------------------ MODULE RingProofs ------------------------------
(***************************************************************************)
(* Proofs about the two copies of the ring's protocol, that of the channel *)
(* (SpscRing) and that of the concurrent guests (CounterExchange), for     *)
(* every capacity and index width: of the channel for every packet size    *)
(* and payload, with and without stale loads.                              *)
(***************************************************************************)
EXTENDS SpscRing, CounterExchange, SequenceTheorems, TLAPS

(***************************************************************************)
(* The index arithmetic                                                    *)
(***************************************************************************)

\* The number of index values is a number, at least two for each slot.
LEMMA IndexSizeBounds ==
  /\ Capacity \in Nat /\ IndexSize \in Nat
  /\ Capacity >= 1 /\ IndexSize >= 2 * Capacity
  /\ IndexSize >= 2 /\ IndexSize > Capacity
BY CapacityAssumption, IndexSizeAssumption

\* wrapping_add and wrapping_sub stay within the word.
LEMMA WrappingTypes ==
  ASSUME NEW a \in Index, NEW b \in Index
  PROVE  /\ WrappingAdd1(a) \in Index
         /\ WrappingSub(a, b) \in Index
         /\ WrappingSub(a, b) \in Nat
         /\ WrappingSub(a, b) = 0 <=> a = b
BY IndexSizeBounds DEF Index, WrappingAdd1, WrappingSub

\* Storing the next tail makes the distance to any index one longer.
LEMMA WrappingSubAdd ==
  ASSUME NEW t \in Index, NEW h \in Index, WrappingSub(t, h) < IndexSize - 1
  PROVE  WrappingSub(WrappingAdd1(t), h) = WrappingSub(t, h) + 1
BY IndexSizeBounds DEF Index, WrappingAdd1, WrappingSub

\* Storing the next head makes the distance from any other index one shorter.
LEMMA WrappingSubStep ==
  ASSUME NEW t \in Index, NEW h \in Index, t # h
  PROVE  WrappingSub(t, WrappingAdd1(h)) = WrappingSub(t, h) - 1
BY IndexSizeBounds DEF Index, WrappingAdd1, WrappingSub

\* A multiple of the capacity is itself less than the capacity only if zero.
LEMMA SmallMultiple ==
  ASSUME NEW c \in Nat, c >= 1, NEW m \in Int, 0 <= c * m, c * m < c
  PROVE  m = 0
<1>1. CASE m >= 1
  <2>1. c * m >= c * 1 BY <1>1
  <2>2. QED BY <2>1
<1>2. CASE m <= -1
  <2>1. c * m <= c * (-1) BY <1>2
  <2>2. QED BY <2>1
<1>3. QED BY <1>1, <1>2

\* idx & MASK leaves a slot number, and the quotient and it give idx back.
LEMMA SlotDivision ==
  ASSUME NEW n \in Nat
  PROVE  /\ n \div Capacity \in Int
         /\ n % Capacity \in 0 .. Capacity - 1
         /\ n = Capacity * (n \div Capacity) + (n % Capacity)
BY CapacityAssumption

LEMMA SlotType ==
  ASSUME NEW a \in Index
  PROVE  Slot(a) \in 0 .. Capacity - 1
BY IndexSizeBounds, SlotDivision DEF Index, Slot

\* Two indices less than a ring apart, wrap included, use different slots.
LEMMA SlotsDiffer ==
  ASSUME NEW a \in Index, NEW b \in Index,
         a # b, WrappingSub(a, b) < Capacity
  PROVE  Slot(a) # Slot(b)
<1> SUFFICES ASSUME Slot(a) = Slot(b) PROVE FALSE OBVIOUS
<1> DEFINE qa == a \div Capacity
           qb == b \div Capacity
           qw == IndexSize \div Capacity
<1>1. /\ a \in Nat /\ b \in Nat /\ qa \in Int /\ qb \in Int /\ qw \in Int
      /\ a = Capacity * qa + Slot(a) /\ b = Capacity * qb + Slot(b)
      /\ IndexSize = Capacity * qw
      /\ Slot(a) \in Int /\ Slot(b) \in Int
  BY IndexSizeBounds, IndexSizeAssumption, SlotDivision DEF Index, Slot
<1> HIDE DEF qa, qb, qw
<1>2. CASE a >= b
  <2>1. a - b = Capacity * (qa - qb) BY <1>1, IndexSizeBounds
  <2>2. 0 <= Capacity * (qa - qb) /\ Capacity * (qa - qb) < Capacity
    BY <1>1, <1>2, <2>1 DEF WrappingSub
  <2>3. qa - qb = 0
    BY ONLY <1>1, <2>2, SmallMultiple, IndexSizeBounds
  <2>4. QED BY <1>1, <2>1, <2>3, IndexSizeBounds
<1>3. CASE a < b
  <2>1. (a + IndexSize) - b = Capacity * (qa - qb + qw)
    BY <1>1, IndexSizeBounds
  <2>2. 0 <= Capacity * (qa - qb + qw) /\ Capacity * (qa - qb + qw) < Capacity
    BY <1>1, <1>3, <2>1 DEF WrappingSub, Index
  <2>3. qa - qb + qw = 0
    BY ONLY <1>1, <2>2, SmallMultiple, IndexSizeBounds
  <2>4. a + IndexSize = b BY <1>1, <2>1, <2>3, IndexSizeBounds
  <2>5. QED BY <1>1, <2>4 DEF Index
<1>4. QED BY <1>1, <1>2, <1>3

\* Indices inside the window of a ring: the k-th after head is k steps nearer
\* to tail, and the one after the last is tail itself.
LEMMA OffsetInWindow ==
  ASSUME NEW t \in Index, NEW h \in Index, NEW k \in Nat,
         k <= WrappingSub(t, h)
  PROVE  /\ Offset(h, k) \in Index
         /\ WrappingSub(t, Offset(h, k)) = WrappingSub(t, h) - k
BY IndexSizeBounds DEF Index, WrappingSub, Offset

LEMMA OffsetEnds ==
  ASSUME NEW t \in Index, NEW h \in Index
  PROVE  /\ Offset(h, WrappingSub(t, h)) = t
         /\ Offset(h, 0) = h
BY IndexSizeBounds DEF Index, WrappingSub, Offset

\* Counting from the next index is counting one further from this one.
LEMMA OffsetNext ==
  ASSUME NEW h \in Index, NEW k \in Nat, k < Capacity
  PROVE  Offset(WrappingAdd1(h), k) = Offset(h, k + 1)
BY IndexSizeBounds DEF Index, WrappingAdd1, Offset
-------------------------------------------------------------------------------
(***************************************************************************)
(* The payloads                                                            *)
(***************************************************************************)

\* The clipped length fits the slice and the packet.
LEMMA CopyLenType ==
  ASSUME NEW d \in Payloads
  PROVE  /\ d \in Seq(Byte)
         /\ CopyLen(d) \in Nat /\ CopyLen(d) <= Len(d) /\ CopyLen(d) <= MaxLen
BY PacketAssumption, LenProperties DEF CopyLen

\* Copying a payload into a slot leaves bytes.
LEMMA OverwriteType ==
  ASSUME NEW d \in Payloads, NEW bytes \in [1 .. MaxLen -> Byte]
  PROVE  /\ Overwrite(bytes, d) \in [1 .. MaxLen -> Byte]
         /\ \A i \in 1 .. CopyLen(d) : Overwrite(bytes, d)[i] = d[i]
<1>1. \A i \in 1 .. CopyLen(d) : d[i] \in Byte
  BY CopyLenType, ElementOfSeq
<1>2. QED BY <1>1, CopyLenType, PacketAssumption DEF Overwrite

\* What recv hands out is a sequence of bytes.
LEMMA VisibleType ==
  ASSUME NEW p \in Packet
  PROVE  Visible(p) \in Seq(Byte)
BY SubSeqProperties, PacketAssumption DEF Visible, Packet

\* Two packets that agree up to the same length look the same to a receiver.
LEMMA VisibleIsClip ==
  ASSUME NEW p \in Packet, NEW d \in Payloads, p.len = CopyLen(d),
         \A i \in 1 .. CopyLen(d) : p.data[i] = d[i]
  PROVE  Visible(p) = Clip(d)
<1> DEFINE n == CopyLen(d)
<1>1. /\ d \in Seq(Byte) /\ n \in Nat /\ n <= Len(d) /\ p.len = n
  BY CopyLenType
<1>2. \A i \in 1 .. n : d[i] \in Byte /\ p.data[i] \in Byte
  BY <1>1, ElementOfSeq
<1> HIDE DEF n
<1>3. /\ SubSeq(d, 1, n) \in Seq(Byte) /\ SubSeq(p.data, 1, n) \in Seq(Byte)
      /\ Len(SubSeq(d, 1, n)) = n /\ Len(SubSeq(p.data, 1, n)) = n
      /\ \A i \in 1 .. n : SubSeq(d, 1, n)[i] = d[i]
      /\ \A i \in 1 .. n : SubSeq(p.data, 1, n)[i] = p.data[i]
  <2>1. \A i \in 1 .. n : SubSeq(d, 1, n)[i] = d[1 + i - 1]
    BY <1>1, <1>2, SubSeqProperties
  <2>2. \A i \in 1 .. n : SubSeq(p.data, 1, n)[i] = p.data[1 + i - 1]
    BY <1>1, <1>2, SubSeqProperties
  <2>3. QED BY <1>1, <1>2, <2>1, <2>2, SubSeqProperties
<1>4. SubSeq(d, 1, n) = SubSeq(p.data, 1, n)
  BY <1>2, <1>3, SeqEqual DEF n
<1>5. QED BY <1>1, <1>4 DEF Visible, Clip, n
-------------------------------------------------------------------------------
\* Every variable of the ring keeps its type in every behaviour: indices stay
\* in the word, slots hold packets, and a send is in progress exactly when it
\* has an argument.
THEOREM RingTypeOK == Spec => []TypeOK
<1>1. Init => TypeOK
  <2> SUFFICES ASSUME Init PROVE TypeOK OBVIOUS
  <2>1. EmptyPacket \in Packet /\ 0 \in Index
    BY PacketAssumption, IndexSizeBounds DEF EmptyPacket, Packet, Index
  <2>2. QED BY <2>1, PacketAssumption DEF Init, TypeOK
<1>2. TypeOK /\ [Next]_vars => TypeOK'
  <2> SUFFICES ASSUME TypeOK, [Next]_vars PROVE TypeOK' OBVIOUS
  <2> USE DEF TypeOK
  <2>1. ASSUME NEW d \in Payloads, SendCall(d) PROVE TypeOK'
    BY <2>1, PacketAssumption DEF SendCall, consumerVars
  <2>2. ASSUME NEW h \in Index, SendRefresh(h) PROVE TypeOK'
    BY <2>2 DEF SendRefresh, consumerVars
  <2>3. ASSUME SendData PROVE TypeOK'
    <3>1. arg \in Payloads BY <2>3 DEF SendData
    <3>2. queue' \in [0 .. Capacity - 1 -> Packet]
      BY <2>3, <3>1, OverwriteType, SlotType DEF SendData, Packet
    <3>3. QED BY <2>3, <3>2 DEF SendData, consumerVars
  <2>4. ASSUME SendLen PROVE TypeOK'
    <3>1. CopyLen(arg) \in 0 .. MaxLen
      BY <2>4, CopyLenType, PacketAssumption DEF SendLen
    <3>2. queue' \in [0 .. Capacity - 1 -> Packet]
      BY <2>4, <3>1, SlotType DEF SendLen, Packet
    <3>3. QED BY <2>4, <3>2 DEF SendLen, consumerVars
  <2>5. ASSUME SendPublish PROVE TypeOK'
    BY <2>5, WrappingTypes DEF SendPublish, consumerVars
  <2>6. ASSUME RecvCall PROVE TypeOK'
    BY <2>6 DEF RecvCall, producerVars
  <2>7. ASSUME NEW t \in Index, RecvRefresh(t) PROVE TypeOK'
    BY <2>7 DEF RecvRefresh, producerVars
  <2>8. ASSUME RecvData PROVE TypeOK'
    BY <2>8, SlotType DEF RecvData, producerVars, Packet
  <2>9. ASSUME RecvLen PROVE TypeOK'
    BY <2>9, SlotType DEF RecvLen, producerVars, Packet
  <2>10. ASSUME RecvRelease PROVE TypeOK'
    <3>1. Visible(copy) \in Seq(Byte) BY VisibleType
    <3>2. EmptyPacket \in Packet
      BY PacketAssumption DEF EmptyPacket, Packet
    <3>3. QED
      BY <2>10, <3>1, <3>2, WrappingTypes DEF RecvRelease, producerVars
  <2>11. CASE UNCHANGED vars
    BY <2>11 DEF vars, producerVars, consumerVars
  <2>12. QED
    BY <2>1, <2>2, <2>3, <2>4, <2>5, <2>6, <2>7, <2>8, <2>9, <2>10, <2>11
    DEF Next, Send, Recv
<1>3. QED BY <1>1, <1>2, PTL DEF Spec
-------------------------------------------------------------------------------
\* The arithmetic of a refresh: an index loaded from the other side lies
\* between the copy held so far and the other side's index itself.
LEMMA LoadedHead ==
  ASSUME TypeOK, WindowOK, NEW h \in Index, h \in Loadable(cached_head, head)
  PROVE  /\ Used <= WrappingSub(tail, h)
         /\ WrappingSub(tail, h) <= Capacity
<1>1. WrappingSub(head, h) <= WrappingSub(head, cached_head)
  BY IndexSizeBounds DEF Loadable, WrappingSub, Index, TypeOK
<1>2. QED
  BY <1>1, IndexSizeBounds DEF WindowOK, Used, WrappingSub, Index, TypeOK

LEMMA LoadedTail ==
  ASSUME TypeOK, WindowOK, NEW t \in Index, t \in Loadable(cached_tail, tail)
  PROVE  WrappingSub(t, head) <= Used
<1>1. WrappingSub(tail, t) <= WrappingSub(tail, cached_tail)
  BY IndexSizeBounds DEF Loadable, WrappingSub, Index, TypeOK
<1>2. QED
  BY <1>1, IndexSizeBounds DEF WindowOK, Used, WrappingSub, Index, TypeOK

\* A producer at work has a free slot, a consumer at work has a full one.
LEMMA SpareAndFilled ==
  ASSUME TypeOK, WindowOK, DecisionsHold
  PROVE  /\ Writing => Used < Capacity
         /\ Reading => tail # head
<1>1. Writing => Used < Capacity
  BY IndexSizeBounds, WrappingTypes DEF WindowOK, DecisionsHold, Used, TypeOK
<1>2. Reading => tail # head
  <2>1. tail = head => WrappingSub(tail, head) = 0
    BY IndexSizeBounds DEF TypeOK, WrappingSub, Index
  <2>2. WrappingSub(cached_tail, head) = 0 => cached_tail = head
    BY WrappingTypes DEF TypeOK
  <2>3. WrappingSub(cached_tail, head) \in Nat BY WrappingTypes DEF TypeOK
  <2>4. QED BY <2>1, <2>2, <2>3 DEF WindowOK, DecisionsHold, Used
<1>3. QED BY <1>1, <1>2

\* The invariant excludes a race on a slot.
LEMMA InvNoRace == IInv => NoRace
<1> SUFFICES ASSUME IInv, Writing, Reading PROVE Slot(tail) # Slot(head)
  BY DEF NoRace
<1>1. Used < Capacity /\ tail # head BY SpareAndFilled DEF IInv
<1>2. QED BY <1>1, SlotsDiffer DEF IInv, TypeOK, Used

\* The window and the decisions made on cached indices survive every step.
LEMMA WindowStep ==
  ASSUME IInv, [Next]_vars
  PROVE  WindowOK' /\ DecisionsHold'
<1> USE DEF IInv
<1> DEFINE Goal == WindowOK' /\ DecisionsHold'
<1>0. /\ tail \in Index /\ head \in Index
      /\ cached_head \in Index /\ cached_tail \in Index
  BY DEF TypeOK
<1>1. ASSUME NEW d \in Payloads, SendCall(d) PROVE Goal
  BY <1>1, <1>0, WrappingTypes, IndexSizeBounds
  DEF SendCall, consumerVars, WindowOK, DecisionsHold, Used, Writing, Reading,
      Full
<1>2. ASSUME NEW h \in Index, SendRefresh(h) PROVE Goal
  BY <1>2, LoadedHead, WrappingTypes, IndexSizeBounds, <1>0
  DEF SendRefresh, consumerVars, WindowOK, DecisionsHold, Used, Writing,
      Reading, Full
<1>3. ASSUME SendData \/ SendLen PROVE Goal
  BY <1>3 DEF SendData, SendLen, consumerVars, WindowOK, DecisionsHold, Used,
              Writing, Reading
<1>4. ASSUME SendPublish PROVE Goal
  <2>1. /\ tail' = WrappingAdd1(tail) /\ cached_head' = cached_head
        /\ head' = head /\ cached_tail' = cached_tail
        /\ Writing /\ ~Writing' /\ recvPc' = recvPc
    BY <1>4 DEF SendPublish, consumerVars, Writing
  <2>2. /\ WrappingSub(tail, cached_head) < Capacity
        /\ WrappingSub(tail, head) < Capacity
    BY <2>1, SpareAndFilled DEF DecisionsHold, Used
  <2>3. /\ WrappingSub(tail', cached_head) = WrappingSub(tail, cached_head) + 1
        /\ WrappingSub(tail', head) = WrappingSub(tail, head) + 1
    BY <2>1, <2>2, <1>0, WrappingSubAdd, WrappingTypes, IndexSizeBounds
  <2>4. QED
    BY <2>1, <2>2, <2>3, <1>0, WrappingTypes, IndexSizeBounds
    DEF WindowOK, DecisionsHold, Used, Reading
<1>5. ASSUME RecvCall PROVE Goal
  BY <1>5 DEF RecvCall, producerVars, WindowOK, DecisionsHold, Used, Writing,
              Reading
<1>6. ASSUME NEW t \in Index, RecvRefresh(t) PROVE Goal
  BY <1>6, LoadedTail
  DEF RecvRefresh, producerVars, WindowOK, DecisionsHold, Used, Writing, Reading
<1>7. ASSUME RecvData \/ RecvLen PROVE Goal
  BY <1>7 DEF RecvData, RecvLen, producerVars, WindowOK, DecisionsHold, Used,
              Writing, Reading
<1>8. ASSUME RecvRelease PROVE Goal
  <2>1. /\ head' = WrappingAdd1(head) /\ cached_tail' = cached_tail
        /\ tail' = tail /\ cached_head' = cached_head
        /\ Reading /\ ~Reading' /\ sendPc' = sendPc
    BY <1>8 DEF RecvRelease, producerVars, Reading
  <2>2. tail # head /\ cached_tail # head
    BY <2>1, SpareAndFilled DEF DecisionsHold
  <2>3. /\ WrappingSub(tail, head') = WrappingSub(tail, head) - 1
        /\ WrappingSub(cached_tail, head') = WrappingSub(cached_tail, head) - 1
    BY <2>1, <2>2, <1>0, WrappingSubStep
  <2>4. /\ WrappingSub(tail, head) \in Nat /\ WrappingSub(cached_tail, head) \in Nat
        /\ WrappingSub(tail, cached_head) \in Nat /\ Capacity \in Nat
    BY <1>0, WrappingTypes, IndexSizeBounds
  <2>5. WindowOK'
    BY <2>1, <2>3, <2>4 DEF WindowOK, Used
  <2>6. DecisionsHold'
    BY <2>1 DEF DecisionsHold, Writing
  <2>7. QED BY <2>5, <2>6
<1>9. CASE UNCHANGED vars
  BY <1>9 DEF vars, producerVars, consumerVars, WindowOK, DecisionsHold, Used,
              Writing, Reading
<1>10. QED
  BY <1>1, <1>2, <1>3, <1>4, <1>5, <1>6, <1>7, <1>8, <1>9
  DEF Next, Send, Recv

\* A packet half written is not disturbed by the consumer, and a packet half
\* copied is not disturbed by the producer.
LEMMA HalfwayStep ==
  ASSUME IInv, [Next]_vars
  PROVE  HalfwayOK'
<1> USE DEF IInv
<1>0. /\ Slot(tail) \in 0 .. Capacity - 1 /\ Slot(head) \in 0 .. Capacity - 1
      /\ queue \in [0 .. Capacity - 1 -> Packet]
      /\ copy \in Packet
      /\ sendPc # "idle" => arg \in Payloads
  BY SlotType DEF TypeOK
<1>1. ASSUME NEW d \in Payloads, SendCall(d) PROVE HalfwayOK'
  BY <1>1 DEF SendCall, consumerVars, HalfwayOK
<1>2. ASSUME NEW h \in Index, SendRefresh(h) PROVE HalfwayOK'
  BY <1>2 DEF SendRefresh, consumerVars, HalfwayOK
<1>3. ASSUME SendData PROVE HalfwayOK'
  <2>1. queue[Slot(tail)].data \in [1 .. MaxLen -> Byte] /\ arg \in Payloads
    BY <1>0, <1>3 DEF SendData, Packet
  <2>2. queue'[Slot(tail)].data = Overwrite(queue[Slot(tail)].data, arg)
    BY <1>0, <1>3 DEF SendData, Packet
  <2>3. \A i \in 1 .. CopyLen(arg) : queue'[Slot(tail)].data[i] = arg[i]
    BY <2>1, <2>2, OverwriteType
  <2>4. Reading => queue'[Slot(head)] = queue[Slot(head)]
    BY <1>0, <1>3, InvNoRace DEF SendData, NoRace, Writing
  <2>5. QED
    BY <1>3, <2>3, <2>4 DEF SendData, consumerVars, HalfwayOK, Reading
<1>4. ASSUME SendLen PROVE HalfwayOK'
  <2>1. /\ queue'[Slot(tail)].data = queue[Slot(tail)].data
        /\ queue'[Slot(tail)].len = CopyLen(arg)
    BY <1>0, <1>4 DEF SendLen, Packet
  <2>2. Reading => queue'[Slot(head)] = queue[Slot(head)]
    BY <1>0, <1>4, InvNoRace DEF SendLen, NoRace, Writing
  <2>3. QED
    BY <1>4, <2>1, <2>2 DEF SendLen, consumerVars, HalfwayOK, Reading
<1>5. ASSUME SendPublish PROVE HalfwayOK'
  BY <1>5 DEF SendPublish, consumerVars, HalfwayOK
<1>6. ASSUME RecvCall PROVE HalfwayOK'
  BY <1>6 DEF RecvCall, producerVars, HalfwayOK
<1>7. ASSUME NEW t \in Index, RecvRefresh(t) PROVE HalfwayOK'
  BY <1>7 DEF RecvRefresh, producerVars, HalfwayOK
<1>8. ASSUME RecvData PROVE HalfwayOK'
  <2>1. copy'.data = queue[Slot(head)].data
    BY <1>0, <1>8 DEF RecvData, Packet
  <2>2. QED BY <1>8, <2>1 DEF RecvData, producerVars, HalfwayOK
<1>9. ASSUME RecvLen PROVE HalfwayOK'
  <2>1. copy'.len = queue[Slot(head)].len /\ copy'.data = copy.data
    BY <1>0, <1>9 DEF RecvLen, Packet
  <2>2. QED BY <1>9, <2>1 DEF RecvLen, producerVars, HalfwayOK
<1>10. ASSUME RecvRelease PROVE HalfwayOK'
  BY <1>10 DEF RecvRelease, producerVars, HalfwayOK
<1>11. CASE UNCHANGED vars
  BY <1>11 DEF vars, producerVars, consumerVars, HalfwayOK
<1>12. QED
  BY <1>1, <1>2, <1>3, <1>4, <1>5, <1>6, <1>7, <1>8, <1>9, <1>10, <1>11
  DEF Next, Send, Recv
-------------------------------------------------------------------------------
\* The inductive invariant: the types, the window, the decisions on cached
\* indices and the half-way packets, each needed by the step of another.
THEOREM RingInvariant == Spec => []IInv
<1>1. Init => WindowOK /\ DecisionsHold /\ HalfwayOK
  BY IndexSizeBounds
  DEF Init, WindowOK, DecisionsHold, HalfwayOK, Used, Writing, Reading,
      WrappingSub
<1>2. TypeOK /\ TypeOK' /\ (WindowOK /\ DecisionsHold /\ HalfwayOK)
      /\ [Next]_vars => (WindowOK /\ DecisionsHold /\ HalfwayOK)'
  BY WindowStep, HalfwayStep DEF IInv
<1>3. QED BY <1>1, <1>2, RingTypeOK, PTL DEF Spec, IInv

\* The ring never holds more packets than it has slots and every cached index
\* errs on the safe side, for every capacity and however often indices wrap.
THEOREM RingWindow == Spec => []WindowOK
BY RingInvariant, PTL DEF IInv

\* Producer and consumer never work on the same slot.
THEOREM RingNoRace == Spec => []NoRace
<1>1. IInv => NoRace BY InvNoRace
<1>2. QED BY <1>1, RingInvariant, PTL
-------------------------------------------------------------------------------
(***************************************************************************)
(* The ring implements the bounded queue.                                  *)
(***************************************************************************)


Slots == [0 .. Capacity - 1 -> Packet]

\* The abstract queue is a sequence of what receivers see, oldest first.
LEMMA ContentsType ==
  ASSUME NEW q \in Slots, NEW t \in Index, NEW h \in Index
  PROVE  /\ ContentsOf(q, t, h) \in Seq(Seq(Byte))
         /\ Len(ContentsOf(q, t, h)) = WrappingSub(t, h)
         /\ \A k \in 1 .. WrappingSub(t, h) :
              ContentsOf(q, t, h)[k] = Visible(q[Slot(Offset(h, k - 1))])
<1> DEFINE n == WrappingSub(t, h)
<1>1. n \in Nat BY WrappingTypes
<1>2. ASSUME NEW k \in 1 .. n
      PROVE  Visible(q[Slot(Offset(h, k - 1))]) \in Seq(Byte)
  <2>1. Offset(h, k - 1) \in Index BY <1>1, OffsetInWindow
  <2>2. q[Slot(Offset(h, k - 1))] \in Packet BY <2>1, SlotType DEF Slots
  <2>3. QED BY <2>2, VisibleType
<1>3. ContentsOf(q, t, h) \in [1 .. n -> Seq(Byte)] BY <1>2 DEF ContentsOf
<1>4. QED BY <1>1, <1>3 DEF ContentsOf

\* Writing into the slot at t leaves the packets before t alone.
LEMMA ContentsUntouched ==
  ASSUME NEW q \in Slots, NEW r \in Slots, NEW t \in Index, NEW h \in Index,
         WrappingSub(t, h) < Capacity,
         \A s \in 0 .. Capacity - 1 : s # Slot(t) => r[s] = q[s]
  PROVE  ContentsOf(r, t, h) = ContentsOf(q, t, h)
<1> DEFINE n == WrappingSub(t, h)
<1>1. n \in Nat /\ Capacity \in Nat BY WrappingTypes, IndexSizeBounds
<1>2. ASSUME NEW k \in 1 .. n
      PROVE  r[Slot(Offset(h, k - 1))] = q[Slot(Offset(h, k - 1))]
  <2>1. /\ Offset(h, k - 1) \in Index
        /\ WrappingSub(t, Offset(h, k - 1)) = n - (k - 1)
    BY <1>1, OffsetInWindow
  <2>2. t # Offset(h, k - 1)
    <3>1. n - (k - 1) # 0 BY <1>1
    <3>2. QED BY <2>1, <3>1, WrappingTypes
  <2>3. WrappingSub(t, Offset(h, k - 1)) < Capacity
    BY <1>1, <2>1
  <2>4. Slot(t) # Slot(Offset(h, k - 1))
    BY <2>1, <2>2, <2>3, SlotsDiffer
  <2>5. QED BY <2>1, <2>4, SlotType
<1>3. QED BY <1>2 DEF ContentsOf

\* Storing the next tail appends the packet in its slot.
LEMMA ContentsAppended ==
  ASSUME NEW q \in Slots, NEW t \in Index, NEW h \in Index,
         WrappingSub(t, h) < Capacity
  PROVE  ContentsOf(q, WrappingAdd1(t), h)
           = Append(ContentsOf(q, t, h), Visible(q[Slot(t)]))
<1> DEFINE n == WrappingSub(t, h)
           p == Visible(q[Slot(t)])
           old == ContentsOf(q, t, h)
           new == ContentsOf(q, WrappingAdd1(t), h)
<1>1. /\ n \in Nat /\ WrappingAdd1(t) \in Index
      /\ WrappingSub(WrappingAdd1(t), h) = n + 1
  BY WrappingSubAdd, WrappingTypes, IndexSizeBounds
<1>2. p \in Seq(Byte)
  BY SlotType, VisibleType DEF Slots
<1>3. /\ old \in Seq(Seq(Byte)) /\ Len(old) = n
      /\ \A k \in 1 .. n : old[k] = Visible(q[Slot(Offset(h, k - 1))])
  BY ContentsType
<1>4. /\ new \in Seq(Seq(Byte)) /\ Len(new) = n + 1
      /\ \A k \in 1 .. n + 1 : new[k] = Visible(q[Slot(Offset(h, k - 1))])
  BY <1>1, ContentsType
<1>5. new[n + 1] = p
  <2>1. Offset(h, n) = t BY OffsetEnds
  <2>2. n + 1 \in 1 .. n + 1 /\ (n + 1) - 1 = n BY <1>1
  <2>3. new[n + 1] = Visible(q[Slot(Offset(h, (n + 1) - 1))]) BY <1>4, <2>2
  <2>4. QED BY <2>1, <2>2, <2>3
<1> HIDE DEF p, old, new, n
<1>6. /\ Append(old, p) \in Seq(Seq(Byte)) /\ Len(Append(old, p)) = n + 1
      /\ \A k \in 1 .. n : Append(old, p)[k] = old[k]
      /\ Append(old, p)[n + 1] = p
  BY <1>2, <1>3, AppendProperties
<1>7. ASSUME NEW k \in 1 .. n + 1 PROVE new[k] = Append(old, p)[k]
  <2>1. CASE k = n + 1 BY <2>1, <1>5, <1>6
  <2>2. CASE k \in 1 .. n BY <2>2, <1>3, <1>4, <1>6
  <2>3. k = n + 1 \/ k \in 1 .. n BY <1>1
  <2>4. QED BY <2>1, <2>2, <2>3
<1>8. new = Append(old, p) BY <1>4, <1>6, <1>7, SeqEqual
<1>9. QED BY <1>8 DEF p, old, new

\* Storing the next head removes the oldest packet.
LEMMA ContentsTaken ==
  ASSUME NEW q \in Slots, NEW t \in Index, NEW h \in Index,
         t # h, WrappingSub(t, h) <= Capacity
  PROVE  /\ ContentsOf(q, t, h) # << >>
         /\ Head(ContentsOf(q, t, h)) = Visible(q[Slot(h)])
         /\ ContentsOf(q, t, WrappingAdd1(h)) = Tail(ContentsOf(q, t, h))
<1> DEFINE n == WrappingSub(t, h)
           old == ContentsOf(q, t, h)
           new == ContentsOf(q, t, WrappingAdd1(h))
<1>1. /\ n \in Nat /\ n >= 1 /\ n <= Capacity /\ Capacity \in Nat
      /\ WrappingAdd1(h) \in Index /\ WrappingSub(t, WrappingAdd1(h)) = n - 1
  <2>1. n # 0 /\ n \in Nat BY WrappingTypes
  <2>2. QED BY <2>1, WrappingSubStep, WrappingTypes, IndexSizeBounds
<1>2. /\ old \in Seq(Seq(Byte)) /\ Len(old) = n
      /\ \A k \in 1 .. n : old[k] = Visible(q[Slot(Offset(h, k - 1))])
  BY ContentsType
<1>3. /\ new \in Seq(Seq(Byte)) /\ Len(new) = n - 1
      /\ \A k \in 1 .. n - 1 :
           new[k] = Visible(q[Slot(Offset(WrappingAdd1(h), k - 1))])
  BY <1>1, ContentsType
<1>4. old[1] = Visible(q[Slot(h)])
  <2>1. 1 \in 1 .. n /\ 1 - 1 = 0 BY <1>1
  <2>2. QED BY <1>2, <2>1, OffsetEnds
<1>5. \A k \in 1 .. n - 1 : new[k] = old[k + 1]
  <2> TAKE k \in 1 .. n - 1
  <2>1. /\ k - 1 \in Nat /\ k - 1 < Capacity /\ (k - 1) + 1 = (k + 1) - 1
        /\ k + 1 \in 1 .. n
    BY <1>1
  <2>2. Offset(WrappingAdd1(h), k - 1) = Offset(h, (k + 1) - 1)
    BY <2>1, OffsetNext
  <2>3. QED BY <1>2, <1>3, <2>1, <2>2
<1> HIDE DEF old, new, n
<1>6. old # << >> BY <1>1, <1>2, EmptySeq
<1>7. /\ Tail(old) \in Seq(Seq(Byte)) /\ Len(Tail(old)) = n - 1
      /\ \A k \in 1 .. n - 1 : Tail(old)[k] = old[k + 1]
  BY <1>2, <1>6, HeadTailProperties
<1>8. new = Tail(old) BY <1>3, <1>5, <1>7, SeqEqual
<1>9. Head(old) = old[1] BY <1>2, <1>6
<1>10. QED BY <1>4, <1>6, <1>8, <1>9 DEF old, new
-------------------------------------------------------------------------------
\* Initially both queues are empty.
LEMMA FifoInit ==
  ASSUME Init
  PROVE  Fifo!Init
<1>1. WrappingSub(tail, head) = 0 BY DEF Init, WrappingSub
<1>2. Contents = << >>
  BY <1>1 DEF Contents, ContentsOf
<1>3. QED BY <1>2 DEF Init, Fifo!Init

\* A step that leaves what the abstract queue is made of is a stutter of it.
LEMMA FifoStutter ==
  ASSUME Contents' = Contents, arg' = arg,
         sendPc' = "idle" <=> sendPc = "idle",
         recvPc' = "idle" <=> recvPc = "idle",
         UNCHANGED <<sendResult, recvResult>>
  PROVE  UNCHANGED Fifo!fifoVars
BY DEF Fifo!fifoVars

\* Every step of the ring is one step of the bounded queue or none.
LEMMA FifoStep ==
  ASSUME IInv, [Next]_vars
  PROVE  [Fifo!Next]_(Fifo!fifoVars)
<1> USE DEF IInv
<1> DEFINE Goal == [Fifo!Next]_(Fifo!fifoVars)
<1>0. /\ tail \in Index /\ head \in Index /\ queue \in Slots
      /\ Slot(tail) \in 0 .. Capacity - 1 /\ Slot(head) \in 0 .. Capacity - 1
      /\ sendPc # "idle" => arg \in Payloads
      /\ copy \in Packet /\ Used \in Nat /\ Capacity \in Nat
  BY SlotType, WrappingTypes, IndexSizeBounds DEF TypeOK, Slots, Used
<1>1. ASSUME NEW d \in Payloads, SendCall(d) PROVE Goal
  <2>1. /\ sendPc = "idle" /\ sendPc' # "idle" /\ arg' = d
        /\ recvPc' = recvPc /\ Contents' = Contents
        /\ UNCHANGED <<sendResult, recvResult>>
    BY <1>1 DEF SendCall, consumerVars, Contents
  <2>2. Fifo!CallSend BY <2>1 DEF Fifo!CallSend
  <2>3. QED BY <2>2 DEF Fifo!Next
<1>2. ASSUME NEW h \in Index, SendRefresh(h) PROVE Goal
  <2>1. /\ sendPc = "refresh" /\ h \in Loadable(cached_head, head)
        /\ recvPc' = recvPc /\ Contents' = Contents
        /\ recvResult' = recvResult
    BY <1>2 DEF SendRefresh, consumerVars, Contents
  <2>2. CASE Full(tail, h)
    <3>1. sendPc' = "idle" /\ arg' = None /\ sendResult' = FALSE
      BY <1>2, <2>2 DEF SendRefresh
    <3>2. Clip(arg) # None
      <4>1. Clip(arg) \in Seq(Byte)
        BY <1>0, <2>1, CopyLenType, SubSeqProperties, ElementOfSeq DEF Clip
      <4>2. QED BY <4>1, PacketAssumption
    <3>3. Len(Contents) = Capacity \/ StaleLoads
      <4>1. CASE ~StaleLoads
        <5>1. h = head BY <4>1, <2>1 DEF Loadable
        <5>2. Used = Capacity
          BY <5>1, <2>2, <1>0 DEF Full, Used, WindowOK
        <5>3. QED BY <5>2, <1>0, ContentsType DEF Contents, Used
      <4>2. QED BY <4>1, PacketAssumption
    <3>4. Fifo!RefuseFull
      BY <2>1, <3>1, <3>2, <3>3 DEF Fifo!RefuseFull
    <3>5. QED BY <3>4 DEF Fifo!Next
  <2>3. CASE ~Full(tail, h)
    <3>1. sendPc' = "data" /\ UNCHANGED <<arg, sendResult>>
      BY <1>2, <2>3 DEF SendRefresh
    <3>2. QED BY <2>1, <3>1, FifoStutter
  <2>4. QED BY <2>2, <2>3
<1>3. ASSUME SendData \/ SendLen PROVE Goal
  <2>1. /\ UNCHANGED <<tail, head, arg, sendResult, recvPc, recvResult>>
        /\ sendPc # "idle" /\ sendPc' # "idle" /\ Writing
    BY <1>3 DEF SendData, SendLen, consumerVars, Writing
  <2>2. queue' \in Slots
    <3>1. CASE SendData
      <4>1. arg \in Payloads BY <1>0, <2>1
      <4>2. queue[Slot(tail)].data \in [1 .. MaxLen -> Byte]
        BY <1>0 DEF Slots, Packet
      <4>3. Overwrite(queue[Slot(tail)].data, arg) \in [1 .. MaxLen -> Byte]
        BY <4>1, <4>2, OverwriteType
      <4>4. QED BY <3>1, <4>3, <1>0 DEF SendData, Slots, Packet
    <3>2. CASE SendLen
      <4>1. CopyLen(arg) \in 0 .. MaxLen
        BY <1>0, <2>1, CopyLenType, PacketAssumption
      <4>2. QED BY <3>2, <4>1, <1>0 DEF SendLen, Slots, Packet
    <3>3. QED BY <1>3, <3>1, <3>2
  <2>3. \A s \in 0 .. Capacity - 1 : s # Slot(tail) => queue'[s] = queue[s]
    BY <1>0, <1>3 DEF SendData, SendLen, Slots
  <2>4. WrappingSub(tail, head) < Capacity
    BY <2>1, SpareAndFilled DEF Used
  <2>5. Contents' = Contents
    BY <2>1, <2>2, <2>3, <2>4, <1>0, ContentsUntouched DEF Contents
  <2>6. QED BY <2>1, <2>5, FifoStutter
<1>4. ASSUME SendPublish PROVE Goal
  <2>1. /\ sendPc = "publish" /\ sendPc' = "idle" /\ sendResult' = TRUE
        /\ tail' = WrappingAdd1(tail) /\ UNCHANGED <<queue, head>>
        /\ UNCHANGED <<recvPc, recvResult>> /\ Writing
    BY <1>4 DEF SendPublish, consumerVars, Writing
  <2>2. WrappingSub(tail, head) < Capacity
    BY <2>1, SpareAndFilled DEF Used
  <2>3. Visible(queue[Slot(tail)]) = Clip(arg)
    <3>1. queue[Slot(tail)] \in Packet /\ arg \in Payloads
      BY <1>0, <2>1 DEF Slots
    <3>2. QED BY <2>1, <3>1, VisibleIsClip DEF HalfwayOK
  <2>4. Contents' = Append(Contents, Clip(arg))
    BY <2>1, <2>2, <2>3, <1>0, ContentsAppended DEF Contents
  <2>5. Len(Contents) < Capacity
    BY <2>2, <1>0, ContentsType DEF Contents
  <2>6. Clip(arg) # None
    <3>1. queue[Slot(tail)] \in Packet BY <1>0 DEF Slots
    <3>2. QED BY <2>3, <3>1, VisibleType, PacketAssumption
  <2>7. Fifo!Accept BY <2>1, <2>4, <2>5, <2>6 DEF Fifo!Accept
  <2>8. QED BY <2>7 DEF Fifo!Next
<1>5. ASSUME RecvCall PROVE Goal
  <2>1. /\ recvPc = "idle" /\ recvPc' # "idle" /\ Contents' = Contents
        /\ UNCHANGED <<sendPc, arg, sendResult, recvResult>>
    BY <1>5 DEF RecvCall, producerVars, Contents
  <2>2. Fifo!CallRecv BY <2>1 DEF Fifo!CallRecv
  <2>3. QED BY <2>2 DEF Fifo!Next
<1>6. ASSUME NEW t \in Index, RecvRefresh(t) PROVE Goal
  <2>1. /\ recvPc = "refresh" /\ t \in Loadable(cached_tail, tail)
        /\ Contents' = Contents /\ UNCHANGED <<sendPc, arg, sendResult>>
    BY <1>6 DEF RecvRefresh, producerVars, Contents
  <2>2. CASE head = t
    <3>1. recvPc' = "idle" /\ recvResult' = None
      BY <1>6, <2>2 DEF RecvRefresh
    <3>2. Contents = << >> \/ StaleLoads
      <4>1. CASE ~StaleLoads
        <5>1. tail = head BY <4>1, <2>1, <2>2 DEF Loadable
        <5>2. Len(Contents) = 0
          <6>1. WrappingSub(tail, head) = 0 BY <5>1, <1>0, WrappingTypes
          <6>2. QED BY <6>1, <1>0, ContentsType DEF Contents
        <5>3. Contents \in Seq(Seq(Byte))
          BY <1>0, ContentsType DEF Contents
        <5>4. QED BY <5>2, <5>3, EmptySeq
      <4>2. QED BY <4>1, PacketAssumption
    <3>3. Fifo!AnswerEmpty
      BY <2>1, <3>1, <3>2 DEF Fifo!AnswerEmpty
    <3>4. QED BY <3>3 DEF Fifo!Next
  <2>3. CASE head # t
    <3>1. recvPc' = "data" /\ recvResult' = recvResult
      BY <1>6, <2>3 DEF RecvRefresh
    <3>2. QED BY <2>1, <3>1, FifoStutter
  <2>4. QED BY <2>2, <2>3
<1>7. ASSUME RecvData \/ RecvLen PROVE Goal
  <2>1. /\ recvPc # "idle" /\ recvPc' # "idle" /\ Contents' = Contents
        /\ UNCHANGED <<sendPc, arg, sendResult, recvResult>>
    BY <1>7 DEF RecvData, RecvLen, producerVars, Contents
  <2>2. QED BY <2>1, FifoStutter
<1>8. ASSUME RecvRelease PROVE Goal
  <2>1. /\ recvPc = "release" /\ recvPc' = "idle"
        /\ recvResult' = Visible(copy) /\ head' = WrappingAdd1(head)
        /\ UNCHANGED <<queue, tail, sendPc, arg, sendResult>> /\ Reading
    BY <1>8 DEF RecvRelease, producerVars, Reading
  <2>2. tail # head /\ WrappingSub(tail, head) <= Capacity
    BY <2>1, SpareAndFilled DEF WindowOK, Used
  <2>3. Visible(copy) = Visible(queue[Slot(head)])
    BY <2>1 DEF HalfwayOK, Visible
  <2>4. /\ Contents # << >> /\ Head(Contents) = Visible(copy)
        /\ Contents' = Tail(Contents)
    BY <2>1, <2>2, <2>3, <1>0, ContentsTaken DEF Contents
  <2>5. Fifo!Deliver BY <2>1, <2>4 DEF Fifo!Deliver
  <2>6. QED BY <2>5 DEF Fifo!Next
<1>9. CASE UNCHANGED vars
  BY <1>9, FifoStutter DEF vars, producerVars, consumerVars, Contents
<1>10. QED
  BY <1>1, <1>2, <1>3, <1>4, <1>5, <1>6, <1>7, <1>8, <1>9
  DEF Next, Send, Recv

\* The ring is a bounded first-in first-out queue: each packet accepted comes
\* out once, whole, clipped and in order, and refusals are justified.
THEOREM RingIsFifo == Spec => ImplementsFifo
<1>1. Init => Fifo!Init BY FifoInit
<1>2. IInv /\ [Next]_vars => [Fifo!Next]_(Fifo!fifoVars) BY FifoStep
<1>3. QED BY <1>1, <1>2, RingInvariant, PTL DEF Spec, ImplementsFifo, Fifo!Spec

(***************************************************************************)
(* The counter exchange of the concurrent guests                           *)
(***************************************************************************)

\* What the steps need of the index arithmetic, said of the counter: a ring
\* with nothing or one packet in it is not full, and the two are told apart.
LEMMA CounterArithmetic ==
  ASSUME NEW i \in Index
  PROVE  /\ WrappingAdd1(i) \in Index /\ WrappingAdd1(i) # i
         /\ WrappingSub(i, i) = 0 /\ WrappingSub(WrappingAdd1(i), i) = 1
         /\ Slot(i) \in 0 .. Capacity - 1
         /\ ~Full(i, i)
BY IndexSizeBounds, SlotType DEF Index, WrappingAdd1, WrappingSub, Full

LEMMA CounterInitial == ExchangeInit => ExchangeInv
<1> SUFFICES ASSUME ExchangeInit PROVE ExchangeInv
  OBVIOUS
<1>1. 0 \in Index
  BY IndexSizeBounds DEF Index
<1>2. ExchangeTypeOK
  BY <1>1 DEF ExchangeInit, ExchangeTypeOK, Pc, Counters
<1>3. Posting /\ CachesFit
  BY DEF ExchangeInit, Posting, Idle, CachesFit
<1> QED BY <1>2, <1>3 DEF ExchangeInv, ExchangeInit

LEMMA CounterType ==
  ASSUME ExchangeTypeOK, [ExchangeNext]_exchangeVars
  PROVE  ExchangeTypeOK'
<1> USE DEF ExchangeTypeOK, Pc, fwdVars, ackVars, vm1Vars, vm2Vars
<1>0. \A i \in Index : WrappingAdd1(i) \in Index /\ Slot(i) \in 0 .. Capacity - 1
  BY CounterArithmetic
<1>1. CASE VM1
  <2>1. CASE V1Send      BY <2>1 DEF V1Send
  <2>2. CASE V1Write     BY <2>2, <1>0 DEF V1Write, Counters
  <2>3. CASE V1Publish   BY <2>3, <1>0 DEF V1Publish
  <2>4. CASE V1Recv      BY <2>4 DEF V1Recv
  <2>5. CASE V1Read      BY <2>5, <1>0 DEF V1Read, Counters
  <2>6. CASE V1Release   BY <2>6, <1>0 DEF V1Release
  <2>7. CASE V1Count     BY <2>7, <1>0 DEF V1Count
  <2> QED BY <1>1, <2>1, <2>2, <2>3, <2>4, <2>5, <2>6, <2>7 DEF VM1
<1>2. CASE VM2
  <2>1. CASE V2Recv      BY <2>1 DEF V2Recv
  <2>2. CASE V2Read      BY <2>2, <1>0 DEF V2Read, Counters
  <2>3. CASE V2Release   BY <2>3, <1>0 DEF V2Release
  <2>4. CASE V2Send      BY <2>4 DEF V2Send
  <2>5. CASE V2Write     BY <2>5, <1>0 DEF V2Write, Counters
  <2>6. CASE V2Publish   BY <2>6, <1>0 DEF V2Publish
  <2>7. CASE V2Count     BY <2>7 DEF V2Count
  <2> QED BY <1>2, <2>1, <2>2, <2>3, <2>4, <2>5, <2>6, <2>7 DEF VM2
<1>3. CASE UNCHANGED exchangeVars
  BY <1>3 DEF exchangeVars
<1> QED BY <1>1, <1>2, <1>3 DEF ExchangeNext

\* VM1 posts, is answered and goes on: each step leads to the phase that
\* follows, in which VM2 is where it was.
LEMMA Vm1KeepsPhases ==
  ASSUME ExchangeInv, VM1
  PROVE  /\ (Posting \/ Posted \/ Closing)' /\ CachesFit'
         /\ (counter \in {vm1_count, WrappingAdd1(vm1_count)})'
<1> USE DEF ExchangeInv
<1>0. /\ counter \in Index /\ WrappingAdd1(counter) # counter
      /\ Slot(counter) \in 0 .. Capacity - 1 /\ ~Full(counter, counter)
      /\ fwdQueue \in Counters
  BY CounterArithmetic DEF ExchangeTypeOK
<1>1. CASE V1Send
  <2>1. Posting
    BY <1>1 DEF V1Send, Posted, Closing
  <2>2. pc1' \in {"send", "write"}
    BY <1>1 DEF V1Send
  <2>3. UNCHANGED <<fwdVars, ackVars, counter, ack_cached_tail, vm1_count, vm2Vars>>
    BY <1>1 DEF V1Send
  <2>4. Posting'
    BY <2>1, <2>2, <2>3 DEF Posting, Idle, fwdVars, ackVars, vm2Vars
  <2>5. CachesFit'
    BY <2>1, <2>2, <2>3 DEF Posting, CachesFit, fwdVars, ackVars, vm2Vars
  <2> QED BY <2>3, <2>4, <2>5
<1>2. CASE V1Write
  <2>1. Posting
    BY <1>2 DEF V1Write, Posted, Closing
  <2>2. fwdQueue'[Slot(counter)] = counter
    BY <1>0, <1>2, <2>1 DEF V1Write, Posting, Counters
  <2>3. pc1' = "publish"
    BY <1>2 DEF V1Write
  <2>4. UNCHANGED <<fwdTail, fwdHead, ackVars, counter, ack_cached_tail, vm1_count,
                    vm2Vars>>
    BY <1>2 DEF V1Write
  <2>5. Posting'
    BY <2>1, <2>2, <2>3, <2>4 DEF Posting, Idle, ackVars, vm2Vars
  <2>6. CachesFit'
    BY <2>1, <2>3, <2>4 DEF Posting, CachesFit, ackVars, vm2Vars
  <2> QED BY <2>4, <2>5, <2>6
<1>3. CASE V1Publish
  <2>1. Posting /\ pc1 = "publish"
    BY <1>3 DEF V1Publish, Posted, Closing
  <2>2. fwdTail' = WrappingAdd1(counter) /\ pc1' = "recv"
    BY <1>3, <2>1 DEF V1Publish, Posting
  <2>3. UNCHANGED <<fwdHead, fwdQueue, ackVars, counter, ack_cached_tail, vm1_count,
                    vm2Vars>>
    BY <1>3 DEF V1Publish
  <2>4. Posted'
    BY <2>1, <2>2, <2>3 DEF Posting, Posted, Idle, ackVars, vm2Vars
  <2>5. CachesFit'
    BY <2>1, <2>2, <2>3 DEF CachesFit, ackVars, vm2Vars
  <2> QED BY <2>3, <2>4, <2>5
<1>4. CASE V1Recv
  <2>1. Posted /\ ack_cached_tail = counter
    BY <1>4 DEF V1Recv, Posting, Posted, Closing, CachesFit
  <2>2. ack_cached_tail' = ackTail
        /\ pc1' = IF ackTail = counter THEN "recv" ELSE "read"
    BY <1>4, <2>1 DEF V1Recv, Posted
  <2>3. UNCHANGED <<fwdVars, ackVars, counter, vm1_count, vm2Vars>>
    BY <1>4 DEF V1Recv
  <2>4. CASE ackTail = counter
    <3>1. Posted'
      BY <2>1, <2>2, <2>3, <2>4
         DEF Posted, Idle, Taking, Answering, Answered, fwdVars, ackVars, vm2Vars
    <3>2. CachesFit'
      BY <2>1, <2>2, <2>3, <2>4 DEF Posted, CachesFit, fwdVars, ackVars, vm2Vars
    <3> QED BY <2>3, <3>1, <3>2
  <2>5. CASE ackTail # counter
    <3>1. Answered /\ ackTail = WrappingAdd1(counter)
      BY <2>1, <2>5 DEF Posted, Idle, Taking, Answering, Answered
    <3>2. Closing'
      BY <2>1, <2>2, <2>3, <2>5, <3>1
         DEF Posted, Closing, Answered, fwdVars, ackVars, vm2Vars
    <3>3. CachesFit'
      BY <2>1, <2>2, <2>3, <2>5, <3>1
         DEF Posted, CachesFit, fwdVars, ackVars, vm2Vars
    <3> QED BY <2>3, <3>2, <3>3
  <2> QED BY <2>4, <2>5
<1>5. CASE V1Read
  <2>1. Closing /\ pc1 = "read"
    BY <1>5 DEF V1Read, Posting, Posted
  <2>2. ack' = counter /\ pc1' = "release"
    BY <1>5, <2>1 DEF V1Read, Closing, Answered
  <2>3. UNCHANGED <<fwdVars, ackVars, counter, ack_cached_tail, vm1_count, vm2Vars>>
    BY <1>5 DEF V1Read
  <2>4. Closing'
    BY <2>1, <2>2, <2>3 DEF Closing, Answered, fwdVars, ackVars, vm2Vars
  <2>5. CachesFit'
    BY <2>1, <2>2, <2>3 DEF CachesFit, fwdVars, ackVars, vm2Vars
  <2> QED BY <2>3, <2>4, <2>5
<1>6. CASE V1Release
  <2>1. Closing /\ pc1 = "release"
    BY <1>6 DEF V1Release, Posting, Posted
  <2>2. ackHead' = WrappingAdd1(counter) /\ pc1' = "count"
    BY <1>6, <2>1 DEF V1Release, Closing
  <2>3. UNCHANGED <<fwdVars, ackTail, ackQueue, counter, ack_cached_tail, vm1_count,
                    vm2Vars>>
    BY <1>6 DEF V1Release
  <2>4. Closing'
    BY <2>1, <2>2, <2>3 DEF Closing, Answered, fwdVars, vm2Vars
  <2>5. CachesFit'
    BY <2>1, <2>2, <2>3 DEF Closing, CachesFit, fwdVars, vm2Vars
  <2> QED BY <2>3, <2>4, <2>5
<1>7. CASE V1Count
  <2>1. Closing /\ pc1 = "count"
    BY <1>7 DEF V1Count, Posting, Posted
  <2>2. vm1_count' = counter /\ counter' = WrappingAdd1(counter) /\ pc1' = "send"
    BY <1>7 DEF V1Count
  <2>3. UNCHANGED <<fwdVars, ackVars, ack_cached_tail, vm2Vars>>
    BY <1>7 DEF V1Count
  <2>4. Idle'
    BY <2>1, <2>2, <2>3 DEF Closing, Answered, Idle, fwdVars, ackVars, vm2Vars
  <2>5. Posting'
    BY <2>1, <2>2, <2>3, <2>4 DEF Closing, Posting, fwdVars, ackVars
  <2>6. CachesFit'
    BY <2>1, <2>2, <2>3 DEF CachesFit, fwdVars, ackVars, vm2Vars
  <2> QED BY <2>2, <2>5, <2>6
<1> QED BY <1>1, <1>2, <1>3, <1>4, <1>5, <1>6, <1>7 DEF VM1

\* VM2 takes the packet and answers it, while VM1 waits: only a posted packet
\* is there to be taken.
LEMMA Vm2KeepsPhases ==
  ASSUME ExchangeInv, VM2
  PROVE  /\ (Posting \/ Posted \/ Closing)' /\ CachesFit'
         /\ (counter \in {vm1_count, WrappingAdd1(vm1_count)})'
<1> USE DEF ExchangeInv
<1>0. /\ counter \in Index /\ WrappingAdd1(counter) # counter
      /\ Slot(counter) \in 0 .. Capacity - 1 /\ ~Full(counter, counter)
      /\ ackQueue \in Counters
  BY CounterArithmetic DEF ExchangeTypeOK
<1>1. CASE V2Recv
  <2>1. /\ pc2 = "recv"
        /\ fwd_cached_tail' =
             IF fwdHead = fwd_cached_tail THEN fwdTail ELSE fwd_cached_tail
        /\ pc2' = IF fwdHead = fwd_cached_tail' THEN "recv" ELSE "read"
    BY <1>1 DEF V2Recv
  <2>2. fwd_cached_tail' = fwdTail
    BY <2>1 DEF CachesFit
  <2>3. UNCHANGED <<fwdVars, ackVars, vm1Vars, received, vm2_count>>
    BY <1>1 DEF V2Recv
  <2>4. CASE fwdTail = fwdHead
    <3>1. UNCHANGED pc2
      BY <2>1, <2>2, <2>4
    <3>2. (Posting \/ Posted \/ Closing)'
      BY <2>3, <3>1 DEF Posting, Posted, Closing, Idle, Taking, Answering, Answered,
                        fwdVars, ackVars, vm1Vars
    <3>3. CachesFit'
      BY <2>1, <2>2, <2>3, <2>4, <3>1 DEF CachesFit, fwdVars, ackVars, vm1Vars
    <3> QED BY <2>3, <3>2, <3>3 DEF vm1Vars
  <2>5. CASE fwdTail # fwdHead
    <3>1. pc2' = "read"
      BY <2>1, <2>2, <2>5
    <3>2. Posted /\ Idle /\ fwdTail = WrappingAdd1(fwdHead)
      BY <1>0, <2>1, <2>5 DEF Posting, Posted, Closing, Idle, Taking, Answering,
                              Answered
    <3>3. Taking'
      BY <2>1, <2>3, <3>1, <3>2 DEF Idle, Taking, fwdVars, ackVars, vm1Vars
    <3>4. Posted'
      BY <2>3, <3>2, <3>3 DEF Posted, fwdVars, ackVars, vm1Vars
    <3>5. CachesFit'
      BY <2>1, <2>2, <2>3, <3>1, <3>2 DEF CachesFit, fwdVars, ackVars, vm1Vars
    <3> QED BY <2>3, <3>4, <3>5 DEF vm1Vars
  <2> QED BY <2>4, <2>5
<1>2. CASE V2Read
  <2>1. Posted /\ Taking /\ pc2 = "read"
    BY <1>2 DEF V2Read, Posting, Posted, Closing, Idle, Answering, Answered
  <2>2. received' = counter /\ pc2' = "release"
    BY <1>2, <2>1 DEF V2Read, Posted, Taking
  <2>3. UNCHANGED <<fwdVars, ackVars, vm1Vars, fwd_cached_tail, vm2_count>>
    BY <1>2 DEF V2Read
  <2>4. Taking'
    BY <2>1, <2>2, <2>3 DEF Taking, fwdVars, ackVars, vm1Vars
  <2>5. Posted'
    BY <2>1, <2>3, <2>4 DEF Posted, fwdVars, ackVars, vm1Vars
  <2>6. CachesFit'
    BY <2>1, <2>2, <2>3 DEF CachesFit, fwdVars, ackVars, vm1Vars
  <2> QED BY <2>3, <2>5, <2>6 DEF vm1Vars
<1>3. CASE V2Release
  <2>1. Posted /\ Taking /\ pc2 = "release"
    BY <1>3 DEF V2Release, Posting, Posted, Closing, Idle, Answering, Answered
  <2>2. fwdHead' = WrappingAdd1(counter) /\ pc2' = "send"
    BY <1>3, <2>1 DEF V2Release, Taking
  <2>3. UNCHANGED <<fwdTail, fwdQueue, ackVars, vm1Vars, fwd_cached_tail, received,
                    vm2_count>>
    BY <1>3 DEF V2Release
  <2>4. Answering'
    BY <2>1, <2>2, <2>3 DEF Taking, Answering, ackVars, vm1Vars
  <2>5. Posted'
    BY <2>1, <2>3, <2>4 DEF Posted, ackVars, vm1Vars
  <2>6. CachesFit'
    BY <2>1, <2>2, <2>3 DEF Taking, CachesFit, ackVars, vm1Vars
  <2> QED BY <2>3, <2>5, <2>6 DEF vm1Vars
<1>4. CASE V2Send
  <2>1. Posted /\ Answering
    BY <1>4 DEF V2Send, Posting, Posted, Closing, Idle, Taking, Answered
  <2>2. pc2' \in {"send", "write"} /\ pc2 = "send"
    BY <1>4 DEF V2Send
  <2>3. UNCHANGED <<fwdVars, ackVars, vm1Vars, fwd_cached_tail, received, vm2_count>>
    BY <1>4 DEF V2Send
  <2>4. Answering'
    BY <2>1, <2>2, <2>3 DEF Answering, fwdVars, ackVars, vm1Vars
  <2>5. Posted'
    BY <2>1, <2>3, <2>4 DEF Posted, fwdVars, ackVars, vm1Vars
  <2>6. CachesFit'
    BY <2>2, <2>3 DEF CachesFit, fwdVars, ackVars, vm1Vars
  <2> QED BY <2>3, <2>5, <2>6 DEF vm1Vars
<1>5. CASE V2Write
  <2>1. Posted /\ Answering
    BY <1>5 DEF V2Write, Posting, Posted, Closing, Idle, Taking, Answered
  <2>2. ackQueue'[Slot(counter)] = counter
    BY <1>0, <1>5, <2>1 DEF V2Write, Answering, Counters
  <2>3. pc2' = "publish" /\ pc2 = "write"
    BY <1>5 DEF V2Write
  <2>4. UNCHANGED <<fwdVars, ackTail, ackHead, vm1Vars, fwd_cached_tail, received,
                    vm2_count>>
    BY <1>5 DEF V2Write
  <2>5. Answering'
    BY <2>1, <2>2, <2>3, <2>4 DEF Answering, fwdVars, vm1Vars
  <2>6. Posted'
    BY <2>1, <2>4, <2>5 DEF Posted, fwdVars, vm1Vars
  <2>7. CachesFit'
    BY <2>3, <2>4 DEF CachesFit, fwdVars, vm1Vars
  <2> QED BY <2>4, <2>6, <2>7 DEF vm1Vars
<1>6. CASE V2Publish
  <2>1. Posted /\ Answering /\ pc2 = "publish"
    BY <1>6 DEF V2Publish, Posting, Posted, Closing, Idle, Taking, Answered
  <2>2. ackTail' = WrappingAdd1(counter) /\ pc2' = "count"
    BY <1>6, <2>1 DEF V2Publish, Answering
  <2>3. UNCHANGED <<fwdVars, ackHead, ackQueue, vm1Vars, fwd_cached_tail, received,
                    vm2_count>>
    BY <1>6 DEF V2Publish
  <2>4. Answered'
    BY <2>1, <2>2, <2>3 DEF Answering, Answered, fwdVars, vm1Vars
  <2>5. Posted'
    BY <2>1, <2>3, <2>4 DEF Posted, fwdVars, vm1Vars
  <2>6. CachesFit'
    BY <2>1, <2>2, <2>3 DEF CachesFit, fwdVars, vm1Vars
  <2> QED BY <2>3, <2>5, <2>6 DEF vm1Vars
<1>7. CASE V2Count
  <2>1. pc2 = "count" /\ pc2' = "recv" /\ vm2_count' = received
    BY <1>7 DEF V2Count
  <2>2. UNCHANGED <<fwdVars, ackVars, vm1Vars, fwd_cached_tail, received>>
    BY <1>7 DEF V2Count
  <2>3. ~Taking /\ ~Answering
    BY <2>1 DEF Taking, Answering
  <2>4. (Idle => Idle') /\ (Answered => Answered')
    BY <2>1, <2>2 DEF Idle, Answered, fwdVars, ackVars, vm1Vars
  <2>5. (Posting \/ Posted \/ Closing)'
    BY <2>2, <2>3, <2>4 DEF Posting, Posted, Closing, fwdVars, ackVars, vm1Vars
  <2>6. CachesFit'
    BY <2>1, <2>2 DEF CachesFit, fwdVars, ackVars, vm1Vars
  <2> QED BY <2>2, <2>5, <2>6 DEF vm1Vars
<1> QED BY <1>1, <1>2, <1>3, <1>4, <1>5, <1>6, <1>7 DEF VM2

LEMMA CountersInvariant == ExchangeSpec => []ExchangeInv
<1>1. ExchangeInit => ExchangeInv
  BY CounterInitial
<1>2. ExchangeInv /\ [ExchangeNext]_exchangeVars => ExchangeInv'
  <2> SUFFICES ASSUME ExchangeInv, [ExchangeNext]_exchangeVars PROVE ExchangeInv'
    OBVIOUS
  <2>1. ExchangeTypeOK'
    BY CounterType DEF ExchangeInv
  <2>2. CASE VM1
    BY <2>1, <2>2, Vm1KeepsPhases DEF ExchangeInv
  <2>3. CASE VM2
    BY <2>1, <2>3, Vm2KeepsPhases DEF ExchangeInv
  <2>4. CASE UNCHANGED exchangeVars
    BY <2>1, <2>4
       DEF ExchangeInv, Posting, Posted, Closing, Idle, Taking, Answering, Answered,
           CachesFit, exchangeVars, fwdVars, ackVars, vm1Vars, vm2Vars
  <2> QED BY <2>2, <2>3, <2>4 DEF ExchangeNext
<1> QED BY <1>1, <1>2, PTL DEF ExchangeSpec

\* The indices of both rings, what is in the slots, the guests' copies and the
\* heartbeats stay words of the machine (run_ipc_counter_exchange of both guests).
THEOREM CountersTypeOK == ExchangeSpec => []ExchangeTypeOK
<1>1. ExchangeInv => ExchangeTypeOK
  BY DEF ExchangeInv
<1> QED BY <1>1, CountersInvariant, PTL

\* One packet is on its way in the two rings together, and the acknowledgement
\* VM1 takes is the one it awaits, for every capacity of the rings; while both
\* guests poll a packet is on its way, so that one of them goes on
\* (channel_send_counter, channel_recv_counter of vm1-app).
THEOREM CountersOneInFlight == ExchangeSpec => []OneInFlight
<1>1. ExchangeInv => OneInFlight
  <2> SUFFICES ASSUME ExchangeInv PROVE OneInFlight
    OBVIOUS
  <2>1. /\ WrappingSub(counter, counter) = 0
        /\ WrappingSub(WrappingAdd1(counter), counter) = 1
        /\ WrappingSub(WrappingAdd1(counter), WrappingAdd1(counter)) = 0
    BY CounterArithmetic DEF ExchangeInv, ExchangeTypeOK
  <2>2. CASE Posting
    BY <2>1, <2>2 DEF Posting, Idle, OneInFlight
  <2>3. CASE Posted
    BY <2>1, <2>3 DEF Posted, Idle, Taking, Answering, Answered, OneInFlight
  <2>4. CASE Closing
    BY <2>1, <2>4 DEF Closing, Answered, OneInFlight
  <2> QED BY <2>2, <2>3, <2>4 DEF ExchangeInv
<1> QED BY <1>1, CountersInvariant, PTL

\* The heartbeats of the two guests are never more than one apart, whenever the
\* host script looks at them (run_ipc_counter_exchange of both guests).
THEOREM CountersLockstep == ExchangeSpec => []Lockstep
<1>1. ExchangeInv => Lockstep
  BY DEF ExchangeInv, Posting, Posted, Closing, Idle, Taking, Answering, Answered,
         Lockstep
<1> QED BY <1>1, CountersInvariant, PTL
===============================================================================
