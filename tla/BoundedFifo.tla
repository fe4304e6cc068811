----------------------------- MODULE BoundedFifo -----------------------------
(***************************************************************************)
(* What a UnidirectionalChannel promises its two users: a bounded first-in *)
(* first-out queue whose send and recv each take effect at one instant     *)
(* between call and return.  send answers false only when the queue is     *)
(* full and recv answers None only when it is empty, unless                *)
(* SpuriousRefusal says that an answer may rest on an older view of the    *)
(* other side (an Acquire load need not return the newest store).          *)
(***************************************************************************)
EXTENDS Naturals, Sequences

CONSTANTS
  Bound,            \* the number of packets the queue can hold
  Packets,          \* the packets that can be sent
  None,             \* no packet
  SpuriousRefusal   \* whether a call may be refused on a stale view

VARIABLES
  fifo,        \* the packets sent and not yet received, oldest first
  sending,     \* the packet of the send in progress, or None
  receiving,   \* whether a recv is in progress
  sendResult,  \* what the last send that returned answered
  recvResult   \* what the last recv that returned answered

fifoVars == <<fifo, sending, receiving, sendResult, recvResult>>

Init ==
  /\ fifo = << >>
  /\ sending = None
  /\ receiving = FALSE
  /\ sendResult = TRUE
  /\ recvResult = None

CallSend ==
  /\ sending = None
  /\ sending' \in Packets
  /\ UNCHANGED <<fifo, receiving, sendResult, recvResult>>

Accept ==
  /\ sending # None
  /\ Len(fifo) < Bound
  /\ fifo' = Append(fifo, sending)
  /\ sending' = None
  /\ sendResult' = TRUE
  /\ UNCHANGED <<receiving, recvResult>>

RefuseFull ==
  /\ sending # None
  /\ Len(fifo) = Bound \/ SpuriousRefusal
  /\ sending' = None
  /\ sendResult' = FALSE
  /\ UNCHANGED <<fifo, receiving, recvResult>>

CallRecv ==
  /\ ~receiving
  /\ receiving' = TRUE
  /\ UNCHANGED <<fifo, sending, sendResult, recvResult>>

Deliver ==
  /\ receiving
  /\ fifo # << >>
  /\ recvResult' = Head(fifo)
  /\ fifo' = Tail(fifo)
  /\ receiving' = FALSE
  /\ UNCHANGED <<sending, sendResult>>

AnswerEmpty ==
  /\ receiving
  /\ fifo = << >> \/ SpuriousRefusal
  /\ recvResult' = None
  /\ receiving' = FALSE
  /\ UNCHANGED <<fifo, sending, sendResult>>

Next == CallSend \/ Accept \/ RefuseFull \/ CallRecv \/ Deliver \/ AnswerEmpty

Spec == Init /\ [][Next]_fifoVars
==============================================================================
