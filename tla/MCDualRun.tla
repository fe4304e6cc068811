------------------------------ MODULE MCDualRun ------------------------------
(***************************************************************************)
(* Three trials of seven packets in bursts as long as the ring, so that    *)
(* the last burst is short, the ring fills and indices pass its end.       *)
(***************************************************************************)
EXTENDS DualRun

AnyFault == {"entry", "guest"}
==============================================================================
