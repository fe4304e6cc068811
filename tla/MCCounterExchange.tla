-------------------------- MODULE MCCounterExchange --------------------------
(***************************************************************************)
(* Rings of two slots and counters of six values: the counter, the indices *)
(* and the slots wrap at different times.                                  *)
(***************************************************************************)
EXTENDS CounterExchange
==============================================================================
