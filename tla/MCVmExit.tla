------------------------------ MODULE MCVmExit ------------------------------
(* Both ways to run the guests, two lengths so that a stale one shows, a     *)
(* platform that may swap registers, and entries and guests that may fail.   *)
EXTENDS VmExit
=============================================================================
