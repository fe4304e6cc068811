------------------------------- MODULE MCVmcs --------------------------------
(* Instance of Vmcs for TLC. *)
EXTENDS Vmcs

AllFaults == {"VMXON", "entry"}
==============================================================================
