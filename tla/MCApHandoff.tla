----------------------------- MODULE MCApHandoff -----------------------------
(***************************************************************************)
(* Two application processors: one may still be waited for, or on its way, *)
(* while another is addressed.                                             *)
(***************************************************************************)
EXTENDS ApHandoff

AllSpins == {"AP_READY", "AP_RUN_VM2", "AP_BSP_WAITING"}
ShortSpins == {"AP_READY", "AP_RUN_VM2"}
AllFaults == {"VMXON", "entry", "guest"}
NoFaults == {}
==============================================================================
