----------------------------- MODULE MCSerialLine -----------------------------
(***************************************************************************)
(* Two processors, host messages of up to two bytes before the newline and *)
(* a guest buffer of three bytes.                                          *)
(***************************************************************************)
EXTENDS SerialLine

CONSTANTS bsp, ap

OwnIdent == [c \in Cpu |-> IF c = bsp THEN 0 ELSE 1]
===============================================================================
