------------------------------ MODULE MCE1000 -------------------------------
(* Rings of three descriptors at most, of size two. *)
EXTENDS E1000

LengthsMC == {1, 6}
RxLengthsMC == {0, 1, 4, 6}
=============================================================================
