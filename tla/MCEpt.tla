-------------------------------- MODULE MCEpt --------------------------------
(* Tables of three entries, a directory of five, two gigabytes of guest      *)
(* pages; buffers on both sides of each other and of the shared region, some *)
(* of them where a BAR can be.                                               *)
EXTENDS Ept

MCPlaces ==
  {p \in [ram : [Vms -> {8, 20, 38}], size : {2, 4, 6, 7}, ipc : {16, 30, 45},
          bar : GuestPages] : PlaceOK(p)}
==============================================================================
