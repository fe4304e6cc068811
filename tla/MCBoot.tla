------------------------------- MODULE MCBoot --------------------------------
(* Instance of Boot for TLC: 24 addresses, of which a BAR can name 16. *)
EXTENDS Boot

At(base, size) == [base |-> base, size |-> size]
Bdf(bus, dev, fn) == [bus |-> bus, dev |-> dev, fn |-> fn]

Yaml(size1, size2, base2, bdf1, bdf2) ==
  [region |-> [hypervisor |-> At(0, 3), vm1 |-> At(3, size1), vm2 |-> At(base2, size2),
               ipc |-> At(12, 2), bar0 |-> At(16, 2)],
   cpu |-> <<1, 0>>, ways |-> <<{0}, {1}>>, vector |-> 2, bdf |-> <<bdf1, bdf2>>]

Bdfs ==
  {<<Bdf(0, 1, 0), Bdf(0, 2, 0)>>,   \* as in hardware_config.yaml
   <<Bdf(0, 2, 0), Bdf(0, 1, 0)>>,   \* the other way round
   <<Bdf(0, 1, 0), Bdf(0, 1, 1)>>,   \* two functions of one device
   <<Bdf(0, 1, 0), Bdf(1, 1, 0)>>,   \* namesakes on two buses
   <<Bdf(0, 1, 0), Bdf(0, 1, 0)>>,   \* the same device twice
   <<Bdf(0, 1, 0), Bdf(0, 6, 0)>>}   \* no device number, and cut to 2

YamlsMC ==
  {Yaml(4, 4, 7, b[1], b[2]) : b \in Bdfs}
  \cup {Yaml(s[1], s[2], s[3], Bdf(0, 1, 0), Bdf(0, 2, 0)) :
          s \in {<<4, 4, 5>>, <<4, 2, 10>>, <<2, 4, 6>>, <<4, 5, 18>>, <<5, 4, 2>>, <<4, 4, 20>>,
                <<3, 3, 0>>}}

Bars ==
  {[d \in 0 .. 3 |-> IF d \in DOMAIN b THEN b[d] ELSE NoCard] :
     b \in {<<8, 12>>,            \* cards 1 and 2 in large pages of their own
            <<8, 10>>,            \* in one large page
            <<8, 20>>,            \* the second out of a BAR's reach
            <<20, 8>>,            \* the first
            <<8, 12, 1>>,         \* a third card
            <<8>>, <<>>}}
  \cup {[d \in 0 .. 3 |-> IF d = 1 THEN NoCard ELSE 4 * d]}  \* a card before them

Acpi == {<<>>, <<0>>, <<AllOnes, 7>>, <<DefaultDmar, 7>>}
MachinesMC ==
  {[acpi |-> a, bar |-> b, ram |-> <<At(2, 4), At(6, 4)>>] : a \in Acpi, b \in Bars}
  \cup {[acpi |-> <<7>>, bar |-> b, ram |-> <<At(20, 3), At(0, 5)>>] : b \in Bars}
==============================================================================
