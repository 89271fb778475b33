--------------------------- MODULE MCEnergyMeter ---------------------------
(***************************************************************************)
(* Ticks of the metering scaled down: single < window < overflow < phase,  *)
(* as in the code.                                                         *)
(***************************************************************************)
EXTENDS EnergyMeter

WindowTicks   == [c \in Channels |-> 2]
OverflowTicks == [c \in Channels |-> 3]
\* One channel at a time; the power channel in a factory test as well.
Alone == {<<{"p"}, FALSE>>, <<{"v"}, FALSE>>, <<{"i"}, FALSE>>, <<{"p"}, TRUE>>}
=============================================================================
