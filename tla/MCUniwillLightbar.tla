------------------------- MODULE MCUniwillLightbar -------------------------
(***************************************************************************)
(* UniwillLightbar, with the UniwillProbe it extends, for TLC: machines    *)
(* with and without a ROM id to correct, with and without a lightbar.      *)
(***************************************************************************)
EXTENDS UniwillLightbar

Machine(n, s) ==
  [romid |-> TRUE, profile_v1 |-> FALSE, lightbar |-> FALSE, faults |-> n,
   silent |-> s, early |-> FALSE, registerFails |-> FALSE,
   sets |-> {"red", "green", "animation"}]

\* Two faults of any kind, three with an error, and faults without end.
RomIdMachines == {Machine(2, TRUE), Machine(3, FALSE), Machine(Unlimited, TRUE)}

\* Both kinds of fan curves, without faults and with two.
CurveMachines ==
  {[Machine(f, FALSE) EXCEPT !.romid = FALSE, !.profile_v1 = p] : f \in {0, 2}, p \in BOOLEAN}

\* LEDs set while the driver is bound; two of them as soon as they are there;
\* one on an EC that fails once.
Lightbar == [Machine(0, FALSE) EXCEPT !.romid = FALSE, !.lightbar = TRUE]
LightbarMachines ==
  {Lightbar,
   [Lightbar EXCEPT !.early = TRUE, !.registerFails = TRUE, !.sets = {"red", "animation"}],
   [Lightbar EXCEPT !.faults = 1, !.sets = {"red"}]}

AllMachines == RomIdMachines \cup CurveMachines \cup LightbarMachines

=============================================================================
