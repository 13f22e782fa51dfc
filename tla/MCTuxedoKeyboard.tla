------------------------- MODULE MCTuxedoKeyboard -------------------------
(***************************************************************************)
(* TuxedoKeyboard for TLC: the machines the cfg files choose from.         *)
(***************************************************************************)
EXTENDS TuxedoKeyboard

Clevo == {"clevo_wmi", "clevo_acpi"}
Uniwill == {"uniwill_wmi"}
Both == Clevo \cup Uniwill

Machine(present, overlap, bundleFails, inputFails, pressed) ==
  [present |-> present, removesOverlap |-> overlap, bundleFails |-> bundleFails,
   inputFails |-> inputFails, events |-> pressed]

AllEnvironments ==
  {Machine(Both, TRUE, TRUE, TRUE, "never"),
   Machine(Clevo, TRUE, FALSE, TRUE, "any time"),
   Machine(Uniwill, TRUE, FALSE, TRUE, "any time"),
   Machine(Clevo, FALSE, FALSE, TRUE, "at rest"),
   Machine(Both, FALSE, FALSE, TRUE, "never")}
    \cup {Machine({i}, FALSE, FALSE, f, "at rest") : i \in Both, f \in BOOLEAN}
NoMemory == {Machine(Clevo, FALSE, TRUE, FALSE, "never")}

=============================================================================
