----------------------------- MODULE MCTuxedoIo -----------------------------
(***************************************************************************)
(* TuxedoIo for TLC: two callers, on machines that differ in their fan     *)
(* control, their limits and their vendor.                                 *)
(***************************************************************************)
EXTENDS TuxedoIo, TLC

CONSTANTS p1, p2

Processes == {p1, p2}
Symmetry == Permutations(Processes)

Env(ecfans, overlap, faults, fanCalls) ==
  [universal |-> ecfans, overlap |-> overlap, faults |-> faults, calls |-> fanCalls]

Machine(e, model, sku, calls) ==
  [env |-> e, model |-> model, sku |-> sku, ecfans |-> e.universal \/ model = "ph4trx",
   priority |-> TRUE, profile |-> TRUE, nocharging |-> FALSE, toggles |-> FALSE,
   calls |-> calls]

NoModeCalls == {"speed", "auto", "profile"}

\* Fan calls, after an identification.
FanMachines ==
  {Machine(e, Unknown, Unknown, {"identify"}) :
     e \in {Env(TRUE, FALSE, FALSE, NoModeCalls), Env(FALSE, FALSE, FALSE, NoModeCalls),
            Env(FALSE, TRUE, FALSE, {"speed", "profile"}),
            Env(FALSE, TRUE, FALSE, {"auto", "profile", "mode"}),
            Env(TRUE, FALSE, TRUE, {"auto", "profile", "mode", "mixed_mode"})}}

\* The identification by several callers, and with failing reads.
FeatureMachines ==
  {[Machine(Env(m # "ph4trx", o, ~o, {}), m, Unknown, {"identify", "features"})
      EXCEPT !.nocharging = n] :
     m \in {"ph4trx", Unknown}, o \in BOOLEAN, n \in BOOLEAN}

\* Every table one call at a time, and one with calls that overlap.
TdpMachines ==
  {Machine(Env(FALSE, FALSE, TRUE, {}), m, Unknown, {"identify", "tdp"}) :
     m \in Models \cup {Unknown}}
  \cup {Machine(Env(FALSE, FALSE, FALSE, {}), Unknown, s, {"identify", "tdp"}) : s \in Skus}
  \cup {Machine(Env(FALSE, TRUE, FALSE, {}), "ph4tux", Unknown, {"identify", "tdp"})}

ClevoMachines ==
  {[Machine(Env(FALSE, o, f, {}), Unknown, Unknown, {"webcam"}) EXCEPT !.toggles = t] :
     o \in BOOLEAN, f \in BOOLEAN, t \in BOOLEAN}
  \cup {Machine(Env(FALSE, FALSE, TRUE, {}), Unknown, Unknown, {"forward"})}

AllMachines == FanMachines \cup FeatureMachines \cup TdpMachines \cup ClevoMachines
AllEnvironments == {m.env : m \in AllMachines}

=============================================================================
