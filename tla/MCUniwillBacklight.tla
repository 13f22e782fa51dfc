------------------------ MODULE MCUniwillBacklight ------------------------
(***************************************************************************)
(* UniwillBacklight for TLC: one context at a time with and without EC     *)
(* failures, userspace beside the event handler, and every overlap the     *)
(* kernel allows.                                                          *)
(***************************************************************************)
EXTENDS UniwillBacklight

Serial == [overlaps |-> {}, faults |-> FALSE]
SerialWithFaults == [overlaps |-> {}, faults |-> TRUE]
StoreDuringEvent == [overlaps |-> {{"sysfs", "event"}}, faults |-> FALSE]
AnyOverlap == [overlaps |-> Possible, faults |-> FALSE]

AllEnvironments == {Serial, SerialWithFaults, StoreDuringEvent, AnyOverlap}
OnlySerial == {Serial}

=============================================================================
