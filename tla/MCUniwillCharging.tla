------------------------- MODULE MCUniwillCharging -------------------------
(***************************************************************************)
(* UniwillCharging for TLC: one call at a time, and every overlap of calls *)
(* with EC accesses that fail.                                             *)
(***************************************************************************)
EXTENDS UniwillCharging

Serial == [overlaps |-> {}, faults |-> FALSE]
AnyOverlapWithFaults == [overlaps |-> Possible, faults |-> TRUE]

AllEnvironments == {Serial, AnyOverlapWithFaults}

=============================================================================
