---------------------------- MODULE MCUniwillFan ----------------------------
(***************************************************************************)
(* UniwillFan alone for TLC: two processes that set speeds on a machine    *)
(* with full fan mode.  (MCTuxedoIo has all of its calls.)                 *)
(***************************************************************************)
EXTENDS UniwillFan

CONSTANTS p1, p2

Processes == {p1, p2}
OverlappingSpeeds ==
  {[universal |-> FALSE, overlap |-> TRUE, faults |-> FALSE, calls |-> {"speed"}]}

=============================================================================
