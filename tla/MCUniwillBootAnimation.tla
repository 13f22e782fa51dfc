----------------------- MODULE MCUniwillBootAnimation -----------------------
(***************************************************************************)
(* UniwillBootAnimation for TLC: remove beside the checks, an EC that      *)
(* fails, and every use of the keyboard, one at a time.                    *)
(***************************************************************************)
EXTENDS UniwillBootAnimation

CheckedEnvironments ==
  {e \in [overlap : BOOLEAN, faults : BOOLEAN, uses : {{}}] : ~(e.overlap /\ e.faults)}
    \cup [overlap : {FALSE}, faults : {FALSE}, uses : {{"store", "event", "sleep"}}]

=============================================================================
