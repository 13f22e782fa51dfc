---------------------------- MODULE MCClevoLeds ----------------------------
(***************************************************************************)
(* ClevoLeds for TLC: a list of three colours, and each kind of keyboard.  *)
(***************************************************************************)
EXTENDS ClevoLeds

MCColorList == <<<<0, 0, 0>>, <<255, 0, 0>>, <<255, 255, 255>>>>

Keyboard(kind, overlaps, faults) ==
  [kind |-> kind, overlaps |-> overlaps, faults |-> faults]

AllEnvironments ==
  {Keyboard("white", Possible, FALSE), Keyboard("one_zone", Possible, FALSE),
   Keyboard("white", {}, TRUE), Keyboard("one_zone", {}, TRUE)}
    \cup {Keyboard(kind, {}, FALSE) : kind \in Kinds}

=============================================================================
