---------------------------- MODULE MCUniwillEc ----------------------------
(***************************************************************************)
(* UniwillEc for TLC: thread t1 and t2, addresses that differ in either    *)
(* byte, two data bytes and a busy wait of two polls.                      *)
(***************************************************************************)
EXTENDS UniwillEc, TLC

CONSTANTS t1, t2

MCThreads == {t1, t2}
Symmetry == Permutations(MCThreads)

=============================================================================
