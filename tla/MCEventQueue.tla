---------------------------- MODULE MCEventQueue ----------------------------
(* Small instances of EventQueue for TLC.                                   *)
EXTENDS EventQueue, TLC

CONSTANTS c1, c2, MaxEvents

\* Relay replay delivers stored events newest first.
NewestFirst(e) == MaxEvents - e

MCChannel == {c1, c2}
MCEvent == 1..MaxEvents

Symmetry == Permutations(MCChannel)

=============================================================================
