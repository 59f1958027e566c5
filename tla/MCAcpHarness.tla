---------------------------- MODULE MCAcpHarness ----------------------------
(* Small instances of AcpHarness for TLC.                                   *)
EXTENDS AcpHarness, TLC

CONSTANTS c1, c2, MaxEvents, Slots

NewestFirst(e) == MaxEvents - e
MCChannel == {c1, c2}
MCEvent == 1..MaxEvents
MCSlot == 1..Slots
Symmetry == Permutations(MCChannel)

=============================================================================
