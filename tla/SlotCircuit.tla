---------------------------- MODULE SlotCircuit ----------------------------
(***************************************************************************)
(* The circuit breaker of one agent slot (crates/buzz-acp/src/lib.rs,      *)
(* struct SlotCircuit), as operators on its record.  `crashes` counts the  *)
(* entries of crash_times that are younger than the window (older ones are *)
(* pruned before every use); `open` says where open_until lies: "closed"   *)
(* for None, "open" in the future, "elapsed" in the past.                  *)
(***************************************************************************)
EXTENDS Naturals

CONSTANT CrashThreshold     \* CIRCUIT_BREAKER_THRESHOLD

ASSUME CrashThresholdAssumption == CrashThreshold \in Nat \ {0}

\* `crashes` within the window; `open`: "closed", "open", or "elapsed" when the
\* cooldown of an open circuit is over; `respawning`: respawn_in_flight.
NewCircuit == [crashes |-> 0, open |-> "closed", respawning |-> FALSE]

\* A half-open probe: one more crash within the window re-opens the circuit.
Probe(k) == [k EXCEPT !.crashes = CrashThreshold - 1, !.open = "closed"]

\* record_crash, and the respawn_in_flight flag its callers set on a verdict
\* that allows a respawn.
RecordCrash(k) ==
  CASE k.open = "elapsed" -> [Probe(k) EXCEPT !.respawning = TRUE]
    [] k.open = "open"    -> k
    [] k.open = "closed"  ->
         IF k.crashes + 1 >= CrashThreshold
         THEN [k EXCEPT !.crashes = CrashThreshold, !.open = "open"]
         ELSE [k EXCEPT !.crashes = @ + 1, !.respawning = TRUE]

\* Mutant of MarkSpawnFailed: the respawn_in_flight flag is not cleared.
MarkSpawnFailedKeepsFlag(k) == [k EXCEPT !.open = "open"]

\* mark_spawn_failed, with the flag cleared by the collector of the result.
MarkSpawnFailed(k) == [k EXCEPT !.open = "open", !.respawning = FALSE]

\* Mutant of Refill: the elapsed circuit is not closed for the probe.
RefillKeepsOpen(k) ==
  IF k.open = "open" THEN k ELSE [k EXCEPT !.respawning = TRUE]

\* can_refill for an empty slot with no respawn under way, and the flag the
\* refill loop then sets.
Refill(k) ==
  CASE k.open = "elapsed" -> [Probe(k) EXCEPT !.respawning = TRUE]
    [] k.open = "open"    -> k
    [] k.open = "closed"  -> [k EXCEPT !.respawning = TRUE]

\* Time: the oldest crash leaves the window; the cooldown runs out.
ForgetCrash(k)  == [k EXCEPT !.crashes = @ - 1]
CooldownOver(k) == [k EXCEPT !.open = "elapsed"]

=============================================================================
