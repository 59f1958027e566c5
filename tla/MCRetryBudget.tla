---------------------------- MODULE MCRetryBudget ----------------------------
(***************************************************************************)
(* MCAcpHarness with a history variable: how often a turn that carried an  *)
(* event failed and asked for a retry of it.                               *)
(***************************************************************************)
EXTENDS MCAcpHarness

VARIABLE failures

\* The main loop settles slot i by calling requeue on its batch.
Requeued(i) ==
  /\ Busy(i) /\ task'[i] = NoTask
  /\ task[i].chan \in Channel \ removed
  /\ \/ task[i].phase = "panicked"
     \/ task[i].back /\ task[i].outcome \in {"crashed", "error"}

HistoryInit == Init /\ failures = [e \in Event |-> 0]

HistoryNext ==
  /\ Next
  /\ failures' = [e \in Event |->
       failures[e] + Cardinality({i \in Slot : Requeued(i) /\ e \in Range(task[i].batch.events)})]

HistorySpec == HistoryInit /\ [][HistoryNext]_<<vars, failures>>

\* "After [`MAX_RETRIES`] attempts the batch is dead-lettered" (requeue): an event
\* is part of at most MAX_RETRIES + 1 failing turns.
RetryBudget == \A e \in Event : failures[e] <= MaxRetries + 1

=============================================================================
