----------------------------- MODULE PushOutbox -----------------------------
(***************************************************************************)
(* Push notifications, second half: from a durable wake job to the push    *)
(* gateway (crates/buzz-relay/src/push_runtime.rs run_delivery_worker and  *)
(* deliver_one, with the outbox statements of crates/buzz-db/src/push.rs). *)
(*                                                                         *)
(* Workers claim a batch of wakes under a fencing token that lapses, and   *)
(* deliver them one after the other.  Before the request to the gateway a  *)
(* wake is checked against its lease twice, with a membership check in     *)
(* between; the answer decides what becomes of it.  One installation, one  *)
(* wake per event; the gateway is external and may answer anything.        *)
(***************************************************************************)
EXTENDS Naturals, Sequences, FiniteSets, SequencesExt

CONSTANTS
  Event,       \* events that may cause a wake
  Worker,      \* delivery workers of the relay processes
  Nobody,      \* no claim
  Crashed,     \* the claim of a worker that is gone
  MaxGen,      \* bound on lease replacements
  MaxAttempts, \* MAX_ATTEMPTS
  MaxErrors    \* bound on database errors, crashes and stalls of a worker

VARIABLES
  lease,   \* the installation's row of push_leases
  member,  \* the lease's author is a member of the events' channel
  gone,    \* soft-deleted events
  expired, \* wakes past their own expires_at
  row,     \* push_wake_outbox
  wk,      \* the workers
  sent,    \* wakes for which a request has been made
  errors

vars == <<lease, member, gone, expired, row, wk, sent, errors>>

NoRow == [st |-> "none", gen |-> 0, claim |-> Nobody, ripe |-> FALSE, tries |-> 0]
Idle == [pc |-> "idle", todo |-> <<>>, gen |-> 0, tries |-> 0]

Init ==
  /\ lease = [gen |-> 1, st |-> "on"] /\ member = TRUE /\ gone = {} /\ expired = {}
  /\ row = [e \in Event |-> NoRow]
  /\ wk = [w \in Worker |-> Idle]
  /\ sent = {} /\ errors = 0

Error == errors < MaxErrors /\ errors' = errors + 1

\* The join of a wake with the lease it was made for, and with its event; the wake
\* itself expires with the lease or when its event is no longer of use, whichever
\* comes first.
Current(e) == lease.st = "on" /\ lease.gen = row[e].gen /\ e \notin gone /\ e \notin expired

-----------------------------------------------------------------------------
(* What happens around the workers *)

Enqueue(e) ==
  /\ row[e].st = "none" /\ lease.st = "on" /\ e \notin gone
  /\ row' = [row EXCEPT ![e] = [NoRow EXCEPT !.st = "pending", !.gen = lease.gen, !.ripe = TRUE]]
  /\ UNCHANGED <<lease, member, gone, expired, wk, sent, errors>>

\* A lease replacement, active or not, has a higher generation; expiry and the
\* clean-up of expired leases take it out of effect.
ReplaceLease(st) ==
  /\ lease.gen < MaxGen /\ lease' = [gen |-> lease.gen + 1, st |-> st]
  /\ UNCHANGED <<member, gone, expired, row, wk, sent, errors>>
LeaseExpires == /\ lease.st = "on" /\ lease' = [lease EXCEPT !.st = "off"]
                /\ UNCHANGED <<member, gone, expired, row, wk, sent, errors>>
MemberLeaves == /\ member /\ member' = FALSE
                /\ UNCHANGED <<lease, gone, expired, row, wk, sent, errors>>
DeleteEvent(e) == /\ e \notin gone /\ row[e].st # "none" /\ gone' = gone \cup {e}
                  /\ UNCHANGED <<lease, member, expired, row, wk, sent, errors>>

\* EVENT_USEFUL_SECS after its event a wake is of no use: it is not claimed any more,
\* and stays as it is unless a worker has it.
WakeExpires(e) == /\ row[e].st \in {"pending", "sending"} /\ e \notin expired
                  /\ expired' = expired \cup {e}
                  /\ UNCHANGED <<lease, member, gone, row, wk, sent, errors>>

\* Time: a retry falls due, or the claim on a wake nobody works on lapses.
Ripens(e) ==
  /\ row[e].st \in {"pending", "sending"} /\ ~row[e].ripe
  /\ row[e].claim \in Worker => ~Contains(wk[row[e].claim].todo, e)
  /\ row' = [row EXCEPT ![e].ripe = TRUE]
  /\ UNCHANGED <<lease, member, gone, expired, wk, sent, errors>>

\* A claim lapses with the wake still in its worker's batch: the batch is slow.
Stalls(e) ==
  /\ row[e].claim \in Worker /\ Contains(wk[row[e].claim].todo, e) /\ ~row[e].ripe /\ Error
  /\ row' = [row EXCEPT ![e].ripe = TRUE]
  /\ UNCHANGED <<lease, member, gone, expired, wk, sent>>

-----------------------------------------------------------------------------
(* The statements of push.rs *)

Claimable(e) == row[e].st \in {"pending", "sending"} /\ row[e].ripe /\ Current(e)

\* Mutant of Holds: the fencing token is not compared.
HoldsAny(w, e) == row[e].st = "sending"

\* The fence of complete_wake, retry_wake and fail_wake.
Holds(w, e) == row[e].st = "sending" /\ row[e].claim = w

\* revalidate_wake_for_send also wants the claim not to have lapsed.
Revalidates(w, e) == row[e].st = "sending" /\ row[e].claim = w /\ ~row[e].ripe /\ Current(e)

\* complete_wake, fail_wake: no effect without the fence.
Settle(w, e, st) ==
  row' = IF Holds(w, e) THEN [row EXCEPT ![e].st = st, ![e].claim = Nobody, ![e].ripe = FALSE] ELSE row

Reschedule(w, e) == Settle(w, e, "pending")

\* Mutant of RetryOrFail: the attempts are not counted.
RetryAlways(w, e) == Reschedule(w, e)

\* retry_or_fail, with the attempt number of the last check.
RetryOrFail(w, e) == IF wk[w].tries >= MaxAttempts THEN Settle(w, e, "failed") ELSE Reschedule(w, e)

-----------------------------------------------------------------------------
(* run_delivery_worker and deliver_one *)

\* A claim counts as an attempt; the count is only compared with 1 and with
\* MAX_ATTEMPTS, so it stops there.
ClaimWakes(w) ==
  /\ wk[w].pc = "idle"
  /\ LET batch == {e \in Event : Claimable(e)}
     IN /\ batch # {}
        /\ row' = [e \in Event |-> IF e \in batch
                     THEN [row[e] EXCEPT !.st = "sending", !.claim = w, !.ripe = FALSE,
                                         !.tries = IF @ < MaxAttempts THEN @ + 1 ELSE @]
                     ELSE row[e]]
        /\ \E order \in SetToSeqs(batch) : wk' = [wk EXCEPT ![w] = [Idle EXCEPT !.pc = "check", !.todo = order]]
  /\ UNCHANGED <<lease, member, gone, expired, sent, errors>>

Cur(w) == Head(wk[w].todo)

\* The next wake of the batch.
Done(w) == wk' = [wk EXCEPT ![w] = IF Len(wk[w].todo) = 1 THEN Idle
                                   ELSE [Idle EXCEPT !.pc = "check", !.todo = Tail(wk[w].todo)]]
GoesTo(w, pc) == wk' = [wk EXCEPT ![w].pc = pc]

\* The first check, and the second one after the membership check.
Check(w) ==
  /\ wk[w].pc \in {"check", "final"}
  /\ IF Revalidates(w, Cur(w))
     THEN /\ wk' = [wk EXCEPT ![w].pc = IF wk[w].pc = "check" THEN "member" ELSE "send",
                              ![w].gen = row[Cur(w)].gen, ![w].tries = row[Cur(w)].tries]
          /\ UNCHANGED row
     ELSE Settle(w, Cur(w), "failed") /\ Done(w)
  /\ UNCHANGED <<lease, member, gone, expired, sent, errors>>

CheckMember(w) ==
  /\ wk[w].pc = "member"
  /\ IF member THEN GoesTo(w, "final") /\ UNCHANGED row
               ELSE Settle(w, Cur(w), "failed") /\ Done(w)
  /\ UNCHANGED <<lease, member, gone, expired, sent, errors>>

CheckMemberErrs(w) == /\ wk[w].pc = "member" /\ Error /\ Reschedule(w, Cur(w)) /\ Done(w)
                      /\ UNCHANGED <<lease, member, gone, expired, sent>>

\* Mutant of Disabled: whatever generation is current.
DisabledAny(g) == IF lease.st = "on" THEN [lease EXCEPT !.st = "disabled"] ELSE lease

\* disable_endpoint_generation
Disabled(g) == IF lease.gen = g /\ lease.st = "on" THEN [lease EXCEPT !.st = "disabled"] ELSE lease

\* The request and its answer: accepted; an endpoint that is gone; busy, rate
\* limited, or no answer in time; not found, which after the first attempt means
\* that an earlier request was served; anything else.
Send(w, answer) ==
  /\ wk[w].pc = "send" /\ sent' = sent \cup {Cur(w)} /\ Done(w)
  /\ CASE answer = "accepted" -> Settle(w, Cur(w), "delivered") /\ UNCHANGED lease
       [] answer = "gone"     -> lease' = Disabled(wk[w].gen) /\ Settle(w, Cur(w), "failed")
       [] answer = "later"    -> RetryOrFail(w, Cur(w)) /\ UNCHANGED lease
       [] answer = "notfound" -> /\ Settle(w, Cur(w), IF wk[w].tries > 1 THEN "delivered" ELSE "failed")
                                 /\ UNCHANGED lease
       [] answer = "other"    -> Settle(w, Cur(w), "failed") /\ UNCHANGED lease
  /\ UNCHANGED <<member, gone, expired, errors>>

\* The request cannot be signed (nip98_header): nothing is sent, and the row waits for
\* its claim to lapse.  A relay without a gateway runs no delivery worker at all.
NotSent(w) ==
  /\ wk[w].pc = "send" /\ Error /\ Done(w)
  /\ UNCHANGED <<lease, member, gone, expired, row, sent>>

\* A check fails, or the statement that should record an outcome does (its error
\* is dropped): the worker goes on and the row waits for its claim to lapse.
StatementErrs(w) ==
  /\ wk[w].pc # "idle" /\ Error /\ Done(w)
  /\ IF wk[w].pc = "send" THEN sent' = sent \cup {Cur(w)} /\ lease' \in {lease, Disabled(wk[w].gen)}
                          ELSE UNCHANGED <<sent, lease>>
  /\ UNCHANGED <<member, gone, expired, row>>

Crash(w) ==
  /\ wk[w].pc # "idle" /\ Error
  /\ wk' = [wk EXCEPT ![w] = Idle]
  /\ row' = [e \in Event |-> IF row[e].claim = w THEN [row[e] EXCEPT !.claim = Crashed] ELSE row[e]]
  /\ sent' \in {sent, IF wk[w].pc = "send" THEN sent \cup {Cur(w)} ELSE sent}
  /\ UNCHANGED <<lease, member, gone, expired>>

Answers == {"accepted", "gone", "later", "notfound", "other"}

WorkerStep(w) == ClaimWakes(w) \/ Check(w) \/ CheckMember(w) \/ \E a \in Answers : Send(w, a)

Next ==
  \/ \E e \in Event : Enqueue(e) \/ DeleteEvent(e) \/ WakeExpires(e) \/ Ripens(e) \/ Stalls(e)
  \/ \E st \in {"on", "off"} : ReplaceLease(st)
  \/ LeaseExpires \/ MemberLeaves
  \/ \E w \in Worker : WorkerStep(w) \/ CheckMemberErrs(w) \/ NotSent(w) \/ StatementErrs(w) \/ Crash(w)

Spec == Init /\ [][Next]_vars

-----------------------------------------------------------------------------
(* Properties *)

\* A wake under a claim that has not lapsed is changed by its claimant alone,
\* and a settled wake is never changed again: a slow worker that comes back
\* cannot reopen or overwrite what another one has done.
LateWorkerHarmless ==
  [][\A e \in Event :
       /\ row[e].st \in {"delivered", "failed"} => row'[e] = row[e]
       /\ row[e].st = "sending" /\ row[e].claim \in Worker /\ ~row[e].ripe
            => row'[e] \in {row[e], [row[e] EXCEPT !.ripe = TRUE]} \/ wk'[row[e].claim] # wk[row[e].claim]]_vars

\* A lease is disabled only by an answer to a request made for its generation:
\* an answer that comes after a replacement leaves the new lease alone.
StaleAnswerIgnored ==
  [][lease'.st = "disabled" /\ lease.st # "disabled"
       => \E w \in Worker : wk[w].pc = "send" /\ wk'[w] # wk[w] /\ wk[w].gen = lease.gen]_vars

Fairness ==
  /\ \A w \in Worker : WF_vars(WorkerStep(w))
  /\ \A e \in Event : WF_vars(Ripens(e))
FairSpec == Spec /\ Fairness

\* A wake that has not expired, and whose lease stays in effect, is in the end
\* delivered or given up.
EveryWakeSettles ==
  \A e \in Event : row[e].st \in {"pending", "sending"} ~>
                     row[e].st \in {"delivered", "failed"} \/ ~Current(e)

\* push.rs on claim_due_wakes: claims that lapsed are recovered.  So a wake that has
\* not expired, and whose lease, event and membership are in order, is not given up
\* before any request has been made for it.
LapsedClaimRecovered ==
  [][\A e \in Event : row'[e].st = "failed" /\ row[e].st # "failed" /\ Current(e) /\ member
       => e \in sent']_vars

=============================================================================
