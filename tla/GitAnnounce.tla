---------------------------- MODULE GitAnnounce ----------------------------
(***************************************************************************)
(* Announcing a git repository: the handler of kind 30617                  *)
(* (crates/buzz-relay/src/handlers/side_effects.rs                         *)
(* handle_git_repo_announcement, with crates/buzz-db/src/git_repo.rs).     *)
(*                                                                         *)
(* The handler reserves the name in Postgres, then creates the owner's     *)
(* pointer in the object store, and gives the name back if that fails.     *)
(* It runs after the event is stored, once per event, in any process; one  *)
(* name, whose pointers are kept per owner.                                *)
(***************************************************************************)
EXTENDS Naturals

CONSTANTS
  Owner,      \* pubkeys
  Announce,   \* announcement events of the name
  By,         \* By[a]: the owner that signed a
  None,       \* the name is free
  MaxErrors   \* bound on store and database errors and crashes

VARIABLES
  name,     \* the row of git_repo_names
  pointer,  \* the pointers: absent, the empty manifest, or a pushed one
  an,       \* the handlers
  errors

vars == <<name, pointer, an, errors>>

Init ==
  /\ name = None /\ pointer = [o \in Owner |-> "absent"]
  /\ an = [a \in Announce |-> [pc |-> "new", fresh |-> FALSE]]
  /\ errors = 0

Error == errors < MaxErrors /\ errors' = errors + 1
GoesTo(a, pc) == an' = [an EXCEPT ![a].pc = pc]

\* Mutant of Held: the row is taken to mean that the pointer exists.
HeldIsEnough(a) == "ok"

\* What is left to do for an owner who has the name already (AlreadyOwned).
Held(a) == "ensure"

\* repo_name_owner
Peek(a) ==
  /\ an[a].pc = "new"
  /\ GoesTo(a, CASE name = None -> "reserve"
                 [] name = By[a] -> Held(a)
                 [] OTHER -> "failed")
  /\ UNCHANGED <<name, pointer, errors>>

\* count_repos_for_owner: over quota, because of other names.
OverQuota(a) == an[a].pc = "reserve" /\ GoesTo(a, "failed") /\ UNCHANGED <<name, pointer, errors>>

\* The insert of reserve_repo_name, and the read that follows one that does nothing.
Reserve(a) ==
  /\ an[a].pc = "reserve"
  /\ IF name = None THEN name' = By[a] /\ an' = [an EXCEPT ![a] = [pc |-> "seed", fresh |-> TRUE]]
                    ELSE GoesTo(a, "classify") /\ UNCHANGED name
  /\ UNCHANGED <<pointer, errors>>

Classify(a) ==
  /\ an[a].pc = "classify"
  /\ GoesTo(a, IF name = By[a] THEN Held(a) ELSE "failed")
  /\ UNCHANGED <<name, pointer, errors>>

\* Where a handler goes when its pointer is there, or could not be made.
Succeeds(a) == GoesTo(a, IF an[a].fresh THEN "emit" ELSE "ok")
Fails(a) == GoesTo(a, IF an[a].fresh THEN "release" ELSE "failed")

\* ensure_manifest_pointer
Ensure(a) ==
  /\ an[a].pc = "ensure"
  /\ IF pointer[By[a]] # "absent" THEN Succeeds(a) ELSE GoesTo(a, "seed")
  /\ UNCHANGED <<name, pointer, errors>>

\* Mutant of Seeded: the pointer is written unconditionally.
SeededAlways(a) == TRUE

\* The condition under which put_pointer creates: If-None-Match: *.
Seeded(a) == pointer[By[a]] = "absent"

\* seed_manifest_pointer, and its look at a pointer that is there already.
Seed(a) ==
  /\ an[a].pc = "seed"
  /\ IF Seeded(a) THEN pointer' = [pointer EXCEPT ![By[a]] = "empty"] /\ Succeeds(a)
                  ELSE GoesTo(a, "reread") /\ UNCHANGED pointer
  /\ UNCHANGED <<name, errors>>

Reread(a) ==
  /\ an[a].pc = "reread"
  /\ IF pointer[By[a]] = "empty" THEN Succeeds(a) ELSE Fails(a)
  /\ UNCHANGED <<name, pointer, errors>>

\* A call to the object store fails, with or without its effect.
StoreErrs(a) ==
  /\ an[a].pc \in {"ensure", "seed", "reread"} /\ Error /\ Fails(a)
  /\ pointer' \in {pointer, IF an[a].pc = "seed" /\ Seeded(a) THEN [pointer EXCEPT ![By[a]] = "empty"] ELSE pointer}
  /\ UNCHANGED name

\* release_repo_name: the row if it is this owner's.
Release(a) ==
  /\ an[a].pc = "release" /\ GoesTo(a, "failed")
  /\ name' = IF name = By[a] THEN None ELSE name
  /\ UNCHANGED <<pointer, errors>>

\* emit_initial_ref_state; a failure is only logged.
EmitInitial(a) == an[a].pc = "emit" /\ GoesTo(a, "ok") /\ UNCHANGED <<name, pointer, errors>>

\* A database call fails, or the process dies.
Aborts(a) ==
  /\ an[a].pc \notin {"new", "ok", "failed"} /\ Error /\ GoesTo(a, "failed")
  /\ UNCHANGED <<name, pointer>>

\* A push of the owner's, which the stored event allows.
Push(o) ==
  /\ \E a \in Announce : By[a] = o /\ an[a].pc # "new"
  /\ pointer[o] # "pushed" /\ pointer' = [pointer EXCEPT ![o] = "pushed"]
  /\ UNCHANGED <<name, an, errors>>

Next ==
  \/ \E a \in Announce : \/ Peek(a) \/ OverQuota(a) \/ Reserve(a) \/ Classify(a) \/ Ensure(a)
                         \/ Seed(a) \/ Reread(a) \/ StoreErrs(a) \/ Release(a) \/ EmitInitial(a) \/ Aborts(a)
  \/ \E o \in Owner : Push(o)

Spec == Init /\ [][Next]_vars

-----------------------------------------------------------------------------
(* Properties *)

\* A repository that was announced with success can be cloned: its pointer
\* exists, whichever announcement of the same owner made it or failed to.
AnnouncedIsCloneable == \A a \in Announce : an[a].pc = "ok" => pointer[By[a]] # "absent"

\* An announcement never puts a repository back to its empty state.
AnnounceKeepsPushes == [][\A o \in Owner : pointer[o] = "pushed" => pointer'[o] = "pushed"]_vars

=============================================================================
