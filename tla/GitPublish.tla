----------------------------- MODULE GitPublish -----------------------------
(***************************************************************************)
(* Pushes to one git repository kept in an object store                    *)
(* (crates/buzz-relay/src/api/git: transport.rs receive_pack and           *)
(* finalize_push, hydrate.rs, cas_publish.rs, store.rs, manifest.rs).      *)
(*                                                                         *)
(* A push reads the pointer, materializes the manifest it names in a       *)
(* scratch directory, lets git apply the client's ref updates there,       *)
(* uploads the new objects and a new manifest, and swings the pointer if   *)
(* it still is what was read.  Pushes run in any number of processes and   *)
(* share no lock.  Keys are digests of content, so a stored object is its  *)
(* own name; the ETag of the pointer is a digest of its body.              *)
(***************************************************************************)
EXTENDS Naturals, Sequences, FiniteSets, Functions

CONSTANTS
  Commit,      \* git objects
  Reach,       \* Reach[c]: c and everything it refers to
  Branch,      \* names under refs/heads/
  Main,        \* refs/heads/main
  None,        \* no commit, no manifest
  Pusher,      \* receive_pack requests that may run at once
  MaxPacks,    \* MAX_MANIFEST_PACKS
  Threshold,   \* PACK_COMPACTION_THRESHOLD
  MaxUpdates,  \* bound on the branches one push changes
  MaxPushes,   \* bound on the pushes
  MaxErrors    \* bound on store errors, crashes and clients that go away

VARIABLES
  packs,    \* packs/ in the store: sets of commits
  mans,     \* manifests/ in the store
  pointer,  \* the manifest the pointer names, or None
  past,     \* the manifests it has named, in order
  push,     \* the pushes
  acked,    \* manifests of the pushes answered with success
  events,   \* manifests announced by a ref-state event, in order
  pushes,
  errors

vars == <<packs, mans, pointer, past, push, acked, events, pushes, errors>>

NoRefs == [b \in Branch |-> None]
Idle == [pc |-> "idle", parent |-> None, refs |-> NoRefs, m |-> None]

\* ParentState::fresh, a repository without a pointer, whose workspace starts with
\* HEAD on main; an announced one has a pointer to the same empty manifest.
Fresh == [head |-> Main, refs |-> NoRefs, packs |-> {}, parent |-> None]

Init ==
  /\ \/ mans = {} /\ pointer = None /\ past = <<>>
     \/ mans = {Fresh} /\ pointer = Fresh /\ past = <<Fresh>>
  /\ packs = {} /\ push = [p \in Pusher |-> Idle]
  /\ acked = {} /\ events = <<>> /\ pushes = 0 /\ errors = 0

Error == errors < MaxErrors /\ errors' = errors + 1

-----------------------------------------------------------------------------
(* Manifests *)

ParentOf(p) == IF push[p].parent = None THEN Fresh ELSE push[p].parent

Published(refs) == {b \in Branch : refs[b] # None}
Closure(refs) == UNION {Reach[refs[b]] : b \in Published(refs)}

\* Everything the refs of a stored manifest need is in its packs.
Readable(m) == m \in mans /\ m.packs \subseteq packs /\ Closure(m.refs) \subseteq UNION m.packs

\* Mutant of PublishedHead: the head stays what it was.
HeadStays(refs, head) == head

\* resolve_published_head: git's HEAD in the workspace is the parent's.
PublishedHead(refs, head) ==
  CASE head \in Published(refs) -> head
    [] head \notin Published(refs) /\ Main \in Published(refs) -> Main
    [] head \notin Published(refs) /\ Main \notin Published(refs) /\ Published(refs) # {}
         -> CHOOSE b \in Published(refs) : TRUE
    [] OTHER -> head

\* compose_after and compose_compacted_after
Composed(p, keys) ==
  [head |-> PublishedHead(push[p].refs, ParentOf(p).head), refs |-> push[p].refs,
   packs |-> keys, parent |-> push[p].parent]

-----------------------------------------------------------------------------
(* Reading: load_pointer, materialize_manifest *)

LoadPointer(p) ==
  /\ push[p].pc = "idle" /\ pushes < MaxPushes
  /\ pushes' = pushes + 1
  /\ push' = [push EXCEPT ![p].pc = "load", ![p].parent = pointer]
  /\ UNCHANGED <<packs, mans, pointer, past, acked, events, errors>>

Materialize(p) ==
  /\ push[p].pc = "load"
  /\ push' = [push EXCEPT ![p] = IF push[p].parent = None \/ Readable(push[p].parent)
                                 THEN [@ EXCEPT !.pc = "ready"] ELSE Idle]
  /\ UNCHANGED <<packs, mans, pointer, past, acked, events, pushes, errors>>

\* git receive-pack in the workspace: the updates the hook lets through, or none
\* (an answer without a publication).  Updates may rewind or delete branches, several
\* in one push.
ReceivePack(p) ==
  /\ push[p].pc = "ready"
  /\ \/ \E refs \in [Branch -> Commit \cup {None}] :
          /\ Cardinality({b \in Branch : refs[b] # ParentOf(p).refs[b]}) <= MaxUpdates
          /\ push' = [push EXCEPT ![p].pc = "received", ![p].refs = refs]
     \/ push' = [push EXCEPT ![p] = Idle]
  /\ UNCHANGED <<packs, mans, pointer, past, acked, events, pushes, errors>>

-----------------------------------------------------------------------------
(* cas_publish *)

\* capture_pack: the objects the parent's refs do not reach.  Git writes an empty
\* pack if there are none; only without any ref there is no pack.
Delta(p) == IF Published(push[p].refs) = {} THEN {}
            ELSE {Closure(push[p].refs) \ Closure(ParentOf(p).refs)}

\* Mutant of Compacted: the full capture is a delta too.
CompactedDelta(p) == Delta(p)

\* capture_compacted_packs: everything, in one pack.
Compacted(p) == IF Published(push[p].refs) = {} THEN {} ELSE {Closure(push[p].refs)}

PacksBefore(p) == Cardinality(ParentOf(p).packs)

\* should_compact and compacted_pack_set_is_usable
MayCompact(p) ==
  /\ PacksBefore(p) >= Threshold
  /\ \/ Cardinality(Compacted(p)) < PacksBefore(p)
     \/ PacksBefore(p) >= MaxPacks /\ Cardinality(Compacted(p)) <= MaxPacks

\* The new packs are in the store and the manifest is valid.
Uploads(p, new, keys) ==
  /\ packs' = packs \cup new
  /\ push' = [push EXCEPT ![p] = IF Cardinality(keys) <= MaxPacks
                                 THEN [@ EXCEPT !.pc = "packed", !.m = Composed(p, keys)] ELSE Idle]

PutCompacted(p) ==
  /\ push[p].pc = "received" /\ MayCompact(p)
  /\ Uploads(p, Compacted(p), Compacted(p))
  /\ UNCHANGED <<mans, pointer, past, acked, events, pushes, errors>>

\* The usual way; also when a compaction is due and fails (capacity, time, size),
\* but then not past the limit.
PutDelta(p) ==
  /\ push[p].pc = "received"
  /\ IF Delta(p) # {} /\ PacksBefore(p) >= MaxPacks
     THEN push' = [push EXCEPT ![p] = Idle] /\ UNCHANGED packs
     ELSE Uploads(p, Delta(p), ParentOf(p).packs \cup Delta(p))
  /\ UNCHANGED <<mans, pointer, past, acked, events, pushes, errors>>

PutManifest(p) ==
  /\ push[p].pc = "packed"
  /\ mans' = mans \cup {push[p].m} /\ push' = [push EXCEPT ![p].pc = "staged"]
  /\ UNCHANGED <<packs, pointer, past, acked, events, pushes, errors>>

\* Mutant of Unmoved: an update is conditional only on the pointer's existence.
UnmovedOrPresent(p) == (pointer = None) <=> (push[p].parent = None)

\* The precondition of put_pointer: If-Match, or If-None-Match: * for a first push.
Unmoved(p) == pointer = push[p].parent

Swing(p) == pointer' = push[p].m /\ past' = Append(past, push[p].m)

\* put_pointer: won, or lost to another push, which is answered with a conflict.
CasPointer(p) ==
  /\ push[p].pc = "staged"
  /\ IF Unmoved(p) THEN Swing(p) /\ push' = [push EXCEPT ![p].pc = "won"]
     ELSE UNCHANGED <<pointer, past>> /\ push' = [push EXCEPT ![p] = Idle]
  /\ UNCHANGED <<packs, mans, acked, events, pushes, errors>>

\* The answer of the store is lost; the write may have been made.
CasPointerErrs(p) ==
  /\ push[p].pc = "staged" /\ Error
  /\ Unmoved(p) /\ Swing(p)
  /\ push' = [push EXCEPT ![p] = Idle]
  /\ UNCHANGED <<packs, mans, acked, events, pushes>>

\* The ref-state event if manifest_changed (it may fail to be stored), then the
\* answer.
Finish(p) ==
  /\ push[p].pc = "won"
  /\ \/ events' = (IF push[p].m = push[p].parent THEN events ELSE Append(events, push[p].m)) /\ UNCHANGED errors
     \/ Error /\ UNCHANGED events
  /\ acked' = acked \cup {push[p].m}
  /\ push' = [push EXCEPT ![p] = Idle]
  /\ UNCHANGED <<packs, mans, pointer, past, pushes>>

\* A store call fails, the process dies or the client goes away.
Abort(p) ==
  /\ push[p].pc # "idle" /\ Error
  /\ push' = [push EXCEPT ![p] = Idle]
  /\ UNCHANGED <<packs, mans, pointer, past, acked, events, pushes>>

Next ==
  \E p \in Pusher :
    \/ LoadPointer(p) \/ Materialize(p) \/ ReceivePack(p)
    \/ PutCompacted(p) \/ PutDelta(p) \/ PutManifest(p)
    \/ CasPointer(p) \/ CasPointerErrs(p) \/ Finish(p) \/ Abort(p)

Spec == Init /\ [][Next]_vars

-----------------------------------------------------------------------------
(* Properties *)

\* Whatever the pointer has ever named can be cloned: its manifest and packs are
\* in the store and the packs hold all objects its refs reach, whichever mix of
\* delta pushes and compactions led to it.
PublishedIsReadable == \A i \in 1..Len(past) : Readable(past[i])

\* No update is lost: the manifests the pointer has named are one chain, none of
\* them twice, and every push answered with success and every ref-state event is
\* about one of them, however pushes, lost answers and crashes interleave.
AckedIsKept ==
  /\ \A i \in 1..Len(past) : past[i].parent = IF i = 1 THEN None ELSE past[i - 1]
  /\ \A i, j \in 1..Len(past) : past[i] = past[j] => i = j
  /\ acked \cup Range(events) \subseteq Range(past)

\* A repository with a branch has a head that names one: a clone checks it out.
HeadIsPublished ==
  \A i \in 1..Len(past) : Published(past[i].refs) # {} => past[i].head \in Published(past[i].refs)

=============================================================================
