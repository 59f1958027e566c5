-------------------------- MODULE GitPublishProofs --------------------------
(***************************************************************************)
(* Theorems about GitPublish: for every repository, every number of        *)
(* concurrent pushes and every limit on packs, what the pointer has named  *)
(* is one chain of complete manifests, whatever fails in between.          *)
(***************************************************************************)
EXTENDS GitPublish, SequenceTheorems, TLAPS

\* An absent parent (Option::None in ParentState) is not a manifest.
NoneIsNoManifest ==
  \A h, r, k, q : None # [head |-> h, refs |-> r, packs |-> k, parent |-> q]

-----------------------------------------------------------------------------
(* The inductive invariant.                                                *)

\* A manifest that may be published: complete, with a head that can be checked out.
Sound(m) ==
  /\ m # None
  /\ m.packs \subseteq packs /\ Closure(m.refs) \subseteq UNION m.packs
  /\ Published(m.refs) # {} => m.head \in Published(m.refs)

\* What a push knows at each of its steps.  The parent has been read back in full
\* before git runs; the manifest composed from it is sound and names it.
Holds(r) ==
  /\ r.pc \in {"ready", "received", "packed", "staged", "won"}
       => r.parent = None \/ Readable(r.parent)
  /\ r.pc \in {"packed", "staged", "won"} => Sound(r.m) /\ r.m.parent = r.parent
  /\ r.pc \in {"staged", "won"} => r.m \in mans
  /\ r.pc = "won" => r.m \in Range(past)

PushFields == {"pc", "parent", "refs", "m"}

Pushes ==
  /\ DOMAIN push = Pusher
  /\ \A p \in Pusher : DOMAIN push[p] = PushFields /\ Holds(push[p])

\* The pointer is the last manifest it has named, and all of those are sound.
Named ==
  /\ None \notin mans
  /\ past \in Seq(mans)
  /\ pointer = IF past = <<>> THEN None ELSE past[Len(past)]
  /\ \A i \in 1..Len(past) : Sound(past[i])

Chained ==
  /\ \A i \in 1..Len(past) : past[i].parent = IF i = 1 THEN None ELSE past[i - 1]
  /\ \A i, j \in 1..Len(past) : past[i] = past[j] => i = j

Reported == events \in Seq(mans) /\ acked \cup Range(events) \subseteq Range(past)

Inv == Pushes /\ Named /\ Chained /\ Reported

-----------------------------------------------------------------------------
(* The operators.                                                          *)

\* resolve_published_head finds a branch whenever there is one.
LEMMA PublishedHeadIsPublished ==
  ASSUME NEW refs, NEW head, Published(refs) # {}
  PROVE  PublishedHead(refs, head) \in Published(refs)
  BY DEF PublishedHead

\* A repository without branches needs no objects.
LEMMA EmptyClosure ==
  ASSUME NEW refs, Published(refs) = {}
  PROVE  Closure(refs) = {}
  BY DEF Closure

\* The manifest of a repository that was never pushed to is complete.
LEMMA FreshIsSound ==
  ASSUME NoneIsNoManifest
  PROVE  Sound(Fresh) /\ Fresh.parent = None /\ Closure(Fresh.refs) = {} /\ Fresh.packs = {}
  <1>1. Published(NoRefs) = {}
    BY DEF Published, NoRefs
  <1>2. Closure(NoRefs) = {}
    BY <1>1, EmptyClosure
  <1>3. Fresh # None
    BY DEF Fresh, NoneIsNoManifest
  <1>4. Fresh.refs = NoRefs /\ Fresh.packs = {} /\ Fresh.parent = None
    BY DEF Fresh
  <1>5. QED
    BY <1>1, <1>2, <1>3, <1>4 DEF Sound

\* A sequence over a set is one over every larger set.
LEMMA SeqGrows ==
  ASSUME NEW S, NEW T, S \subseteq T, NEW s \in Seq(S)
  PROVE  s \in Seq(T)
  OBVIOUS

\* What Append does to the elements of a sequence.
LEMMA AppendRange ==
  ASSUME NEW S, NEW s \in Seq(S), NEW e \in S
  PROVE  /\ Append(s, e) \in Seq(S) /\ Append(s, e) # <<>>
         /\ Len(Append(s, e)) = Len(s) + 1 /\ Append(s, e)[Len(s) + 1] = e
         /\ \A i \in 1..Len(s) : Append(s, e)[i] = s[i]
         /\ Range(Append(s, e)) = Range(s) \cup {e}
  <1>1. /\ Append(s, e) \in Seq(S) /\ Append(s, e) # <<>>
        /\ Len(Append(s, e)) = Len(s) + 1 /\ Append(s, e)[Len(s) + 1] = e
        /\ \A i \in 1..Len(s) : Append(s, e)[i] = s[i]
    BY AppendProperties
  <1>2. DOMAIN s = 1..Len(s) /\ DOMAIN Append(s, e) = 1..(Len(s) + 1) /\ Len(s) \in Nat
    BY <1>1
  <1>3. QED
    BY <1>1, <1>2 DEF Range

-----------------------------------------------------------------------------
(* The store only grows, so what was complete stays complete.              *)

Grows == packs \subseteq packs' /\ mans \subseteq mans' /\ Range(past) \subseteq Range(past)'

\* What a push holds stays sound while packs, manifests and history only grow.
LEMMA GrowsKeepsHolds ==
  ASSUME Grows, NEW r, Holds(r)
  PROVE  Holds(r)'
  BY DEF Grows, Holds, Sound, Readable

\* A step of one push: the others keep what they hold.
LEMMA OnePush ==
  ASSUME Pushes, Grows, NEW p \in Pusher,
         DOMAIN push' = Pusher, \A q \in Pusher \ {p} : push'[q] = push[q],
         DOMAIN push'[p] = PushFields, Holds(push[p])'
  PROVE  Pushes'
  <1>1. ASSUME NEW q \in Pusher \ {p}
        PROVE  DOMAIN push'[q] = PushFields /\ Holds(push[q])'
    <2>1. \A r : Holds(r) => Holds(r)'
      BY GrowsKeepsHolds
    <2>2. QED
      BY <2>1 DEF Pushes, Holds, Sound, Readable
  <1>2. QED
    BY <1>1 DEF Pushes

\* A push that is given up holds nothing.
LEMMA IdleHolds == DOMAIN Idle = PushFields /\ Holds(Idle)'
  BY DEF Idle, Holds, PushFields

\* The conjuncts about the pointer hold as long as it is not moved.
LEMMA NamedKept ==
  ASSUME Named, Grows, None \notin mans', UNCHANGED <<pointer, past>>
  PROVE  Named'
  <1>1. past' \in Seq(mans')
    BY SeqGrows DEF Named, Grows
  <1>2. ASSUME NEW i \in 1..Len(past')
        PROVE  Sound(past[i])'
    BY <1>2 DEF Named, Grows, Sound
  <1>3. QED
    BY <1>1, <1>2 DEF Named

\* What was reported stays true while packs, manifests and history only grow.
LEMMA ReportedKept ==
  ASSUME Reported, Grows, UNCHANGED <<events, acked>>
  PROVE  Reported'
  <1>1. events' \in Seq(mans')
    BY SeqGrows DEF Reported, Grows
  <1>2. QED
    BY <1>1 DEF Reported, Grows

-----------------------------------------------------------------------------
(* The actions.                                                            *)

\* The parts of the invariant that are not about the pushes survive a step that
\* leaves the pointer and the answers alone and stores manifests only.
LEMMA QuietStep ==
  ASSUME Inv, Pushes', packs \subseteq packs', mans \subseteq mans', None \notin mans',
         UNCHANGED <<pointer, past, events, acked>>
  PROVE  Inv'
  <1>1. Grows
    BY DEF Grows
  <1>2. Chained'
    BY DEF Inv, Chained
  <1>3. QED
    BY <1>1, <1>2, NamedKept, ReportedKept DEF Inv

\* A push that reads the pointer remembers a published manifest, or none.
LEMMA LoadPointerInv ==
  ASSUME Inv, NEW p \in Pusher, LoadPointer(p)
  PROVE  Inv'
  <1>1. /\ DOMAIN push' = Pusher /\ \A q \in Pusher \ {p} : push'[q] = push[q]
        /\ DOMAIN push'[p] = PushFields /\ push'[p].pc = "load"
    BY DEF LoadPointer, Inv, Pushes, PushFields
  <1>2. Holds(push[p])'
    BY <1>1 DEF Holds
  <1>3. Pushes'
    BY <1>1, <1>2, OnePush DEF Inv, Grows, LoadPointer
  <1>4. QED
    BY <1>3, QuietStep DEF LoadPointer, Inv, Named

\* A workspace is filled from a readable manifest, else the push ends.
LEMMA MaterializeInv ==
  ASSUME Inv, NEW p \in Pusher, Materialize(p)
  PROVE  Inv'
  <1>1. DOMAIN push' = Pusher /\ \A q \in Pusher \ {p} : push'[q] = push[q]
    BY DEF Materialize, Inv, Pushes
  <1>2. UNCHANGED <<packs, mans, pointer, past, acked, events>>
    BY DEF Materialize
  <1>3. DOMAIN push'[p] = PushFields /\ Holds(push[p])'
    <2>1. CASE push[p].parent = None \/ Readable(push[p].parent)
      <3>1. push'[p] = [push[p] EXCEPT !.pc = "ready"]
        BY <2>1 DEF Materialize, Inv, Pushes
      <3>2. push'[p].pc = "ready" /\ push'[p].parent = push[p].parent /\ DOMAIN push'[p] = PushFields
        BY <3>1 DEF Inv, Pushes, PushFields
      <3>3. QED
        BY <1>2, <2>1, <3>2 DEF Holds, Readable
    <2>2. CASE ~(push[p].parent = None \/ Readable(push[p].parent))
      <3>1. push'[p] = Idle
        BY <2>2 DEF Materialize, Inv, Pushes
      <3>2. QED
        BY <3>1, IdleHolds DEF Holds, Idle
    <2>3. QED
      BY <2>1, <2>2
  <1>4. Pushes'
    BY <1>1, <1>2, <1>3, OnePush DEF Inv, Grows
  <1>5. QED
    BY <1>2, <1>4, QuietStep DEF Inv, Named

\* A push that ends without publishing.
LEMMA GiveUp ==
  ASSUME Pushes, Grows, NEW p \in Pusher, push' = [push EXCEPT ![p] = Idle]
  PROVE  Pushes'
  <1>1. DOMAIN push' = Pusher /\ (\A q \in Pusher \ {p} : push'[q] = push[q]) /\ push'[p] = Idle
    BY DEF Pushes
  <1>2. DOMAIN push'[p] = PushFields /\ Holds(push[p])'
    BY <1>1, IdleHolds DEF Holds, Idle
  <1>3. QED
    BY <1>1, <1>2, OnePush

\* git receive-pack sets the refs of a push, or ends it without a publication.
LEMMA ReceivePackInv ==
  ASSUME Inv, NEW p \in Pusher, ReceivePack(p)
  PROVE  Inv'
  <1>1. UNCHANGED <<packs, mans, pointer, past, acked, events>> /\ Grows
    BY DEF ReceivePack, Grows
  <1>2. Pushes'
    <2>1. CASE push' = [push EXCEPT ![p] = Idle]
      BY <1>1, <2>1, GiveUp DEF Inv
    <2>2. ASSUME NEW refs \in [Branch -> Commit \cup {None}],
                 push' = [push EXCEPT ![p].pc = "received", ![p].refs = refs]
          PROVE  Pushes'
      <3>1. /\ DOMAIN push' = Pusher /\ \A q \in Pusher \ {p} : push'[q] = push[q]
            /\ DOMAIN push'[p] = PushFields /\ push'[p].pc = "received"
            /\ push'[p].parent = push[p].parent
        BY <2>2 DEF Inv, Pushes, PushFields
      <3>2. Holds(push[p])'
        BY <1>1, <3>1 DEF Inv, Pushes, Holds, Readable, ReceivePack
      <3>3. QED
        BY <1>1, <3>1, <3>2, OnePush DEF Inv
    <2>3. QED
      BY <2>1, <2>2 DEF ReceivePack
  <1>3. QED
    BY <1>1, <1>2, QuietStep DEF Inv, Named

\* A push that gives up forgets what it held, and nothing else.
LEMMA AbortInv ==
  ASSUME Inv, NEW p \in Pusher, Abort(p)
  PROVE  Inv'
  <1>1. UNCHANGED <<packs, mans, pointer, past, acked, events>> /\ Grows
    BY DEF Abort, Grows
  <1>2. Pushes'
    BY <1>1, GiveUp DEF Inv, Abort
  <1>3. QED
    BY <1>1, <1>2, QuietStep DEF Inv, Named

-----------------------------------------------------------------------------
(* Uploads.                                                                *)

\* Whatever keys are uploaded: if together with the packs in the store they hold
\* what the new refs reach, the push ends up with a sound manifest, or gives up.
LEMMA UploadsInv ==
  ASSUME NoneIsNoManifest, Inv, NEW p \in Pusher, push[p].pc = "received",
         NEW new, NEW keys, Uploads(p, new, keys),
         keys \subseteq packs \cup new, Closure(push[p].refs) \subseteq UNION keys,
         UNCHANGED <<mans, pointer, past, acked, events>>
  PROVE  Inv'
  <1>1. Grows
    BY DEF Grows, Uploads
  <1>2. Pushes'
    <2>1. CASE Cardinality(keys) <= MaxPacks
      <3>0. PICK m : m = Composed(p, keys)
        OBVIOUS
      <3>1. /\ m.parent = push[p].parent /\ m.refs = push[p].refs /\ m.packs = keys
            /\ m.head = PublishedHead(push[p].refs, ParentOf(p).head) /\ m # None
        BY <3>0 DEF Composed, NoneIsNoManifest
      <3>2. /\ DOMAIN push' = Pusher /\ \A q \in Pusher \ {p} : push'[q] = push[q]
            /\ push'[p] = [push[p] EXCEPT !.pc = "packed", !.m = m]
        BY <2>1, <3>0 DEF Uploads, Inv, Pushes
      <3>3. /\ DOMAIN push'[p] = PushFields /\ push'[p].pc = "packed"
            /\ push'[p].parent = push[p].parent /\ push'[p].m = m
        BY <3>2 DEF Inv, Pushes, PushFields
      <3>4. Sound(m)'
        BY <3>1, PublishedHeadIsPublished DEF Uploads, Sound, Published, Closure
      <3>5. push'[p].parent = None \/ Readable(push[p].parent)'
        BY <1>1, <3>3 DEF Inv, Pushes, Holds, Readable, Grows
      <3>6. Holds(push[p])'
        BY <3>1, <3>3, <3>4, <3>5 DEF Holds, Sound, Readable
      <3>7. QED
        BY <1>1, <3>2, <3>3, <3>6, OnePush DEF Inv
    <2>2. CASE ~(Cardinality(keys) <= MaxPacks)
      <3>1. push' = [push EXCEPT ![p] = Idle]
        BY <2>2 DEF Uploads
      <3>2. QED
        BY <1>1, <3>1, GiveUp DEF Inv
    <2>3. QED
      BY <2>1, <2>2
  <1>3. QED
    BY <1>1, <1>2, QuietStep DEF Inv, Named, Grows

\* A compaction stands by itself.
LEMMA PutCompactedInv ==
  ASSUME NoneIsNoManifest, Inv, NEW p \in Pusher, PutCompacted(p)
  PROVE  Inv'
  <1>1. Closure(push[p].refs) \subseteq UNION Compacted(p)
    BY EmptyClosure DEF Compacted
  <1>2. QED
    BY <1>1, UploadsInv DEF PutCompacted

\* A delta needs the parent's packs, which were readable when git ran.
LEMMA PutDeltaInv ==
  ASSUME NoneIsNoManifest, Inv, NEW p \in Pusher, PutDelta(p)
  PROVE  Inv'
  <1>1. ParentOf(p).packs \subseteq packs /\ Closure(ParentOf(p).refs) \subseteq UNION ParentOf(p).packs
    BY FreshIsSound DEF PutDelta, Inv, Pushes, Holds, Readable, ParentOf
  <1>2. CASE Delta(p) # {} /\ PacksBefore(p) >= MaxPacks
    <2>1. UNCHANGED <<packs, mans, pointer, past, acked, events>> /\ Grows
      BY <1>2 DEF PutDelta, Grows
    <2>2. Pushes'
      BY <1>2, <2>1, GiveUp DEF PutDelta, Inv
    <2>3. QED
      BY <2>1, <2>2, QuietStep DEF Inv, Named
  <1>3. CASE ~(Delta(p) # {} /\ PacksBefore(p) >= MaxPacks)
    <2> DEFINE keys == ParentOf(p).packs \cup Delta(p)
    <2>1. Closure(push[p].refs) \subseteq UNION keys
      <3>1. CASE Published(push[p].refs) = {}
        BY <3>1, EmptyClosure
      <3>2. CASE Published(push[p].refs) # {}
        <4>1. Delta(p) = {Closure(push[p].refs) \ Closure(ParentOf(p).refs)}
          BY <3>2 DEF Delta
        <4>2. QED
          BY <1>1, <4>1
      <3>3. QED
        BY <3>1, <3>2
    <2>2. keys \subseteq packs \cup Delta(p)
      BY <1>1
    <2>3. Uploads(p, Delta(p), keys) /\ push[p].pc = "received"
      BY <1>3 DEF PutDelta
    <2>4. UNCHANGED <<mans, pointer, past, acked, events>>
      BY DEF PutDelta
    <2> HIDE DEF keys
    <2>5. QED
      BY <2>1, <2>2, <2>3, <2>4, UploadsInv
  <1>4. QED
    BY <1>2, <1>3

\* A manifest is stored only after every pack it names.
LEMMA PutManifestInv ==
  ASSUME Inv, NEW p \in Pusher, PutManifest(p)
  PROVE  Inv'
  <1>1. /\ mans' = mans \cup {push[p].m} /\ Grows
        /\ UNCHANGED <<packs, pointer, past, acked, events>>
    BY DEF PutManifest, Grows
  <1>2. Sound(push[p].m) /\ Holds(push[p])
    BY DEF PutManifest, Inv, Pushes, Holds
  <1>3. /\ DOMAIN push' = Pusher /\ \A q \in Pusher \ {p} : push'[q] = push[q]
        /\ DOMAIN push'[p] = PushFields /\ push'[p].pc = "staged"
        /\ push'[p].parent = push[p].parent /\ push'[p].m = push[p].m
    BY DEF PutManifest, Inv, Pushes, PushFields
  <1>4. Holds(push[p])'
    BY <1>1, <1>2, <1>3 DEF Holds, PutManifest, Readable, Sound
  <1>5. Pushes'
    BY <1>1, <1>3, <1>4, OnePush DEF Inv
  <1>6. QED
    BY <1>1, <1>2, <1>5, QuietStep DEF Inv, Named, Sound

-----------------------------------------------------------------------------
(* The compare and swap.                                                   *)

\* A swing whose expected value was read by the push that makes it extends the chain:
\* the manifest names the pointer as its parent, so it is none of the earlier ones.
LEMMA SwingExtends ==
  ASSUME Inv, NEW p \in Pusher, push[p].pc = "staged", Unmoved(p), Swing(p),
         UNCHANGED <<packs, mans, acked, events>>
  PROVE  Named' /\ Chained' /\ Reported' /\ Grows /\ push[p].m \in Range(past)'
  <1> DEFINE m == push[p].m
  <1>1. m \in mans /\ Sound(m) /\ m.parent = pointer
    BY DEF Inv, Pushes, Holds, Unmoved
  <1>2. past \in Seq(mans) /\ Len(past) \in Nat /\ past' = Append(past, m) /\ pointer' = m
    BY DEF Inv, Named, Swing
  <1>3. /\ past' \in Seq(mans) /\ past' # <<>>
        /\ Len(past') = Len(past) + 1 /\ past'[Len(past) + 1] = m
        /\ \A i \in 1..Len(past) : past'[i] = past[i]
        /\ Range(past)' = Range(past) \cup {m}
    BY <1>1, <1>2, AppendRange
  <1>4. \A i \in 1..Len(past) : past[i] # m
    <2> SUFFICES ASSUME NEW i \in 1..Len(past), past[i] = m
                 PROVE  FALSE
      OBVIOUS
    <2>1. past # <<>> /\ pointer = past[Len(past)] /\ past[Len(past)] \in mans
      BY <1>2 DEF Inv, Named
    <2>2. past[i].parent = past[Len(past)]
      BY <1>1, <2>1
    <2>3. past[Len(past)] # None
      BY <2>1 DEF Inv, Named
    <2>4. i # 1 /\ past[i - 1] = past[Len(past)]
      BY <2>2, <2>3 DEF Inv, Chained
    <2>5. i - 1 = Len(past)
      BY <1>2, <2>4 DEF Inv, Chained
    <2>6. QED
      BY <1>2, <2>5
  <1>5. m.parent = IF Len(past) = 0 THEN None ELSE past[Len(past)]
    BY <1>1, <1>2, EmptySeq DEF Inv, Named
  <1> HIDE DEF m
  <1>6. Named'
    <2>1. \A i \in 1..Len(past') : Sound(past'[i])
      BY <1>1, <1>2, <1>3 DEF Inv, Named
    <2>2. \A i \in 1..Len(past') : Sound(past[i])'
      BY <2>1 DEF Sound
    <2>3. QED
      BY <1>2, <1>3, <2>2 DEF Inv, Named
  <1>7. Chained'
    <2>1. \A i \in 1..Len(past') : past'[i].parent = IF i = 1 THEN None ELSE past'[i - 1]
      BY <1>2, <1>3, <1>5 DEF Inv, Chained
    <2>2. \A i, j \in 1..Len(past') : past'[i] = past'[j] => i = j
      BY <1>2, <1>3, <1>4 DEF Inv, Chained
    <2>3. QED
      BY <2>1, <2>2 DEF Chained
  <1>8. Reported' /\ Grows
    BY <1>3 DEF Inv, Reported, Grows
  <1>9. QED
    BY <1>3, <1>6, <1>7, <1>8 DEF m

\* The pointer moves to a stored manifest that extends the one the push read.
LEMMA CasPointerInv ==
  ASSUME Inv, NEW p \in Pusher, CasPointer(p)
  PROVE  Inv'
  <1>1. UNCHANGED <<packs, mans, acked, events>> /\ push[p].pc = "staged"
    BY DEF CasPointer
  <1>2. CASE Unmoved(p)
    <2>1. Named' /\ Chained' /\ Reported' /\ Grows /\ push[p].m \in Range(past)'
      BY <1>1, <1>2, SwingExtends DEF CasPointer
    <2>2. /\ DOMAIN push' = Pusher /\ \A q \in Pusher \ {p} : push'[q] = push[q]
          /\ DOMAIN push'[p] = PushFields /\ push'[p].pc = "won"
          /\ push'[p].parent = push[p].parent /\ push'[p].m = push[p].m
      BY <1>2 DEF CasPointer, Inv, Pushes, PushFields
    <2>3. Holds(push[p])
      BY DEF Inv, Pushes
    <2>4. Holds(push[p])'
      BY <1>1, <2>1, <2>2, <2>3 DEF Holds, Sound, Readable
    <2>5. Pushes'
      BY <2>1, <2>2, <2>4, OnePush DEF Inv
    <2>6. QED
      BY <2>1, <2>5 DEF Inv
  <1>3. CASE ~Unmoved(p)
    <2>1. UNCHANGED <<pointer, past>> /\ push' = [push EXCEPT ![p] = Idle] /\ Grows
      BY <1>1, <1>3 DEF CasPointer, Grows
    <2>2. Pushes'
      BY <2>1, GiveUp DEF Inv
    <2>3. QED
      BY <1>1, <2>1, <2>2, QuietStep DEF Inv, Named
  <1>4. QED
    BY <1>2, <1>3

\* A swing whose answer is lost is still one from the manifest the push read.
LEMMA CasPointerErrsInv ==
  ASSUME Inv, NEW p \in Pusher, CasPointerErrs(p)
  PROVE  Inv'
  <1>1. Named' /\ Chained' /\ Reported' /\ Grows
    BY SwingExtends DEF CasPointerErrs
  <1>2. Pushes'
    BY <1>1, GiveUp DEF CasPointerErrs, Inv
  <1>3. QED
    BY <1>1, <1>2 DEF Inv

\* Only a push that has swung the pointer is announced or answered with success.
LEMMA FinishInv ==
  ASSUME Inv, NEW p \in Pusher, Finish(p)
  PROVE  Inv'
  <1>1. UNCHANGED <<packs, mans, pointer, past>> /\ Grows
    BY DEF Finish, Grows
  <1>2. push[p].m \in mans /\ push[p].m \in Range(past)
    BY DEF Finish, Inv, Pushes, Holds
  <1>3. Pushes'
    BY <1>1, GiveUp DEF Finish, Inv
  <1>4. Named'
    BY <1>1, NamedKept DEF Inv, Named
  <1>5. Chained'
    BY <1>1 DEF Inv, Chained
  <1>6. events' = events \/ events' = Append(events, push[p].m)
    BY DEF Finish
  <1>7. events' \in Seq(mans) /\ Range(events)' \subseteq Range(events) \cup {push[p].m}
    <2>1. CASE events' = events
      BY <2>1 DEF Inv, Reported
    <2>2. CASE events' = Append(events, push[p].m)
      BY <1>2, <2>2, AppendRange DEF Inv, Reported
    <2>3. QED
      BY <1>6, <2>1, <2>2
  <1>8. acked' = acked \cup {push[p].m}
    BY DEF Finish
  <1>9. Reported'
    BY <1>1, <1>2, <1>7, <1>8 DEF Inv, Reported
  <1>10. QED
    BY <1>3, <1>4, <1>5, <1>9 DEF Inv

-----------------------------------------------------------------------------
(* The theorem.                                                            *)

\* A repository without a pointer, and an announced one, satisfy the invariant.
LEMMA InitInv ==
  ASSUME NoneIsNoManifest, Init
  PROVE  Inv
  <1>1. Pushes
    <2>1. DOMAIN push = Pusher /\ \A p \in Pusher : push[p] = Idle
      BY DEF Init
    <2>2. DOMAIN Idle = PushFields /\ Holds(Idle)
      BY DEF Idle, PushFields, Holds
    <2>3. QED
      BY <2>1, <2>2 DEF Pushes
  <1>2. Named /\ Chained
    <2>1. CASE mans = {} /\ pointer = None /\ past = <<>>
      BY <2>1 DEF Named, Chained
    <2>2. CASE mans = {Fresh} /\ pointer = Fresh /\ past = <<Fresh>>
      <3>1. Sound(Fresh) /\ Fresh.parent = None /\ Fresh # None
        BY FreshIsSound DEF Sound
      <3>2. past \in Seq(mans) /\ Len(past) = 1 /\ past[1] = Fresh /\ past # <<>>
        BY <2>2
      <3>3. QED
        BY <2>2, <3>1, <3>2 DEF Named, Chained
    <2>3. QED
      BY <2>1, <2>2 DEF Init
  <1>3. Reported
    BY DEF Init, Reported, Range
  <1>4. QED
    BY <1>1, <1>2, <1>3 DEF Inv

\* Every step of every push preserves the inductive invariant.
LEMMA NextInv ==
  ASSUME NoneIsNoManifest, Inv, [Next]_vars
  PROVE  Inv'
  <1>1. CASE UNCHANGED vars
    BY <1>1 DEF vars, Inv, Pushes, Named, Chained, Reported, Holds, Sound, Readable
  <1>2. ASSUME NEW p \in Pusher,
               \/ LoadPointer(p) \/ Materialize(p) \/ ReceivePack(p)
               \/ PutCompacted(p) \/ PutDelta(p) \/ PutManifest(p)
               \/ CasPointer(p) \/ CasPointerErrs(p) \/ Finish(p) \/ Abort(p)
        PROVE  Inv'
    BY <1>2, LoadPointerInv, MaterializeInv, ReceivePackInv, PutCompactedInv, PutDeltaInv,
       PutManifestInv, CasPointerInv, CasPointerErrsInv, FinishInv, AbortInv
  <1>3. QED
    BY <1>1, <1>2 DEF Next

\* What the pointer has named is readable, is one chain that holds every answered
\* push, and has a head that can be checked out.
LEMMA InvIsEnough ==
  ASSUME Inv
  PROVE  PublishedIsReadable /\ AckedIsKept /\ HeadIsPublished
  <1>1. \A i \in 1..Len(past) : past[i] \in mans /\ Sound(past[i])
    BY DEF Inv, Named
  <1>2. QED
    BY <1>1 DEF Inv, Chained, Reported, PublishedIsReadable, AckedIsKept, HeadIsPublished,
         Sound, Readable

\* Whatever interleaving of pushes, compactions, lost answers and aborts: a published
\* manifest is readable, an acknowledged push stays in the chain of manifests, and the
\* head of a repository with a branch names one.
THEOREM Safety ==
  ASSUME NoneIsNoManifest
  PROVE  Spec => [](PublishedIsReadable /\ AckedIsKept /\ HeadIsPublished)
  <1>1. Init => Inv
    BY InitInv
  <1>2. Inv /\ [Next]_vars => Inv'
    BY NextInv
  <1>3. Inv => PublishedIsReadable /\ AckedIsKept /\ HeadIsPublished
    BY InvIsEnough
  <1>4. QED
    BY <1>1, <1>2, <1>3, PTL DEF Spec

=============================================================================
