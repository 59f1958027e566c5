----------------------------- MODULE MCServices -----------------------------
(* Services for TLC: the constants that are functions.                     *)
EXTENDS Services, TLC

\* c2 is a commit on top of c1.
History == ("c1" :> {"c1"}) @@ ("c2" :> {"c1", "c2"})

\* Two announcements of one owner, one of another.
Signers == ("a1" :> "alice") @@ ("a2" :> "alice") @@ ("a3" :> "bob")

=============================================================================
