-------------------------- MODULE MCReviewSessions --------------------------
(***************************************************************************)
(* ReviewSessions for TLC: two texts with a flag ID in common, as a flag's *)
(* ID does not name its text, and a plugin that finds more in one of them. *)
(***************************************************************************)
EXTENDS ReviewSessions, TLC

CONSTANTS c1, c2, h, t1, t2, i1, i2

TextFinds   == t1 :> {i1} @@ t2 :> {i1}
PluginFinds == t1 :> {i2} @@ t2 :> {}
Symmetry == Permutations({c1, c2})
=============================================================================
