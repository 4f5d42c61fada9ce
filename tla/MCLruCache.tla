----------------------------- MODULE MCLruCache -----------------------------
(***************************************************************************)
(* LruCache for TLC: three keys over two configurations, so that a cache   *)
(* of two must evict and an invalidation spares a key.                     *)
(***************************************************************************)
EXTENDS LruCache, TLC

CONSTANTS t1, t2, c1, c2, a1, a2

Symmetry == Permutations({t1, t2}) \cup Permutations({a1, a2})
=============================================================================
