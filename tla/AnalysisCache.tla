--------------------------- MODULE AnalysisCache ----------------------------
(***************************************************************************)
(* What ports.CacheRepository promises its one user, AnalyzeTextUseCase,   *)
(* whatever the implementation does inside: a cache may forget anything at *)
(* any time, but it holds at most Capacity analyses, it answers only with  *)
(* the analysis last stored under the very same pair of hashes, and never  *)
(* with one stored longer ago than Lifetime.                               *)
(***************************************************************************)
EXTENDS Integers, FiniteSets

CONSTANTS Key,          \* pairs of a text hash and a configuration hash
          Analysis,     \* what is stored
          NoAnalysis,   \* the answer ErrCacheMiss
          Capacity,     \* how many analyses at most
          Lifetime      \* how long one may be served

VARIABLES stored,       \* key -> [value, expiresAt], for the keys held
          now,          \* the clock
          reply         \* what the last call was, and what it returned

Remembering(K) == [k \in DOMAIN stored \cap K |-> stored[k]]

Put(k, a) ==
  /\ \E kept \in SUBSET DOMAIN stored :
       /\ Cardinality(kept \cup {k}) <= Capacity
       /\ stored' = [j \in kept \cup {k} |->
                       IF j = k
                       THEN [value |-> a, expiresAt |-> now + Lifetime]
                       ELSE stored[j]]
  /\ reply' = [op |-> "set", key |-> k, value |-> a]
  /\ UNCHANGED now

Answer(k) ==
  /\ \E kept \in SUBSET DOMAIN stored : stored' = Remembering(kept)
  /\ \/ reply' = [op |-> "get", key |-> k, value |-> NoAnalysis]
     \/ /\ k \in DOMAIN stored
        /\ now <= stored[k].expiresAt
        /\ reply' = [op |-> "get", key |-> k, value |-> stored[k].value]
  /\ UNCHANGED now

Forget ==
  /\ \E kept \in SUBSET DOMAIN stored : stored' = Remembering(kept)
  /\ reply'.op \notin {"get", "set"}
  /\ UNCHANGED now

Pass == now' = now + 1 /\ UNCHANGED <<stored, reply>>

Init == stored = << >> /\ now = 0 /\ reply = [op |-> "none"]

Next == \/ \E k \in Key : Answer(k) \/ \E a \in Analysis : Put(k, a)
        \/ Forget
        \/ Pass

Spec == Init /\ [][Next]_<<stored, now, reply>>
=============================================================================
