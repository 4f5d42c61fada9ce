------------------------------ MODULE LruCache ------------------------------
(***************************************************************************)
(* The analysis cache of internal/infra/cache/lru_cache.go: a map from     *)
(* hash pairs to list elements, a container/list in order of use, and a    *)
(* goroutine that sweeps out what has expired.  Every operation holds      *)
(* c.mu from its first line to its last, so each is one action.            *)
(*                                                                         *)
(* The list is its set of elements, named by their keys, and the relation  *)
(* "stands in front of": PushFront, MoveToFront, Remove and Back are the   *)
(* set operations below.  The clock counts minutes.                        *)
(***************************************************************************)
EXTENDS Integers, FiniteSets

CONSTANTS TextHash, ConfigHash,   \* the two halves of a cacheKey
          Analysis, NoAnalysis,   \* *model.Analysis and ErrCacheMiss
          SizeOption, TtlOption,  \* the arguments of NewLRUCache
          MaxNow, MaxUses         \* bounds on the clock and on the calls

ASSUME OptionsAssumption == SizeOption \in Int /\ TtlOption \in Int
ASSUME BoundsAssumption == MaxNow \in Nat /\ MaxUses \in Nat
ASSUME AnalysisAssumption == NoAnalysis \notin Analysis

cacheKey == TextHash \X ConfigHash

maxSize == IF SizeOption <= 0 THEN 1000 ELSE SizeOption
ttl     == IF TtlOption <= 0 THEN 5 ELSE TtlOption

VARIABLES items,      \* c.items: key -> cacheEntry
          listed,     \* the keys of the elements of c.order
          ahead,      \* <<a, b>>: a's element is nearer the front than b's
          now,        \* time.Now()
          nextTick,   \* when cleanLoop's ticker fires next
          sweeping,   \* cleanLoop has not been told to stop
          reply,      \* the last call and its result
          uses, usedAt \* ghosts: calls so far; the last use of each key

list == <<listed, ahead>>
vars == <<items, listed, ahead, now, nextTick, sweeping, reply, uses, usedAt>>

cacheEntry == [value : Analysis, expiresAt : Nat]

-----------------------------------------------------------------------------
\* container/list

Among(R, K) == R \cap (K \X K)

MoveToFront(k) ==
  /\ ahead' = Among(ahead, listed \ {k}) \cup ({k} \X (listed \ {k}))
  /\ UNCHANGED listed

PushFrontKeeping(k, K) ==
  /\ listed' = K \cup {k}
  /\ ahead' = Among(ahead, K) \cup ({k} \X K)

Remove(K) ==
  /\ listed' = listed \ K
  /\ ahead' = Among(ahead, listed \ K)

\* A slip: Front for Back.
IsFront(k) == k \in listed /\ \A j \in listed \ {k} : <<k, j>> \in ahead

IsBack(k) == k \in listed /\ \A j \in listed \ {k} : <<j, k>> \in ahead

Only(K) == [k \in K |-> items[k]]

Expired(k) == now > items[k].expiresAt

-----------------------------------------------------------------------------

Used(k) ==
  /\ uses < MaxUses
  /\ uses' = uses + 1
  /\ usedAt' = [usedAt EXCEPT ![k] = uses + 1]

GetMiss(k) ==
  /\ k \notin DOMAIN items
  /\ reply' = [op |-> "get", key |-> k, value |-> NoAnalysis]
  /\ UNCHANGED <<items, list, uses, usedAt>>

\* A slip: the entry is deleted from the map only.
GetExpiredFromMap(k) ==
  /\ k \in DOMAIN items /\ Expired(k)
  /\ items' = Only(DOMAIN items \ {k})
  /\ reply' = [op |-> "get", key |-> k, value |-> NoAnalysis]
  /\ UNCHANGED <<list, uses, usedAt>>

GetExpired(k) ==
  /\ k \in DOMAIN items /\ Expired(k)
  /\ Remove({k})
  /\ items' = Only(DOMAIN items \ {k})
  /\ reply' = [op |-> "get", key |-> k, value |-> NoAnalysis]
  /\ UNCHANGED <<uses, usedAt>>

\* A slip: no MoveToFront.
GetHitInPlace(k) ==
  /\ k \in DOMAIN items /\ ~Expired(k)
  /\ reply' = [op |-> "get", key |-> k, value |-> items[k].value]
  /\ Used(k)
  /\ UNCHANGED <<items, list>>

GetHit(k) ==
  /\ k \in DOMAIN items /\ ~Expired(k)
  /\ MoveToFront(k)
  /\ reply' = [op |-> "get", key |-> k, value |-> items[k].value]
  /\ Used(k)
  /\ UNCHANGED items

Get(k) == (GetMiss(k) \/ GetExpired(k) \/ GetHit(k))
          /\ UNCHANGED <<now, nextTick, sweeping>>

Entry(a) == [value |-> a, expiresAt |-> now + ttl]

\* A slip: a stored analysis gets a new lease, but is not replaced.
SetPresentKeepsValue(k, a) ==
  /\ k \in DOMAIN items
  /\ MoveToFront(k)
  /\ items' = [items EXCEPT ![k].expiresAt = now + ttl]

SetPresent(k, a) ==
  /\ k \in DOMAIN items
  /\ MoveToFront(k)
  /\ items' = [items EXCEPT ![k] = Entry(a)]

\* The elements evictOldest leaves: all but Back(), or all of an empty list.
evictOldest(kept) ==
  IF listed = {} THEN kept = {}
  ELSE \E k \in listed : IsBack(k) /\ kept = listed \ {k}

MakeRoom(kept) ==
  IF Cardinality(listed) >= maxSize THEN evictOldest(kept) ELSE kept = listed

SetAbsent(k, a) ==
  /\ k \notin DOMAIN items
  /\ \E kept \in SUBSET listed :
       /\ MakeRoom(kept)
       /\ PushFrontKeeping(k, kept)
       /\ items' = [j \in (DOMAIN items \ (listed \ kept)) \cup {k} |->
                      IF j = k THEN Entry(a) ELSE items[j]]

Set(k, a) ==
  /\ SetPresent(k, a) \/ SetAbsent(k, a)
  /\ reply' = [op |-> "set", key |-> k, value |-> a]
  /\ Used(k)
  /\ UNCHANGED <<now, nextTick, sweeping>>

Invalidate(c) ==
  LET gone == {k \in DOMAIN items : k[2] = c}
  IN /\ Remove(gone)
     /\ items' = Only(DOMAIN items \ gone)
     /\ reply' = [op |-> "invalidate", config |-> c]
     /\ UNCHANGED <<now, nextTick, sweeping, uses, usedAt>>

\* A slip: the lifetime counted from expiresAt again.
evictLongExpired ==
  LET gone == {k \in DOMAIN items : now > items[k].expiresAt + ttl}
  IN Remove(gone) /\ items' = Only(DOMAIN items \ gone)

evictExpired ==
  LET gone == {k \in DOMAIN items : Expired(k)}
  IN Remove(gone) /\ items' = Only(DOMAIN items \ gone)

\* cleanLoop, woken by its ticker.
Sweep ==
  /\ sweeping /\ now >= nextTick
  /\ evictExpired
  /\ nextTick' = nextTick + ttl
  /\ reply' = [op |-> "sweep"]
  /\ UNCHANGED <<now, sweeping, uses, usedAt>>

StopCleanup ==
  /\ sweeping
  /\ sweeping' = FALSE
  /\ UNCHANGED <<items, list, now, nextTick, reply, uses, usedAt>>

\* A minute passes; a ticker that is due is served within its minute.
Minute ==
  /\ now < MaxNow
  /\ sweeping => now < nextTick
  /\ now' = now + 1
  /\ UNCHANGED <<items, list, nextTick, sweeping, reply, uses, usedAt>>

Init ==
  /\ items = << >> /\ listed = {} /\ ahead = {}
  /\ now = 0 /\ nextTick = ttl /\ sweeping = TRUE
  /\ reply = [op |-> "none"]
  /\ uses = 0 /\ usedAt = [k \in cacheKey |-> 0]

Next ==
  \/ \E k \in cacheKey : Get(k) \/ \E a \in Analysis : Set(k, a)
  \/ \E c \in ConfigHash : Invalidate(c)
  \/ Sweep
  \/ StopCleanup
  \/ Minute

Spec == Init /\ [][Next]_vars

-----------------------------------------------------------------------------
\* Every variable has the shape its declaration in LRUCache gives it.
TypeOK ==
  /\ DOMAIN items \subseteq cacheKey
  /\ items \in [DOMAIN items -> cacheEntry]
  /\ listed \subseteq cacheKey /\ ahead \subseteq listed \X listed
  /\ now \in Nat /\ nextTick \in Nat /\ sweeping \in BOOLEAN
  /\ uses \in Nat /\ usedAt \in [cacheKey -> 0 .. uses]

\* The map and the list, which six pieces of code update separately, hold
\* the same keys: no element can outlive its map entry or the reverse.
MapListAgree == listed = DOMAIN items

\* However the operations interleave, at most maxSize analyses are held.
SizeBound == Cardinality(listed) <= maxSize

\* The list is in order of last use: of two elements the one in front was
\* looked up or stored later.  Expiry, invalidation and eviction keep it so.
RecencyOrder ==
  \A j, k \in listed : <<j, k>> \in ahead <=> usedAt[j] > usedAt[k]

\* A key that a call to Set pushes out of the cache is one that no other
\* cached key was used less recently than: eviction never costs the cache
\* an analysis that is in use while it keeps one that is not.
EvictsLeastRecent ==
  [][\A k \in DOMAIN items \ DOMAIN items' :
       reply'.op = "set" =>
         \A j \in DOMAIN items : usedAt[k] <= usedAt[j]]_vars

\* While cleanLoop runs, an expired analysis is gone at most one ttl after
\* it expired, although no one looks it up.
SweptWithinTtl ==
  sweeping => \A k \in DOMAIN items : now <= items[k].expiresAt + ttl

\* The cache does what its port promises (see AnalysisCache).
Promise == INSTANCE AnalysisCache
  WITH Key <- cacheKey, Capacity <- maxSize, Lifetime <- ttl, stored <- items

KeepsPromise == Promise!Spec
=============================================================================
