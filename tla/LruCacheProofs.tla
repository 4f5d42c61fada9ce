--------------------------- MODULE LruCacheProofs ---------------------------
(***************************************************************************)
(* What LruCache does for every number of keys, every capacity, every      *)
(* lifetime and however long it runs.                                      *)
(***************************************************************************)
EXTENDS LruCache, FiniteSetTheorems, WellFoundedInduction, TLAPS

LEMMA OptionsNormalised == maxSize \in Nat \ {0} /\ ttl \in Nat \ {0}
BY OptionsAssumption DEF maxSize, ttl

\* Two listed keys were never used by the same call.
DistinctUses == \A j, k \in listed : j # k => usedAt[j] # usedAt[k]

\* While the sweeper runs, its next visit is not overdue, and no entry
\* outlives that visit by more than one lifetime.
SweepDue ==
  sweeping => /\ now <= nextTick /\ nextTick <= now + ttl
              /\ \A k \in DOMAIN items : nextTick <= items[k].expiresAt + ttl

Inv == /\ TypeOK /\ MapListAgree /\ IsFiniteSet(listed) /\ SizeBound
       /\ RecencyOrder /\ DistinctUses /\ SweepDue

-----------------------------------------------------------------------------
\* The list

LEMMA RemovalShrinks ==
  ASSUME IsFiniteSet(listed), NEW K \in SUBSET listed
  PROVE  IsFiniteSet(K) /\ Cardinality(K) <= Cardinality(listed)
BY FS_Subset

\* A non-empty list that is in order of use has an element at its back, so
\* evictOldest finds one to evict whenever the cache is full.
THEOREM BackExists == Inv /\ listed # {} => \E k \in listed : IsBack(k)
<1> SUFFICES ASSUME Inv, listed # {} PROVE \E k \in listed : IsBack(k)
  OBVIOUS
<1> DEFINE stamps == {usedAt[k] : k \in listed}
<1>1. stamps \subseteq Nat /\ stamps # {}
  BY DEF Inv, TypeOK
<1>2. PICK least \in stamps : \A n \in stamps : <<n, least>> \notin OpToRel(<, Nat)
  BY <1>1, WFMin, NatLessThanWellFounded, Zenon
<1>3. \A n \in stamps : least <= n
  <2> SUFFICES ASSUME NEW n \in stamps PROVE least <= n
    OBVIOUS
  <2>1. ~(n < least)
    BY <1>1, <1>2, Zenon DEF OpToRel
  <2> QED
    BY <2>1, <1>1
<1>4. PICK k \in listed : least = usedAt[k]
  OBVIOUS
<1>5. \A j \in listed \ {k} : <<j, k>> \in ahead
  <2> SUFFICES ASSUME NEW j \in listed \ {k} PROVE <<j, k>> \in ahead
    OBVIOUS
  <2>1. usedAt[j] # usedAt[k] /\ usedAt[j] \in Nat /\ usedAt[k] \in Nat
    BY DEF Inv, DistinctUses, TypeOK
  <2> QED
    BY <1>3, <1>4, <2>1 DEF Inv, RecencyOrder
<1> QED
  BY <1>5 DEF IsBack

-----------------------------------------------------------------------------
\* The invariant is inductive.  One lemma for each effect the operations
\* share: a call that drops elements, one that moves k to the front.

LEMMA InitInv == Init => Inv
<1> SUFFICES ASSUME Init PROVE Inv
  OBVIOUS
<1>1. IsFiniteSet(listed) /\ Cardinality(listed) = 0
  BY FS_EmptySet DEF Init
<1>2. TypeOK
  BY OptionsNormalised DEF Init, TypeOK
<1>3. MapListAgree /\ SizeBound
  BY <1>1, OptionsNormalised DEF Init, MapListAgree, SizeBound
<1>4. RecencyOrder /\ DistinctUses /\ SweepDue
  BY OptionsNormalised DEF Init, RecencyOrder, DistinctUses, SweepDue
<1> QED
  BY <1>1, <1>2, <1>3, <1>4 DEF Inv

\* Dropping the elements K of the list together with their map entries.
Drops(K) == Remove(K) /\ items' = Only(DOMAIN items \ K)

LEMMA DropsKeepsLists ==
  ASSUME Inv, NEW K \in SUBSET listed, Drops(K),
         UNCHANGED <<uses, usedAt>>
  PROVE  /\ listed' = DOMAIN items' /\ listed' \subseteq cacheKey
         /\ \A k \in DOMAIN items' : items'[k] = items[k] /\ k \in DOMAIN items
         /\ items' \in [DOMAIN items' -> cacheEntry]
         /\ (ahead \subseteq listed \X listed)'
         /\ IsFiniteSet(listed)' /\ SizeBound' /\ RecencyOrder'
         /\ DistinctUses' /\ MapListAgree'
<1>1. listed' = listed \ K /\ listed' = DOMAIN items' /\ listed' \subseteq cacheKey
  BY DEF Inv, TypeOK, MapListAgree, Drops, Remove, Only
<1>2. \A k \in DOMAIN items' : items'[k] = items[k] /\ k \in DOMAIN items
  BY DEF Drops, Only
<1>3. items' \in [DOMAIN items' -> cacheEntry]
  BY <1>2 DEF Inv, TypeOK, Drops, Only
<1>4. (ahead \subseteq listed \X listed)'
  BY DEF Drops, Remove, Among
<1>5. IsFiniteSet(listed') /\ Cardinality(listed') <= Cardinality(listed)
  BY <1>1, RemovalShrinks DEF Inv
<1>6. SizeBound'
  <2>1. Cardinality(listed) \in Nat /\ Cardinality(listed') \in Nat
    BY <1>5, FS_CardinalityType DEF Inv
  <2> QED
    BY <2>1, <1>5, OptionsNormalised DEF Inv, SizeBound
<1>7. RecencyOrder'
  BY <1>1 DEF Inv, RecencyOrder, Drops, Remove, Among
<1>8. DistinctUses'
  BY <1>1 DEF Inv, DistinctUses
<1> QED
  BY <1>1, <1>2, <1>3, <1>4, <1>5, <1>6, <1>7, <1>8 DEF MapListAgree

\* Putting k in front of the elements K and stamping it as used.
LEMMA FrontKeepsOrder ==
  ASSUME Inv, NEW k \in cacheKey, NEW K \in SUBSET listed, k \notin K, Used(k),
         listed' = K \cup {k},
         ahead' = Among(ahead, K) \cup ({k} \X K)
  PROVE  /\ uses' \in Nat /\ usedAt' \in [cacheKey -> 0 .. uses']
         /\ (ahead \subseteq listed \X listed)' /\ listed' \subseteq cacheKey
         /\ RecencyOrder' /\ DistinctUses'
<1>1. uses \in Nat /\ uses' = uses + 1 /\ usedAt'[k] = uses + 1
  BY DEF Inv, TypeOK, Used
<1>2. \A j \in cacheKey : usedAt[j] \in 0 .. uses
  BY DEF Inv, TypeOK
<1>3. usedAt' \in [cacheKey -> 0 .. uses']
  BY <1>1, <1>2 DEF Inv, TypeOK, Used
<1>4. \A j \in K : usedAt'[j] = usedAt[j] /\ j \in cacheKey /\ j # k /\ j \in listed
  BY DEF Used, Inv, TypeOK
<1>5. \A j \in K : usedAt'[j] < usedAt'[k]
  BY <1>1, <1>2, <1>4
<1>6. RecencyOrder'
  <2> SUFFICES ASSUME NEW i \in listed', NEW j \in listed'
               PROVE <<i, j>> \in ahead' <=> usedAt'[i] > usedAt'[j]
    BY DEF RecencyOrder
  <2>1. usedAt'[i] \in Nat /\ usedAt'[j] \in Nat
    BY <1>1, <1>3 DEF Inv, TypeOK
  <2>2. CASE i = k /\ j = k
    <3>1. <<i, j>> \notin ahead'
      BY <2>2 DEF Among
    <3> QED
      BY <3>1, <2>1, <2>2
  <2>3. CASE i = k /\ j \in K
    BY <2>3, <2>1, <1>5
  <2>4. CASE i \in K /\ j = k
    <3>1. <<i, j>> \notin ahead'
      BY <2>4, <1>4 DEF Among
    <3> QED
      BY <3>1, <2>1, <2>4, <1>5
  <2>5. CASE i \in K /\ j \in K
    <3>1. <<i, j>> \in ahead' <=> <<i, j>> \in ahead
      BY <2>5, <1>4 DEF Among
    <3> QED
      BY <3>1, <2>5, <1>4 DEF Inv, RecencyOrder
  <2> QED
    BY <2>2, <2>3, <2>4, <2>5
<1>7. DistinctUses'
  <2> SUFFICES ASSUME NEW i \in listed', NEW j \in listed', i # j
               PROVE usedAt'[i] # usedAt'[j]
    BY DEF DistinctUses
  <2>1. usedAt'[i] \in Nat /\ usedAt'[j] \in Nat
    BY <1>1, <1>3 DEF Inv, TypeOK
  <2> QED
    BY <2>1, <1>4, <1>5 DEF Inv, DistinctUses
<1>8. (ahead \subseteq listed \X listed)' /\ listed' \subseteq cacheKey
  BY DEF Inv, TypeOK, Among
<1> QED
  BY <1>1, <1>3, <1>6, <1>7, <1>8

LEMMA DropsKeepsInv ==
  ASSUME Inv, NEW K \in SUBSET listed, Drops(K),
         UNCHANGED <<now, nextTick, sweeping, uses, usedAt>>
  PROVE  Inv'
<1>1. TypeOK'
  BY DropsKeepsLists DEF Inv, TypeOK
<1>2. SweepDue'
  BY DropsKeepsLists DEF Inv, SweepDue
<1> QED
  BY <1>1, <1>2, DropsKeepsLists DEF Inv

LEMMA GetKeepsInv == ASSUME Inv, NEW k \in cacheKey, Get(k) PROVE Inv'
<1>1. CASE GetMiss(k)
  BY <1>1 DEF Inv, TypeOK, MapListAgree, SizeBound, RecencyOrder, DistinctUses,
              SweepDue, Get, GetMiss, list, Expired
<1>2. CASE GetExpired(k)
  <2>1. {k} \in SUBSET listed /\ Drops({k})
    BY <1>2 DEF GetExpired, Drops, Inv, MapListAgree
  <2> QED
    BY <1>2, <2>1, DropsKeepsInv DEF Get, GetExpired
<1>3. CASE GetHit(k)
  <2> DEFINE K == listed \ {k}
  <2>1. k \in listed /\ Used(k) /\ listed' = listed /\ items' = items
    BY <1>3 DEF GetHit, MoveToFront, Inv, MapListAgree
  <2>2. listed' = K \cup {k} /\ ahead' = Among(ahead, K) \cup ({k} \X K)
    BY <1>3, <2>1 DEF GetHit, MoveToFront
  <2>3. K \in SUBSET listed /\ k \notin K
    OBVIOUS
  <2>4. /\ uses' \in Nat /\ usedAt' \in [cacheKey -> 0 .. uses']
        /\ (ahead \subseteq listed \X listed)' /\ listed' \subseteq cacheKey
        /\ RecencyOrder' /\ DistinctUses'
    BY <2>1, <2>2, <2>3, FrontKeepsOrder
  <2>5. TypeOK'
    BY <2>1, <2>4 DEF Inv, TypeOK, Get
  <2>6. MapListAgree' /\ SizeBound' /\ IsFiniteSet(listed')
    BY <2>1 DEF Inv, MapListAgree, SizeBound
  <2>7. SweepDue'
    BY <2>1 DEF Inv, SweepDue, Get
  <2> QED
    BY <2>4, <2>5, <2>6, <2>7 DEF Inv
<1> QED
  BY <1>1, <1>2, <1>3 DEF Get

\* What a Set leaves in the cache: the new entry, and of the others those
\* that MakeRoom kept, as they were.
StoredOver(k, a, K) ==
  /\ k \notin K /\ MakeRoom(K)
  /\ listed' = K \cup {k} /\ DOMAIN items' = K \cup {k}
  /\ ahead' = Among(ahead, K) \cup ({k} \X K)
  /\ items' = [j \in K \cup {k} |-> IF j = k THEN Entry(a) ELSE items[j]]
  /\ IsFiniteSet(K) /\ IsFiniteSet(listed') /\ Cardinality(listed') <= maxSize

LEMMA SetAbsentEffect ==
  ASSUME Inv, NEW k \in cacheKey, NEW a \in Analysis, SetAbsent(k, a)
  PROVE  \E K \in SUBSET listed : StoredOver(k, a, K)
<1>1. PICK K \in SUBSET listed :
        /\ MakeRoom(K) /\ PushFrontKeeping(k, K)
        /\ items' = [j \in (DOMAIN items \ (listed \ K)) \cup {k} |->
                       IF j = k THEN Entry(a) ELSE items[j]]
  BY DEF SetAbsent
<1>2. k \notin K /\ listed' = K \cup {k} /\ ahead' = Among(ahead, K) \cup ({k} \X K)
  BY <1>1 DEF SetAbsent, Inv, MapListAgree, PushFrontKeeping
<1>3. DOMAIN items \ (listed \ K) = K
  BY DEF Inv, MapListAgree
<1>4. IsFiniteSet(K) /\ Cardinality(K) \in Nat
  BY RemovalShrinks, FS_CardinalityType DEF Inv
<1>5. IsFiniteSet(listed') /\ Cardinality(listed') = Cardinality(K) + 1
  BY <1>2, <1>4, FS_AddElement
<1>6. Cardinality(listed) \in Nat /\ IsFiniteSet(listed)
  BY FS_CardinalityType DEF Inv
<1>7. Cardinality(K) < maxSize
  <2>1. CASE Cardinality(listed) < maxSize
    <3>1. K = listed
      BY <1>1, <1>6, <2>1, OptionsNormalised DEF MakeRoom
    <3> QED
      BY <2>1, <3>1
  <2>2. CASE Cardinality(listed) >= maxSize /\ listed = {}
    BY <2>2, FS_EmptySet, OptionsNormalised
  <2>3. CASE Cardinality(listed) >= maxSize /\ listed # {}
    <3>1. PICK j \in listed : K = listed \ {j}
      BY <1>1, <2>3 DEF MakeRoom, evictOldest
    <3>2. Cardinality(K) = Cardinality(listed) - 1
      BY <3>1, <1>6, FS_RemoveElement
    <3> QED
      BY <3>2, <1>6, OptionsNormalised DEF Inv, SizeBound
  <2> QED
    BY <2>1, <2>2, <2>3, <1>6, OptionsNormalised
<1>8. Cardinality(listed') <= maxSize
  BY <1>4, <1>5, <1>7, OptionsNormalised
<1> QED
  BY <1>1, <1>2, <1>3, <1>4, <1>5, <1>8 DEF StoredOver

LEMMA SetKeepsInv ==
  ASSUME Inv, NEW k \in cacheKey, NEW a \in Analysis, Set(k, a) PROVE Inv'
<1>1. now \in Nat /\ nextTick \in Nat /\ ttl \in Nat \ {0}
  BY OptionsNormalised DEF Inv, TypeOK
<1>2. Entry(a) \in cacheEntry /\ Entry(a).expiresAt = now + ttl
  BY <1>1 DEF Entry, cacheEntry
<1>3. CASE SetPresent(k, a)
  <2> DEFINE K == listed \ {k}
  <2>1. k \in listed /\ listed' = listed /\ Used(k)
    BY <1>3 DEF SetPresent, MoveToFront, Inv, MapListAgree, Set
  <2>2. /\ DOMAIN items' = DOMAIN items /\ items' \in [DOMAIN items' -> cacheEntry]
        /\ \A j \in DOMAIN items : items'[j] = IF j = k THEN Entry(a) ELSE items[j]
    BY <1>2, <1>3 DEF SetPresent, Inv, TypeOK
  <2>3. /\ K \in SUBSET listed /\ k \notin K
        /\ listed' = K \cup {k} /\ ahead' = Among(ahead, K) \cup ({k} \X K)
    BY <1>3, <2>1 DEF SetPresent, MoveToFront
  <2>4. /\ uses' \in Nat /\ usedAt' \in [cacheKey -> 0 .. uses']
        /\ (ahead \subseteq listed \X listed)' /\ listed' \subseteq cacheKey
        /\ RecencyOrder' /\ DistinctUses'
    BY <2>1, <2>3, FrontKeepsOrder
  <2>5. TypeOK'
    BY <1>2, <2>2, <2>4 DEF Inv, TypeOK, Set
  <2>6. MapListAgree' /\ SizeBound' /\ IsFiniteSet(listed')
    BY <2>1, <2>2 DEF Inv, MapListAgree, SizeBound
  <2>7. SweepDue'
    BY <1>1, <1>2, <2>2, <2>5 DEF Inv, SweepDue, Set, TypeOK, cacheEntry
  <2> QED
    BY <2>4, <2>5, <2>6, <2>7 DEF Inv
<1>4. CASE SetAbsent(k, a)
  <2>1. PICK K \in SUBSET listed : StoredOver(k, a, K)
    BY <1>4, SetAbsentEffect
  <2>2. \A j \in DOMAIN items' :
           IF j = k THEN items'[j] = Entry(a)
                    ELSE j \in DOMAIN items /\ items'[j] = items[j]
    BY <2>1 DEF StoredOver, Inv, MapListAgree
  <2>3. Used(k)
    BY DEF Set
  <2>4. /\ uses' \in Nat /\ usedAt' \in [cacheKey -> 0 .. uses']
        /\ (ahead \subseteq listed \X listed)' /\ listed' \subseteq cacheKey
        /\ RecencyOrder' /\ DistinctUses'
    BY <2>1, <2>3, FrontKeepsOrder DEF StoredOver
  <2>5. TypeOK'
    BY <1>2, <2>1, <2>2, <2>4 DEF StoredOver, Inv, TypeOK, Set
  <2>6. MapListAgree' /\ SizeBound'
    BY <2>1 DEF StoredOver, MapListAgree, SizeBound
  <2>7. SweepDue'
    BY <1>1, <1>2, <2>2, <2>5 DEF Inv, SweepDue, Set, TypeOK, cacheEntry
  <2> QED
    BY <2>1, <2>4, <2>5, <2>6, <2>7 DEF StoredOver, Inv
<1> QED
  BY <1>3, <1>4 DEF Set

LEMMA InvalidateKeepsInv ==
  ASSUME Inv, NEW c \in ConfigHash, Invalidate(c) PROVE Inv'
<1> DEFINE gone == {k \in DOMAIN items : k[2] = c}
<1>1. gone \in SUBSET listed /\ Drops(gone)
  BY DEF Inv, MapListAgree, Invalidate, Drops
<1> QED
  BY <1>1, DropsKeepsInv DEF Invalidate

LEMMA SweepKeepsInv == ASSUME Inv, Sweep PROVE Inv'
<1> DEFINE gone == {k \in DOMAIN items : Expired(k)}
<1>1. gone \in SUBSET listed /\ Drops(gone)
  BY DEF Inv, MapListAgree, Sweep, evictExpired, Drops
<1>2. /\ listed' = DOMAIN items' /\ listed' \subseteq cacheKey
      /\ \A k \in DOMAIN items' : items'[k] = items[k] /\ k \in DOMAIN items
      /\ items' \in [DOMAIN items' -> cacheEntry]
      /\ (ahead \subseteq listed \X listed)'
      /\ IsFiniteSet(listed)' /\ SizeBound' /\ RecencyOrder'
      /\ DistinctUses' /\ MapListAgree'
  BY <1>1, DropsKeepsLists DEF Sweep
<1>3. TypeOK'
  BY <1>2, OptionsNormalised DEF Inv, TypeOK, Sweep
<1>4. now = nextTick /\ sweeping /\ now \in Nat /\ ttl \in Nat \ {0}
  BY OptionsNormalised DEF Inv, TypeOK, SweepDue, Sweep
<1>5. \A k \in DOMAIN items' : now <= items'[k].expiresAt
  <2> SUFFICES ASSUME NEW k \in DOMAIN items' PROVE now <= items'[k].expiresAt
    OBVIOUS
  <2>1. k \in DOMAIN items /\ k \notin gone /\ items'[k] = items[k]
    BY <1>2 DEF Sweep, evictExpired, Only
  <2> QED
    BY <2>1, <1>4 DEF Expired, Inv, TypeOK, cacheEntry
<1>6. SweepDue'
  BY <1>2, <1>4, <1>5 DEF SweepDue, Sweep, cacheEntry
<1> QED
  BY <1>2, <1>3, <1>6 DEF Inv

LEMMA ClockKeepsInv == ASSUME Inv, Minute \/ StopCleanup PROVE Inv'
<1>1. UNCHANGED <<items, listed, ahead, uses, usedAt, nextTick>>
  BY DEF Minute, StopCleanup, list
<1>2. TypeOK'
  <2>1. CASE Minute
    BY <1>1, <2>1 DEF Inv, TypeOK, Minute
  <2>2. CASE StopCleanup
    BY <1>1, <2>2 DEF Inv, TypeOK, StopCleanup
  <2> QED
    BY <2>1, <2>2
<1>3. MapListAgree' /\ SizeBound' /\ RecencyOrder' /\ DistinctUses' /\ IsFiniteSet(listed')
  BY <1>1 DEF Inv, MapListAgree, SizeBound, RecencyOrder, DistinctUses
<1>4. SweepDue'
  <2>1. CASE Minute
    <3>1. now \in Nat /\ nextTick \in Nat /\ ttl \in Nat
      BY OptionsNormalised DEF Inv, TypeOK
    <3> QED
      BY <1>1, <2>1, <3>1 DEF Inv, SweepDue, Minute
  <2>2. CASE StopCleanup
    BY <2>2 DEF SweepDue, StopCleanup
  <2> QED
    BY <2>1, <2>2
<1> QED
  BY <1>2, <1>3, <1>4 DEF Inv

LEMMA NextKeepsInv == Inv /\ [Next]_vars => Inv'
<1> SUFFICES ASSUME Inv, [Next]_vars PROVE Inv'
  OBVIOUS
<1>1. ASSUME NEW k \in cacheKey, Get(k) PROVE Inv'
  BY <1>1, GetKeepsInv
<1>2. ASSUME NEW k \in cacheKey, NEW a \in Analysis, Set(k, a) PROVE Inv'
  BY <1>2, SetKeepsInv
<1>3. ASSUME NEW c \in ConfigHash, Invalidate(c) PROVE Inv'
  BY <1>3, InvalidateKeepsInv
<1>4. CASE Sweep
  BY <1>4, SweepKeepsInv
<1>5. CASE Minute \/ StopCleanup
  BY <1>5, ClockKeepsInv
<1>6. CASE UNCHANGED vars
  BY <1>6 DEF vars, Inv, TypeOK, MapListAgree, SizeBound, RecencyOrder,
              DistinctUses, SweepDue
<1> QED
  BY <1>1, <1>2, <1>3, <1>4, <1>5, <1>6 DEF Next

LEMMA AlwaysInv == Spec => []Inv
BY InitInv, NextKeepsInv, PTL DEF Spec

-----------------------------------------------------------------------------
\* What follows from the invariant.

\* The variables keep their types.
THEOREM TypeCorrect == Spec => []TypeOK
<1>1. Inv => TypeOK
  BY DEF Inv
<1> QED
  BY <1>1, AlwaysInv, PTL

\* The map and the list never come apart, whatever the operations.
THEOREM MapAndList == Spec => []MapListAgree
<1>1. Inv => MapListAgree
  BY DEF Inv
<1> QED
  BY <1>1, AlwaysInv, PTL

\* A cache made for n analyses never holds more than n.
THEOREM Bounded == Spec => []SizeBound
<1>1. Inv => SizeBound
  BY DEF Inv
<1> QED
  BY <1>1, AlwaysInv, PTL

\* The list is always in order of last use.
THEOREM OrderedByUse == Spec => []RecencyOrder
<1>1. Inv => RecencyOrder
  BY DEF Inv
<1> QED
  BY <1>1, AlwaysInv, PTL

\* No entry is left more than one lifetime after it expired.
THEOREM Swept == Spec => []SweptWithinTtl
<1>1. Inv => SweptWithinTtl
  <2> SUFFICES ASSUME Inv, sweeping, NEW k \in DOMAIN items
               PROVE now <= items[k].expiresAt + ttl
    BY DEF SweptWithinTtl
  <2>1. now \in Nat /\ nextTick \in Nat /\ items[k].expiresAt + ttl \in Nat
    BY OptionsNormalised DEF Inv, TypeOK, cacheEntry
  <2> QED
    BY <2>1 DEF Inv, SweepDue
<1> QED
  BY <1>1, AlwaysInv, PTL

-----------------------------------------------------------------------------
\* Only a key that none was used less recently than is ever evicted.
THEOREM LeastRecentFirst == Spec => EvictsLeastRecent
<1> DEFINE LeastOut == \A k \in DOMAIN items \ DOMAIN items' :
                         reply'.op = "set" =>
                           \A j \in DOMAIN items : usedAt[k] <= usedAt[j]
<1>1. Inv /\ [Next]_vars => [LeastOut]_vars
  <2> SUFFICES ASSUME Inv, Next,
                      NEW k \in DOMAIN items \ DOMAIN items', reply'.op = "set",
                      NEW j \in DOMAIN items
               PROVE  usedAt[k] <= usedAt[j]
    BY DEF vars
  <2>1. items' # items
    OBVIOUS
  <2>2. PICK n \in cacheKey, a \in Analysis : Set(n, a)
    <3>1. ASSUME NEW n \in cacheKey, Get(n) PROVE FALSE
      BY <3>1 DEF Get, GetMiss, GetExpired, GetHit
    <3>2. ASSUME NEW c \in ConfigHash, Invalidate(c) PROVE FALSE
      BY <3>2 DEF Invalidate
    <3>3. ~Sweep
      BY DEF Sweep
    <3>4. ~StopCleanup /\ ~Minute
      BY <2>1 DEF StopCleanup, Minute
    <3> QED
      BY <3>1, <3>2, <3>3, <3>4 DEF Next
  <2>3. SetAbsent(n, a)
    BY <2>2 DEF Set, SetPresent
  <2>4. PICK K \in SUBSET listed : StoredOver(n, a, K)
    BY <2>3, SetAbsentEffect
  <2>5. k \in listed \ K /\ j \in listed
    BY <2>4 DEF StoredOver, Inv, MapListAgree
  <2>6. IsBack(k)
    BY <2>4, <2>5 DEF StoredOver, MakeRoom, evictOldest
  <2>7. usedAt[k] \in Nat /\ usedAt[j] \in Nat
    BY <2>5 DEF Inv, TypeOK
  <2>8. CASE j = k
    BY <2>7, <2>8
  <2>9. CASE j # k
    <3>1. <<j, k>> \in ahead
      BY <2>5, <2>6, <2>9 DEF IsBack
    <3> QED
      BY <3>1, <2>5, <2>7 DEF Inv, RecencyOrder
  <2> QED
    BY <2>8, <2>9
<1> QED
  BY <1>1, AlwaysInv, PTL DEF Spec, EvictsLeastRecent

-----------------------------------------------------------------------------
\* The implementation of AnalysisCache.

LEMMA InitImplements == Init => Promise!Init
BY DEF Init, Promise!Init

LEMMA GetImplements ==
  ASSUME Inv, NEW k \in cacheKey, Get(k) PROVE Promise!Answer(k)
<1>1. CASE GetMiss(k)
  <2>1. DOMAIN items \in SUBSET DOMAIN items
        /\ items' = Promise!Remembering(DOMAIN items)
    BY <1>1 DEF GetMiss, Promise!Remembering, Inv, TypeOK, cacheEntry
  <2> QED
    BY <1>1, <2>1 DEF Get, GetMiss, Promise!Answer
<1>2. CASE GetExpired(k)
  <2>1. DOMAIN items \ {k} \in SUBSET DOMAIN items
        /\ items' = Promise!Remembering(DOMAIN items \ {k})
    BY <1>2 DEF GetExpired, Only, Promise!Remembering
  <2> QED
    BY <1>2, <2>1 DEF Get, GetExpired, Promise!Answer
<1>3. CASE GetHit(k)
  <2>1. DOMAIN items \in SUBSET DOMAIN items
        /\ items' = Promise!Remembering(DOMAIN items)
    BY <1>3 DEF GetHit, Promise!Remembering, Inv, TypeOK, cacheEntry
  <2>2. now <= items[k].expiresAt
    BY <1>3 DEF GetHit, Expired, Inv, TypeOK, cacheEntry
  <2> QED
    BY <1>3, <2>1, <2>2 DEF Get, GetHit, Promise!Answer
<1> QED
  BY <1>1, <1>2, <1>3 DEF Get

\* Both modules count with the same operator of FiniteSets.
LEMMA SameCardinality == \A S : Promise!Cardinality(S) = Cardinality(S)
BY DEF Promise!Cardinality, Cardinality

LEMMA SetImplements ==
  ASSUME Inv, NEW k \in cacheKey, NEW a \in Analysis, Set(k, a)
  PROVE  Promise!Put(k, a)
<1> DEFINE Holding(K) == /\ Cardinality(K \cup {k}) <= maxSize
                         /\ items' = [j \in K \cup {k} |->
                                        IF j = k
                                        THEN [value |-> a, expiresAt |-> now + ttl]
                                        ELSE items[j]]
<1>1. \E K \in SUBSET DOMAIN items : Holding(K)
  <2>1. CASE SetPresent(k, a)
    <3>1. DOMAIN items \cup {k} = listed
      BY <2>1 DEF SetPresent, Inv, MapListAgree
    <3>2. Holding(DOMAIN items)
      BY <2>1, <3>1 DEF SetPresent, Entry, Inv, MapListAgree, SizeBound
    <3> QED
      BY <3>2
  <2>2. CASE SetAbsent(k, a)
    <3>1. PICK K \in SUBSET listed : StoredOver(k, a, K)
      BY <2>2, SetAbsentEffect
    <3>2. Holding(K)
      BY <3>1 DEF StoredOver, Entry
    <3> QED
      BY <3>2 DEF Inv, MapListAgree
  <2> QED
    BY <2>1, <2>2 DEF Set
<1>2. PICK K \in SUBSET DOMAIN items : Holding(K)
  BY <1>1
<1>3. reply' = [op |-> "set", key |-> k, value |-> a] /\ UNCHANGED now
  BY DEF Set
<1> QED
  BY <1>2, <1>3, SameCardinality DEF Promise!Put

LEMMA DropsImplements ==
  ASSUME Inv, NEW K \in SUBSET DOMAIN items, items' = Only(DOMAIN items \ K),
         reply'.op \notin {"get", "set"}, UNCHANGED now
  PROVE  Promise!Forget
<1>1. items' = Promise!Remembering(DOMAIN items \ K)
  BY DEF Only, Promise!Remembering
<1> QED
  BY <1>1 DEF Promise!Forget

\* The cache implements what its port promises: it answers only with the
\* analysis last stored for the very pair of hashes, unexpired, and holds
\* no more than its capacity, for every capacity and every lifetime.
THEOREM ImplementsPromise == Spec => KeepsPromise
<1>1. Inv /\ [Next]_vars => [Promise!Next]_<<items, now, reply>>
  <2> SUFFICES ASSUME Inv, Next
               PROVE  Promise!Next \/ UNCHANGED <<items, now, reply>>
    BY DEF vars
  <2>1. ASSUME NEW k \in cacheKey, Get(k) PROVE Promise!Next
    BY <2>1, GetImplements DEF Promise!Next
  <2>2. ASSUME NEW k \in cacheKey, NEW a \in Analysis, Set(k, a) PROVE Promise!Next
    BY <2>2, SetImplements DEF Promise!Next
  <2>3. ASSUME NEW c \in ConfigHash, Invalidate(c) PROVE Promise!Next
    BY <2>3, DropsImplements DEF Invalidate, Promise!Next
  <2>4. CASE Sweep
    BY <2>4, DropsImplements DEF Sweep, evictExpired, Promise!Next
  <2>5. CASE Minute
    BY <2>5 DEF Minute, Promise!Next, Promise!Pass
  <2>6. CASE StopCleanup
    BY <2>6 DEF StopCleanup
  <2> QED
    BY <2>1, <2>2, <2>3, <2>4, <2>5, <2>6 DEF Next
<1> QED
  BY <1>1, InitImplements, AlwaysInv, PTL DEF Spec, KeepsPromise, Promise!Spec
=============================================================================
