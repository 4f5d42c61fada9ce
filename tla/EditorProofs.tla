---------------------------- MODULE EditorProofs ----------------------------
(***************************************************************************)
(* What the page keeps whatever is typed, fixed, found and lost, for any   *)
(* texts, fixes and rules.                                                 *)
(***************************************************************************)
EXTENDS Editor, FiniteSetTheorems, WellFoundedInduction, TLAPS

\* A reconnect timer runs only while there is no socket.
OneWayIn ==
    /\ page \in BOOLEAN /\ retry \in BOOLEAN
    /\ retry => socket = "none"

LinkInv == OneWayIn /\ ConnectionTended

\* A flag is a record of its status and its place: what moves it leaves its status alone.
IsFlag(f) == f = [status |-> f.status, at |-> f.at]

AreFlags(fs) == \A id \in DOMAIN fs : IsFlag(fs[id])

FlagsInv == AreFlags(flags)

-----------------------------------------------------------------------------
\* The connection

LEMMA LinkInit == Init => LinkInv
BY DEF Init, LinkInv, OneWayIn, ConnectionTended

LEMMA LinkNext == LinkInv /\ [Next]_vars => LinkInv'
<1> SUFFICES ASSUME LinkInv, [Next]_vars PROVE LinkInv'
  OBVIOUS
<1> USE DEF LinkInv, OneWayIn, ConnectionTended
<1>1. CASE UNCHANGED connection
  BY <1>1 DEF connection
<1>2. CASE Leave
  BY <1>2 DEF Leave
<1>3. CASE Return
  BY <1>3 DEF Return
<1>4. CASE Open
  BY <1>4 DEF Open
<1>5. CASE Close
  BY <1>5 DEF Close
<1>6. CASE CloseLate
  BY <1>6 DEF CloseLate
<1>7. CASE Reconnect
  BY <1>7 DEF Reconnect
<1>8. CASE \E t \in Texts : Type(t)
  BY <1>1, <1>8 DEF Type
<1>9. CASE \E id \in DOMAIN flags : Accept(id) \/ Reject(id)
  BY <1>1, <1>9 DEF Accept, Reject, Patch
<1>10. CASE ApplyAll
  BY <1>1, <1>10 DEF ApplyAll, Patch
<1>11. CASE FetchRules \/ Fire \/ Answer \/ Receive
  BY <1>1, <1>11 DEF FetchRules, Fire, Answer, Receive
<1>12. CASE UNCHANGED vars
  BY <1>1, <1>12 DEF vars
<1> QED
  BY <1>2, <1>3, <1>4, <1>5, <1>6, <1>7, <1>8, <1>9, <1>10, <1>11, <1>12 DEF Next

-----------------------------------------------------------------------------
\* Anchors

\* Of some places, each number below theirs is the number of places before one of them:
\* counting those before is an injection into as many numbers, hence onto them.
LEMMA NthPlace ==
    ASSUME NEW n \in Nat, NEW S \in SUBSET (1 .. n), NEW k \in 0 .. Cardinality(S) - 1
    PROVE  \E i \in S : Cardinality({j \in S : j < i}) = k
<1> DEFINE before(i) == {j \in S : j < i}
           last == Cardinality(S) - 1
           rank == [i \in S |-> Cardinality(before(i))]
<1>1. IsFiniteSet(S) /\ Cardinality(S) \in Nat
  <2>1. IsFiniteSet(1 .. n)
    BY FS_Interval
  <2>2. IsFiniteSet(S)
    BY <2>1, FS_Subset
  <2> QED
    BY <2>2, FS_CardinalityType
<1>2. ASSUME NEW i \in S
      PROVE  /\ IsFiniteSet(before(i)) /\ Cardinality(before(i)) \in 0 .. last
             /\ \A j \in before(i) : Cardinality(before(j)) # Cardinality(before(i))
  <2>1. IsFiniteSet(before(i)) /\ Cardinality(before(i)) \in Nat
    BY <1>1, FS_Subset, FS_CardinalityType
  <2>2. i \notin before(i) /\ before(i) # S
    OBVIOUS
  <2>3. Cardinality(before(i)) <= Cardinality(S) /\ Cardinality(before(i)) # Cardinality(S)
    BY <1>1, <2>2, FS_Subset
  <2>4. ASSUME NEW j \in before(i) PROVE Cardinality(before(j)) # Cardinality(before(i))
    <3>1. before(j) \subseteq before(i) /\ j \notin before(j)
      <4>1. j \in Int /\ i \in Int /\ j < i /\ \A x \in S : x \in Int
        OBVIOUS
      <4>2. ASSUME NEW x \in S, x < j PROVE x < i
        BY <4>1, <4>2
      <4>3. ~(j < j)
        BY <4>1
      <4> QED
        BY <4>2, <4>3
    <3> QED
      BY <2>1, <2>4, <3>1, FS_Subset
  <2> QED
    BY <1>1, <2>1, <2>3, <2>4
<1>3. rank \in Injection(S, 0 .. last)
  <2>1. rank \in [S -> 0 .. last]
    BY <1>2
  <2>2. ASSUME NEW i \in S, NEW j \in S, rank[i] = rank[j] PROVE i = j
    <3>1. ~(i < j) /\ ~(j < i)
      BY <1>2, <2>2
    <3> QED
      BY <3>1
  <2> QED
    BY <2>1, <2>2 DEF Injection, IsInjective
<1>4. IsFiniteSet(0 .. last) /\ Cardinality(0 .. last) = Cardinality(S)
  BY <1>1, FS_Interval
<1>5. rank \in Surjection(S, 0 .. last)
  BY <1>1, <1>3, <1>4, FS_Injection
<1>6. PICK i \in S : rank[i] = k
  BY <1>5 DEF Surjection
<1> QED
  BY <1>6

\* The characters of all texts and fixes.
Alphabet == (UNION {Range(t) : t \in Texts}) \cup (UNION {Range(AutoFix[w]) : w \in Words})

LEMMA AlphabetOfAll == /\ \A t \in Texts : t \in Seq(Alphabet)
                       /\ \A w \in Words : AutoFix[w] \in Seq(Alphabet)
<1>1. ASSUME NEW S, NEW s \in Seq(S), S \subseteq Alphabet PROVE s \in Seq(Alphabet)
  BY <1>1
<1>2. \A t \in Texts : Range(t) \subseteq Alphabet
  BY DEF Alphabet
<1>3. \A w \in Words : Range(AutoFix[w]) \subseteq Alphabet
  BY DEF Alphabet
<1> QED
  BY <1>1, <1>2, <1>3, TextsAssumption, WordsAssumption

\* Where an anchor leads to, there is its character.
LEMMA AnchorMarks ==
    ASSUME NEW t \in Seq(Alphabet), NEW id, anchorToSpan(t, id) # NoPlace
    PROVE  anchorToSpan(t, id) \in DOMAIN t /\ t[anchorToSpan(t, id)] = id.word
<1> DEFINE at == {i \in Copies(t, id.word) :
                    Cardinality({j \in Copies(t, id.word) : j < i}) = id.copy}
<1>1. at # {} /\ anchorToSpan(t, id) = CHOOSE i \in at : TRUE
  BY DEF anchorToSpan
<1>2. \A i \in at : i \in DOMAIN t /\ t[i] = id.word
  BY DEF Copies
<1> HIDE DEF at
<1> QED
  BY <1>1, <1>2

\* Whatever a rule finds in a text, its anchor leads to a place in it.
LEMMA FoundIsThere ==
    ASSUME NEW t \in Seq(Alphabet), NEW by, NEW words, NEW id \in Found(by, words, t)
    PROVE  anchorToSpan(t, id) # NoPlace /\ id.word \in words
<1>1. Len(t) \in Nat /\ DOMAIN t = 1 .. Len(t)
  OBVIOUS
<1>2. PICK w \in words : \E k \in 0 .. Cardinality(Copies(t, w)) - 1 : id = FlagId(by, w, k)
  BY DEF Found
<1> PICK k \in 0 .. Cardinality(Copies(t, w)) - 1 : id = FlagId(by, w, k)
  BY <1>2
<1>3. id.word = w /\ id.copy = k
  BY DEF FlagId
<1> DEFINE at == {i \in Copies(t, id.word) :
                    Cardinality({j \in Copies(t, id.word) : j < i}) = id.copy}
<1>4. Copies(t, w) \subseteq 1 .. Len(t)
  BY <1>1 DEF Copies
<1>5. at # {}
  <2>1. PICK i \in Copies(t, w) : Cardinality({j \in Copies(t, w) : j < i}) = k
    BY <1>1, <1>4, NthPlace
  <2>2. i \in at
    BY <1>3, <2>1
  <2> QED
    BY <2>2
<1>6. at \subseteq 1 .. Len(t)
  BY <1>3, <1>4
<1>7. (CHOOSE i \in at : TRUE) \in at
  BY <1>5
<1>8. anchorToSpan(t, id) = CHOOSE i \in at : TRUE
  BY <1>5 DEF anchorToSpan
<1> HIDE DEF at
<1> QED
  BY <1>1, <1>3, <1>6, <1>7, <1>8 DEF NoPlace

\* A rule finds finitely much.
LEMMA FoundIsFinite ==
    ASSUME NEW t \in Seq(Alphabet), NEW by, NEW words, IsFiniteSet(words)
    PROVE  IsFiniteSet(Found(by, words, t))
<1> DEFINE copies(w) == {FlagId(by, w, k) : k \in 0 .. Cardinality(Copies(t, w)) - 1}
           all == {copies(w) : w \in words}
<1>1. ASSUME NEW w \in words PROVE IsFiniteSet(copies(w))
  <2> DEFINE last == Cardinality(Copies(t, w)) - 1
             count == [k \in 0 .. last |-> FlagId(by, w, k)]
  <2>1. IsFiniteSet(1 .. Len(t)) /\ Copies(t, w) \subseteq 1 .. Len(t)
    BY FS_Interval DEF Copies
  <2>2. last \in Int
    BY <2>1, FS_Subset, FS_CardinalityType
  <2> HIDE DEF last
  <2>3. IsFiniteSet(0 .. last)
    BY <2>2, FS_Interval
  <2>4. count \in Surjection(0 .. last, copies(w))
    BY DEF Surjection, last
  <2> QED
    BY <2>3, <2>4, FS_Surjection
<1>2. IsFiniteSet(all)
  <2> DEFINE each == [w \in words |-> copies(w)]
  <2>1. each \in Surjection(words, all)
    BY DEF Surjection
  <2> HIDE DEF all, each
  <2> QED
    BY <2>1, FS_Surjection
<1>3. \A T \in all : IsFiniteSet(T)
  BY <1>1
<1>4. Found(by, words, t) = UNION all
  BY DEF Found
<1> HIDE DEF all
<1> QED
  BY <1>2, <1>3, <1>4, FS_UNION

-----------------------------------------------------------------------------
\* Flags, and what is done to them

\* The flags that were there and still are have kept their status.
Keeps(new, old) ==
    /\ AreFlags(new)
    /\ \A id \in DOMAIN new \cap DOMAIN old : new[id].status = old[id].status

LEMMA ReresolveKeeps ==
    ASSUME NEW fs, NEW t, NEW strict, AreFlags(fs)
    PROVE  Keeps(reresolveFlags(fs, t, strict), fs)
<1> DEFINE new == reresolveFlags(fs, t, strict)
<1>1. DOMAIN new = {i \in DOMAIN fs : strict => anchorToSpan(t, i) # NoPlace}
  BY DEF reresolveFlags
<1>2. ASSUME NEW id \in DOMAIN new PROVE IsFlag(new[id]) /\ new[id].status = fs[id].status
  <2> DEFINE place == anchorToSpan(t, id)
  <2>1. new[id] = IF place = NoPlace THEN fs[id] ELSE [fs[id] EXCEPT !.at = place]
    BY <1>1 DEF reresolveFlags
  <2> HIDE DEF place, new
  <2>2. fs[id] = [status |-> fs[id].status, at |-> fs[id].at]
    BY <1>1, <1>2 DEF AreFlags, IsFlag
  <2>3. [fs[id] EXCEPT !.at = place] = [status |-> fs[id].status, at |-> place]
    BY <2>2
  <2> QED
    BY <2>1, <2>2, <2>3 DEF IsFlag
<1> QED
  BY <1>1, <1>2 DEF Keeps, AreFlags

LEMMA TentativeKeeps ==
    ASSUME NEW fs, NEW t, AreFlags(fs)
    PROVE  /\ AreFlags(WithTentative(fs, t))
           /\ DOMAIN WithTentative(fs, t) = DOMAIN fs \cup runAllClientRules(t)
           /\ \A id \in DOMAIN fs : WithTentative(fs, t)[id] = fs[id]
<1> DEFINE new == WithTentative(fs, t)
<1>1. /\ DOMAIN new = DOMAIN fs \cup runAllClientRules(t)
      /\ \A id \in DOMAIN fs : new[id] = fs[id]
      /\ \A id \in DOMAIN new \ DOMAIN fs :
            new[id] = [status |-> "tentative", at |-> anchorToSpan(t, id)]
  BY DEF WithTentative
<1> HIDE DEF new
<1>2. ASSUME NEW id \in DOMAIN new PROVE IsFlag(new[id])
  <2>1. CASE id \in DOMAIN fs
    BY <1>1, <2>1 DEF AreFlags
  <2>2. CASE id \notin DOMAIN fs
    <3> DEFINE place == anchorToSpan(t, id)
    <3>1. new[id] = [status |-> "tentative", at |-> place]
      BY <1>1, <2>2
    <3> HIDE DEF place
    <3> QED
      BY <3>1 DEF IsFlag
  <2> QED
    BY <2>1, <2>2
<1> QED
  BY <1>1, <1>2 DEF new, AreFlags

LEMMA MergeKeeps ==
    ASSUME NEW fs, NEW t, AreFlags(fs)
    PROVE  /\ AreFlags(mergeServerFlags(fs, t))
           /\ \A id \in DOMAIN fs \cap DOMAIN mergeServerFlags(fs, t) :
                 fs[id].status = "rejected" => mergeServerFlags(fs, t)[id].status = "rejected"
<1> DEFINE ids == Found("server", Words, t)
           new == mergeServerFlags(fs, t)
<1>1. /\ DOMAIN new = ids \cup {i \in DOMAIN fs : fs[i].status = "rejected"}
      /\ \A id \in DOMAIN new \ ids : new[id] = fs[id] /\ id \in DOMAIN fs
      /\ \A id \in ids :
            new[id] = [status |-> IF id \in DOMAIN fs /\ fs[id].status = "rejected"
                                  THEN "rejected" ELSE "confirmed",
                       at |-> anchorToSpan(t, id)]
  BY DEF mergeServerFlags
<1> HIDE DEF new, ids
<1>2. AreFlags(new)
  BY <1>1 DEF AreFlags, IsFlag
<1>3. \A id \in DOMAIN fs \cap DOMAIN new : fs[id].status = "rejected" => new[id].status = "rejected"
  BY <1>1
<1> QED
  BY <1>2, <1>3 DEF new

LEMMA TextEffectsKeep ==
    ASSUME NEW t, NEW fs, AreFlags(fs), TextEffects(t, fs)
    PROVE  /\ AreFlags(flags') /\ DOMAIN fs \subseteq DOMAIN flags'
           /\ DOMAIN flags' \subseteq DOMAIN fs \cup runAllClientRules(t)
           /\ \A id \in DOMAIN fs : flags'[id] = fs[id]
BY TentativeKeeps DEF TextEffects

\* What is typed: a rejected flag that loses its anchor is not found again by a rule of the
\* page, since what a rule finds in the text has its place there.
LEMMA TypeKeeps ==
    ASSUME FlagsInv, NEW t \in Texts, Type(t)
    PROVE  Keeps(flags', flags)
<1> DEFINE fs == reresolveFlags(flags, t, TRUE)
<1>1. /\ Keeps(fs, flags)
      /\ DOMAIN fs = {i \in DOMAIN flags : anchorToSpan(t, i) # NoPlace}
  <2>1. AreFlags(flags)
    BY DEF FlagsInv
  <2>2. Keeps(fs, flags)
    BY <2>1, ReresolveKeeps
  <2>3. DOMAIN fs = {i \in DOMAIN flags : anchorToSpan(t, i) # NoPlace}
    BY DEF reresolveFlags
  <2> QED
    BY <2>2, <2>3
<1>2. TextEffects(t, fs)
  BY DEF Type
<1> HIDE DEF fs
<1>3. /\ AreFlags(flags') /\ DOMAIN fs \subseteq DOMAIN flags'
      /\ DOMAIN flags' \subseteq DOMAIN fs \cup runAllClientRules(t)
      /\ \A id \in DOMAIN fs : flags'[id] = fs[id]
  BY <1>1, <1>2, TextEffectsKeep DEF Keeps
<1>4. \A id \in runAllClientRules(t) : anchorToSpan(t, id) # NoPlace
  BY AlphabetOfAll, FoundIsThere DEF runAllClientRules
<1>5. \A id \in DOMAIN flags' \cap DOMAIN flags : id \in DOMAIN fs
  BY <1>1, <1>3, <1>4
<1> QED
  BY <1>1, <1>3, <1>5 DEF Keeps

\* A fix drops the flags it is done with; unless it changes the text, the others stay as they were.
LEMMA PatchKeeps ==
    ASSUME FlagsInv, NEW t, NEW deleted, NEW done, Patch(t, deleted, done)
    PROVE  AreFlags(flags') /\ (text' = text => Keeps(flags', flags))
<1> DEFINE new == Tidy(t, deleted)
           left == Without(flags, done)
           fs == reresolveFlags(left, new, FALSE)
<1>1. AreFlags(left) /\ DOMAIN left \subseteq DOMAIN flags
      /\ \A id \in DOMAIN left : left[id] = flags[id]
  BY DEF FlagsInv, AreFlags, Without
<1>2. IF new = text THEN flags' = fs ELSE TextEffects(new, fs)
  BY DEF Patch
<1> HIDE DEF left
<1>3. Keeps(fs, left) /\ DOMAIN fs = DOMAIN left
  <2>1. Keeps(fs, left)
    BY <1>1, ReresolveKeeps
  <2>2. DOMAIN fs = DOMAIN left
    BY DEF reresolveFlags
  <2> QED
    BY <2>1, <2>2
<1> HIDE DEF new, fs
<1>4. Keeps(fs, flags)
  BY <1>1, <1>3 DEF Keeps
<1>5. CASE new = text
  BY <1>2, <1>4, <1>5 DEF Keeps
<1>6. CASE new # text
  <2>1. TextEffects(new, fs) /\ text' = new
    BY <1>2, <1>6 DEF TextEffects
  <2>2. AreFlags(flags')
    BY <1>4, <2>1, TextEffectsKeep DEF Keeps
  <2> QED
    BY <1>6, <2>1, <2>2
<1> QED
  BY <1>5, <1>6

\* What a step keeps of the flags the user rejected.
StillRejected ==
    (patched' => text' = text) =>
        \A id \in DOMAIN flags \cap DOMAIN flags' :
            flags[id].status = "rejected" => flags'[id].status = "rejected"

LEMMA FlagsNext == FlagsInv /\ [Next]_vars => FlagsInv' /\ StillRejected
<1> SUFFICES ASSUME FlagsInv, [Next]_vars PROVE AreFlags(flags') /\ StillRejected
  BY DEF FlagsInv, AreFlags, IsFlag
<1>1. CASE UNCHANGED flags
  BY <1>1 DEF FlagsInv, StillRejected, AreFlags
<1>2. CASE \E t \in Texts : Type(t)
  BY <1>2, TypeKeeps DEF Keeps, StillRejected
<1>3. ASSUME NEW t, NEW deleted, NEW done, Patch(t, deleted, done)
      PROVE  AreFlags(flags') /\ StillRejected
  <2>1. patched' = TRUE
    BY <1>3 DEF Patch
  <2>2. AreFlags(flags') /\ (text' = text => Keeps(flags', flags))
    BY <1>3, PatchKeeps
  <2> QED
    BY <2>1, <2>2 DEF Keeps, StillRejected
<1>4. CASE \E id \in DOMAIN flags : Accept(id)
  BY <1>3, <1>4 DEF Accept
<1>5. CASE ApplyAll
  BY <1>3, <1>5 DEF ApplyAll
<1>6. ASSUME NEW id \in DOMAIN flags, Reject(id)
      PROVE  AreFlags(flags') /\ StillRejected
  <2>1. flags' = [flags EXCEPT ![id].status = "rejected"] /\ IsFlag(flags[id])
    BY <1>6 DEF Reject, FlagsInv, AreFlags
  <2>2. /\ DOMAIN flags' = DOMAIN flags
        /\ \A other \in DOMAIN flags : other # id => flags'[other] = flags[other]
        /\ flags'[id] = [status |-> "rejected", at |-> flags[id].at]
    BY <2>1 DEF IsFlag
  <2>3. AreFlags(flags')
    BY <2>2 DEF FlagsInv, AreFlags, IsFlag
  <2> QED
    BY <2>2, <2>3 DEF StillRejected
<1>7. CASE Return
  <2>1. TextEffects(text, flags)
    BY <1>7 DEF Return
  <2> QED
    BY <2>1, TextEffectsKeep DEF FlagsInv, StillRejected
<1>8. CASE Receive
  <2>1. flags' = flags \/ flags' = mergeServerFlags(flags, text)
    BY <1>8 DEF Receive
  <2>2. CASE flags' = mergeServerFlags(flags, text)
    BY <2>2, MergeKeeps DEF FlagsInv, StillRejected
  <2> QED
    BY <1>1, <2>1, <2>2
<1>9. CASE Leave \/ FetchRules \/ Fire \/ Answer \/ Open \/ Close \/ CloseLate \/ Reconnect
  <2>1. UNCHANGED flags
    BY <1>9 DEF Leave, FetchRules, Fire, Answer, Open, Close, CloseLate, Reconnect, store
  <2> QED
    BY <1>1, <2>1
<1>10. CASE UNCHANGED vars
  BY <1>1, <1>10 DEF vars, store
<1> QED
  BY <1>2, <1>4, <1>5, <1>6, <1>7, <1>8, <1>9, <1>10 DEF Next

-----------------------------------------------------------------------------
\* Texts

LEMMA TidyKeepsAlphabet ==
    ASSUME NEW t \in Seq(Alphabet)
    PROVE  cleanDelete(t) \in Seq(Alphabet)
<1> DEFINE words == {i \in DOMAIN t : t[i] # " "}
           stays == {i \in DOMAIN t : t[i] # " " \/ (i - 1 \in words /\ \E j \in words : i < j)}
           n == Cardinality(stays)
           through(i) == {j \in stays : j <= i}
<1>1. stays \subseteq 1 .. Len(t) /\ Len(t) \in Nat
  <2>1. stays \subseteq DOMAIN t
    BY Zenon
  <2>2. DOMAIN t = 1 .. Len(t) /\ Len(t) \in Nat
    OBVIOUS
  <2> QED
    BY <2>1, <2>2, Zenon
<1>2. cleanDelete(t) = [k \in 1 .. n |-> t[CHOOSE i \in stays : Cardinality(through(i)) = k]]
  BY DEF cleanDelete
<1> HIDE DEF stays
<1>3. \A i \in stays : t[i] \in Alphabet
  BY <1>1
<1>4. IsFiniteSet(stays) /\ n \in Nat
  <2>1. IsFiniteSet(1 .. Len(t))
    BY <1>1, FS_Interval
  <2>2. IsFiniteSet(stays)
    BY <1>1, <2>1, FS_Subset
  <2> QED
    BY <2>2, FS_CardinalityType
<1>5. ASSUME NEW k \in 1 .. n PROVE \E i \in stays : Cardinality(through(i)) = k
  <2>1. k - 1 \in 0 .. n - 1
    BY <1>4
  <2>2. PICK i \in stays : Cardinality({j \in stays : j < i}) = k - 1
    BY <1>1, <2>1, NthPlace
  <2> DEFINE before == {j \in stays : j < i}
  <2>3. through(i) = before \cup {i} /\ i \notin before
    <3>1. i \in Int /\ \A j \in stays : j \in Int
      BY <1>1
    <3>2. \A j \in stays : j <= i <=> (j < i \/ j = i)
      BY <3>1
    <3>3. ~(i < i)
      BY <3>1
    <3> QED
      BY <3>2, <3>3, Zenon
  <2>4. IsFiniteSet(before)
    BY <1>4, FS_Subset
  <2>5. Cardinality(before) = k - 1
    BY <2>2
  <2> HIDE DEF before
  <2>6. Cardinality(through(i)) = k
    <3>1. Cardinality(before \cup {i}) = Cardinality(before) + 1
      BY <2>3, <2>4, FS_AddElement
    <3>2. Cardinality(through(i)) = Cardinality(before \cup {i})
      BY <2>3, Zenon
    <3> HIDE DEF through
    <3> QED
      BY <1>4, <2>5, <3>1, <3>2
  <2> QED
    BY <2>6
<1> HIDE DEF through, n
<1>6. \A k \in 1 .. n : t[CHOOSE i \in stays : Cardinality(through(i)) = k] \in Alphabet
  BY <1>3, <1>5
<1> QED
  BY <1>2, <1>4, <1>6

LEMMA ReplacedKeepsAlphabet ==
    ASSUME NEW t \in Seq(Alphabet), NEW at \in DOMAIN t, NEW w \in Words
    PROVE  Replaced(t, at, AutoFix[w]) \in Seq(Alphabet)
<1>1. AutoFix[w] \in Seq(Alphabet)
  BY AlphabetOfAll
<1>2. at \in 1 .. Len(t) /\ Len(t) \in Nat
  OBVIOUS
<1>3. SubSeq(t, 1, at - 1) \in Seq(Alphabet)
  BY <1>2
<1>4. SubSeq(t, at + 1, Len(t)) \in Seq(Alphabet)
  BY <1>2
<1> QED
  BY <1>1, <1>3, <1>4 DEF Replaced

\* Induction, with the numbers it is true of as a set.
LEMMA CountUp ==
    ASSUME NEW S, 0 \in S, \A k \in Nat : k \in S => k + 1 \in S
    PROVE  Nat \subseteq S
<1> SUFFICES ASSUME Nat \ S # {} PROVE FALSE
  OBVIOUS
<1>1. PICK least \in Nat \ S : \A m \in Nat \ S : <<m, least>> \notin OpToRel(<, Nat)
  <2>1. Nat \ S \subseteq Nat
    OBVIOUS
  <2> QED
    BY <2>1, WFMin, NatLessThanWellFounded, Zenon
<1>2. least - 1 \in Nat /\ least - 1 < least
  OBVIOUS
<1>3. least - 1 \in S
  BY <1>1, <1>2, Zenon DEF OpToRel
<1> QED
  BY <1>2, <1>3

\* Applying the fixes of some flags in turn ends in a text of the same characters.
LEMMA InTurnKeepsAlphabet ==
    ASSUME NEW t \in Seq(Alphabet), NEW fs, NEW n \in Nat, NEW s \in [1 .. n -> DOMAIN fs],
           \A id \in DOMAIN fs : id.word \in Words
    PROVE  ApplyInTurn(t, fs, s).text \in Seq(Alphabet)
<1> DEFINE Step(r, id) ==
               IF fs[id].at \notin DOMAIN r.text THEN r
               ELSE [text |-> Replaced(r.text, fs[id].at, AutoFix[id.word]),
                     done |-> r.done \cup {id},
                     deleted |-> r.deleted \/ AutoFix[id.word] = << >>]
           start == [text |-> t, done |-> {}, deleted |-> FALSE]
           IsRun(after, m) == after = [k \in 0 .. m |-> IF k = 0 THEN start ELSE Step(after[k - 1], s[k])]
           run == CHOOSE after : IsRun(after, n)
<1>1. Len(s) = n
  OBVIOUS
<1>2. ApplyInTurn(t, fs, s) = run[n]
  BY <1>1 DEF ApplyInTurn
<1> HIDE DEF Step, start
<1>3. \E after : IsRun(after, n)
  <2> DEFINE good == {m \in Nat : \E after : IsRun(after, m)}
  <2>1. 0 \in good
    <3>1. IsRun([k \in 0 .. 0 |-> start], 0)
      OBVIOUS
    <3> QED
      BY <3>1
  <2>2. ASSUME NEW m \in Nat, m \in good PROVE m + 1 \in good
    <3>1. PICK after : IsRun(after, m)
      BY <2>2
    <3> DEFINE longer == [k \in 0 .. m + 1 |-> IF k \in 0 .. m THEN after[k] ELSE Step(after[m], s[k])]
    <3>2. \A k \in 0 .. m + 1 : longer[k] = IF k = 0 THEN start ELSE Step(longer[k - 1], s[k])
      <4> SUFFICES ASSUME NEW k \in 0 .. m + 1
                   PROVE  longer[k] = IF k = 0 THEN start ELSE Step(longer[k - 1], s[k])
        OBVIOUS
      <4>1. CASE k \in 0 .. m
        <5>1. k # 0 => k - 1 \in 0 .. m
          BY <4>1
        <5> QED
          BY <3>1, <4>1, <5>1
      <4>2. CASE k = m + 1
        BY <4>2
      <4> QED
        BY <4>1, <4>2
    <3>3. IsRun(longer, m + 1)
      BY <3>2
    <3> HIDE DEF longer, IsRun
    <3> QED
      BY <3>3
  <2> HIDE DEF good
  <2>3. Nat \subseteq good
    BY <2>1, <2>2, CountUp
  <2> QED
    BY <2>3 DEF good
<1>4. IsRun(run, n)
  BY <1>3
<1> HIDE DEF run
<1>5. \A k \in Nat : k <= n => run[k].text \in Seq(Alphabet)
  <2> DEFINE good == {k \in Nat : k <= n => run[k].text \in Seq(Alphabet)}
  <2>1. 0 \in good
    BY <1>4 DEF start
  <2>2. ASSUME NEW k \in Nat, k \in good PROVE k + 1 \in good
    <3> SUFFICES ASSUME k + 1 <= n PROVE run[k + 1].text \in Seq(Alphabet)
      OBVIOUS
    <3>1. run[k].text \in Seq(Alphabet) /\ k + 1 \in 1 .. n
      BY <2>2
    <3>2. run[k + 1] = Step(run[k], s[k + 1])
      BY <1>4, <3>1
    <3>3. s[k + 1] \in DOMAIN fs /\ s[k + 1].word \in Words
      BY <3>1
    <3>4. CASE fs[s[k + 1]].at \notin DOMAIN run[k].text
      BY <3>1, <3>2, <3>4 DEF Step
    <3>5. CASE fs[s[k + 1]].at \in DOMAIN run[k].text
      <4>1. run[k + 1].text = Replaced(run[k].text, fs[s[k + 1]].at, AutoFix[s[k + 1].word])
        BY <3>2, <3>5 DEF Step
      <4> QED
        BY <3>1, <3>3, <3>5, <4>1, ReplacedKeepsAlphabet
    <3> QED
      BY <3>4, <3>5
  <2> HIDE DEF good
  <2>3. Nat \subseteq good
    BY <2>1, <2>2, CountUp
  <2> QED
    BY <2>3 DEF good
<1> QED
  BY <1>2, <1>5

-----------------------------------------------------------------------------
\* Highlights

\* The page's flags are of its rules' characters, and no more than can be put into an order.
OfWords(fs) == IsFiniteSet(DOMAIN fs) /\ \A id \in DOMAIN fs : id.word \in Words

TrueIn(t, fs) ==
    \A id \in DOMAIN fs :
        fs[id].status # "rejected" => fs[id].at \in DOMAIN t /\ t[fs[id].at] = id.word

HighlightInv ==
    /\ text \in Seq(Alphabet)
    /\ FlagsInv /\ OfWords(flags)
    /\ ~patched => TrueIn(text, flags)

LEMMA FewerOfWords ==
    ASSUME NEW fs, NEW less, OfWords(fs), DOMAIN less \subseteq DOMAIN fs
    PROVE  OfWords(less)
BY FS_Subset DEF OfWords

LEMMA MoreOfWords ==
    ASSUME NEW fs, NEW more, OfWords(fs), NEW t \in Seq(Alphabet), NEW by, NEW words,
           words \subseteq Words, DOMAIN more \subseteq DOMAIN fs \cup Found(by, words, t)
    PROVE  OfWords(more)
<1>1. IsFiniteSet(words)
  BY WordsAssumption, FS_Subset
<1>2. IsFiniteSet(Found(by, words, t))
  BY <1>1, FoundIsFinite
<1>3. IsFiniteSet(DOMAIN fs \cup Found(by, words, t))
  BY <1>2, FS_Union DEF OfWords
<1>4. IsFiniteSet(DOMAIN more)
  BY <1>3, FS_Subset
<1>5. \A id \in Found(by, words, t) : id.word \in words
  BY FoundIsThere
<1> QED
  BY <1>4, <1>5 DEF OfWords

\* Typing: what is still there has been put to its place in the new text.
LEMMA ReresolvedIsTrue ==
    ASSUME NEW t \in Seq(Alphabet), NEW fs, AreFlags(fs)
    PROVE  TrueIn(t, reresolveFlags(fs, t, TRUE))
<1> DEFINE new == reresolveFlags(fs, t, TRUE)
<1> SUFFICES ASSUME NEW id \in DOMAIN new
             PROVE  new[id].at \in DOMAIN t /\ t[new[id].at] = id.word
  BY DEF TrueIn
<1> DEFINE place == anchorToSpan(t, id)
<1>1. id \in DOMAIN fs /\ place # NoPlace /\ new[id] = [fs[id] EXCEPT !.at = place]
  BY DEF reresolveFlags
<1>2. place \in DOMAIN t /\ t[place] = id.word
  BY <1>1, AnchorMarks
<1> HIDE DEF place, new
<1>3. fs[id] = [status |-> fs[id].status, at |-> fs[id].at]
  BY <1>1 DEF AreFlags, IsFlag
<1>4. new[id].at = place
  BY <1>1, <1>3
<1> QED
  BY <1>2, <1>4

LEMMA TentativeIsTrue ==
    ASSUME NEW t \in Seq(Alphabet), NEW fs, TrueIn(t, fs)
    PROVE  TrueIn(t, WithTentative(fs, t))
<1> DEFINE new == WithTentative(fs, t)
<1> SUFFICES ASSUME NEW id \in DOMAIN new, new[id].status # "rejected"
             PROVE  new[id].at \in DOMAIN t /\ t[new[id].at] = id.word
  BY DEF TrueIn
<1> DEFINE place == anchorToSpan(t, id)
<1>1. CASE id \in DOMAIN fs
  <2>1. new[id] = fs[id]
    BY <1>1 DEF WithTentative
  <2> HIDE DEF new
  <2> QED
    BY <1>1, <2>1 DEF TrueIn
<1>2. CASE id \notin DOMAIN fs
  <2>1. id \in runAllClientRules(t) /\ new[id] = [status |-> "tentative", at |-> place]
    BY <1>2 DEF WithTentative
  <2>2. place # NoPlace
    BY <2>1, FoundIsThere DEF runAllClientRules
  <2>3. place \in DOMAIN t /\ t[place] = id.word
    BY <2>2, AnchorMarks
  <2> HIDE DEF new, place
  <2> QED
    BY <2>1, <2>3
<1> QED
  BY <1>1, <1>2

\* An answer to this very text: it says where each of its flags is, and others only stay rejected.
LEMMA MergedIsTrue ==
    ASSUME NEW t \in Seq(Alphabet), NEW fs
    PROVE  TrueIn(t, mergeServerFlags(fs, t))
<1> DEFINE new == mergeServerFlags(fs, t)
           ids == Found("server", Words, t)
<1> SUFFICES ASSUME NEW id \in DOMAIN new, new[id].status # "rejected"
             PROVE  new[id].at \in DOMAIN t /\ t[new[id].at] = id.word
  BY DEF TrueIn
<1> DEFINE place == anchorToSpan(t, id)
<1>1. id \in ids
  <2>1. id \notin ids => new[id] = fs[id] /\ fs[id].status = "rejected"
    BY DEF mergeServerFlags
  <2> HIDE DEF new, ids
  <2> QED
    BY <2>1
<1>2. new[id] = [status |-> IF id \in DOMAIN fs /\ fs[id].status = "rejected"
                            THEN "rejected" ELSE "confirmed", at |-> place]
  BY <1>1 DEF mergeServerFlags
<1>3. place \in DOMAIN t /\ t[place] = id.word
  BY <1>1, FoundIsThere, AnchorMarks
<1> HIDE DEF new, place
<1> QED
  BY <1>2, <1>3

LEMMA TextEffectsHighlight ==
    ASSUME NEW t \in Seq(Alphabet), NEW fs, OfWords(fs), TextEffects(t, fs)
    PROVE  text' = t /\ OfWords(flags') /\ (TrueIn(t, fs) => TrueIn(t, flags'))
<1>1. text' = t /\ (flags' = fs \/ flags' = WithTentative(fs, t))
  BY DEF TextEffects
<1>2. CASE flags' = fs
  BY <1>1, <1>2
<1>3. CASE flags' = WithTentative(fs, t)
  <2>1. DOMAIN flags' \subseteq DOMAIN fs \cup runAllClientRules(t)
    BY <1>3 DEF WithTentative
  <2>2. DOMAIN flags' \subseteq DOMAIN fs \cup Found("client", ClientWords, t)
    BY <2>1 DEF runAllClientRules
  <2>3. OfWords(flags')
    BY <2>2, MoreOfWords, WordsAssumption
  <2> QED
    BY <1>1, <1>3, <2>3, TentativeIsTrue
<1> QED
  BY <1>1, <1>2, <1>3

\* A fix may leave the other flags behind, but it leaves a text.
LEMMA PatchHighlight ==
    ASSUME HighlightInv, NEW t \in Seq(Alphabet), NEW deleted, NEW done, Patch(t, deleted, done)
    PROVE  text' \in Seq(Alphabet) /\ OfWords(flags') /\ patched'
<1> DEFINE new == Tidy(t, deleted)
           left == Without(flags, done)
           fs == reresolveFlags(left, new, FALSE)
<1>1. new \in Seq(Alphabet)
  BY TidyKeepsAlphabet DEF Tidy
<1>2. patched' /\ IF new = text THEN flags' = fs /\ text' = text ELSE TextEffects(new, fs)
  BY DEF Patch
<1>3. DOMAIN fs \subseteq DOMAIN flags
  BY DEF reresolveFlags, Without
<1> HIDE DEF new, fs
<1>4. OfWords(fs)
  BY <1>3, FewerOfWords DEF HighlightInv
<1>5. CASE new = text
  BY <1>1, <1>2, <1>4, <1>5
<1>6. CASE new # text
  BY <1>1, <1>2, <1>4, <1>6, TextEffectsHighlight
<1> QED
  BY <1>5, <1>6

LEMMA ApplyAllHighlight ==
    ASSUME HighlightInv, ApplyAll
    PROVE  text' \in Seq(Alphabet) /\ OfWords(flags') /\ patched'
<1>1. PICK s \in LastFirst(flags) :
        LET r == ApplyInTurn(text, flags, s) IN Patch(r.text, r.deleted, r.done)
  BY DEF ApplyAll
<1> DEFINE n == Cardinality(Active(flags))
<1>2. IsFiniteSet(Active(flags))
  BY FS_Subset DEF Active, HighlightInv, OfWords
<1>3. n \in Nat
  BY <1>2, FS_CardinalityType
<1>4. s \in [1 .. n -> Active(flags)]
  BY DEF LastFirst, SetToSeqs
<1>5. s \in [1 .. n -> DOMAIN flags]
  BY <1>4 DEF Active
<1> HIDE DEF n
<1>6. ApplyInTurn(text, flags, s).text \in Seq(Alphabet)
  BY <1>3, <1>5, InTurnKeepsAlphabet DEF HighlightInv, OfWords
<1> QED
  BY <1>1, <1>6, PatchHighlight

LEMMA HighlightNext == HighlightInv /\ [Next]_vars => HighlightInv'
<1> SUFFICES ASSUME HighlightInv, [Next]_vars PROVE HighlightInv'
  OBVIOUS
<1>1. FlagsInv'
  BY FlagsNext DEF HighlightInv
<1>2. ASSUME text' \in Seq(Alphabet), OfWords(flags'), patched' \/ TrueIn(text', flags')
      PROVE  HighlightInv'
  BY <1>1, <1>2 DEF HighlightInv, OfWords, TrueIn
<1>3. CASE UNCHANGED <<text, flags, patched>>
  BY <1>1, <1>3 DEF HighlightInv, OfWords, TrueIn
<1>4. ASSUME NEW t \in Texts, Type(t) PROVE HighlightInv'
  <2> DEFINE fs == reresolveFlags(flags, t, TRUE)
  <2>1. t \in Seq(Alphabet)
    BY AlphabetOfAll
  <2>2. TrueIn(t, fs)
    BY <2>1, ReresolvedIsTrue DEF HighlightInv, FlagsInv
  <2>3. OfWords(fs)
    <3>1. DOMAIN fs \subseteq DOMAIN flags
      BY DEF reresolveFlags
    <3> QED
      BY <3>1, FewerOfWords DEF HighlightInv
  <2>4. TextEffects(t, fs)
    BY <1>4 DEF Type
  <2> HIDE DEF fs
  <2> QED
    BY <1>2, <2>1, <2>2, <2>3, <2>4, TextEffectsHighlight
<1>5. ASSUME NEW id \in DOMAIN flags, Accept(id) PROVE HighlightInv'
  <2>1. /\ flags[id].at \in DOMAIN text
        /\ Patch(Replaced(text, flags[id].at, AutoFix[id.word]), AutoFix[id.word] = << >>, {id})
    BY <1>5 DEF Accept
  <2>2. Replaced(text, flags[id].at, AutoFix[id.word]) \in Seq(Alphabet)
    BY <2>1, ReplacedKeepsAlphabet DEF HighlightInv, OfWords
  <2> QED
    BY <1>2, <2>1, <2>2, PatchHighlight
<1>6. CASE ApplyAll
  BY <1>2, <1>6, ApplyAllHighlight
<1>7. ASSUME NEW id \in DOMAIN flags, Reject(id) PROVE HighlightInv'
  <2>1. /\ flags' = [flags EXCEPT ![id].status = "rejected"] /\ IsFlag(flags[id])
        /\ text' = text /\ patched' = patched
    BY <1>7 DEF Reject, HighlightInv, FlagsInv, AreFlags
  <2>2. /\ DOMAIN flags' = DOMAIN flags
        /\ \A other \in DOMAIN flags : other # id => flags'[other] = flags[other]
        /\ flags'[id].status = "rejected"
    BY <2>1 DEF IsFlag
  <2>3. OfWords(flags')
    BY <2>2, FewerOfWords DEF HighlightInv
  <2>4. ~patched => TrueIn(text, flags')
    BY <2>2 DEF HighlightInv, TrueIn
  <2> QED
    BY <1>2, <2>1, <2>3, <2>4 DEF HighlightInv
<1>8. CASE Return
  <2>1. TextEffects(text, flags) /\ patched' = patched
    BY <1>8 DEF Return
  <2> QED
    BY <1>2, <2>1, TextEffectsHighlight DEF HighlightInv
<1>9. CASE Receive
  <2>1. CASE flags' = mergeServerFlags(flags, text) /\ text' = text
    <3>1. DOMAIN flags' \subseteq DOMAIN flags \cup Found("server", Words, text)
      BY <2>1 DEF mergeServerFlags
    <3>2. OfWords(flags')
      BY <3>1, MoreOfWords DEF HighlightInv
    <3>3. TrueIn(text, flags')
      BY <2>1, MergedIsTrue DEF HighlightInv
    <3> QED
      BY <1>2, <2>1, <3>2, <3>3 DEF HighlightInv
  <2> QED
    BY <1>3, <1>9, <2>1 DEF Receive
<1>10. CASE Leave \/ FetchRules \/ Fire \/ Answer \/ Open \/ Close \/ CloseLate \/ Reconnect
  <2>1. UNCHANGED <<text, flags, patched>>
    BY <1>10 DEF Leave, FetchRules, Fire, Answer, Open, Close, CloseLate, Reconnect, store
  <2> QED
    BY <1>3, <2>1
<1>11. CASE UNCHANGED vars
  BY <1>3, <1>11 DEF vars, store
<1> QED
  BY <1>4, <1>5, <1>6, <1>7, <1>8, <1>9, <1>10, <1>11 DEF Next

-----------------------------------------------------------------------------
\* The page is never without a socket and without a timer for the next, and one the user
\* has left has neither, in whatever order the sockets of a page open, fail and close, and
\* however often the user leaves and returns; "online" means an open socket (api.ts).
THEOREM ConnectionAlwaysTended == Spec => []ConnectionTended
<1>1. LinkInv => ConnectionTended
  BY DEF LinkInv
<1> QED
  BY <1>1, LinkInit, LinkNext, PTL DEF Spec

\* No answer, edit, rule or return to the page raises again what the user rejected: a flag
\* that the page drops for want of its anchor cannot come back in the same step, and the
\* merges of both engines' flags leave its status alone (store.ts).
THEOREM RejectedStaysRejected == Spec => RejectedStay
<1>1. Init => FlagsInv
  BY DEF Init, FlagsInv, AreFlags
<1>2. FlagsInv /\ [Next]_vars => FlagsInv'
  BY FlagsNext
<1>3. FlagsInv /\ [Next]_vars => [StillRejected]_vars
  BY FlagsNext
<1>4. [][StillRejected]_vars <=> RejectedStay
  BY PTL DEF StillRejected, RejectedStay
<1> QED
  BY <1>1, <1>2, <1>3, <1>4, PTL DEF Spec

\* Until a fix, and again once its answer is there, each highlight is on the characters its
\* flag is about, whatever was typed, found, answered late or lost: what Accept then replaces
\* is what the rule found (store.ts, client-engine.ts).
THEOREM HighlightsStayTrue == Spec => []HighlightsTrue
<1>1. Init => HighlightInv
  <2> SUFFICES ASSUME Init PROVE HighlightInv
    OBVIOUS
  <2>1. DOMAIN flags = {} /\ text = << >>
    BY DEF Init
  <2>2. IsFiniteSet({})
    BY FS_EmptySet
  <2> QED
    BY <2>1, <2>2 DEF HighlightInv, FlagsInv, AreFlags, OfWords, TrueIn
<1>2. HighlightInv => HighlightsTrue
  BY DEF HighlightInv, TrueIn, HighlightsTrue, Marks, Active
<1> QED
  BY <1>1, <1>2, HighlightNext, PTL DEF Spec
=============================================================================
