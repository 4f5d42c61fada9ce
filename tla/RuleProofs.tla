----------------------------- MODULE RuleProofs -----------------------------
(***************************************************************************)
(* The rules of the server, for any of them.  What the repository          *)
(* guarantees for any number of requests and edits, and for any rules in   *)
(* the three directories; then what the flags they raise can be relied on  *)
(* for, in any text, by any editor that looks for them.                    *)
(***************************************************************************)
EXTENDS RuleLoading, RuleFlags, SequenceTheorems, FiniteSetTheorems, WellFoundedInduction, TLAPS

-----------------------------------------------------------------------------
\* Merging one rule

\* The last place of a rule exists wherever the rule has a place.
LEMMA LastOf ==
    ASSUME NEW n \in Nat, NEW places \in SUBSET (1 .. n), places # {}
    PROVE  Max(places) \in places /\ \A i \in places : Max(places) >= i
<1> DEFINE behind == {n - i : i \in places}
<1>1. behind \subseteq Nat /\ behind # {}
  <2>1. \A i \in places : i \in 1 .. n /\ n - i \in Nat
    OBVIOUS
  <2> QED
    BY <2>1
<1>2. PICK least \in behind : \A m \in behind : <<m, least>> \notin OpToRel(<, Nat)
  BY <1>1, WFMin, NatLessThanWellFounded, Zenon
<1>3. \A m \in behind : least <= m
  <2> SUFFICES ASSUME NEW m \in behind PROVE least <= m
    OBVIOUS
  <2>1. ~(m < least)
    BY <1>1, <1>2, Zenon DEF OpToRel
  <2> QED
    BY <2>1, <1>1
<1>4. PICK last \in places : least = n - last
  OBVIOUS
<1>5. \A i \in places : last >= i
  <2> SUFFICES ASSUME NEW i \in places PROVE last >= i
    OBVIOUS
  <2>1. n - i \in behind
    OBVIOUS
  <2> QED
    BY <2>1, <1>3, <1>4
<1> QED
  BY <1>5 DEF Max

LEMMA LastPlace ==
    ASSUME NEW S, NEW rules \in Seq(S), NEW id, PlacesOf(rules, id) # {}
    PROVE  Max(PlacesOf(rules, id)) \in PlacesOf(rules, id)
<1>1. PlacesOf(rules, id) \in SUBSET (1 .. Len(rules)) /\ Len(rules) \in Nat
  BY LenProperties DEF PlacesOf
<1> QED
  BY <1>1, LastOf

LEMMA Removed ==
    ASSUME NEW S, NEW s \in Seq(S), NEW i \in 1 .. Len(s)
    PROVE  /\ RemoveAt(s, i) \in Seq(S)
           /\ Len(RemoveAt(s, i)) = Len(s) - 1
           /\ \A j \in 1 .. Len(s) - 1 : RemoveAt(s, i)[j] = IF j < i THEN s[j] ELSE s[j + 1]
<1> DEFINE before == SubSeq(s, 1, i - 1)
           after  == SubSeq(s, i + 1, Len(s))
<1>1. Len(s) \in Nat /\ \A j \in 1 .. Len(s) : s[j] \in S
  BY LenProperties, ElementOfSeq
<1>2. /\ before \in Seq(S) /\ Len(before) = i - 1
      /\ \A j \in 1 .. i - 1 : before[j] = s[j]
  BY <1>1, SubSeqProperties
<1>3. /\ after \in Seq(S) /\ Len(after) = Len(s) - i
      /\ \A j \in 1 .. Len(s) - i : after[j] = s[i + j]
  <2>1. i + 1 \in Int /\ Len(s) \in Int /\ \A j \in i + 1 .. Len(s) : s[j] \in S
    BY <1>1
  <2>2. /\ after \in Seq(S)
        /\ Len(after) = IF i + 1 <= Len(s) THEN Len(s) - (i + 1) + 1 ELSE 0
        /\ \A j \in 1 .. Len(s) - (i + 1) + 1 : after[j] = s[i + 1 + j - 1]
    BY <2>1, SubSeqProperties
  <2> HIDE DEF after
  <2>3. \A j \in 1 .. Len(s) - i : j \in 1 .. Len(s) - (i + 1) + 1 /\ i + 1 + j - 1 = i + j
    BY <1>1
  <2> QED
    BY <1>1, <2>2, <2>3
<1> HIDE DEF before, after
<1>4. /\ before \o after \in Seq(S) /\ Len(before \o after) = Len(s) - 1
      /\ \A j \in 1 .. Len(s) - 1 :
           (before \o after)[j] = IF j <= i - 1 THEN before[j] ELSE after[j - (i - 1)]
  <2>1. /\ before \o after \in Seq(S) /\ Len(before \o after) = Len(before) + Len(after)
        /\ \A j \in 1 .. Len(before) + Len(after) :
             (before \o after)[j] = IF j <= Len(before) THEN before[j] ELSE after[j - Len(before)]
    BY <1>2, <1>3, ConcatProperties
  <2>2. Len(before) + Len(after) = Len(s) - 1
    BY <1>1, <1>2, <1>3
  <2> QED
    BY <1>2, <2>1, <2>2
<1>5. \A j \in 1 .. Len(s) - 1 : (before \o after)[j] = IF j < i THEN s[j] ELSE s[j + 1]
  <2> SUFFICES ASSUME NEW j \in 1 .. Len(s) - 1
               PROVE  (before \o after)[j] = IF j < i THEN s[j] ELSE s[j + 1]
    OBVIOUS
  <2>1. CASE j < i
    BY <1>1, <1>2, <1>4, <2>1
  <2>2. CASE ~(j < i)
    <3>1. j - (i - 1) \in 1 .. Len(s) - i /\ i + (j - (i - 1)) = j + 1 /\ ~(j <= i - 1)
      BY <1>1, <2>2
    <3> QED
      BY <1>3, <1>4, <2>2, <3>1
  <2> QED
    BY <2>1, <2>2
<1> QED
  BY <1>4, <1>5 DEF RemoveAt, before, after

\* The three things that merging a rule may do.
Appends(rules, rule, new) ==
    /\ \A j \in 1 .. Len(rules) : rules[j].id # rule.id
    /\ Len(new) = Len(rules) + 1 /\ new[Len(rules) + 1] = rule
    /\ \A j \in 1 .. Len(rules) : new[j] = rules[j]

Replaces(rules, rule, new, i) ==
    /\ rule.enabled /\ i \in 1 .. Len(rules) /\ rules[i].id = rule.id
    /\ Len(new) = Len(rules) /\ new[i] = rule
    /\ \A j \in 1 .. Len(rules) : j # i => new[j] = rules[j]

Removes(rules, rule, new, i) ==
    /\ ~rule.enabled /\ i \in 1 .. Len(rules) /\ rules[i].id = rule.id
    /\ Len(new) = Len(rules) - 1
    /\ \A j \in 1 .. Len(rules) - 1 : new[j] = IF j < i THEN rules[j] ELSE rules[j + 1]

Merges(rules, rule, new) ==
    \/ Appends(rules, rule, new)
    \/ \E i \in Nat : Replaces(rules, rule, new, i)
    \/ \E i \in Nat : Removes(rules, rule, new, i)

LEMMA MergeCases ==
    ASSUME NEW S, NEW rules \in Seq(S), NEW rule \in S, NEW new, new = MergeRule(rules, rule)
    PROVE  new \in Seq(S) /\ Merges(rules, rule, new)
<1> DEFINE same == PlacesOf(rules, rule.id)
           i    == Max(same)
<1>1. Len(rules) \in Nat /\ DOMAIN rules = 1 .. Len(rules)
  BY LenProperties
<1>2. \A j \in 1 .. Len(rules) : j \in same <=> rules[j].id = rule.id
  BY <1>1 DEF PlacesOf
<1>3. same # {} => i \in same
  BY LastPlace
<1>4. same \subseteq 1 .. Len(rules)
  BY <1>1 DEF PlacesOf
<1>5. new = IF same = {} THEN Append(rules, rule)
            ELSE IF rule.enabled THEN [rules EXCEPT ![i] = rule] ELSE RemoveAt(rules, i)
  BY DEF MergeRule
<1> HIDE DEF same, i
<1>6. CASE same = {}
  <2>1. new \in Seq(S) /\ Appends(rules, rule, new)
    BY <1>2, <1>5, <1>6, AppendProperties DEF Appends
  <2> QED
    BY <2>1 DEF Merges
<1>7. CASE same # {} /\ rule.enabled
  <2>1. i \in 1 .. Len(rules) /\ rules[i].id = rule.id /\ new = [rules EXCEPT ![i] = rule]
    BY <1>2, <1>3, <1>4, <1>5, <1>7
  <2>2. new \in Seq(S) /\ Replaces(rules, rule, new, i)
    BY <1>1, <1>7, <2>1, ExceptSeq DEF Replaces
  <2>3. i \in Nat
    BY <1>1, <2>1
  <2> QED
    BY <2>2, <2>3 DEF Merges
<1>8. CASE same # {} /\ ~rule.enabled
  <2>1. i \in 1 .. Len(rules) /\ rules[i].id = rule.id /\ new = RemoveAt(rules, i)
    BY <1>2, <1>3, <1>4, <1>5, <1>8
  <2>2. new \in Seq(S) /\ Removes(rules, rule, new, i)
    BY <1>8, <2>1, Removed DEF Removes
  <2>3. i \in Nat
    BY <1>1, <2>1
  <2> QED
    BY <2>2, <2>3 DEF Merges
<1> QED
  BY <1>6, <1>7, <1>8

\* Where the rules of the merged set come from: new[j] is the rule itself, or an older one.
\* The older ones keep their order, so that two places never come from one.
LEMMA MergedFrom ==
    ASSUME NEW S, NEW rules \in Seq(S), NEW rule, NEW new \in Seq(S), Merges(rules, rule, new)
    PROVE  /\ \A j \in DOMAIN new : new[j] = rule \/ \E k \in DOMAIN rules : new[j] = rules[k]
           /\ \A k \in DOMAIN rules : rules[k].id # rule.id => \E j \in DOMAIN new : new[j] = rules[k]
<1>1. /\ Len(rules) \in Nat /\ DOMAIN rules = 1 .. Len(rules)
      /\ Len(new) \in Nat /\ DOMAIN new = 1 .. Len(new)
  BY LenProperties
<1>2. CASE Appends(rules, rule, new)
  BY <1>1, <1>2 DEF Appends
<1>3. ASSUME NEW i \in Nat, Replaces(rules, rule, new, i)
      PROVE  /\ \A j \in DOMAIN new : new[j] = rule \/ \E k \in DOMAIN rules : new[j] = rules[k]
             /\ \A k \in DOMAIN rules : rules[k].id # rule.id => \E j \in DOMAIN new : new[j] = rules[k]
  BY <1>1, <1>3 DEF Replaces
<1>4. ASSUME NEW i \in Nat, Removes(rules, rule, new, i)
      PROVE  /\ \A j \in DOMAIN new : new[j] = rule \/ \E k \in DOMAIN rules : new[j] = rules[k]
             /\ \A k \in DOMAIN rules : rules[k].id # rule.id => \E j \in DOMAIN new : new[j] = rules[k]
  <2>1. ASSUME NEW j \in DOMAIN new PROVE \E k \in DOMAIN rules : new[j] = rules[k]
    <3>1. j \in 1 .. Len(rules) - 1 /\ j \in 1 .. Len(rules) /\ j + 1 \in 1 .. Len(rules)
      BY <1>1, <1>4, <2>1 DEF Removes
    <3>2. new[j] = IF j < i THEN rules[j] ELSE rules[j + 1]
      BY <1>4, <3>1 DEF Removes
    <3> QED
      BY <1>1, <3>1, <3>2
  <2>2. ASSUME NEW k \in DOMAIN rules, rules[k].id # rule.id
        PROVE  \E j \in DOMAIN new : new[j] = rules[k]
    <3>1. k # i /\ k \in 1 .. Len(rules) /\ i \in 1 .. Len(rules)
      BY <1>1, <1>4, <2>2 DEF Removes
    <3>2. CASE k < i
      <4>1. k \in 1 .. Len(rules) - 1
        BY <1>1, <3>1, <3>2
      <4> QED
        BY <1>1, <1>4, <3>2, <4>1 DEF Removes
    <3>3. CASE i < k
      <4>1. k - 1 \in 1 .. Len(rules) - 1 /\ ~(k - 1 < i) /\ (k - 1) + 1 = k
        BY <1>1, <3>1, <3>3
      <4>2. new[k - 1] = rules[(k - 1) + 1]
        BY <1>4, <4>1 DEF Removes
      <4> QED
        BY <1>1, <1>4, <4>1, <4>2 DEF Removes
    <3> QED
      BY <1>1, <3>1, <3>2, <3>3
  <2> QED
    BY <2>1, <2>2
<1> QED
  BY <1>2, <1>3, <1>4 DEF Merges

\* A rule that was in one place at most still is.
LEMMA PlaceStaysOne ==
    ASSUME NEW S, NEW rules \in Seq(S), NEW rule, NEW new \in Seq(S), Merges(rules, rule, new),
           NEW id, \A i, j \in PlacesOf(rules, id) : i = j
    PROVE  \A i, j \in PlacesOf(new, id) : i = j
<1>1. /\ Len(rules) \in Nat /\ DOMAIN rules = 1 .. Len(rules)
      /\ Len(new) \in Nat /\ DOMAIN new = 1 .. Len(new)
  BY LenProperties
<1>2. \A k, l \in 1 .. Len(rules) : rules[k].id = id /\ rules[l].id = id => k = l
  BY <1>1 DEF PlacesOf
<1> SUFFICES ASSUME NEW i \in 1 .. Len(new), NEW j \in 1 .. Len(new), new[i].id = id, new[j].id = id
             PROVE  i = j
  BY <1>1 DEF PlacesOf
<1>3. CASE Appends(rules, rule, new)
  BY <1>1, <1>2, <1>3 DEF Appends
<1>4. ASSUME NEW p \in Nat, Replaces(rules, rule, new, p) PROVE i = j
  BY <1>1, <1>2, <1>4 DEF Replaces
<1>5. ASSUME NEW p \in Nat, Removes(rules, rule, new, p) PROVE i = j
  <2> DEFINE was(q) == IF q < p THEN q ELSE q + 1
  <2>1. \A q \in 1 .. Len(new) : was(q) \in 1 .. Len(rules) /\ new[q] = rules[was(q)]
    BY <1>1, <1>5 DEF Removes
  <2>2. was(i) = was(j)
    BY <1>2, <2>1
  <2> QED
    BY <1>1, <2>2
<1> QED
  BY <1>3, <1>4, <1>5 DEF Merges

\* A rule that has been merged decides alone what is in use under its id.
LEMMA MergedDecides ==
    ASSUME NEW S, NEW rules \in Seq(S), NEW rule, NEW new \in Seq(S), Merges(rules, rule, new),
           \A i, j \in PlacesOf(rules, rule.id) : i = j
    PROVE  InUse(new, rule.id) = {r \in {rule} : r.enabled}
<1>1. /\ Len(rules) \in Nat /\ DOMAIN rules = 1 .. Len(rules)
      /\ Len(new) \in Nat /\ DOMAIN new = 1 .. Len(new)
  BY LenProperties
<1>2. \A k, l \in 1 .. Len(rules) : rules[k].id = rule.id /\ rules[l].id = rule.id => k = l
  BY <1>1 DEF PlacesOf
<1>3. CASE Appends(rules, rule, new)
  BY <1>1, <1>3 DEF Appends, InUse, ToSet
<1>4. ASSUME NEW p \in Nat, Replaces(rules, rule, new, p)
      PROVE  InUse(new, rule.id) = {r \in {rule} : r.enabled}
  BY <1>1, <1>2, <1>4 DEF Replaces, InUse, ToSet
<1>5. ASSUME NEW p \in Nat, Removes(rules, rule, new, p)
      PROVE  InUse(new, rule.id) = {r \in {rule} : r.enabled}
  <2>1. ASSUME NEW q \in 1 .. Len(new) PROVE new[q].id # rule.id
    <3> DEFINE was == IF q < p THEN q ELSE q + 1
    <3>1. was \in 1 .. Len(rules) /\ was # p /\ new[q] = rules[was]
      BY <1>1, <1>5 DEF Removes
    <3> QED
      BY <1>2, <1>5, <3>1 DEF Removes
  <2> QED
    BY <1>1, <1>5, <2>1 DEF Removes, InUse, ToSet
<1> QED
  BY <1>3, <1>4, <1>5 DEF Merges

\* And nothing of another id.
LEMMA MergedKeepsOthers ==
    ASSUME NEW S, NEW rules \in Seq(S), NEW rule, NEW new \in Seq(S), Merges(rules, rule, new),
           NEW id, id # rule.id
    PROVE  InUse(new, id) = InUse(rules, id)
BY MergedFrom DEF InUse, ToSet

-----------------------------------------------------------------------------
\* The invariant

Accepted == {name \in DOMAIN Contents : Parses(Contents[name])}

\* Every rule that a file the parser accepts may bring into a layer.
Parsed == UNION {ToSet(ParseYAML(Contents[name], k)) : name \in Accepted, k \in Layers}

Typed ==
    /\ disk \in [Layers -> DOMAIN Contents] /\ edits \in 0 .. MaxEdits
    /\ lock \in Requests \cup {Nobody}
    /\ status \in [Requests -> {"idle", "waiting", "loading", "served", "failed"}]
    /\ got = [r \in Requests |-> got[r]]
    /\ read \in Seq(Seq(Parsed)) /\ Len(read) <= 3
    /\ merged \in Seq(Parsed) /\ left \in Seq(Parsed)

\* Who loads has the lock, and nobody loads once there is a rule set.
LockIsLoad ==
    /\ \A r \in Requests : status[r] = "loading" <=> lock = r
    /\ lock = Nobody => read = <<>> /\ merged = <<>> /\ left = <<>>
    /\ lock # Nobody => cached = NoRules

ServedSomething == \A r \in Requests : status[r] = "served" => cached # NoRules

\* What is merged, and what is left to merge, comes from the layers read.
FromLayers ==
    /\ ToSet(merged) \subseteq UNION {ToSet(read[k]) : k \in DOMAIN read}
    /\ left # <<>> => /\ read # <<>>
                      /\ ToSet(left) \subseteq ToSet(read[Len(read)])

OnceEach(layers, id) == \A k \in DOMAIN layers : \A i, j \in PlacesOf(layers[k], id) : i = j

\* The layer whose rules of an id were merged last.
Through(id) == IF PlacesOf(left, id) = {} THEN Len(read) ELSE Len(read) - 1

\* Of an id that no layer names twice, the merged set has one rule at most; and it has
\* in use what the last of the layers merged so far that names it has.
MergedSoFar ==
    \A id : OnceEach(read, id) =>
        /\ \A i, j \in PlacesOf(merged, id) : i = j
        /\ \A i, j \in PlacesOf(left, id) : i = j
        /\ \A k \in 1 .. Through(id) :
             /\ PlacesOf(read[k], id) # {}
             /\ \A l \in k + 1 .. Through(id) : PlacesOf(read[l], id) = {}
             => InUse(merged, id) = InUse(read[k], id)

Inv == /\ Typed /\ LockIsLoad /\ ServedSomething /\ OneRuleSet /\ FromLayers /\ MergedSoFar
       /\ RefsLeadSomewhere /\ LastLayerDecides

-----------------------------------------------------------------------------
\* Parsing

LEMMA ParsedFile ==
    ASSUME NEW name \in Accepted, NEW k \in Layers
    PROVE  ParseYAML(Contents[name], k) \in Seq(Parsed)
<1> DEFINE file == Contents[name]
           rules == ParseYAML(file, k)
<1>1. file \in Seq(ToSet(file))
  BY ContentsAssumption DEF Accepted
<1>2. PICK n \in Nat : DOMAIN file = 1 .. n
  BY <1>1, LenProperties
<1>3. rules = [i \in 1 .. n |-> OfLayer(file[i], k)]
  BY <1>2 DEF ParseYAML
<1>4. \A i \in 1 .. n : rules[i] \in Parsed
  <2>1. ToSet(rules) \subseteq Parsed
    BY DEF Parsed
  <2>2. \A i \in 1 .. n : rules[i] \in ToSet(rules)
    BY <1>3 DEF ToSet
  <2> QED
    BY <2>1, <2>2
<1> HIDE DEF rules
<1>5. rules = [i \in 1 .. n |-> rules[i]]
  BY <1>3
<1>6. rules \in [1 .. n -> Parsed]
  BY <1>4, <1>5
<1> QED
  BY <1>6 DEF rules

\* Every reference in the tree of a parsed rule was recorded.
LEMMA RefsRecorded == \A rule \in Parsed : rule.named \subseteq rule.refs
<1> SUFFICES ASSUME NEW name \in Accepted, NEW k \in Layers,
                    NEW rule \in ToSet(ParseYAML(Contents[name], k))
             PROVE  rule.named \subseteq rule.refs
  BY DEF Parsed
<1> DEFINE file == Contents[name]
<1>1. PICK i \in DOMAIN file : rule = OfLayer(file[i], k)
  BY DEF ToSet, ParseYAML
<1>2. file[i] \in ToSet(file)
  BY DEF ToSet
<1>3. /\ {"id", "enabled", "node", "refs", "named"} \subseteq DOMAIN file[i]
      /\ file[i].named \subseteq file[i].refs
  BY <1>2, ContentsAssumption DEF Accepted
<1>4. rule.named = file[i].named /\ rule.refs = file[i].refs
  BY <1>1, <1>3 DEF OfLayer
<1> QED
  BY <1>3, <1>4

-----------------------------------------------------------------------------
\* The invariant is inductive

LEMMA InitInv == Init => Inv
<1> SUFFICES ASSUME Init PROVE Inv
  OBVIOUS
<1>1. /\ lock = Nobody /\ cached = NoRules /\ read = <<>> /\ merged = <<>> /\ left = <<>>
      /\ \A r \in Requests : status[r] = "idle"
  BY DEF Init
<1>2. /\ read \in Seq(Seq(Parsed)) /\ merged \in Seq(Parsed) /\ left \in Seq(Parsed)
      /\ Len(read) = 0
  BY <1>1, EmptySeq
<1>3. Typed
  BY <1>2, DisksAssumption, EditsAssumption DEF Init, Typed
<1>4. LockIsLoad /\ ServedSomething /\ OneRuleSet /\ RefsLeadSomewhere /\ LastLayerDecides
  BY <1>1, RequestsAssumption DEF LockIsLoad, ServedSomething, OneRuleSet, RefsLeadSomewhere, LastLayerDecides
<1>5. FromLayers /\ MergedSoFar
  <2>1. ToSet(merged) = {} /\ DOMAIN read = {} /\ \A id : PlacesOf(merged, id) = {} /\ PlacesOf(left, id) = {}
    BY <1>1 DEF ToSet, PlacesOf
  <2>2. \A id : Through(id) = 0
    BY <1>2, <2>1 DEF Through
  <2> QED
    BY <1>1, <2>1, <2>2 DEF FromLayers, MergedSoFar
<1> QED
  BY <1>3, <1>4, <1>5 DEF Inv

\* A step that touches no load and not the rule set.
LEMMA QuietStep ==
    ASSUME Inv, Typed', LockIsLoad', ServedSomething', OneRuleSet',
           UNCHANGED <<cached, read, merged, left>>
    PROVE  Inv'
<1>1. FromLayers' /\ MergedSoFar'
  <2>1. read' = read /\ merged' = merged /\ left' = left
    OBVIOUS
  <2>2. FromLayers'
    BY <2>1, Zenon DEF Inv, FromLayers
  <2>3. MergedSoFar'
    BY <2>1, Zenon DEF Inv, MergedSoFar, Through
  <2> QED
    BY <2>2, <2>3
<1>2. RefsLeadSomewhere' /\ LastLayerDecides'
  BY DEF Inv, RefsLeadSomewhere, LastLayerDecides
<1> QED
  BY <1>1, <1>2 DEF Inv

LEMMA OutsideInv ==
    ASSUME Inv,
           \/ \E k \in Layers, content \in DOMAIN Contents : Edit(k, content)
           \/ \E r \in Requests : Ask(r) \/ Leave(r) \/ EnterLoad(r)
    PROVE  Inv'
<1>1. ASSUME NEW k \in Layers, NEW content \in DOMAIN Contents, Edit(k, content) PROVE Inv'
  <2>1. Typed'
    BY <1>1, EditsAssumption DEF Inv, Typed, Edit
  <2>2. LockIsLoad' /\ ServedSomething' /\ OneRuleSet'
    BY <1>1 DEF Inv, LockIsLoad, ServedSomething, OneRuleSet, Edit
  <2> QED
    BY <1>1, <2>1, <2>2, QuietStep DEF Edit
<1>2. ASSUME NEW r \in Requests, Ask(r) PROVE Inv'
  <2>1. Typed' /\ LockIsLoad' /\ ServedSomething' /\ OneRuleSet'
    BY <1>2 DEF Inv, Typed, LockIsLoad, ServedSomething, OneRuleSet, Ask
  <2> QED
    BY <1>2, <2>1, QuietStep DEF Ask
<1>3. ASSUME NEW r \in Requests, Leave(r) PROVE Inv'
  <2>1. Typed' /\ LockIsLoad' /\ ServedSomething' /\ OneRuleSet'
    BY <1>3 DEF Inv, Typed, LockIsLoad, ServedSomething, OneRuleSet, Leave
  <2> QED
    BY <1>3, <2>1, QuietStep DEF Leave
<1>4. ASSUME NEW r \in Requests, EnterLoad(r) PROVE Inv'
  <2>1. Typed'
    BY <1>4 DEF Inv, Typed, EnterLoad
  <2>2. LockIsLoad' /\ ServedSomething' /\ OneRuleSet'
    BY <1>4, RequestsAssumption DEF Inv, Typed, LockIsLoad, ServedSomething, OneRuleSet, EnterLoad
  <2> QED
    BY <1>4, <2>1, <2>2, QuietStep DEF EnterLoad
<1> QED
  BY <1>1, <1>2, <1>3, <1>4

\* Whoever has the lock, or finds it free, returns what the repository keeps from then on.
LEMMA AnswerInv ==
    ASSUME Inv, NEW r \in Requests, lock \in {r, Nobody}, Answer(r, cached'), UNCHANGED disk, UNCHANGED edits,
           cached = NoRules \/ cached' = cached,
           RefsLeadSomewhere', LastLayerDecides'
    PROVE  Inv'
<1>1. /\ lock' = Nobody /\ read' = <<>> /\ merged' = <<>> /\ left' = <<>>
      /\ got' = [got EXCEPT ![r] = cached']
      /\ status' = [status EXCEPT ![r] = IF cached' = NoRules THEN "failed" ELSE "served"]
  BY DEF Answer
<1>2. read' \in Seq(Seq(Parsed)) /\ merged' \in Seq(Parsed) /\ left' \in Seq(Parsed) /\ Len(read') = 0
  BY <1>1, EmptySeq
<1>3. Typed'
  <2>1. disk' \in [Layers -> DOMAIN Contents] /\ edits' \in 0 .. MaxEdits
    BY DEF Inv, Typed
  <2>2. status' \in [Requests -> {"idle", "waiting", "loading", "served", "failed"}]
    BY <1>1 DEF Inv, Typed
  <2>3. got' = [q \in Requests |-> got'[q]]
    BY <1>1 DEF Inv, Typed
  <2> QED
    BY <1>1, <1>2, <2>1, <2>2, <2>3 DEF Typed
<1>4. LockIsLoad'
  BY <1>1, RequestsAssumption DEF Inv, Typed, LockIsLoad
<1>5. ServedSomething' /\ OneRuleSet'
  BY <1>1 DEF Inv, Typed, ServedSomething, OneRuleSet
<1>6. FromLayers' /\ MergedSoFar'
  <2>1. /\ ToSet(merged)' = {} /\ DOMAIN read' = {}
        /\ \A id : PlacesOf(merged', id) = {} /\ PlacesOf(left', id) = {}
    BY <1>1 DEF ToSet, PlacesOf
  <2>2. \A id : Through(id)' = 0
    BY <1>2, <2>1 DEF Through
  <2> QED
    BY <1>1, <2>1, <2>2 DEF FromLayers, MergedSoFar
<1> QED
  BY <1>3, <1>4, <1>5, <1>6 DEF Inv

LEMMA EnterCachedInv == \A r \in Requests : Inv /\ EnterCached(r) => Inv'
<1> SUFFICES ASSUME NEW r \in Requests, Inv, EnterCached(r) PROVE Inv'
  OBVIOUS
<1>1. lock = Nobody /\ cached' = cached /\ Answer(r, cached) /\ UNCHANGED disk /\ UNCHANGED edits
  BY DEF EnterCached
<1>2. Answer(r, cached')
  BY <1>1 DEF Answer
<1>3. RefsLeadSomewhere' /\ LastLayerDecides'
  BY <1>1 DEF Inv, RefsLeadSomewhere, LastLayerDecides
<1> QED
  BY <1>1, <1>2, <1>3, AnswerInv

LEMMA ReadLayerInv == \A r \in Requests : Inv /\ ReadLayer(r) => Inv'
<1> SUFFICES ASSUME NEW r \in Requests, Inv, ReadLayer(r) PROVE Inv'
  OBVIOUS
<1> DEFINE k == Len(read) + 1
           layer == ParseYAML(Contents[disk[k]], k)
<1>1. /\ lock = r /\ left = <<>> /\ k \in Layers /\ disk[k] \in DOMAIN Contents
      /\ cached' = cached /\ disk' = disk /\ edits' = edits
  <2>1. Len(read) \in Nat
    BY LenProperties DEF Inv, Typed
  <2> QED
    BY <2>1 DEF ReadLayer, Inv, Typed, Layers
<1>2. cached = NoRules
  BY <1>1, RequestsAssumption DEF Inv, LockIsLoad
<1>3. RefsLeadSomewhere' /\ LastLayerDecides'
  BY <1>1, <1>2 DEF RefsLeadSomewhere, LastLayerDecides
<1>4. CASE ~Parses(Contents[disk[k]])
  <2>1. Answer(r, cached')
    BY <1>1, <1>2, <1>4 DEF ReadLayer, Answer
  <2> QED
    BY <1>1, <1>3, <2>1, AnswerInv
<1>5. CASE Parses(Contents[disk[k]])
  <2>1. layer \in Seq(Parsed)
    BY <1>1, <1>5, ParsedFile DEF Accepted
  <2>2. /\ read' = Append(read, layer)
        /\ IF k = 1 THEN merged' = layer /\ left' = left ELSE left' = layer /\ merged' = merged
        /\ lock' = lock /\ status' = status /\ got' = got
    BY <1>5 DEF ReadLayer
  <2> HIDE DEF layer
  <2>3. /\ read' \in Seq(Seq(Parsed)) /\ Len(read') = k /\ read'[k] = layer
        /\ \A l \in 1 .. Len(read) : read'[l] = read[l]
        /\ DOMAIN read' = 1 .. k /\ DOMAIN read = 1 .. Len(read) /\ Len(read) \in Nat
    <3>1. read \in Seq(Seq(Parsed))
      BY DEF Inv, Typed
    <3> QED
      BY <2>1, <2>2, <3>1, AppendProperties, LenProperties
  <2>4. Typed'
    <3>1. merged' \in Seq(Parsed) /\ left' \in Seq(Parsed)
      BY <2>1, <2>2 DEF Inv, Typed
    <3>2. Len(read') <= 3
      BY <1>1, <2>3 DEF Layers
    <3> QED
      BY <1>1, <2>2, <2>3, <3>1, <3>2 DEF Inv, Typed
  <2>5. LockIsLoad' /\ ServedSomething' /\ OneRuleSet'
    BY <1>1, <1>2, <2>2, RequestsAssumption DEF Inv, LockIsLoad, ServedSomething, OneRuleSet
  <2>6. FromLayers'
    <3>1. read' # <<>>
      BY <2>3, EmptySeq
    <3>2. ToSet(layer) \subseteq UNION {ToSet(read'[l]) : l \in DOMAIN read'}
      BY <2>3
    <3>3. UNION {ToSet(read[l]) : l \in DOMAIN read} \subseteq UNION {ToSet(read'[l]) : l \in DOMAIN read'}
      BY <2>3
    <3>4. ToSet(merged)' \subseteq UNION {ToSet(read'[l]) : l \in DOMAIN read'}
      <4>1. CASE k = 1
        BY <2>2, <3>2, <4>1
      <4>2. CASE k # 1
        BY <2>2, <3>3, <4>2 DEF Inv, FromLayers
      <4> QED
        BY <4>1, <4>2
    <3>5. left' # <<>> => ToSet(left') \subseteq ToSet(read'[Len(read')])
      BY <1>1, <2>2, <2>3
    <3> QED
      BY <3>1, <3>4, <3>5 DEF FromLayers
  <2>7. MergedSoFar'
    <3> SUFFICES ASSUME NEW id, OnceEach(read', id)
                 PROVE  /\ \A i, j \in PlacesOf(merged', id) : i = j
                        /\ \A i, j \in PlacesOf(left', id) : i = j
                        /\ \A m \in 1 .. Through(id)' :
                             /\ PlacesOf(read'[m], id) # {}
                             /\ \A l \in m + 1 .. Through(id)' : PlacesOf(read'[l], id) = {}
                             => InUse(merged', id) = InUse(read'[m], id)
      BY DEF MergedSoFar
    <3>1. /\ \A i, j \in PlacesOf(layer, id) : i = j
          /\ OnceEach(read, id)
      BY <2>3 DEF OnceEach
    <3>2. /\ \A i, j \in PlacesOf(merged, id) : i = j
          /\ \A m \in 1 .. Len(read) :
               /\ PlacesOf(read[m], id) # {}
               /\ \A l \in m + 1 .. Len(read) : PlacesOf(read[l], id) = {}
               => InUse(merged, id) = InUse(read[m], id)
      <4>1. PlacesOf(left, id) = {}
        BY <1>1 DEF PlacesOf
      <4>2. Through(id) = Len(read)
        BY <4>1 DEF Through
      <4> QED
        BY <3>1, <4>2 DEF Inv, MergedSoFar
    <3>3. \A l \in 1 .. Len(read) : PlacesOf(read'[l], id) = PlacesOf(read[l], id)
      BY <2>3 DEF PlacesOf
    <3>4. CASE k = 1
      <4>1. merged' = layer /\ PlacesOf(left', id) = {}
        BY <1>1, <2>2, <3>4 DEF PlacesOf
      <4>2. Through(id)' = 1
        BY <2>3, <3>4, <4>1 DEF Through
      <4> QED
        BY <2>3, <3>1, <3>4, <4>1, <4>2
    <3>5. CASE k # 1
      <4>1. merged' = merged /\ left' = layer
        BY <2>2, <3>5
      <4>2. ASSUME NEW m \in 1 .. Through(id)', PlacesOf(read'[m], id) # {},
                   \A l \in m + 1 .. Through(id)' : PlacesOf(read'[l], id) = {}
            PROVE  InUse(merged', id) = InUse(read'[m], id)
        <5>1. CASE PlacesOf(layer, id) = {}
          <6>1. Through(id)' = k
            BY <2>3, <4>1, <5>1 DEF Through
          <6>2. m # k
            BY <2>3, <4>2, <5>1
          <6>3. /\ m \in 1 .. Len(read)
                /\ \A l \in m + 1 .. Len(read) : l \in m + 1 .. k /\ l \in 1 .. Len(read)
            BY <2>3, <6>1, <6>2
          <6>4. PlacesOf(read[m], id) # {} /\ \A l \in m + 1 .. Len(read) : PlacesOf(read[l], id) = {}
            BY <3>3, <4>2, <6>1, <6>3
          <6> QED
            BY <2>3, <3>2, <4>1, <6>3, <6>4
        <5>2. CASE PlacesOf(layer, id) # {}
          <6>1. Through(id)' = Len(read)
            <7>1. PlacesOf(left', id) # {}
              BY <4>1, <5>2
            <7>2. Through(id)' = Len(read') - 1
              BY <7>1 DEF Through
            <7> QED
              BY <2>3, <7>2
          <6>2. m \in 1 .. Len(read) /\ \A l \in m + 1 .. Len(read) : l \in 1 .. Len(read)
            BY <2>3, <6>1
          <6>3. PlacesOf(read[m], id) # {} /\ \A l \in m + 1 .. Len(read) : PlacesOf(read[l], id) = {}
            BY <3>3, <4>2, <6>1, <6>2
          <6> QED
            BY <2>3, <3>2, <4>1, <6>2, <6>3
        <5> QED
          BY <5>1, <5>2
      <4> QED
        BY <3>1, <3>2, <4>1, <4>2
    <3> QED
      BY <3>4, <3>5
  <2> QED
    BY <1>3, <2>4, <2>5, <2>6, <2>7 DEF Inv
<1> QED
  BY <1>4, <1>5

LEMMA MergeInv == \A r \in Requests : Inv /\ Merge(r) => Inv'
<1> SUFFICES ASSUME NEW r \in Requests, Inv, Merge(r) PROVE Inv'
  OBVIOUS
<1> DEFINE rule == Head(left)
           n == Len(read)
           last == read[n]
<1>1. /\ left # <<>> /\ merged' = MergeRule(merged, rule) /\ left' = Tail(left)
      /\ disk' = disk /\ edits' = edits /\ cached' = cached /\ lock' = lock /\ read' = read
      /\ status' = status /\ got' = got /\ lock = r
  BY DEF Merge
<1>2. left \in Seq(Parsed) /\ merged \in Seq(Parsed) /\ read \in Seq(Seq(Parsed))
  BY DEF Inv, Typed
<1>3. /\ rule \in Parsed /\ left' \in Seq(Parsed) /\ rule = left[1] /\ 1 \in DOMAIN left
      /\ \A j \in DOMAIN left' : j + 1 \in DOMAIN left /\ j + 1 # 1 /\ left'[j] = left[j + 1]
      /\ \A j \in DOMAIN left : j # 1 => j - 1 \in DOMAIN left' /\ left'[j - 1] = left[j]
  <2>1. /\ rule \in Parsed /\ left' \in Seq(Parsed) /\ Len(left') = Len(left) - 1
        /\ \A j \in 1 .. Len(left') : left'[j] = left[j + 1]
    BY <1>1, <1>2, HeadTailProperties
  <2>2. /\ Len(left) \in Nat /\ Len(left) # 0 /\ DOMAIN left = 1 .. Len(left)
        /\ DOMAIN left' = 1 .. Len(left')
    BY <1>1, <1>2, <2>1, EmptySeq, LenProperties
  <2>3. rule = left[1]
    OBVIOUS
  <2> QED
    BY <2>1, <2>2, <2>3
<1>4. merged' \in Seq(Parsed) /\ Merges(merged, rule, merged')
  BY <1>1, <1>2, <1>3, MergeCases
<1>5. /\ n \in Nat /\ n \in DOMAIN read /\ n \in 1 .. n /\ DOMAIN read = 1 .. n /\ ToSet(left) \subseteq ToSet(last)
      /\ last \in Seq(Parsed)
  <2>1. read # <<>> /\ ToSet(left) \subseteq ToSet(last)
    BY <1>1 DEF Inv, FromLayers
  <2>2. n \in Nat /\ n # 0 /\ DOMAIN read = 1 .. n
    BY <1>2, <2>1, EmptySeq, LenProperties
  <2>3. last \in Seq(Parsed)
    BY <1>2, <2>2, ElementOfSeq
  <2> QED
    BY <2>1, <2>2, <2>3
<1> HIDE DEF rule, n, last
<1>6. Typed'
  BY <1>1, <1>3, <1>4 DEF Inv, Typed
<1>7. LockIsLoad' /\ ServedSomething' /\ OneRuleSet' /\ RefsLeadSomewhere' /\ LastLayerDecides'
  <2>1. lock # Nobody /\ cached = NoRules
    BY <1>1, RequestsAssumption DEF Inv, LockIsLoad
  <2> QED
    BY <1>1, <2>1 DEF Inv, LockIsLoad, ServedSomething, OneRuleSet, RefsLeadSomewhere, LastLayerDecides
<1>8. rule \in ToSet(left) /\ ToSet(left') \subseteq ToSet(left)
  BY <1>3 DEF ToSet
<1>9. FromLayers'
  <2>1. ToSet(merged') \subseteq ToSet(merged) \cup {rule}
    BY <1>2, <1>4, MergedFrom DEF ToSet
  <2>2. rule \in UNION {ToSet(read[k]) : k \in DOMAIN read}
    BY <1>5, <1>8 DEF last
  <2>3. ToSet(merged') \subseteq UNION {ToSet(read'[k]) : k \in DOMAIN read'}
    BY <1>1, <2>1, <2>2 DEF Inv, FromLayers
  <2>4. read' # <<>> /\ ToSet(left') \subseteq ToSet(read'[Len(read')])
    BY <1>1, <1>8 DEF Inv, FromLayers
  <2> QED
    BY <2>3, <2>4 DEF FromLayers
<1>10. MergedSoFar'
  <2> SUFFICES ASSUME NEW id, OnceEach(read, id)
               PROVE  /\ \A i, j \in PlacesOf(merged', id) : i = j
                      /\ \A i, j \in PlacesOf(left', id) : i = j
                      /\ \A m \in 1 .. Through(id)' :
                           /\ PlacesOf(read[m], id) # {}
                           /\ \A l \in m + 1 .. Through(id)' : PlacesOf(read[l], id) = {}
                           => InUse(merged', id) = InUse(read[m], id)
    BY <1>1 DEF MergedSoFar
  <2>1. /\ \A i, j \in PlacesOf(merged, id) : i = j
        /\ \A i, j \in PlacesOf(left, id) : i = j
        /\ \A m \in 1 .. Through(id) :
             /\ PlacesOf(read[m], id) # {}
             /\ \A l \in m + 1 .. Through(id) : PlacesOf(read[l], id) = {}
             => InUse(merged, id) = InUse(read[m], id)
    BY DEF Inv, MergedSoFar
  <2>2. \A i, j \in PlacesOf(merged', id) : i = j
    BY <1>2, <1>4, <2>1, PlaceStaysOne
  <2>3. \A i, j \in PlacesOf(left', id) : i = j
    <3> SUFFICES ASSUME NEW i \in DOMAIN left', NEW j \in DOMAIN left', left'[i].id = id, left'[j].id = id
                 PROVE  i = j
      BY DEF PlacesOf
    <3>1. i + 1 \in PlacesOf(left, id) /\ j + 1 \in PlacesOf(left, id)
      BY <1>3 DEF PlacesOf
    <3>2. i + 1 = j + 1 /\ i \in Int /\ j \in Int
      BY <1>3, <2>1, <3>1, LenProperties
    <3> QED
      BY <3>2
  <2>4. CASE id = rule.id
    <3>1. PlacesOf(left', id) = {}
      <4> SUFFICES ASSUME NEW j \in DOMAIN left', left'[j].id = id PROVE FALSE
        BY DEF PlacesOf
      <4>1. j + 1 \in PlacesOf(left, id) /\ 1 \in PlacesOf(left, id)
        BY <1>3, <2>4 DEF PlacesOf
      <4> QED
        BY <1>3, <2>1, <4>1
    <3>2. Through(id)' = n
      BY <1>1, <3>1 DEF Through, n
    <3>3. PICK i \in DOMAIN last : rule = last[i]
      BY <1>5, <1>8 DEF ToSet
    <3>4. \A j \in DOMAIN last : last[j].id = id => j = i
      BY <1>5, <2>4, <3>3 DEF OnceEach, PlacesOf, last
    <3>5. InUse(last, id) = {q \in {rule} : q.enabled}
      BY <2>4, <3>3, <3>4 DEF InUse, ToSet
    <3>6. InUse(merged', id) = InUse(last, id)
      BY <1>2, <1>4, <2>1, <2>4, <3>5, MergedDecides
    <3>7. PlacesOf(last, id) # {}
      BY <2>4, <3>3 DEF PlacesOf
    <3>8. ASSUME NEW m \in 1 .. n, \A l \in m + 1 .. n : PlacesOf(read[l], id) = {}
          PROVE  m = n
      <4> SUFFICES ASSUME m # n PROVE FALSE
        OBVIOUS
      <4>1. n \in m + 1 .. n
        BY <1>5, <3>8
      <4> QED
        BY <3>7, <3>8, <4>1 DEF last
    <3> QED
      BY <2>2, <2>3, <3>2, <3>6, <3>8 DEF last
  <2>5. CASE id # rule.id
    <3>1. PlacesOf(left', id) = {} <=> PlacesOf(left, id) = {}
      BY <1>3, <2>5 DEF PlacesOf
    <3>2. Through(id)' = Through(id)
      BY <1>1, <3>1 DEF Through
    <3>3. InUse(merged', id) = InUse(merged, id)
      BY <1>2, <1>4, <2>5, MergedKeepsOthers
    <3> QED
      BY <2>1, <2>2, <2>3, <3>2, <3>3
  <2> QED
    BY <2>4, <2>5
<1> QED
  BY <1>6, <1>7, <1>9, <1>10 DEF Inv

\* References that are fewer have no more cycles.
LEMMA FewerRefs ==
    ASSUME NEW refs, NEW more, refs \subseteq more, ~HasCycle(more)
    PROVE  ~HasCycle(refs)
<1> SUFFICES ASSUME NEW ring \in SUBSET {e[1] : e \in refs}, ring # {},
                    \A id \in ring : \E next \in ring : <<id, next>> \in refs
             PROVE  FALSE
  BY DEF HasCycle
<1>1. ring \in SUBSET {e[1] : e \in more}
  OBVIOUS
<1>2. \A id \in ring : \E next \in ring : <<id, next>> \in more
  OBVIOUS
<1> QED
  BY <1>1, <1>2 DEF HasCycle

\* What the resolver checked of the references recorded holds of those in the trees.
LEMMA ResolvedRefs ==
    ASSUME Inv, ResolveRefs(RefsOf(read), merged)
    PROVE  LET rules == ToSet(merged)
               refs == UNION {{<<r.id, t>> : t \in r.named} : r \in rules}
           IN  /\ \A e \in refs : \E r \in rules : r.id = e[2] /\ r.node.method # "nil"
               /\ ~HasCycle(refs)
<1> DEFINE rules == ToSet(merged)
           refs == UNION {{<<r.id, t>> : t \in r.named} : r \in rules}
<1>1. merged \in Seq(Parsed)
  BY DEF Inv, Typed
<1>2. refs \subseteq RefsOf(read)
  <2> SUFFICES ASSUME NEW r \in rules, NEW t \in r.named PROVE <<r.id, t>> \in RefsOf(read)
    OBVIOUS
  <2>1. r \in Parsed
    BY <1>1, ElementOfSeq, LenProperties DEF ToSet
  <2>2. t \in r.refs
    BY <2>1, RefsRecorded
  <2>3. PICK k \in DOMAIN read : r \in ToSet(read[k])
    BY DEF Inv, FromLayers
  <2> QED
    BY <2>2, <2>3 DEF RefsOf
<1>3. ASSUME NEW e \in refs PROVE \E r \in rules : r.id = e[2] /\ r.node.method # "nil"
  <2>1. (\E r \in rules : r.id = e[2]) /\ Target(merged, e[2]).node.method # "nil"
    BY <1>2, <1>3 DEF ResolveRefs
  <2>2. PlacesOf(merged, e[2]) # {}
    BY <2>1 DEF PlacesOf, ToSet
  <2>3. Max(PlacesOf(merged, e[2])) \in PlacesOf(merged, e[2])
    BY <1>1, <2>2, LastPlace
  <2>4. Target(merged, e[2]) \in rules /\ Target(merged, e[2]).id = e[2]
    BY <2>3 DEF Target, PlacesOf, ToSet
  <2> QED
    BY <2>1, <2>4
<1>4. ~HasCycle(refs)
  <2>1. ~HasCycle(RefsOf(read))
    BY DEF ResolveRefs
  <2> HIDE DEF refs
  <2> QED
    BY <1>2, <2>1, FewerRefs
<1> QED
  BY <1>3, <1>4

\* A set with at most one element has no two.
LEMMA AtMostOne ==
    ASSUME NEW n \in Nat, NEW places \in SUBSET (1 .. n), Cardinality(places) <= 1
    PROVE  \A i, j \in places : i = j
<1> SUFFICES ASSUME NEW i \in places, NEW j \in places, i # j PROVE FALSE
  OBVIOUS
<1>1. IsFiniteSet(places)
  <2>1. IsFiniteSet(1 .. n)
    BY FS_Interval
  <2> QED
    BY <2>1, FS_Subset
<1>2. {i, j} \subseteq places
  OBVIOUS
<1>3. IsFiniteSet({i, j}) /\ Cardinality({i, j}) <= Cardinality(places)
  BY <1>1, <1>2, FS_Subset
<1>4. Cardinality({i, j}) = 2
  <2>1. IsFiniteSet({i}) /\ Cardinality({i}) = 1
    BY FS_Singleton
  <2>2. Cardinality({i} \cup {j}) = Cardinality({i}) + 1
    BY <2>1, FS_AddElement
  <2>3. {i} \cup {j} = {i, j}
    OBVIOUS
  <2> QED
    BY <2>1, <2>2, <2>3
<1>5. Cardinality(places) \in Nat
  BY <1>1, FS_CardinalityType
<1> QED
  BY <1>3, <1>4, <1>5

\* Once all three layers are merged, the last that names a rule has decided.
LEMMA AllMerged ==
    ASSUME Inv, Len(read) = 3, left = <<>>, NEW id,
           {k \in Layers : PlacesOf(read[k], id) # {}} # {},
           \A k \in Layers : Cardinality(PlacesOf(read[k], id)) <= 1
    PROVE  InUse(merged, id) = InUse(read[Max({k \in Layers : PlacesOf(read[k], id) # {}})], id)
<1> DEFINE naming == {k \in Layers : PlacesOf(read[k], id) # {}}
           last == Max(naming)
<1>1. read \in Seq(Seq(Parsed)) /\ DOMAIN read = 1 .. 3
  BY LenProperties DEF Inv, Typed
<1>2. OnceEach(read, id)
  <2> SUFFICES ASSUME NEW k \in 1 .. 3 PROVE \A i, j \in PlacesOf(read[k], id) : i = j
    BY <1>1 DEF OnceEach
  <2>1. read[k] \in Seq(Parsed)
    BY <1>1, ElementOfSeq
  <2>2. Len(read[k]) \in Nat /\ PlacesOf(read[k], id) \in SUBSET (1 .. Len(read[k]))
    BY <2>1, LenProperties DEF PlacesOf
  <2> QED
    BY <2>2, AtMostOne DEF Layers
<1>3. Through(id) = 3
  BY DEF Through, PlacesOf
<1>4. last \in naming /\ \A k \in naming : last >= k
  <2>1. naming \in SUBSET (1 .. 3) /\ naming # {}
    BY DEF Layers
  <2> HIDE DEF naming
  <2> QED
    BY <2>1, LastOf
<1> HIDE DEF last
<1>5. last \in 1 .. 3 /\ PlacesOf(read[last], id) # {}
  BY <1>4 DEF Layers
<1>6. \A l \in last + 1 .. 3 : PlacesOf(read[l], id) = {}
  <2> SUFFICES ASSUME NEW l \in last + 1 .. 3, PlacesOf(read[l], id) # {} PROVE FALSE
    OBVIOUS
  <2>1. l \in naming
    BY <1>5 DEF Layers
  <2> QED
    BY <1>4, <1>5, <2>1
<1>7. InUse(merged, id) = InUse(read[last], id)
  BY <1>2, <1>3, <1>5, <1>6 DEF Inv, MergedSoFar
<1> QED
  BY <1>7 DEF last

LEMMA FinishLoadInv == \A r \in Requests : Inv /\ FinishLoad(r) => Inv'
<1> SUFFICES ASSUME NEW r \in Requests, Inv, FinishLoad(r) PROVE Inv'
  OBVIOUS
<1>1. lock = r /\ left = <<>> /\ Len(read) = 3 /\ disk' = disk /\ edits' = edits
  BY DEF FinishLoad
<1>2. cached = NoRules
  BY <1>1, RequestsAssumption DEF Inv, LockIsLoad
<1>3. CASE ~ResolveRefs(RefsOf(read), merged)
  <2>1. cached' = cached /\ Answer(r, cached')
    BY <1>2, <1>3 DEF FinishLoad, Answer
  <2>2. RefsLeadSomewhere' /\ LastLayerDecides'
    BY <1>2, <2>1 DEF RefsLeadSomewhere, LastLayerDecides
  <2> QED
    BY <1>1, <1>2, <2>1, <2>2, AnswerInv
<1>4. CASE ResolveRefs(RefsOf(read), merged)
  <2>1. cached' = [rules |-> merged, layers |-> read] /\ Answer(r, cached')
    BY <1>4 DEF FinishLoad
  <2>2. cached'.rules = merged /\ cached'.layers = read
    BY <2>1
  <2>3. RefsLeadSomewhere'
    BY <1>4, <2>2, ResolvedRefs DEF RefsLeadSomewhere
  <2>4. LastLayerDecides'
    <3> SUFFICES ASSUME NEW id \in UNION {{q.id : q \in ToSet(read[k])} : k \in Layers},
                        \A k \in Layers : Cardinality(PlacesOf(read[k], id)) <= 1
                 PROVE  InUse(merged, id)
                          = InUse(read[Max({k \in Layers : PlacesOf(read[k], id) # {}})], id)
      BY <2>2, Zenon DEF LastLayerDecides
    <3>1. {k \in Layers : PlacesOf(read[k], id) # {}} # {}
      BY DEF PlacesOf, ToSet
    <3> QED
      BY <1>1, <3>1, AllMerged
  <2> QED
    BY <1>1, <1>2, <2>1, <2>3, <2>4, AnswerInv
<1> QED
  BY <1>3, <1>4

LEMMA NextInv == Inv /\ [Next]_vars => Inv'
<1> SUFFICES ASSUME Inv, [Next]_vars PROVE Inv'
  OBVIOUS
<1>1. CASE \E k \in Layers, content \in DOMAIN Contents : Edit(k, content)
  BY <1>1, OutsideInv
<1>2. CASE \E r \in Requests : Ask(r) \/ Leave(r) \/ EnterLoad(r)
  BY <1>2, OutsideInv
<1>3. CASE \E r \in Requests : EnterCached(r)
  BY <1>3, EnterCachedInv
<1>4. CASE \E r \in Requests : ReadLayer(r)
  BY <1>4, ReadLayerInv
<1>5. CASE \E r \in Requests : Merge(r)
  BY <1>5, MergeInv
<1>6. CASE \E r \in Requests : FinishLoad(r)
  BY <1>6, FinishLoadInv
<1>7. CASE UNCHANGED vars
  <2>1. Typed' /\ LockIsLoad' /\ ServedSomething' /\ OneRuleSet'
    BY <1>7 DEF vars, Inv, Typed, LockIsLoad, ServedSomething, OneRuleSet
  <2> QED
    BY <1>7, <2>1, QuietStep DEF vars
<1> QED
  BY <1>1, <1>2, <1>3, <1>4, <1>5, <1>6, <1>7 DEF Next

LEMMA Invariant == Spec => []Inv
BY InitInv, NextInv, PTL DEF Spec

\* Only a holder of the mutex is loading, and nothing of a load is left when it is over.
THEOREM TypeCorrect == Spec => []TypeOK
<1>1. Inv => TypeOK
  <2> SUFFICES ASSUME Inv PROVE TypeOK
    OBVIOUS
  <2>1. /\ \A k \in Layers : disk[k] \in DOMAIN Contents
        /\ edits \in 0 .. MaxEdits /\ lock \in Requests \cup {Nobody} /\ Len(read) <= 3
    BY DEF Inv, Typed
  <2>2. /\ \A r \in Requests : status[r] = "loading" => lock = r
        /\ lock = Nobody => read = <<>> /\ merged = <<>> /\ left = <<>>
    BY DEF Inv, LockIsLoad
  <2> QED
    BY <2>1, <2>2 DEF TypeOK
<1> QED
  BY <1>1, Invariant, PTL

\* All requests of a process work with one rule set, however many ask, whatever fails to
\* load before, and whatever is edited in between.
THEOREM OneSetForAll == Spec => []OneRuleSet
<1>1. Inv => OneRuleSet
  BY DEF Inv
<1> QED
  BY <1>1, Invariant, PTL

\* However long the files and their chains of references are: the references of the rules
\* in use lead to rules in use that have a tree, and never in a circle.
THEOREM RefsAreSound == Spec => []RefsLeadSomewhere
<1>1. Inv => RefsLeadSomewhere
  BY DEF Inv
<1> QED
  BY <1>1, Invariant, PTL

\* However the layers override each other, and in whatever order rules come in them: of a
\* rule, what its last layer says is in use.
THEOREM LastLayerWins == Spec => []LastLayerDecides
<1>1. Inv => LastLayerDecides
  BY DEF Inv
<1> QED
  BY <1>1, Invariant, PTL

-----------------------------------------------------------------------------
(* The flags the rules raise *)

\* Induction, with the numbers it is true of as a set.
LEMMA CountUp ==
    ASSUME NEW S, 0 \in S, \A k \in Nat : k \in S => k + 1 \in S
    PROVE  Nat \subseteq S
<1> SUFFICES ASSUME Nat \ S # {} PROVE FALSE
  OBVIOUS
<1>1. PICK least \in Nat \ S : \A m \in Nat \ S : <<m, least>> \notin OpToRel(<, Nat)
  <2>1. Nat \ S \subseteq Nat
    OBVIOUS
  <2> QED
    BY <2>1, WFMin, NatLessThanWellFounded, Zenon
<1>2. least - 1 \in Nat /\ least - 1 < least
  OBVIOUS
<1>3. least - 1 \in S
  BY <1>1, <1>2, Zenon DEF OpToRel
<1> QED
  BY <1>2, <1>3

-----------------------------------------------------------------------------
\* Looking for a word in a text

\* A set of numbers that is not empty has a least one.
LEMMA LeastOf ==
    ASSUME NEW places \in SUBSET Nat, places # {}
    PROVE  Min(places) \in places /\ \A i \in places : Min(places) <= i
<1>1. PICK least \in places : \A m \in places : <<m, least>> \notin OpToRel(<, Nat)
  BY WFMin, NatLessThanWellFounded, Zenon
<1>2. \A m \in places : least <= m
  <2> SUFFICES ASSUME NEW m \in places PROVE least <= m
    OBVIOUS
  <2>1. ~(m < least)
    BY <1>1, Zenon DEF OpToRel
  <2> QED
    BY <2>1
<1> QED
  BY <1>2 DEF Min

Finds(t, v, o, i) ==
    \/ i = -1 /\ \A j \in o .. Len(t) : ~OccursAt(t, v, j)
    \/ i \in o .. Len(t) /\ OccursAt(t, v, i) /\ \A j \in o .. Len(t) : OccursAt(t, v, j) => i <= j

\* Index gives the first place, or says that there is none.
LEMMA IndexFinds ==
    ASSUME NEW t, NEW v, NEW o \in Nat, Len(t) \in Nat
    PROVE  Finds(t, v, o, Index(t, v, o))
<1> DEFINE at == {i \in o .. Len(t) : OccursAt(t, v, i)}
<1>1. Index(t, v, o) = IF at = {} THEN -1 ELSE Min(at)
  BY DEF Index
<1>2. at \in SUBSET Nat
  OBVIOUS
<1>3. \A j \in o .. Len(t) : OccursAt(t, v, j) <=> j \in at
  OBVIOUS
<1>4. at \subseteq o .. Len(t)
  OBVIOUS
<1> HIDE DEF at
<1>5. CASE at = {}
  BY <1>1, <1>3, <1>5 DEF Finds
<1>6. CASE at # {}
  <2>1. Min(at) \in at /\ \A i \in at : Min(at) <= i
    BY <1>2, <1>6, LeastOf
  <2>2. Min(at) \in o .. Len(t) /\ OccursAt(t, v, Min(at))
    BY <1>3, <1>4, <2>1
  <2> QED
    BY <1>1, <1>3, <1>6, <2>1, <2>2 DEF Finds
<1> QED
  BY <1>5, <1>6

Spells(t, v, i) == i + Len(v) <= Len(t) /\ \A k \in 1 .. Len(v) : t[i + k] = v[k]

\* A word occurs where the text spells it, letter by letter.
LEMMA OccursSpells ==
    ASSUME NEW S, NEW t \in Seq(S), NEW v \in Seq(S), NEW i \in Nat
    PROVE  OccursAt(t, v, i) <=> Spells(t, v, i)
<1> DEFINE cut == SubSeq(t, i + 1, i + Len(v))
<1>1. Len(v) \in Nat /\ Len(t) \in Nat /\ \A k \in 1 .. Len(t) : t[k] \in S
  BY LenProperties, ElementOfSeq
<1>2. OccursAt(t, v, i) <=> i + Len(v) <= Len(t) /\ cut = v
  BY DEF OccursAt, Slice, MatchRange
<1>3. ASSUME i + Len(v) <= Len(t)
      PROVE  cut \in Seq(S) /\ Len(cut) = Len(v) /\ \A k \in 1 .. Len(v) : cut[k] = t[i + k]
  <2>1. i + 1 \in Int /\ i + Len(v) \in Int /\ \A k \in i + 1 .. i + Len(v) : t[k] \in S
    BY <1>1, <1>3
  <2>2. /\ cut \in Seq(S)
        /\ Len(cut) = IF i + 1 <= i + Len(v) THEN i + Len(v) - (i + 1) + 1 ELSE 0
        /\ \A k \in 1 .. i + Len(v) - (i + 1) + 1 : cut[k] = t[i + 1 + k - 1]
    BY <2>1, SubSeqProperties
  <2> HIDE DEF cut
  <2>3. \A k \in 1 .. Len(v) : k \in 1 .. i + Len(v) - (i + 1) + 1 /\ i + 1 + k - 1 = i + k
    BY <1>1
  <2> QED
    BY <1>1, <2>2, <2>3
<1> HIDE DEF cut
<1>4. ASSUME i + Len(v) <= Len(t), \A k \in 1 .. Len(v) : t[i + k] = v[k] PROVE cut = v
  BY <1>3, <1>4, SeqEqual
<1> QED
  BY <1>1, <1>2, <1>3, <1>4 DEF Spells

-----------------------------------------------------------------------------
\* A function on the offsets of a text, each value made of one further on, or of none.

Onwards(f, N, stops, next, base, join) ==
    \A o \in 0 .. N : f[o] = IF o \in stops THEN base[o] ELSE join[<<o, f[next[o]]>>]

LEMMA OnwardsExists ==
    ASSUME NEW N \in Nat, NEW V, NEW stops, NEW next, NEW base \in [0 .. N -> V],
           NEW join \in [(0 .. N) \X V -> V],
           \A o \in (0 .. N) \ stops : next[o] \in o + 1 .. N
    PROVE  \E f \in [0 .. N -> V] : Onwards(f, N, stops, next, base, join)
<1> DEFINE value(f, o) == IF o \in stops THEN base[o] ELSE join[<<o, f[next[o]]>>]
           good == {m \in Nat : m <= N =>
                      \E f \in [0 .. N -> V] : \A o \in N - m .. N : f[o] = value(f, o)}
<1>1. 0 \in good
  <2>1. \A o \in N - 0 .. N : o \in stops
    OBVIOUS
  <2>2. \A o \in N - 0 .. N : base[o] = value(base, o)
    BY <2>1
  <2> HIDE DEF value
  <2> QED
    BY <2>2
<1>2. ASSUME NEW m \in Nat, m \in good PROVE m + 1 \in good
  <2> SUFFICES ASSUME m + 1 <= N
               PROVE  \E f \in [0 .. N -> V] : \A o \in N - (m + 1) .. N : f[o] = value(f, o)
    OBVIOUS
  <2>1. PICK f \in [0 .. N -> V] : \A o \in N - m .. N : f[o] = value(f, o)
    BY <1>2
  <2>2. PICK at \in 0 .. N : at = N - m - 1
    OBVIOUS
  <2> DEFINE more == [f EXCEPT ![at] = value(f, at)]
  <2>3. value(f, at) \in V
    <3>1. CASE at \in stops
      BY <3>1
    <3>2. CASE at \notin stops
      <4>1. next[at] \in 0 .. N
        BY <3>2
      <4> QED
        BY <3>2, <4>1
    <3> QED
      BY <3>1, <3>2
  <2> HIDE DEF value
  <2>4. more \in [0 .. N -> V] /\ more[at] = value(f, at) /\ \A o \in 0 .. N : o # at => more[o] = f[o]
    BY <2>3
  <2> HIDE DEF more
  <2>5. ASSUME NEW o \in N - (m + 1) .. N PROVE value(more, o) = value(f, o)
    <3>1. o \in 0 .. N /\ o >= at
      BY <2>2
    <3>2. CASE o \in stops
      BY <3>2 DEF value
    <3>3. CASE o \notin stops
      <4>1. next[o] \in o + 1 .. N
        BY <3>1, <3>3
      <4>2. next[o] \in 0 .. N /\ next[o] # at
        BY <3>1, <4>1
      <4>3. more[next[o]] = f[next[o]]
        BY <2>4, <4>2
      <4> QED
        BY <4>3 DEF value
    <3> QED
      BY <3>2, <3>3
  <2>6. ASSUME NEW o \in N - (m + 1) .. N PROVE more[o] = value(more, o)
    <3>1. CASE o = at
      BY <2>4, <2>5, <3>1
    <3>2. CASE o # at
      <4>1. o \in N - m .. N /\ o \in 0 .. N
        BY <2>2, <3>2
      <4> QED
        BY <2>1, <2>4, <2>5, <3>2, <4>1
    <3> QED
      BY <3>1, <3>2
  <2> QED
    BY <2>4, <2>6
<1> HIDE DEF good
<1>3. N \in good
  BY <1>1, <1>2, CountUp
<1>4. PICK f \in [0 .. N -> V] : \A o \in N - N .. N : f[o] = value(f, o)
  <2> HIDE DEF value
  <2> QED
    BY <1>3 DEF good
<1> QED
  BY <1>4 DEF Onwards

\* What holds wherever such a function stops, and of an offset when it does of the next, holds.
LEMMA OnwardsInduction ==
    ASSUME NEW N \in Nat, NEW stops, NEW next, NEW held,
           \A o \in (0 .. N) \ stops : next[o] \in o + 1 .. N,
           \A o \in 0 .. N : o \in stops => o \in held,
           \A o \in (0 .. N) \ stops : next[o] \in held => o \in held
    PROVE  \A o \in 0 .. N : o \in held
<1> DEFINE good == {m \in Nat : m <= N => \A o \in N - m .. N : o \in held}
<1>1. 0 \in good
  <2>1. \A o \in N - 0 .. N : o \in 0 .. N /\ o \in stops
    OBVIOUS
  <2> QED
    BY <2>1
<1>2. ASSUME NEW m \in Nat, m \in good PROVE m + 1 \in good
  <2> SUFFICES ASSUME m + 1 <= N, NEW o \in N - (m + 1) .. N PROVE o \in held
    OBVIOUS
  <2>1. \A p \in N - m .. N : p \in held
    BY <1>2
  <2>2. CASE o \in stops
    BY <2>2
  <2>3. CASE o \notin stops
    <3>1. next[o] \in o + 1 .. N /\ o \in 0 .. N
      BY <2>3
    <3>2. next[o] \in N - m .. N
      BY <3>1
    <3> QED
      BY <2>1, <2>3, <3>1, <3>2
  <2> QED
    BY <2>2, <2>3
<1> HIDE DEF good
<1>3. N \in good
  BY <1>1, <1>2, CountUp
<1> QED
  BY <1>3 DEF good

-----------------------------------------------------------------------------
\* Counting the copies of a word, and finding the one that was counted

IsCount(from, para, v, start) ==
    from = [o \in 0 .. Len(para) |->
              LET i == Index(para, v, o)
              IN  IF o >= start \/ i = -1 \/ i >= start THEN 0 ELSE 1 + from[i + Len(v)]]

Counted(from, para, v, start) ==
    /\ from \in [0 .. Len(para) -> Nat]
    /\ \A o \in 0 .. Len(para) :
         from[o] = IF o >= start \/ Index(para, v, o) = -1 \/ Index(para, v, o) >= start THEN 0
                   ELSE 1 + from[Index(para, v, o) + Len(v)]

\* A copy that is found leads on to an offset further on in the text.
LEMMA CopyLeadsOn ==
    ASSUME NEW S, NEW para \in Seq(S), NEW v \in Seq(S), v # << >>, NEW o \in 0 .. Len(para),
           Index(para, v, o) # -1
    PROVE  /\ Index(para, v, o) \in o .. Len(para) /\ OccursAt(para, v, Index(para, v, o))
           /\ Index(para, v, o) + Len(v) \in o + 1 .. Len(para)
<1>1. Len(para) \in Nat /\ Len(v) \in Nat /\ Len(v) > 0
  BY LenProperties, EmptySeq
<1>2. Finds(para, v, o, Index(para, v, o))
  BY <1>1, IndexFinds
<1>3. Index(para, v, o) \in o .. Len(para) /\ OccursAt(para, v, Index(para, v, o))
  BY <1>2 DEF Finds
<1>4. Index(para, v, o) + Len(v) <= Len(para)
  BY <1>3 DEF OccursAt
<1> QED
  BY <1>1, <1>3, <1>4

LEMMA CountExists ==
    ASSUME NEW S, NEW para \in Seq(S), NEW v \in Seq(S), v # << >>, NEW start \in Nat
    PROVE  \E from : IsCount(from, para, v, start) /\ Counted(from, para, v, start)
<1> DEFINE N == Len(para)
           stops == {o \in 0 .. N : o >= start \/ Index(para, v, o) = -1 \/ Index(para, v, o) >= start}
           next == [o \in 0 .. N |-> Index(para, v, o) + Len(v)]
           base == [o \in 0 .. N |-> 0]
           join == [p \in (0 .. N) \X Nat |-> 1 + p[2]]
<1>1. N \in Nat
  BY LenProperties
<1>2. \A o \in (0 .. N) \ stops : next[o] \in o + 1 .. N
  <2> SUFFICES ASSUME NEW o \in 0 .. N, Index(para, v, o) # -1 PROVE Index(para, v, o) + Len(v) \in o + 1 .. N
    OBVIOUS
  <2> QED
    BY CopyLeadsOn
<1>3. base \in [0 .. N -> Nat] /\ join \in [(0 .. N) \X Nat -> Nat]
  OBVIOUS
<1>4. PICK from \in [0 .. N -> Nat] : Onwards(from, N, stops, next, base, join)
  <2> HIDE DEF N, stops, next, base, join
  <2> QED
    BY <1>1, <1>2, <1>3, OnwardsExists
<1>5. ASSUME NEW o \in 0 .. N
      PROVE  from[o] = IF o >= start \/ Index(para, v, o) = -1 \/ Index(para, v, o) >= start THEN 0
                       ELSE 1 + from[Index(para, v, o) + Len(v)]
  <2>1. from[o] = IF o \in stops THEN base[o] ELSE join[<<o, from[next[o]]>>]
    BY <1>4 DEF Onwards
  <2>2. CASE o \in stops
    BY <2>1, <2>2
  <2>3. CASE o \notin stops
    <3>1. next[o] \in 0 .. N
      BY <1>1, <1>2, <2>3
    <3>2. from[next[o]] \in Nat
      BY <3>1
    <3>3. from[o] = 1 + from[next[o]]
      BY <2>1, <2>3, <3>2
    <3> QED
      BY <2>3, <3>3
  <2> QED
    BY <2>2, <2>3
<1>6. Counted(from, para, v, start)
  BY <1>5 DEF Counted
<1>7. IsCount(from, para, v, start)
  BY <1>5 DEF IsCount
<1> QED
  BY <1>6, <1>7

\* The places of the copies from an offset on, as the editor goes through them.
IsCopies(copy, para, v, o, n) ==
    copy = [k \in 0 .. n |->
              IF k = 0 THEN Index(para, v, o)
              ELSE IF copy[k - 1] = -1 THEN -1
              ELSE Index(para, v, copy[k - 1] + Len(v))]

LEMMA CopiesExist ==
    ASSUME NEW para, NEW v, NEW o, NEW n \in Nat
    PROVE  \E copy : IsCopies(copy, para, v, o, n)
<1> DEFINE next(c) == IF c = -1 THEN -1 ELSE Index(para, v, c + Len(v))
           first == Index(para, v, o)
           good == {m \in Nat : \E copy : IsCopies(copy, para, v, o, m)}
<1>1. ASSUME NEW copy, NEW m \in Nat
      PROVE  IsCopies(copy, para, v, o, m) <=>
               copy = [k \in 0 .. m |-> IF k = 0 THEN first ELSE next(copy[k - 1])]
  BY DEF IsCopies
<1> HIDE DEF first, next
<1>2. 0 \in good
  <2> DEFINE copy == [k \in 0 .. 0 |-> first]
  <2>1. \A k \in 0 .. 0 : k = 0
    OBVIOUS
  <2>2. copy = [k \in 0 .. 0 |-> IF k = 0 THEN first ELSE next(copy[k - 1])]
    BY <2>1
  <2> HIDE DEF copy
  <2> QED
    BY <1>1, <2>2
<1>3. ASSUME NEW m \in Nat, m \in good PROVE m + 1 \in good
  <2>1. PICK copy : IsCopies(copy, para, v, o, m)
    BY <1>3
  <2> DEFINE longer == [k \in 0 .. m + 1 |-> IF k = m + 1 THEN next(copy[m]) ELSE copy[k]]
  <2>2. copy = [k \in 0 .. m |-> IF k = 0 THEN first ELSE next(copy[k - 1])]
    BY <1>1, <2>1
  <2>3. \A k \in 0 .. m : copy[k] = IF k = 0 THEN first ELSE next(copy[k - 1])
    BY <2>2
  <2>4. \A k \in 0 .. m + 1 : longer[k] = IF k = 0 THEN first ELSE next(longer[k - 1])
    <3> TAKE k \in 0 .. m + 1
    <3>1. CASE k = m + 1
      BY <3>1
    <3>2. CASE k # m + 1
      BY <2>3, <3>2
    <3> QED
      BY <3>1, <3>2
  <2>5. longer = [k \in 0 .. m + 1 |-> longer[k]]
    OBVIOUS
  <2> HIDE DEF longer
  <2>6. longer = [k \in 0 .. m + 1 |-> IF k = 0 THEN first ELSE next(longer[k - 1])]
    BY <2>4, <2>5
  <2>7. IsCopies(longer, para, v, o, m + 1)
    BY <1>1, <2>6
  <2> QED
    BY <2>7
<1> HIDE DEF good
<1>4. Nat \subseteq good
  BY <1>2, <1>3, CountUp
<1> QED
  BY <1>4 DEF good

\* A copy of a word that cannot overlap itself ends where the next one starts, or before.
LEMMA CopiesApart ==
    ASSUME NEW S, NEW para \in Seq(S), NEW v \in Seq(S), CopiesCannotOverlap(v),
           NEW i \in Nat, NEW j \in Nat, i < j, OccursAt(para, v, i), OccursAt(para, v, j)
    PROVE  i + Len(v) <= j
<1>1. Len(para) \in Nat /\ Len(v) \in Nat /\ \A k \in 1 .. Len(v) : v[k] \in S
  BY LenProperties, ElementOfSeq
<1>2. Spells(para, v, i) /\ Spells(para, v, j)
  BY OccursSpells
<1> SUFFICES ASSUME j < i + Len(v) PROVE FALSE
  BY <1>1
<1>3. PICK k \in 1 .. Len(v) - 1 : k = i + Len(v) - j
  <2>1. i + Len(v) - j \in 1 .. Len(v) - 1
    BY <1>1
  <2> QED
    BY <2>1
<1> DEFINE head == SubSeq(v, 1, k)
           tail == SubSeq(v, Len(v) - k + 1, Len(v))
<1>4. head \in Seq(S) /\ Len(head) = k /\ \A q \in 1 .. k : head[q] = v[q]
  <2>1. 1 \in Int /\ k \in Int /\ \A q \in 1 .. k : v[q] \in S
    BY <1>1
  <2>2. /\ head \in Seq(S)
        /\ Len(head) = IF 1 <= k THEN k - 1 + 1 ELSE 0
        /\ \A q \in 1 .. k - 1 + 1 : head[q] = v[1 + q - 1]
    BY <2>1, SubSeqProperties
  <2> HIDE DEF head
  <2>3. k - 1 + 1 = k /\ \A q \in 1 .. k : 1 + q - 1 = q
    OBVIOUS
  <2> QED
    BY <2>2, <2>3
<1>5. tail \in Seq(S) /\ Len(tail) = k /\ \A q \in 1 .. k : tail[q] = v[Len(v) - k + q]
  <2>1. Len(v) - k + 1 \in Int /\ Len(v) \in Int /\ \A q \in Len(v) - k + 1 .. Len(v) : v[q] \in S
    BY <1>1
  <2>2. /\ tail \in Seq(S)
        /\ Len(tail) = IF Len(v) - k + 1 <= Len(v) THEN Len(v) - (Len(v) - k + 1) + 1 ELSE 0
        /\ \A q \in 1 .. Len(v) - (Len(v) - k + 1) + 1 : tail[q] = v[Len(v) - k + 1 + q - 1]
    BY <2>1, SubSeqProperties
  <2> HIDE DEF tail
  <2>3. Len(v) - (Len(v) - k + 1) + 1 = k /\ \A q \in 1 .. k : Len(v) - k + 1 + q - 1 = Len(v) - k + q
    BY <1>1
  <2> QED
    BY <1>1, <2>2, <2>3
<1>6. head # tail
  BY <1>1, <1>3 DEF CopiesCannotOverlap
<1> HIDE DEF head, tail
<1>7. ASSUME NEW q \in 1 .. k PROVE head[q] = tail[q]
  <2>1. PICK r \in 1 .. Len(v) : r = Len(v) - k + q
    <3>1. Len(v) - k + q \in 1 .. Len(v)
      BY <1>1
    <3> QED
      BY <3>1
  <2>2. q \in 1 .. Len(v) /\ j + q = i + r
    BY <1>1, <1>3, <2>1
  <2>3. para[j + q] = v[q] /\ para[i + r] = v[r]
    BY <1>2, <2>2 DEF Spells
  <2> QED
    BY <1>4, <1>5, <2>1, <2>2, <2>3
<1>8. head = tail
  BY <1>4, <1>5, <1>7, SeqEqual
<1> QED
  BY <1>6, <1>8

Stopping(para, v, start) ==
    {o \in 0 .. Len(para) : o >= start \/ Index(para, v, o) = -1 \/ Index(para, v, o) >= start}

After(para, v) == [o \in 0 .. Len(para) |-> Index(para, v, o) + Len(v)]

LEMMA AfterLeadsOn ==
    ASSUME NEW S, NEW para \in Seq(S), NEW v \in Seq(S), v # << >>, NEW start \in Nat
    PROVE  \A o \in (0 .. Len(para)) \ Stopping(para, v, start) : After(para, v)[o] \in o + 1 .. Len(para)
<1> SUFFICES ASSUME NEW o \in 0 .. Len(para), Index(para, v, o) # -1
             PROVE  Index(para, v, o) + Len(v) \in o + 1 .. Len(para)
  BY DEF Stopping, After
<1> QED
  BY CopyLeadsOn

\* Every count of the copies is one of numbers.
LEMMA CountCounts ==
    ASSUME NEW S, NEW para \in Seq(S), NEW v \in Seq(S), v # << >>, NEW start \in Nat,
           NEW from, IsCount(from, para, v, start)
    PROVE  Counted(from, para, v, start)
<1> DEFINE N == Len(para)
           stops == Stopping(para, v, start)
           next == After(para, v)
           held == {o \in 0 .. N : from[o] \in Nat}
<1>1. N \in Nat
  BY LenProperties
<1>2. /\ DOMAIN from = 0 .. N
      /\ \A o \in 0 .. N :
           from[o] = IF o >= start \/ Index(para, v, o) = -1 \/ Index(para, v, o) >= start THEN 0
                     ELSE 1 + from[Index(para, v, o) + Len(v)]
  BY DEF IsCount
<1>3. \A o \in (0 .. N) \ stops : next[o] \in o + 1 .. N
  BY AfterLeadsOn
<1>4. \A o \in 0 .. N : o \in stops => o \in held
  BY <1>2 DEF Stopping
<1>5. \A o \in (0 .. N) \ stops : next[o] \in held => o \in held
  BY <1>2 DEF Stopping, After
<1>6. \A o \in 0 .. N : o \in held
  <2> HIDE DEF N, stops, next, held
  <2> QED
    BY <1>1, <1>3, <1>4, <1>5, OnwardsInduction
<1>7. from \in [0 .. N -> Nat]
  <2>1. from = [o \in 0 .. N |-> from[o]]
    BY DEF IsCount
  <2> QED
    BY <1>6, <2>1
<1> QED
  BY <1>2, <1>7 DEF Counted

\* As many copies on as lie before a place where the word is, the place is found.
Reaches(para, v, o, n, start) ==
    \A copy : IsCopies(copy, para, v, o, n) => copy[n] = start

LEMMA CopiesReach ==
    ASSUME NEW S, NEW para \in Seq(S), NEW v \in Seq(S), v # << >>, CopiesCannotOverlap(v),
           NEW start \in Nat, OccursAt(para, v, start),
           NEW from, Counted(from, para, v, start),
           NEW o \in 0 .. Len(para), o <= start
    PROVE  Reaches(para, v, o, from[o], start)
<1> DEFINE N == Len(para)
           stops == Stopping(para, v, start)
           next == After(para, v)
           held == {p \in 0 .. N : p <= start => Reaches(para, v, p, from[p], start)}
<1>1. N \in Nat /\ Len(v) \in Nat /\ Len(v) > 0
  BY LenProperties, EmptySeq
<1>2. start \in 0 .. N
  BY <1>1 DEF OccursAt
<1>3. \A p \in (0 .. N) \ stops : next[p] \in p + 1 .. N
  BY AfterLeadsOn
<1>4. ASSUME NEW p \in 0 .. N, p <= start
      PROVE  Index(para, v, p) \in p .. start /\ OccursAt(para, v, Index(para, v, p))
  <2>1. Finds(para, v, p, Index(para, v, p))
    BY <1>1, IndexFinds
  <2>2. start \in p .. Len(para)
    BY <1>2, <1>4
  <2> QED
    BY <2>1, <2>2 DEF Finds
<1>5. \A p \in 0 .. N : from[p] \in Nat
  BY DEF Counted
<1>6. ASSUME NEW p \in 0 .. N, p \in stops, p <= start PROVE Reaches(para, v, p, from[p], start)
  <2>1. Index(para, v, p) = start
    BY <1>4, <1>6, <1>2 DEF Stopping
  <2>2. from[p] = 0
    BY <1>6, <2>1, <1>2 DEF Counted
  <2> SUFFICES ASSUME NEW copy, IsCopies(copy, para, v, p, 0) PROVE copy[0] = start
    BY <2>2 DEF Reaches
  <2>3. copy[0] = Index(para, v, p)
    BY DEF IsCopies
  <2> QED
    BY <2>1, <2>3
<1>7. ASSUME NEW p \in (0 .. N) \ stops, next[p] \in held, p <= start
      PROVE  Reaches(para, v, p, from[p], start)
  <2> DEFINE i == Index(para, v, p)
             q == i + Len(v)
  <2>1. p < start /\ i # -1 /\ i < start /\ i \in p .. start /\ OccursAt(para, v, i)
    BY <1>4, <1>7, <1>2 DEF Stopping
  <2>2. q <= start
    BY <1>1, <2>1, CopiesApart
  <2>3. next[p] = q /\ q \in 0 .. N
    BY <1>3, <1>7 DEF After
  <2>4. from[p] = 1 + from[q]
    BY <2>1 DEF Counted
  <2>5. from[q] \in Nat
    BY <1>5, <2>3
  <2>6. Reaches(para, v, q, from[q], start)
    BY <1>7, <2>2, <2>3
  <2> SUFFICES ASSUME NEW copy, IsCopies(copy, para, v, p, from[p]) PROVE copy[from[p]] = start
    BY DEF Reaches
  <2> DEFINE n == from[q]
             later == [k \in 0 .. n |-> copy[k + 1]]
  <2>7. /\ copy[0] = i
        /\ \A k \in 1 .. n + 1 :
             copy[k] = IF copy[k - 1] = -1 THEN -1 ELSE Index(para, v, copy[k - 1] + Len(v))
    <3> HIDE DEF i, q
    <3>1. copy = [k \in 0 .. n + 1 |->
                    IF k = 0 THEN Index(para, v, p)
                    ELSE IF copy[k - 1] = -1 THEN -1
                    ELSE Index(para, v, copy[k - 1] + Len(v))]
      BY <2>4, <2>5, SMTT(20) DEF IsCopies
    <3>2. 0 \in 0 .. n + 1 /\ \A k \in 1 .. n + 1 : k \in 0 .. n + 1 /\ k # 0
      BY <2>5
    <3> QED
      BY <3>1, <3>2 DEF i
  <2>8. \A k \in 0 .. n : later[k] = IF k = 0 THEN Index(para, v, q)
                                     ELSE IF later[k - 1] = -1 THEN -1
                                     ELSE Index(para, v, later[k - 1] + Len(v))
    <3> TAKE k \in 0 .. n
    <3>1. later[k] = copy[k + 1] /\ k + 1 \in 1 .. n + 1 /\ k + 1 - 1 = k
      BY <2>5
    <3>2. copy[k + 1] = IF copy[k] = -1 THEN -1 ELSE Index(para, v, copy[k] + Len(v))
      BY <2>7, <3>1
    <3>3. CASE k = 0
      BY <2>1, <2>7, <3>1, <3>2, <3>3
    <3>4. CASE k # 0
      <4>1. later[k - 1] = copy[k]
        BY <2>5, <3>4
      <4> QED
        BY <3>1, <3>2, <3>4, <4>1
    <3> QED
      BY <3>3, <3>4
  <2>9. later = [k \in 0 .. n |-> later[k]]
    OBVIOUS
  <2> HIDE DEF later
  <2>10. IsCopies(later, para, v, q, n)
    BY <2>8, <2>9 DEF IsCopies
  <2>11. later[n] = start
    BY <2>6, <2>10 DEF Reaches
  <2>12. later[n] = copy[n + 1]
    BY <2>5 DEF later
  <2> QED
    BY <2>4, <2>5, <2>11, <2>12
<1>8. \A p \in 0 .. N : p \in stops => p \in held
  BY <1>6
<1>9. \A p \in (0 .. N) \ stops : next[p] \in held => p \in held
  BY <1>7
<1>10. \A p \in 0 .. N : p \in held
  <2> HIDE DEF N, stops, next, held
  <2> QED
    BY <1>1, <1>3, <1>8, <1>9, OnwardsInduction
<1> QED
  BY <1>10

\* The anchor the server counts leads the editor back to the place it was counted for.
LEMMA CountLeadsBack ==
    ASSUME NEW S, NEW para \in Seq(S), NEW v \in Seq(S), v # << >>, CopiesCannotOverlap(v),
           NEW start \in Nat, OccursAt(para, v, start)
    PROVE  /\ occurrenceInParagraph(para, v, start) \in Nat
           /\ Reaches(para, v, 0, occurrenceInParagraph(para, v, start), start)
<1> DEFINE from == CHOOSE f : IsCount(f, para, v, start)
<1>1. occurrenceInParagraph(para, v, start) = from[0]
  BY DEF occurrenceInParagraph, IsCount
<1>2. IsCount(from, para, v, start)
  BY CountExists
<1> HIDE DEF from
<1>3. Counted(from, para, v, start)
  BY <1>2, CountCounts
<1>4. Len(para) \in Nat /\ 0 \in 0 .. Len(para)
  BY LenProperties
<1>5. from[0] \in Nat
  BY <1>3, <1>4 DEF Counted
<1>6. Reaches(para, v, 0, from[0], start)
  BY <1>3, <1>4, CopiesReach
<1> QED
  BY <1>1, <1>5, <1>6

-----------------------------------------------------------------------------
\* Splitting a text into paragraphs, by the server and by the editor

Place(t) == [start : 0 .. Len(t), end : 0 .. Len(t)]

LEMMA APlace ==
    ASSUME NEW t, NEW i \in 0 .. Len(t), NEW j \in 0 .. Len(t)
    PROVE  /\ MatchRange(i, j) \in Place(t) /\ MatchRange(i, j).start = i /\ MatchRange(i, j).end = j
           /\ <<MatchRange(i, j)>> \in Seq(Place(t)) /\ Len(<<MatchRange(i, j)>>) = 1
BY DEF MatchRange, Place

\* A break is two characters, and what comes after it is still in the text.
LEMMA BreakThere ==
    ASSUME NEW S, NEW t \in Seq(S), NewLine \in S, NEW i \in Nat, OccursAt(t, ParagraphBreak, i)
    PROVE  i + 2 <= Len(t) /\ t[i + 1] = NewLine /\ t[i + 2] = NewLine
<1>1. ParagraphBreak \in Seq(S) /\ Len(ParagraphBreak) = 2
      /\ ParagraphBreak[1] = NewLine /\ ParagraphBreak[2] = NewLine
  <2> HIDE DEF NewLine
  <2> QED
    BY DEF ParagraphBreak
<1> HIDE DEF ParagraphBreak
<1>2. Spells(t, ParagraphBreak, i)
  BY <1>1, OccursSpells
<1> QED
  BY <1>1, <1>2 DEF Spells

\* The offsets no break comes after, and where the paragraph after the next one begins.
Breakless(t) == {o \in 0 .. Len(t) : Index(t, ParagraphBreak, o) = -1}
PastBreak(t) == [o \in 0 .. Len(t) |-> Index(t, ParagraphBreak, o) + 2]

LEMMA PastBreakLeadsOn ==
    ASSUME NEW S, NEW t \in Seq(S), NewLine \in S, NEW o \in (0 .. Len(t)) \ Breakless(t)
    PROVE  /\ Index(t, ParagraphBreak, o) \in o .. Len(t)
           /\ OccursAt(t, ParagraphBreak, Index(t, ParagraphBreak, o))
           /\ PastBreak(t)[o] \in o + 1 .. Len(t)
<1>1. Len(t) \in Nat
  BY LenProperties
<1>2. Finds(t, ParagraphBreak, o, Index(t, ParagraphBreak, o))
  BY <1>1, IndexFinds
<1>3. Index(t, ParagraphBreak, o) \in o .. Len(t) /\ OccursAt(t, ParagraphBreak, Index(t, ParagraphBreak, o))
  BY <1>2 DEF Finds, Breakless
<1>4. Index(t, ParagraphBreak, o) + 2 <= Len(t)
  BY <1>3, BreakThere
<1> QED
  BY <1>1, <1>3, <1>4 DEF PastBreak

IsPars(par, t) ==
    par = [o \in 0 .. Len(t) |->
             LET i == Index(t, ParagraphBreak, o)
             IN  IF i = -1 THEN <<MatchRange(o, Len(t))>>
                 ELSE <<MatchRange(o, i)>> \o par[i + 2]]

IsSplits(par, t) ==
    par = [o \in 0 .. Len(t) |->
             LET i == Index(t, ParagraphBreak, o)
             IN  IF o = Len(t) THEN << >>
                 ELSE IF i = -1 THEN <<MatchRange(o, Len(t))>>
                 ELSE <<MatchRange(o, i)>> \o par[i + 2]]

\* Either way of splitting, whatever it does where no break comes any more.
LEMMA SplittingExists ==
    ASSUME NEW S, NEW t \in Seq(S), NewLine \in S, NEW base \in [0 .. Len(t) -> Seq(Place(t))]
    PROVE  \E par \in [0 .. Len(t) -> Seq(Place(t))] :
             \A o \in 0 .. Len(t) :
               par[o] = IF o \in Breakless(t) THEN base[o]
                        ELSE <<MatchRange(o, Index(t, ParagraphBreak, o))>> \o par[Index(t, ParagraphBreak, o) + 2]
<1> DEFINE N == Len(t)
           V == Seq(Place(t))
           stops == Breakless(t)
           next == PastBreak(t)
           first(o) == <<MatchRange(o, Index(t, ParagraphBreak, o))>>
           join == [p \in (0 .. N) \X V |-> IF p[1] \in stops THEN base[p[1]] ELSE first(p[1]) \o p[2]]
<1>1. N \in Nat
  BY LenProperties
<1>2. \A o \in (0 .. N) \ stops : next[o] \in o + 1 .. N
  BY PastBreakLeadsOn
<1>3. join \in [(0 .. N) \X V -> V]
  <2> SUFFICES ASSUME NEW o \in 0 .. N, NEW s \in V, o \notin stops PROVE first(o) \o s \in V
    OBVIOUS
  <2>1. Index(t, ParagraphBreak, o) \in 0 .. N
    BY <1>1, PastBreakLeadsOn
  <2>2. first(o) \in V
    BY <2>1, APlace
  <2> QED
    BY <2>2, ConcatProperties
<1>4. PICK par \in [0 .. N -> V] : Onwards(par, N, stops, next, base, join)
  <2> HIDE DEF N, V, stops, next, join
  <2>1. base \in [0 .. N -> V]
    BY DEF N, V
  <2> QED
    BY <1>1, <1>2, <1>3, <2>1, OnwardsExists
<1>5. ASSUME NEW o \in 0 .. N
      PROVE  par[o] = IF o \in stops THEN base[o] ELSE first(o) \o par[Index(t, ParagraphBreak, o) + 2]
  <2>1. par[o] = IF o \in stops THEN base[o] ELSE join[<<o, par[next[o]]>>]
    BY <1>4 DEF Onwards
  <2>2. CASE o \in stops
    BY <2>1, <2>2
  <2>3. CASE o \notin stops
    <3>1. next[o] \in 0 .. N /\ next[o] = Index(t, ParagraphBreak, o) + 2
      BY <1>1, <1>2, <2>3 DEF PastBreak
    <3>2. par[next[o]] \in V
      BY <3>1
    <3>3. join[<<o, par[next[o]]>>] = first(o) \o par[next[o]]
      <4> HIDE DEF first, V, stops, next
      <4> QED
        BY <2>3, <3>2
    <3> QED
      BY <2>1, <2>3, <3>1, <3>3
  <2> QED
    BY <2>2, <2>3
<1> QED
  BY <1>5

LEMMA ParsExist ==
    ASSUME NEW S, NEW t \in Seq(S), NewLine \in S
    PROVE  \E par : IsPars(par, t)
<1> DEFINE base == [o \in 0 .. Len(t) |-> <<MatchRange(o, Len(t))>>]
<1>1. Len(t) \in Nat
  BY LenProperties
<1>2. base \in [0 .. Len(t) -> Seq(Place(t))]
  BY <1>1, APlace
<1>3. \A o \in 0 .. Len(t) : base[o] = <<MatchRange(o, Len(t))>>
  OBVIOUS
<1> HIDE DEF base
<1>4. PICK par \in [0 .. Len(t) -> Seq(Place(t))] :
        \A o \in 0 .. Len(t) :
          par[o] = IF o \in Breakless(t) THEN base[o]
                   ELSE <<MatchRange(o, Index(t, ParagraphBreak, o))>> \o par[Index(t, ParagraphBreak, o) + 2]
  BY <1>2, SplittingExists
<1> QED
  BY <1>3, <1>4 DEF IsPars, Breakless

LEMMA SplitsExist ==
    ASSUME NEW S, NEW t \in Seq(S), NewLine \in S
    PROVE  \E par : IsSplits(par, t)
<1> DEFINE base == [o \in 0 .. Len(t) |-> IF o = Len(t) THEN << >> ELSE <<MatchRange(o, Len(t))>>]
<1>1. Len(t) \in Nat
  BY LenProperties
<1>2. base \in [0 .. Len(t) -> Seq(Place(t))]
  <2>1. << >> \in Seq(Place(t))
    BY EmptySeq
  <2> QED
    BY <1>1, <2>1, APlace
<1>3. \A o \in 0 .. Len(t) : base[o] = IF o = Len(t) THEN << >> ELSE <<MatchRange(o, Len(t))>>
  OBVIOUS
<1> HIDE DEF base
<1>4. PICK par \in [0 .. Len(t) -> Seq(Place(t))] :
        \A o \in 0 .. Len(t) :
          par[o] = IF o \in Breakless(t) THEN base[o]
                   ELSE <<MatchRange(o, Index(t, ParagraphBreak, o))>> \o par[Index(t, ParagraphBreak, o) + 2]
  BY <1>2, SplittingExists
<1>5. Len(t) \in Breakless(t)
  <2>1. ~OccursAt(t, ParagraphBreak, Len(t))
    BY <1>1, BreakThere
  <2>2. Finds(t, ParagraphBreak, Len(t), Index(t, ParagraphBreak, Len(t)))
    BY <1>1, IndexFinds
  <2> QED
    BY <1>1, <2>1, <2>2 DEF Finds, Breakless
<1>6. \A o \in 0 .. Len(t) :
        par[o] = IF o = Len(t) THEN << >>
                 ELSE IF Index(t, ParagraphBreak, o) = -1 THEN <<MatchRange(o, Len(t))>>
                 ELSE <<MatchRange(o, Index(t, ParagraphBreak, o))>> \o par[Index(t, ParagraphBreak, o) + 2]
  BY <1>3, <1>4, <1>5 DEF Breakless
<1> QED
  BY <1>6 DEF IsSplits

\* Paragraphs that begin at an offset, follow one another with a break between two of them,
\* and reach the end of the text.
Chain(p, o, t) ==
    /\ p \in Seq(Place(t)) /\ Len(p) > 0
    /\ p[1].start = o /\ p[Len(p)].end = Len(t)
    /\ \A i \in 1 .. Len(p) : p[i].start <= p[i].end
    /\ \A i \in 1 .. Len(p) - 1 : p[i + 1].start = p[i].end + 2 /\ OccursAt(t, ParagraphBreak, p[i].end)

\* The paragraphs of the editor are those of the server, but for empty ones.
Agree(p, s, t) ==
    /\ s \in Seq(Place(t))
    /\ \A i \in 1 .. Len(p) : p[i].start < p[i].end => i \in 1 .. Len(s) /\ s[i] = p[i]

LEMMA Consed ==
    ASSUME NEW S, NEW x \in S, NEW q \in Seq(S)
    PROVE  /\ <<x>> \o q \in Seq(S) /\ Len(<<x>> \o q) = Len(q) + 1 /\ (<<x>> \o q)[1] = x
           /\ \A i \in 2 .. Len(q) + 1 : (<<x>> \o q)[i] = q[i - 1]
<1>1. <<x>> \in Seq(S) /\ Len(<<x>>) = 1 /\ <<x>>[1] = x /\ Len(q) \in Nat
  BY LenProperties
<1>2. /\ <<x>> \o q \in Seq(S) /\ Len(<<x>> \o q) = 1 + Len(q)
      /\ \A i \in 1 .. 1 + Len(q) : (<<x>> \o q)[i] = IF i <= 1 THEN <<x>>[i] ELSE q[i - 1]
  BY <1>1, ConcatProperties
<1> QED
  BY <1>1, <1>2

LEMMA ChainOne ==
    ASSUME NEW S, NEW t \in Seq(S), NEW o \in 0 .. Len(t)
    PROVE  Chain(<<MatchRange(o, Len(t))>>, o, t)
<1>1. Len(t) \in Nat
  BY LenProperties
<1> DEFINE p == <<MatchRange(o, Len(t))>>
<1>2. p \in Seq(Place(t)) /\ Len(p) = 1 /\ p[1].start = o /\ p[1].end = Len(t)
  BY <1>1, APlace
<1> HIDE DEF p
<1>3. Chain(p, o, t)
  BY <1>1, <1>2 DEF Chain
<1> QED
  BY <1>3 DEF p

LEMMA ChainMore ==
    ASSUME NEW S, NEW t \in Seq(S), NEW o \in 0 .. Len(t), NEW i \in o .. Len(t),
           OccursAt(t, ParagraphBreak, i), NEW q, Chain(q, i + 2, t)
    PROVE  Chain(<<MatchRange(o, i)>> \o q, o, t)
<1> DEFINE x == MatchRange(o, i)
           p == <<x>> \o q
<1>1. Len(t) \in Nat
  BY LenProperties
<1>2. x \in Place(t) /\ x.start = o /\ x.end = i
  BY <1>1, APlace
<1>3. /\ q \in Seq(Place(t)) /\ Len(q) > 0
      /\ q[1].start = i + 2 /\ q[Len(q)].end = Len(t)
      /\ \A k \in 1 .. Len(q) : q[k].start <= q[k].end
      /\ \A k \in 1 .. Len(q) - 1 : q[k + 1].start = q[k].end + 2 /\ OccursAt(t, ParagraphBreak, q[k].end)
  BY DEF Chain
<1> HIDE DEF x
<1>4. /\ p \in Seq(Place(t)) /\ Len(p) = Len(q) + 1 /\ p[1] = x
      /\ \A k \in 2 .. Len(q) + 1 : p[k] = q[k - 1]
  BY <1>2, <1>3, Consed
<1> HIDE DEF p
<1>5. Len(q) \in Nat
  BY <1>3, LenProperties
<1>6. p[Len(p)].end = Len(t)
  BY <1>3, <1>4, <1>5
<1>7. \A k \in 1 .. Len(p) : p[k].start <= p[k].end
  <2> TAKE k \in 1 .. Len(p)
  <2>1. CASE k = 1
    BY <1>2, <1>4, <2>1
  <2>2. CASE k # 1
    <3>1. k \in 2 .. Len(q) + 1 /\ k - 1 \in 1 .. Len(q)
      BY <1>4, <1>5, <2>2
    <3> QED
      BY <1>3, <1>4, <3>1
  <2> QED
    BY <2>1, <2>2
<1>8. \A k \in 1 .. Len(p) - 1 : p[k + 1].start = p[k].end + 2 /\ OccursAt(t, ParagraphBreak, p[k].end)
  <2> TAKE k \in 1 .. Len(p) - 1
  <2>1. CASE k = 1
    <3>1. p[k + 1] = q[1]
      BY <1>3, <1>4, <1>5, <2>1
    <3> QED
      BY <1>2, <1>3, <1>4, <2>1, <3>1
  <2>2. CASE k # 1
    <3>1. PICK j \in 1 .. Len(q) - 1 : j = k - 1
      <4>1. k - 1 \in 1 .. Len(q) - 1
        BY <1>4, <1>5, <2>2
      <4> QED
        BY <4>1
    <3>2. p[k] = q[j] /\ p[k + 1] = q[j + 1]
      <4>1. k \in 2 .. Len(q) + 1 /\ k + 1 \in 2 .. Len(q) + 1 /\ k + 1 - 1 = j + 1 /\ k - 1 = j
        BY <1>4, <1>5, <3>1
      <4> QED
        BY <1>4, <4>1
    <3> QED
      BY <1>3, <3>2
  <2> QED
    BY <2>1, <2>2
<1>9. Len(p) > 0 /\ p[1].start = o
  BY <1>2, <1>4, <1>5
<1>10. Chain(p, o, t)
  BY <1>4, <1>6, <1>7, <1>8, <1>9 DEF Chain
<1> QED
  BY <1>10 DEF p, x

LEMMA AgreeMore ==
    ASSUME NEW S, NEW t \in Seq(S), NEW o \in 0 .. Len(t), NEW i \in o .. Len(t),
           NEW p \in Seq(Place(t)), NEW s, Agree(p, s, t)
    PROVE  Agree(<<MatchRange(o, i)>> \o p, <<MatchRange(o, i)>> \o s, t)
<1> DEFINE x == MatchRange(o, i)
           pp == <<x>> \o p
           ss == <<x>> \o s
<1>1. Len(t) \in Nat
  BY LenProperties
<1>2. x \in Place(t)
  BY <1>1, APlace
<1>3. s \in Seq(Place(t)) /\ \A k \in 1 .. Len(p) : p[k].start < p[k].end => k \in 1 .. Len(s) /\ s[k] = p[k]
  BY DEF Agree
<1> HIDE DEF x
<1>4. pp \in Seq(Place(t)) /\ Len(pp) = Len(p) + 1 /\ pp[1] = x /\ \A k \in 2 .. Len(p) + 1 : pp[k] = p[k - 1]
  BY <1>2, Consed
<1>5. ss \in Seq(Place(t)) /\ Len(ss) = Len(s) + 1 /\ ss[1] = x /\ \A k \in 2 .. Len(s) + 1 : ss[k] = s[k - 1]
  BY <1>2, <1>3, Consed
<1>6. Len(p) \in Nat /\ Len(s) \in Nat
  BY <1>3, LenProperties
<1> HIDE DEF pp, ss
<1>7. ASSUME NEW k \in 1 .. Len(pp), pp[k].start < pp[k].end PROVE k \in 1 .. Len(ss) /\ ss[k] = pp[k]
  <2>1. CASE k = 1
    BY <1>4, <1>5, <1>6, <2>1
  <2>2. CASE k # 1
    <3>1. PICK j \in 1 .. Len(p) : j = k - 1
      <4>1. k - 1 \in 1 .. Len(p)
        BY <1>4, <1>6, <2>2
      <4> QED
        BY <4>1
    <3>2. k \in 2 .. Len(p) + 1 /\ pp[k] = p[j]
      BY <1>4, <1>6, <3>1
    <3>3. j \in 1 .. Len(s) /\ s[j] = p[j]
      BY <1>3, <1>7, <3>2
    <3>4. k \in 2 .. Len(s) + 1 /\ k \in 1 .. Len(ss)
      BY <1>5, <1>6, <3>1, <3>3
    <3> QED
      BY <1>5, <3>1, <3>2, <3>3, <3>4
  <2> QED
    BY <2>1, <2>2
<1>8. Agree(pp, ss, t)
  BY <1>5, <1>7 DEF Agree
<1> QED
  BY <1>8 DEF pp, ss, x

LEMMA SplitAlike ==
    ASSUME NEW S, NEW t \in Seq(S), NewLine \in S,
           NEW par, IsPars(par, t), NEW split, IsSplits(split, t), NEW o \in 0 .. Len(t)
    PROVE  Chain(par[o], o, t) /\ Agree(par[o], split[o], t)
<1> DEFINE N == Len(t)
           stops == Breakless(t)
           next == PastBreak(t)
           at(p) == Index(t, ParagraphBreak, p)
           held == {p \in 0 .. N : Chain(par[p], p, t) /\ Agree(par[p], split[p], t)}
<1>1. N \in Nat
  BY LenProperties
<1>2. \A p \in (0 .. N) \ stops : next[p] \in p + 1 .. N
  BY PastBreakLeadsOn
<1>3. \A p \in 0 .. N : par[p] = IF at(p) = -1 THEN <<MatchRange(p, N)>>
                                 ELSE <<MatchRange(p, at(p))>> \o par[at(p) + 2]
  BY DEF IsPars
<1>4. \A p \in 0 .. N : split[p] = IF p = N THEN << >> ELSE IF at(p) = -1 THEN <<MatchRange(p, N)>>
                                   ELSE <<MatchRange(p, at(p))>> \o split[at(p) + 2]
  BY DEF IsSplits
<1>5. ASSUME NEW p \in 0 .. N, p \in stops PROVE p \in held
  <2>1. par[p] = <<MatchRange(p, N)>>
    BY <1>3, <1>5 DEF Breakless
  <2>2. Chain(par[p], p, t)
    BY <2>1, ChainOne
  <2>3. Agree(par[p], split[p], t)
    <3>1. /\ Len(par[p]) = 1 /\ par[p][1] = MatchRange(p, N) /\ par[p][1].start = p /\ par[p][1].end = N
          /\ par[p] \in Seq(Place(t))
      BY <1>1, <2>1, APlace
    <3>2. CASE p = N
      <4>1. split[p] = << >> /\ << >> \in Seq(Place(t))
        BY <1>4, <3>2, EmptySeq
      <4> QED
        BY <1>1, <3>1, <3>2, <4>1 DEF Agree
    <3>3. CASE p # N
      <4>1. split[p] = par[p]
        BY <1>4, <1>5, <2>1, <3>3 DEF Breakless
      <4> HIDE DEF N
      <4> QED
        BY <3>1, <4>1 DEF Agree
    <3> QED
      BY <3>2, <3>3
  <2> QED
    BY <2>2, <2>3
<1>6. ASSUME NEW p \in (0 .. N) \ stops, next[p] \in held PROVE p \in held
  <2>1. at(p) \in p .. N /\ OccursAt(t, ParagraphBreak, at(p)) /\ at(p) # -1
    BY PastBreakLeadsOn DEF Breakless
  <2>2. next[p] = at(p) + 2 /\ p # N
    BY <1>1, <1>2 DEF PastBreak
  <2>3. par[p] = <<MatchRange(p, at(p))>> \o par[at(p) + 2]
    BY <1>3, <2>1
  <2>4. split[p] = <<MatchRange(p, at(p))>> \o split[at(p) + 2]
    BY <1>4, <2>1, <2>2
  <2>5. Chain(par[at(p) + 2], at(p) + 2, t) /\ Agree(par[at(p) + 2], split[at(p) + 2], t)
    BY <1>6, <2>2
  <2> HIDE DEF at, N
  <2>6. Chain(par[p], p, t)
    <3>1. p \in 0 .. Len(t) /\ at(p) \in p .. Len(t)
      BY <2>1 DEF N
    <3> QED
      BY <2>1, <2>3, <2>5, <3>1, ChainMore
  <2>7. Agree(par[p], split[p], t)
    <3>1. p \in 0 .. Len(t) /\ at(p) \in p .. Len(t)
      BY <2>1 DEF N
    <3>2. par[at(p) + 2] \in Seq(Place(t))
      BY <2>5 DEF Chain
    <3> QED
      BY <2>3, <2>4, <2>5, <3>1, <3>2, AgreeMore
  <2> QED
    BY <2>6, <2>7
<1>7. \A p \in 0 .. N : p \in held
  <2> HIDE DEF N, stops, next, held
  <2> QED
    BY <1>1, <1>2, <1>5, <1>6, OnwardsInduction
<1> QED
  BY <1>7

\* The paragraphs of a text as its Paragraphs are, and as splitParagraphs has them.
LEMMA Splitted ==
    ASSUME NEW S, NEW t \in Seq(S), NewLine \in S
    PROVE  /\ Chain(Paragraphs(t), 0, t)
           /\ splitParagraphs(t) \in Seq(Place(t))
           /\ \A i \in 1 .. Len(Paragraphs(t)) : Paragraphs(t)[i].start < Paragraphs(t)[i].end =>
                i \in 1 .. Len(splitParagraphs(t)) /\ splitParagraphs(t)[i] = Paragraphs(t)[i]
<1> DEFINE par == CHOOSE p : IsPars(p, t)
           split == CHOOSE p : IsSplits(p, t)
<1>1. Paragraphs(t) = par[0]
  BY DEF Paragraphs, IsPars
<1>2. splitParagraphs(t) = IF t = << >> THEN <<MatchRange(0, 0)>> ELSE split[0]
  BY DEF splitParagraphs, IsSplits
<1>3. IsPars(par, t) /\ IsSplits(split, t)
  BY ParsExist, SplitsExist
<1> HIDE DEF par, split
<1>4. Len(t) \in Nat /\ 0 \in 0 .. Len(t)
  BY LenProperties
<1>5. Chain(par[0], 0, t) /\ Agree(par[0], split[0], t)
  BY <1>3, <1>4, SplitAlike
<1>6. CASE t = << >>
  <2>1. Len(t) = 0
    BY <1>6
  <2>2. \A i \in 1 .. Len(par[0]) : ~(par[0][i].start < par[0][i].end)
    <3> SUFFICES ASSUME NEW i \in 1 .. Len(par[0]) PROVE ~(par[0][i].start < par[0][i].end)
      OBVIOUS
    <3>1. par[0][i] \in Place(t)
      BY <1>5, ElementOfSeq DEF Chain
    <3> QED
      BY <2>1, <3>1 DEF Place
  <2>3. splitParagraphs(t) \in Seq(Place(t))
    BY <1>2, <1>6, <2>1, APlace
  <2> QED
    BY <1>1, <1>5, <2>2, <2>3
<1>7. CASE t # << >>
  BY <1>1, <1>2, <1>5, <1>7 DEF Agree
<1> QED
  BY <1>6, <1>7

-----------------------------------------------------------------------------
\* From an anchor to its place

LEMMA Sliced ==
    ASSUME NEW S, NEW t \in Seq(S), NEW r, r.start \in 0 .. Len(t), r.end \in r.start .. Len(t)
    PROVE  /\ Slice(t, r) \in Seq(S) /\ Len(Slice(t, r)) = r.end - r.start
           /\ \A k \in 1 .. r.end - r.start : Slice(t, r)[k] = t[r.start + k]
<1> DEFINE cut == SubSeq(t, r.start + 1, r.end)
<1>1. Len(t) \in Nat /\ \A k \in 1 .. Len(t) : t[k] \in S
  BY LenProperties, ElementOfSeq
<1>2. r.start + 1 \in Int /\ r.end \in Int /\ \A k \in r.start + 1 .. r.end : t[k] \in S
  BY <1>1
<1>3. /\ cut \in Seq(S)
      /\ Len(cut) = IF r.start + 1 <= r.end THEN r.end - (r.start + 1) + 1 ELSE 0
      /\ \A k \in 1 .. r.end - (r.start + 1) + 1 : cut[k] = t[r.start + 1 + k - 1]
  BY <1>2, SubSeqProperties
<1> HIDE DEF cut
<1>4. \A k \in 1 .. r.end - r.start : k \in 1 .. r.end - (r.start + 1) + 1 /\ r.start + 1 + k - 1 = r.start + k
  BY <1>1
<1>5. cut \in Seq(S) /\ Len(cut) = r.end - r.start /\ \A k \in 1 .. r.end - r.start : cut[k] = t[r.start + k]
  BY <1>1, <1>3, <1>4
<1> QED
  BY <1>5 DEF cut, Slice

\* A range of a text is a place where the text spells what it holds.
LEMMA SliceOccurs ==
    ASSUME NEW S, NEW t \in Seq(S), NEW r, r.start \in 0 .. Len(t), r.end \in r.start .. Len(t)
    PROVE  OccursAt(t, Slice(t, r), r.start)
<1>1. Slice(t, r) \in Seq(S) /\ Len(Slice(t, r)) = r.end - r.start
      /\ \A k \in 1 .. r.end - r.start : Slice(t, r)[k] = t[r.start + k]
  BY Sliced
<1>2. Spells(t, Slice(t, r), r.start)
  BY <1>1 DEF Spells
<1> QED
  BY <1>1, <1>2, OccursSpells

LEMMA AParagraph ==
    ASSUME NEW S, NEW t \in Seq(S), NewLine \in S, NEW i \in 1 .. Len(Paragraphs(t))
    PROVE  /\ Paragraphs(t)[i].start \in 0 .. Len(t)
           /\ Paragraphs(t)[i].end \in Paragraphs(t)[i].start .. Len(t)
<1>1. Chain(Paragraphs(t), 0, t)
  BY Splitted
<1>2. Paragraphs(t)[i] \in Place(t) /\ Paragraphs(t)[i].start <= Paragraphs(t)[i].end
  BY <1>1, ElementOfSeq DEF Chain
<1> QED
  BY <1>2 DEF Place

\* The flag names, of its paragraph and its text, the copy that starts at an offset.
Anchored(f, t, start) ==
    /\ f.paragraphIndex \in Nat /\ f.paragraphIndex + 1 \in 1 .. Len(Paragraphs(t))
    /\ LET para == Slice(t, Paragraphs(t)[f.paragraphIndex + 1])
       IN  /\ OccursAt(para, f.matchText, start)
           /\ f.occurrence = occurrenceInParagraph(para, f.matchText, start)

LEMMA AnchorLeadsBack ==
    ASSUME NEW S, NEW t \in Seq(S), NewLine \in S, NEW f, NEW start \in Nat, Anchored(f, t, start),
           f.matchText \in Seq(S), f.matchText # << >>, CopiesCannotOverlap(f.matchText)
    PROVE  LET from == Paragraphs(t)[f.paragraphIndex + 1].start
           IN  anchorToSpan(t, f) = MatchRange(from + start, from + start + Len(f.matchText))
<1> DEFINE i == f.paragraphIndex + 1
           v == f.matchText
           paras == splitParagraphs(t)
           p == paras[f.paragraphIndex + 1]
           para == Slice(t, p)
           copy == CHOOSE c : IsCopies(c, para, v, 0, f.occurrence)
           q == Paragraphs(t)[f.paragraphIndex + 1]
<1>1. anchorToSpan(t, f) =
        IF f.paragraphIndex >= Len(paras) \/ copy[f.occurrence] = -1 THEN NoSpan
        ELSE MatchRange(p.start + copy[f.occurrence], p.start + copy[f.occurrence] + Len(v))
  BY DEF anchorToSpan, IsCopies
<1>2. i \in 1 .. Len(Paragraphs(t)) /\ f.paragraphIndex \in Nat
  BY DEF Anchored
<1>3. q.start \in 0 .. Len(t) /\ q.end \in q.start .. Len(t)
  BY <1>2, AParagraph
<1>4. OccursAt(Slice(t, q), v, start) /\ f.occurrence = occurrenceInParagraph(Slice(t, q), v, start)
  BY DEF Anchored
<1>5. Slice(t, q) \in Seq(S) /\ Len(Slice(t, q)) = q.end - q.start
  BY <1>3, Sliced
<1>6. q.start < q.end
  <2>1. Len(v) \in Nat \ {0}
    BY LenProperties, EmptySeq
  <2>2. start + Len(v) <= Len(Slice(t, q))
    BY <1>4 DEF OccursAt
  <2> HIDE DEF q, v
  <2> QED
    BY <1>3, <1>5, <2>1, <2>2, LenProperties
<1>7. i \in 1 .. Len(paras) /\ p = q
  BY <1>2, <1>6, Splitted
<1>8. ~(f.paragraphIndex >= Len(paras))
  <2>1. Len(paras) \in Nat
    BY Splitted, LenProperties
  <2> QED
    BY <1>2, <1>7, <2>1
<1>9. para \in Seq(S) /\ OccursAt(para, v, start) /\ f.occurrence = occurrenceInParagraph(para, v, start)
  BY <1>4, <1>5, <1>7
<1> HIDE DEF para
<1>10. f.occurrence \in Nat /\ Reaches(para, v, 0, f.occurrence, start)
  BY <1>9, CountLeadsBack
<1>11. IsCopies(copy, para, v, 0, f.occurrence)
  BY <1>10, CopiesExist
<1> HIDE DEF copy
<1>12. copy[f.occurrence] = start /\ copy[f.occurrence] # -1
  BY <1>10, <1>11 DEF Reaches
<1>13. anchorToSpan(t, f) = MatchRange(q.start + start, q.start + start + Len(v))
  <2> HIDE DEF i, v, paras, p, q
  <2> QED
    BY <1>1, <1>7, <1>8, <1>12
<1> QED
  BY <1>13

-----------------------------------------------------------------------------
\* The flags of rules

Sym == Chars \cup {NewLine}

LEMMA TextsAreOfSym ==
    ASSUME NEW t \in Seq(Chars)
    PROVE  t \in Seq(Sym) /\ NewLine \in Sym
<1>1. Chars \subseteq Sym /\ NewLine \in Sym
  BY DEF Sym
<1> QED
  BY <1>1, SeqMonotonic

\* The flag is that of a match, inside the i-th paragraph of the text.
Raised(f, rule, t, i, m, order) ==
    LET para == Slice(t, Paragraphs(t)[i])
    IN  /\ rule \in Rules \ PluginRules /\ i \in 1 .. Len(Paragraphs(t))
        /\ m \in RangesOf(para) /\ m.start < m.end
        /\ f = FlagOf(rule, [index |-> i - 1, text |-> para], m, order)

LEMMA EngineFlags ==
    ASSUME NEW t \in Seq(Chars), NEW order, NEW f \in EngineDetect(t, order)
    PROVE  \E rule, i, m : Raised(f, rule, t, i, m, order)
<1>1. PICK rule \in Rules : ~External(rule) /\ f \in RuleDetect(rule, t, order)
  BY DEF EngineDetect
<1>2. PICK para \in ParagraphsOf(t) : \E m \in Matches(rule, para.text, order) :
        m \in RangesOf(para.text) /\ m.start < m.end /\ f = FlagOf(rule, para, m, order)
  BY <1>1, Zenon DEF RuleDetect
<1>3. PICK m : m \in RangesOf(para.text) /\ m.start < m.end /\ f = FlagOf(rule, para, m, order)
  BY <1>2
<1>4. PICK i \in DOMAIN Paragraphs(t) : para = [index |-> i - 1, text |-> Slice(t, Paragraphs(t)[i])]
  BY DEF ParagraphsOf
<1>5. DOMAIN Paragraphs(t) = 1 .. Len(Paragraphs(t))
  <2>1. Paragraphs(t) \in Seq(Place(t))
    BY TextsAreOfSym, Splitted DEF Chain
  <2> QED
    BY <2>1, LenProperties
<1>6. para.text = Slice(t, Paragraphs(t)[i])
  BY <1>4
<1>7. rule \in Rules \ PluginRules
  BY <1>1 DEF PluginRules
<1>8. Raised(f, rule, t, i, m, order)
  BY <1>3, <1>4, <1>5, <1>6, <1>7 DEF Raised
<1> QED
  BY <1>8

LEMMA RaisedFields ==
    ASSUME NEW f, NEW rule, NEW t, NEW i, NEW m, NEW order, Raised(f, rule, t, i, m, order)
    PROVE  LET para == Slice(t, Paragraphs(t)[i])
           IN  /\ f.rule = rule.id /\ f.matchText = Slice(para, m) /\ f.paragraphIndex = i - 1
               /\ f.occurrence = occurrenceInParagraph(para, Slice(para, m), m.start) /\ f.span = m
BY DEF Raised, FlagOf

LEMMA RaisedIsAnchored ==
    ASSUME NEW t \in Seq(Chars), NEW order, NEW rule, NEW i, NEW m, NEW f,
           Raised(f, rule, t, i, m, order)
    PROVE  /\ Anchored(f, t, m.start) /\ f.paragraphIndex + 1 = i /\ m.start \in Nat /\ m.end \in Nat
           /\ f.matchText \in Seq(Sym) /\ f.matchText # << >> /\ m.start + Len(f.matchText) = m.end
<1> DEFINE para == Slice(t, Paragraphs(t)[i])
<1>1. i \in 1 .. Len(Paragraphs(t)) /\ m \in RangesOf(para) /\ m.start < m.end
  BY DEF Raised
<1>2. t \in Seq(Sym) /\ NewLine \in Sym
  BY TextsAreOfSym
<1>3. Paragraphs(t)[i].start \in 0 .. Len(t) /\ Paragraphs(t)[i].end \in Paragraphs(t)[i].start .. Len(t)
  BY <1>1, <1>2, AParagraph
<1>4. para \in Seq(Sym) /\ Len(para) \in Nat
  BY <1>2, <1>3, Sliced, LenProperties
<1>5. i \in 1 .. Len(Paragraphs(t)) /\ m.start \in 0 .. Len(para) /\ m.end \in m.start + 1 .. Len(para)
  <2> HIDE DEF para
  <2>1. PICK a \in 0 .. Len(para), b \in 0 .. Len(para) : m = MatchRange(a, b)
    BY <1>1 DEF RangesOf
  <2>2. m.start = a /\ m.end = b
    BY <2>1 DEF MatchRange
  <2> QED
    BY <1>1, <1>4, <2>2
<1>6. /\ f.matchText = Slice(para, m) /\ f.paragraphIndex = i - 1
      /\ f.occurrence = occurrenceInParagraph(para, Slice(para, m), m.start)
  BY RaisedFields
<1> HIDE DEF para
<1>7. m.end \in m.start .. Len(para)
  BY <1>5, <1>4
<1>8. /\ Slice(para, m) \in Seq(Sym) /\ Len(Slice(para, m)) = m.end - m.start
      /\ OccursAt(para, Slice(para, m), m.start)
  BY <1>5, <1>4, <1>7, Sliced, SliceOccurs
<1>9. Slice(para, m) # << >>
  <2>1. Len(Slice(para, m)) # 0
    BY <1>5, <1>4, <1>8
  <2> QED
    BY <2>1, EmptySeq
<1>10. f.paragraphIndex + 1 = i /\ f.paragraphIndex \in Nat
  BY <1>5, <1>6
<1>11. Anchored(f, t, m.start)
  BY <1>5, <1>6, <1>8, <1>10 DEF Anchored, para
<1>12. m.start \in Nat /\ m.end \in Nat
  BY <1>5, <1>4
<1>13. Len(f.matchText) = m.end - m.start /\ m.start + (m.end - m.start) = m.end
  BY <1>6, <1>8, <1>12
<1>14. f.matchText \in Seq(Sym) /\ f.matchText # << >>
  BY <1>6, <1>8, <1>9
<1> QED
  BY <1>10, <1>11, <1>12, <1>13, <1>14

-----------------------------------------------------------------------------
\* The flags of plugins

IsStarts(starts, paras) ==
    starts = [i \in DOMAIN paras |->
                IF i = 1 THEN 0 ELSE starts[i - 1] + paras[i - 1].end - paras[i - 1].start + 2]

\* The plugin adapter adds up the lengths of the paragraphs to where each of them begins.
LEMMA Starts ==
    ASSUME NEW S, NEW t \in Seq(S), NEW paras, Chain(paras, 0, t), NEW j \in 1 .. Len(paras)
    PROVE  StartsOf(paras)[j] = paras[j].start
<1> DEFINE starts == CHOOSE s : IsStarts(s, paras)
           begin == [i \in DOMAIN paras |-> paras[i].start]
           good == {k \in Nat : k + 1 <= Len(paras) => starts[k + 1] = paras[k + 1].start}
<1>1. /\ Len(paras) \in Nat /\ DOMAIN paras = 1 .. Len(paras) /\ paras[1].start = 0
      /\ \A i \in 1 .. Len(paras) : paras[i].start \in Nat /\ paras[i].end \in Nat
      /\ \A i \in 1 .. Len(paras) - 1 : paras[i + 1].start = paras[i].end + 2
  <2>1. Len(t) \in Nat /\ paras \in Seq(Place(t))
    BY LenProperties DEF Chain
  <2>2. \A i \in 1 .. Len(paras) : paras[i] \in Place(t)
    BY <2>1, ElementOfSeq
  <2>3. \A i \in 1 .. Len(paras) : paras[i].start \in Nat /\ paras[i].end \in Nat
    BY <2>1, <2>2 DEF Place
  <2>4. Len(paras) \in Nat /\ DOMAIN paras = 1 .. Len(paras)
    BY <2>1, LenProperties
  <2> QED
    BY <2>3, <2>4 DEF Chain
<1>2. \A i \in 2 .. Len(paras) : paras[i].start = paras[i - 1].start + paras[i - 1].end - paras[i - 1].start + 2
  <2> TAKE i \in 2 .. Len(paras)
  <2>1. PICK k \in 1 .. Len(paras) - 1 : k = i - 1
    <3>1. i - 1 \in 1 .. Len(paras) - 1
      BY <1>1
    <3> QED
      BY <3>1
  <2>2. k + 1 = i /\ k \in 1 .. Len(paras)
    BY <1>1, <2>1
  <2> QED
    BY <1>1, <2>1, <2>2
<1>3. IsStarts(begin, paras)
  <2>1. \A i \in 1 .. Len(paras) :
          begin[i] = IF i = 1 THEN 0 ELSE begin[i - 1] + paras[i - 1].end - paras[i - 1].start + 2
    <3> TAKE i \in 1 .. Len(paras)
    <3>1. CASE i = 1
      BY <1>1, <3>1
    <3>2. CASE i # 1
      <4>1. i \in 2 .. Len(paras) /\ i - 1 \in 1 .. Len(paras)
        BY <1>1, <3>2
      <4> QED
        BY <1>1, <1>2, <3>2, <4>1
    <3> QED
      BY <3>1, <3>2
  <2>2. begin = [i \in DOMAIN paras |-> begin[i]]
    OBVIOUS
  <2> HIDE DEF begin
  <2> QED
    BY <1>1, <2>1, <2>2 DEF IsStarts
<1>4. IsStarts(starts, paras)
  BY <1>3
<1>5. StartsOf(paras) = starts
  BY DEF StartsOf, IsStarts
<1> HIDE DEF starts, begin
<1>6. \A i \in 1 .. Len(paras) :
        starts[i] = IF i = 1 THEN 0 ELSE starts[i - 1] + paras[i - 1].end - paras[i - 1].start + 2
  BY <1>1, <1>4 DEF IsStarts
<1>7. 0 \in good
  BY <1>1, <1>6
<1>8. ASSUME NEW k \in Nat, k \in good PROVE k + 1 \in good
  <2> SUFFICES ASSUME k + 2 <= Len(paras) PROVE starts[k + 2] = paras[k + 2].start
    OBVIOUS
  <2>1. PICK i \in 2 .. Len(paras) : i = k + 2
    BY <1>1
  <2>2. starts[i - 1] = paras[i - 1].start
    BY <1>1, <1>8, <2>1
  <2>3. starts[i] = starts[i - 1] + paras[i - 1].end - paras[i - 1].start + 2
    BY <1>6, <2>1
  <2> QED
    BY <1>2, <2>1, <2>2, <2>3
<1> HIDE DEF good
<1>9. Nat \subseteq good
  BY <1>7, <1>8, CountUp
<1>10. j - 1 \in Nat /\ j - 1 + 1 = j /\ j <= Len(paras)
  BY <1>1
<1>11. starts[j] = paras[j].start
  BY <1>9, <1>10 DEF good
<1> QED
  BY <1>5, <1>11

Holds(paras, i, offset) == i \in 1 .. Len(paras) /\ paras[i].start <= offset /\ offset < paras[i].end

\* A character that is not a new line is in some paragraph.
LEMMA SomeParagraph ==
    ASSUME NEW S, NEW t \in Seq(S), NewLine \in S, NEW paras, Chain(paras, 0, t),
           NEW j \in 0 .. Len(t) - 1, t[j + 1] # NewLine
    PROVE  \E i \in 1 .. Len(paras) : Holds(paras, i, j)
<1> DEFINE n == Len(paras)
           before == {i \in 1 .. n : paras[i].start <= j}
<1>1. /\ n \in Nat /\ n > 0 /\ paras[1].start = 0 /\ paras[n].end = Len(t) /\ Len(t) \in Nat
      /\ \A i \in 1 .. n : paras[i].start \in Nat /\ paras[i].end \in Nat
      /\ \A i \in 1 .. n - 1 : paras[i + 1].start = paras[i].end + 2 /\ OccursAt(t, ParagraphBreak, paras[i].end)
  <2>1. Len(t) \in Nat /\ paras \in Seq(Place(t))
    BY LenProperties DEF Chain
  <2>2. \A i \in 1 .. Len(paras) : paras[i] \in Place(t)
    BY <2>1, ElementOfSeq
  <2> QED
    BY <2>1, <2>2, LenProperties DEF Chain, Place
<1>2. 1 \in before /\ before \in SUBSET (1 .. n)
  BY <1>1
<1>3. PICK i \in before : \A k \in before : i >= k
  BY <1>1, <1>2, LastOf
<1>4. i \in 1 .. n /\ paras[i].start <= j
  BY <1>3
<1> SUFFICES ASSUME ~(j < paras[i].end) PROVE FALSE
  BY <1>4 DEF Holds
<1>5. i # n
  BY <1>1, <1>4
<1>6. i \in 1 .. n - 1 /\ i + 1 \in 1 .. n
  BY <1>1, <1>4, <1>5
<1>7. i + 1 \notin before
  BY <1>1, <1>3, <1>4
<1>8. paras[i].end + 2 > j
  BY <1>1, <1>6, <1>7
<1>9. t[paras[i].end + 1] = NewLine /\ t[paras[i].end + 2] = NewLine
  BY <1>1, <1>4, <1>6, BreakThere
<1>10. j = paras[i].end \/ j = paras[i].end + 1
  <2>1. paras[i].end \in Nat /\ j \in Nat
    BY <1>1, <1>4
  <2> QED
    BY <1>8, <2>1
<1> QED
  BY <1>1, <1>4, <1>9, <1>10

\* A word on one line that begins in a paragraph ends in it.
LEMMA WordInside ==
    ASSUME NEW S, NEW t \in Seq(S), NewLine \in S, NEW v \in Seq(S),
           \A k \in 1 .. Len(v) : v[k] # NewLine,
           NEW paras, Chain(paras, 0, t), NEW j \in Nat, OccursAt(t, v, j),
           NEW i \in 1 .. Len(paras), Holds(paras, i, j)
    PROVE  j + Len(v) <= paras[i].end
<1>1. Len(v) \in Nat /\ Len(t) \in Nat /\ Len(paras) \in Nat
  BY LenProperties DEF Chain
<1>2. Spells(t, v, j)
  BY OccursSpells
<1>3. paras[i].start \in Nat /\ paras[i].end \in Nat /\ j < paras[i].end
  <2>1. paras[i] \in Place(t)
    BY ElementOfSeq DEF Chain
  <2> QED
    BY <2>1 DEF Place, Holds
<1> SUFFICES ASSUME paras[i].end < j + Len(v) PROVE FALSE
  BY <1>1, <1>3
<1>4. i \in 1 .. Len(paras) - 1
  <2>1. i # Len(paras)
    BY <1>1, <1>2, <1>3 DEF Spells, Chain
  <2> QED
    BY <1>1, <2>1
<1>5. t[paras[i].end + 1] = NewLine
  <2>1. OccursAt(t, ParagraphBreak, paras[i].end)
    BY <1>4 DEF Chain
  <2> QED
    BY <1>3, <2>1, BreakThere
<1>6. PICK k \in 1 .. Len(v) : k = paras[i].end + 1 - j
  <2>1. paras[i].end + 1 - j \in 1 .. Len(v)
    BY <1>1, <1>3
  <2> QED
    BY <2>1
<1>7. t[j + k] = v[k] /\ j + k = paras[i].end + 1
  <2>1. t[j + k] = v[k]
    BY <1>2, <1>6 DEF Spells
  <2>2. PICK e \in Nat : e = paras[i].end
    BY <1>3
  <2>3. k = e + 1 - j /\ k \in Nat
    BY <1>1, <1>6, <2>2
  <2>4. j + k = e + 1
    BY <2>3
  <2> QED
    BY <2>1, <2>2, <2>4
<1> QED
  BY <1>5, <1>7

LEMMA ParagraphFound ==
    ASSUME NEW S, NEW t \in Seq(S), NewLine \in S, NEW paras, Chain(paras, 0, t),
           NEW j \in 0 .. Len(t) - 1, t[j + 1] # NewLine
    PROVE  \E i \in 1 .. Len(paras) :
             Holds(paras, i, j) /\ findParagraph(paras, j) = [index |-> i, start |-> j - paras[i].start]
<1> DEFINE holding == {i \in DOMAIN paras : j - StartsOf(paras)[i] \in 0 .. (paras[i].end - paras[i].start - 1)}
<1>1. /\ Len(paras) \in Nat /\ DOMAIN paras = 1 .. Len(paras) /\ Len(t) \in Nat
      /\ \A i \in 1 .. Len(paras) : paras[i].start \in Nat /\ paras[i].end \in Nat
  <2>1. Len(t) \in Nat /\ paras \in Seq(Place(t))
    BY LenProperties DEF Chain
  <2>2. \A i \in 1 .. Len(paras) : paras[i] \in Place(t)
    BY <2>1, ElementOfSeq
  <2> QED
    BY <2>1, <2>2, LenProperties DEF Place
<1>2. \A i \in 1 .. Len(paras) : StartsOf(paras)[i] = paras[i].start
  BY Starts
<1>3. \A i \in 1 .. Len(paras) : i \in holding <=> Holds(paras, i, j)
  <2> SUFFICES ASSUME NEW i \in 1 .. Len(paras)
               PROVE  j - paras[i].start \in 0 .. (paras[i].end - paras[i].start - 1) <=>
                        paras[i].start <= j /\ j < paras[i].end
    BY <1>1, <1>2 DEF Holds
  <2>1. PICK from \in Nat, to \in Nat : from = paras[i].start /\ to = paras[i].end
    BY <1>1
  <2>2. j - from \in 0 .. (to - from - 1) <=> from <= j /\ j < to
    BY <1>1
  <2> QED
    BY <2>1, <2>2
<1>4. findParagraph(paras, j) =
        IF holding # {} THEN [index |-> Min(holding), start |-> j - StartsOf(paras)[Min(holding)]]
        ELSE [index |-> Len(paras), start |-> Min({j, paras[Len(paras)].end - paras[Len(paras)].start})]
  BY DEF findParagraph
<1>5. PICK k \in 1 .. Len(paras) : Holds(paras, k, j)
  BY SomeParagraph
<1>6. holding # {} /\ holding \in SUBSET Nat /\ holding \subseteq 1 .. Len(paras)
  <2>1. k \in holding
    BY <1>3, <1>5
  <2>2. holding \subseteq 1 .. Len(paras)
    BY <1>1
  <2> HIDE DEF holding
  <2> QED
    BY <1>1, <2>1, <2>2
<1> HIDE DEF holding
<1>7. Min(holding) \in holding
  BY <1>6, LeastOf
<1>8. Min(holding) \in 1 .. Len(paras) /\ Holds(paras, Min(holding), j)
  BY <1>3, <1>6, <1>7
<1> QED
  BY <1>2, <1>4, <1>6, <1>8

\* A flag of a plugin, of the word v at an offset of the whole text.
Answered(f, rule, t, v, j, named) ==
    /\ rule \in PluginRules /\ v \in rule.node.config /\ j \in 0 .. Len(t) /\ OccursAt(t, v, j)
    /\ f = PluginFlagOf(rule, t, MatchRange(j, j + Len(v)), named)

LEMMA PluginFlags ==
    ASSUME NEW t, NEW named, NEW f \in PluginDetect(t, named)
    PROVE  \E rule, v, j : Answered(f, rule, t, v, j, named)
<1>1. PICK rule \in PluginRules : f \in {PluginFlagOf(rule, t, m, named) : m \in PluginMatches(rule, t)}
  BY DEF PluginDetect
<1>2. PICK m \in PluginMatches(rule, t) : f = PluginFlagOf(rule, t, m, named)
  BY <1>1
<1>3. PICK v \in rule.node.config : m \in {MatchRange(i, i + Len(v)) : i \in {j \in 0 .. Len(t) : OccursAt(t, v, j)}}
  BY DEF PluginMatches
<1>4. PICK j \in 0 .. Len(t) : OccursAt(t, v, j) /\ m = MatchRange(j, j + Len(v))
  BY <1>3
<1> QED
  BY <1>2, <1>4 DEF Answered

\* What a plugin says of the whole text becomes the anchor of a paragraph.
PlacedBy(f, rule, t, v, j) ==
    /\ f.rule = rule.id /\ f.span = MatchRange(j, j + Len(v)) /\ f.matchText = v
    /\ \E i \in 1 .. Len(Paragraphs(t)) :
         /\ Holds(Paragraphs(t), i, j)
         /\ f.paragraphIndex = i - 1 /\ Anchored(f, t, j - Paragraphs(t)[i].start)

LEMMA AnsweredIsAnchored ==
    ASSUME NEW t \in Seq(Chars), NEW rule, NEW v, NEW j, NEW named \in BOOLEAN, NEW f,
           Answered(f, rule, t, v, j, named)
    PROVE  /\ j \in Nat /\ v \in Seq(Sym) /\ v # << >>
           /\ PlacedBy(f, rule, t, v, j)
<1> DEFINE paras == Paragraphs(t)
           m == MatchRange(j, j + Len(v))
<1>1. t \in Seq(Sym) /\ NewLine \in Sym /\ Len(t) \in Nat
  BY TextsAreOfSym, LenProperties
<1>2. rule \in PluginRules /\ v \in rule.node.config /\ j \in 0 .. Len(t) /\ OccursAt(t, v, j) /\ f = PluginFlagOf(rule, t, m, named)
  BY DEF Answered
<1>3. v \in Seq(Chars \ {NewLine}) /\ v # << >>
  BY <1>2, RulesAssumption
<1>4. v \in Seq(Sym) /\ Len(v) \in Nat /\ Len(v) > 0 /\ \A k \in 1 .. Len(v) : v[k] # NewLine
  <2>1. Chars \ {NewLine} \subseteq Sym
    BY DEF Sym
  <2>2. v \in Seq(Sym)
    BY <1>3, <2>1, SeqMonotonic
  <2>3. \A k \in 1 .. Len(v) : v[k] \in Chars \ {NewLine}
    BY <1>3, ElementOfSeq
  <2>4. Len(v) \in Nat \ {0}
    BY <1>3, EmptySeq
  <2> QED
    BY <2>2, <2>3, <2>4
<1>5. Spells(t, v, j)
  BY <1>1, <1>2, <1>4, OccursSpells
<1>6. j \in 0 .. Len(t) - 1 /\ t[j + 1] # NewLine
  <2>1. j + Len(v) <= Len(t) /\ t[j + 1] = v[1] /\ 1 \in 1 .. Len(v)
    BY <1>4, <1>5 DEF Spells
  <2> QED
    BY <1>1, <1>2, <1>4, <2>1
<1>7. j \in Nat
  BY <1>1, <1>2
<1>8. Chain(paras, 0, t)
  BY <1>1, Splitted
<1>9. PICK i \in 1 .. Len(paras) :
        Holds(paras, i, j) /\ findParagraph(paras, j) = [index |-> i, start |-> j - paras[i].start]
  <2> HIDE DEF paras
  <2> QED
    BY <1>1, <1>6, <1>8, ParagraphFound
<1>10. PICK from \in Nat, to \in Nat : from = paras[i].start /\ to = paras[i].end /\ to <= Len(t) /\ from <= j
  <2>1. paras[i] \in Place(t)
    BY <1>8, ElementOfSeq DEF Chain
  <2> QED
    BY <1>1, <1>9, <2>1 DEF Place, Holds
<1>11. j + Len(v) <= to
  <2> HIDE DEF paras
  <2>1. j \in Nat
    BY <1>6
  <2> QED
    BY <1>1, <1>2, <1>4, <1>8, <1>9, <1>10, <2>1, WordInside
<1> DEFINE s == j - from
           para == Slice(t, paras[i])
<1>12. /\ para \in Seq(Sym) /\ Len(para) = to - from
       /\ \A k \in 1 .. to - from : para[k] = t[from + k]
  <2>1. paras[i].start \in 0 .. Len(t) /\ paras[i].end \in paras[i].start .. Len(t)
    <3>1. from <= to
      BY <1>7, <1>4, <1>10, <1>11
    <3> QED
      BY <1>1, <1>10, <3>1
  <2> HIDE DEF paras
  <2>2. /\ para \in Seq(Sym) /\ Len(para) = paras[i].end - paras[i].start
        /\ \A k \in 1 .. paras[i].end - paras[i].start : para[k] = t[paras[i].start + k]
    BY <1>1, <2>1, Sliced
  <2> HIDE DEF para
  <2> QED
    BY <1>10, <2>2
<1>13. s \in Nat /\ s + Len(v) <= Len(para) /\ from + s = j
  BY <1>4, <1>7, <1>10, <1>11, <1>12, SMTT(20)
<1> HIDE DEF s, para
<1>14. OccursAt(para, v, s)
  <2>1. ASSUME NEW k \in 1 .. Len(v) PROVE para[s + k] = v[k]
    <3>1. s + k \in 1 .. to - from /\ from + (s + k) = j + k
      BY <1>4, <1>12, <1>13
    <3>2. t[j + k] = v[k]
      BY <1>5 DEF Spells
    <3> QED
      BY <1>12, <3>1, <3>2
  <2>2. Spells(para, v, s)
    BY <1>13, <2>1 DEF Spells
  <2> QED
    BY <1>4, <1>12, <1>13, <2>2, OccursSpells
<1>15. Slice(para, MatchRange(s, s + Len(v))) = v /\ Slice(t, m) = v
  BY <1>2, <1>14 DEF OccursAt
<1>16. m.end - m.start = Len(v) /\ m.start = j
  BY <1>4, <1>6 DEF MatchRange
<1>17. extractMatch(para, s, Len(v)) = v
  <2>1. Min({s + Len(v), Len(para)}) = s + Len(v)
    <3>1. s + Len(v) \in Nat /\ Len(para) \in Nat /\ {s + Len(v), Len(para)} \in SUBSET Nat
      BY <1>4, <1>12, <1>13, LenProperties
    <3>2. /\ Min({s + Len(v), Len(para)}) \in {s + Len(v), Len(para)}
          /\ \A k \in {s + Len(v), Len(para)} : Min({s + Len(v), Len(para)}) <= k
      BY <3>1, LeastOf
    <3> QED
      BY <1>13, <3>1, <3>2
  <2> QED
    BY <1>15, <2>1 DEF extractMatch
<1>18. findParagraph(paras, m.start).index = i /\ findParagraph(paras, m.start).start = s
  BY <1>9, <1>10, <1>16 DEF s
<1>19. /\ f.rule = rule.id /\ f.span = m /\ f.matchText = v /\ f.paragraphIndex = i - 1
       /\ f.occurrence = occurrenceInParagraph(para, v, s)
  <2>1. CASE named
    BY <1>2, <1>3, <1>15, <1>16, <1>18, <2>1 DEF PluginFlagOf, para
  <2>2. CASE ~named
    BY <1>2, <1>3, <1>16, <1>17, <1>18, <2>2 DEF PluginFlagOf, para
  <2> QED
    BY <2>1, <2>2
<1>20. Len(paras) \in Nat
  BY <1>8, LenProperties DEF Chain
<1>21. Anchored(f, t, s)
  <2>1. f.paragraphIndex \in Nat /\ f.paragraphIndex + 1 = i
    BY <1>9, <1>19, <1>20
  <2> QED
    BY <1>9, <1>14, <1>19, <2>1 DEF Anchored, para
<1>22. PlacedBy(f, rule, t, v, j)
  BY <1>9, <1>10, <1>19, <1>21 DEF PlacedBy, s
<1> QED
  BY <1>3, <1>4, <1>6, <1>22

-----------------------------------------------------------------------------
\* The flags on the screen

\* The inductive invariant: the flags are none, or those of the text as it stands.
FlagsInv ==
    /\ text \in Seq(Chars)
    /\ \/ flags = {}
       \/ \E order \in MapOrders, named \in BOOLEAN :
            flags = EngineDetect(text, order) \cup PluginDetect(text, named)

\* Whatever was typed and checked, the flags are those of the text in the editor.
THEOREM FlagsOfTheText == FlagsSpec => []FlagsInv
<1>1. FlagsInit => FlagsInv
  BY EmptySeq DEF FlagsInit, FlagsInv
<1>2. FlagsInv /\ [FlagsNext]_flagsVars => FlagsInv'
  <2> SUFFICES ASSUME FlagsInv, [FlagsNext]_flagsVars PROVE FlagsInv'
    OBVIOUS
  <2>1. ASSUME NEW c \in Chars, Type(c) PROVE FlagsInv'
    <3>1. text' \in Seq(Chars)
      BY <2>1, AppendProperties DEF FlagsInv, Type
    <3>2. flags' = {}
      BY <2>1 DEF Type
    <3> QED
      BY <3>1, <3>2 DEF FlagsInv
  <2>2. CASE Check
    <3>1. text' = text /\ text' \in Seq(Chars)
      BY <2>2 DEF FlagsInv, Check
    <3>2. PICK order \in MapOrders, named \in BOOLEAN :
            flags' = EngineDetect(text, order) \cup PluginDetect(text, named)
      BY <2>2 DEF Check
    <3> QED
      BY <3>1, <3>2 DEF FlagsInv
  <2>3. CASE UNCHANGED flagsVars
    BY <2>3 DEF FlagsInv, flagsVars
  <2> QED
    BY <2>1, <2>2, <2>3 DEF FlagsNext
<1> QED
  BY <1>1, <1>2, PTL DEF FlagsSpec

\* A flag of the engine is found where its rule matched.
LEMMA EngineResolves ==
    ASSUME text \in Seq(Chars), NEW order, NEW f \in EngineDetect(text, order),
           CopiesCannotOverlap(f.matchText)
    PROVE  anchorToSpan(text, f) = FoundAt(f)
<1>1. PICK rule, i, m : Raised(f, rule, text, i, m, order)
  BY EngineFlags
<1>2. /\ Anchored(f, text, m.start) /\ f.paragraphIndex + 1 = i /\ m.start \in Nat /\ m.end \in Nat
      /\ f.matchText \in Seq(Sym) /\ f.matchText # << >> /\ m.start + Len(f.matchText) = m.end
  BY <1>1, RaisedIsAnchored
<1>3. text \in Seq(Sym) /\ NewLine \in Sym
  BY TextsAreOfSym
<1> DEFINE from == Paragraphs(text)[f.paragraphIndex + 1].start
<1>4. anchorToSpan(text, f) = MatchRange(from + m.start, from + m.start + Len(f.matchText))
  BY <1>2, <1>3, AnchorLeadsBack
<1>5. from \in Nat
  <2>1. i \in 1 .. Len(Paragraphs(text))
    BY <1>1 DEF Raised
  <2>2. from \in 0 .. Len(text) /\ Len(text) \in Nat
    BY <1>2, <1>3, <2>1, AParagraph, LenProperties
  <2> QED
    BY <2>2
<1>6. f.rule = rule.id /\ f.span = m
  BY <1>1, RaisedFields
<1>7. f.rule \notin PluginIDs
  BY <1>1, <1>6, RulesAssumption DEF Raised, PluginIDs, PluginRules
<1> HIDE DEF from
<1>8. from + m.start + Len(f.matchText) = from + m.end
  <2>1. Len(f.matchText) \in Nat
    BY <1>2, LenProperties
  <2> QED
    BY <1>2, <1>5, <2>1
<1>9. FoundAt(f) = MatchRange(from + m.start, from + m.end)
  BY <1>6, <1>7 DEF FoundAt, from
<1> QED
  BY <1>4, <1>8, <1>9

\* A flag of a plugin is found where the plugin said.
LEMMA PluginResolves ==
    ASSUME text \in Seq(Chars), NEW named \in BOOLEAN, NEW f \in PluginDetect(text, named),
           CopiesCannotOverlap(f.matchText)
    PROVE  anchorToSpan(text, f) = FoundAt(f)
<1>1. PICK rule, v, j : Answered(f, rule, text, v, j, named)
  BY PluginFlags
<1>2. j \in Nat /\ v \in Seq(Sym) /\ v # << >> /\ PlacedBy(f, rule, text, v, j)
  BY <1>1, AnsweredIsAnchored
<1>3. text \in Seq(Sym) /\ NewLine \in Sym
  BY TextsAreOfSym
<1>4. PICK i \in 1 .. Len(Paragraphs(text)) :
        /\ Holds(Paragraphs(text), i, j)
        /\ f.paragraphIndex = i - 1 /\ Anchored(f, text, j - Paragraphs(text)[i].start)
  BY <1>2 DEF PlacedBy
<1>5. f.rule = rule.id /\ f.span = MatchRange(j, j + Len(v)) /\ f.matchText = v
  BY <1>2 DEF PlacedBy
<1>6. f.paragraphIndex + 1 = i
  BY <1>4 DEF Anchored
<1>7. PICK from \in Nat : from = Paragraphs(text)[i].start /\ from <= j
  <2>1. Paragraphs(text)[i].start \in 0 .. Len(text) /\ Len(text) \in Nat
    BY <1>3, AParagraph, LenProperties
  <2> QED
    BY <1>4, <2>1 DEF Holds
<1>8. PICK start \in Nat : start = j - from /\ from + start = j
  <2>1. j - from \in Nat /\ from + (j - from) = j
    BY <1>2, <1>7
  <2> QED
    BY <2>1
<1>9. Anchored(f, text, start)
  BY <1>4, <1>7, <1>8
<1>10. anchorToSpan(text, f) = MatchRange(from + start, from + start + Len(v))
  BY <1>2, <1>3, <1>5, <1>6, <1>7, <1>9, AnchorLeadsBack, SMTT(20)
<1>11. f.rule \in PluginIDs
  BY <1>1, <1>5 DEF Answered, PluginIDs
<1>12. FoundAt(f) = MatchRange(0 + j, 0 + (j + Len(v)))
  <2>1. f.span.start = j /\ f.span.end = j + Len(v)
    BY <1>5 DEF MatchRange
  <2> QED
    BY <1>11, <2>1 DEF FoundAt
<1>13. 0 + j = j /\ 0 + (j + Len(v)) = j + Len(v)
  BY <1>2, LenProperties
<1> QED
  BY <1>8, <1>10, <1>12, <1>13

\* The editor finds every flag whose copies cannot overlap where the server or a plugin
\* matched it, whatever the text, the rules, the plugins and the order of a Go map.
THEOREM EveryAnchorResolves == FlagsSpec => []AnchorsResolve
<1>1. FlagsInv => AnchorsResolve
  BY EngineResolves, PluginResolves DEF FlagsInv, AnchorsResolve
<1> QED
  BY <1>1, FlagsOfTheText, PTL

\* One anchor names one place.
LEMMA OnePlace ==
    ASSUME NEW t \in Seq(Chars), NEW f, NEW g, NEW a \in Nat, NEW b \in Nat,
           Anchored(f, t, a), Anchored(g, t, b),
           f.paragraphIndex = g.paragraphIndex, f.matchText = g.matchText, f.occurrence = g.occurrence,
           f.matchText \in Seq(Sym), f.matchText # << >>, CopiesCannotOverlap(f.matchText)
    PROVE  a = b
<1> DEFINE i == f.paragraphIndex + 1
           para == Slice(t, Paragraphs(t)[i])
           v == f.matchText
           n == f.occurrence
<1>1. t \in Seq(Sym) /\ NewLine \in Sym
  BY TextsAreOfSym
<1>2. i \in 1 .. Len(Paragraphs(t)) /\ OccursAt(para, v, a) /\ n = occurrenceInParagraph(para, v, a)
  BY DEF Anchored
<1>3. OccursAt(para, v, b) /\ n = occurrenceInParagraph(para, v, b)
  BY DEF Anchored
<1>4. para \in Seq(Sym)
  <2> HIDE DEF i
  <2> QED
    BY <1>1, <1>2, AParagraph, Sliced
<1> HIDE DEF i, para
<1>5. n \in Nat /\ Reaches(para, v, 0, n, a)
  BY <1>2, <1>4, CountLeadsBack
<1>6. Reaches(para, v, 0, n, b)
  BY <1>3, <1>4, CountLeadsBack
<1>7. PICK copy : IsCopies(copy, para, v, 0, n)
  BY <1>5, CopiesExist
<1> QED
  BY <1>5, <1>6, <1>7 DEF Reaches

LEMMA SameID ==
    ASSUME NEW f, NEW g, NewFlagID(f) = NewFlagID(g)
    PROVE  /\ f.rule = g.rule /\ f.matchText = g.matchText
           /\ f.paragraphIndex = g.paragraphIndex /\ f.occurrence = g.occurrence
BY DEF NewFlagID

\* Two matches of one rule in one paragraph that hold the same copy are one match.
LEMMA OneRaised ==
    ASSUME NEW t \in Seq(Chars), NEW order, NEW f \in EngineDetect(t, order), NEW g \in EngineDetect(t, order),
           NewFlagID(f) = NewFlagID(g), CopiesCannotOverlap(f.matchText)
    PROVE  f = g
<1>1. PICK rule, i, m : Raised(f, rule, t, i, m, order)
  BY EngineFlags
<1>2. PICK rule2, i2, m2 : Raised(g, rule2, t, i2, m2, order)
  BY EngineFlags
<1>3. /\ f.rule = g.rule /\ f.matchText = g.matchText
      /\ f.paragraphIndex = g.paragraphIndex /\ f.occurrence = g.occurrence
  BY SameID
<1>4. /\ Anchored(f, t, m.start) /\ f.paragraphIndex + 1 = i /\ m.start \in Nat /\ m.end \in Nat
      /\ f.matchText \in Seq(Sym) /\ f.matchText # << >> /\ m.start + Len(f.matchText) = m.end
  BY <1>1, RaisedIsAnchored
<1>5. /\ Anchored(g, t, m2.start) /\ g.paragraphIndex + 1 = i2 /\ m2.start \in Nat /\ m2.end \in Nat
      /\ m2.start + Len(g.matchText) = m2.end
  BY <1>2, RaisedIsAnchored
<1>6. rule = rule2
  <2>1. rule.id = rule2.id
    BY <1>1, <1>2, <1>3, RaisedFields
  <2>2. rule \in Rules /\ rule2 \in Rules
    BY <1>1, <1>2 DEF Raised
  <2> QED
    BY <2>1, <2>2, RulesAssumption
<1>7. i = i2
  BY <1>3, <1>4, <1>5
<1>8. m.start = m2.start
  BY <1>3, <1>4, <1>5, OnePlace
<1>9. m.end = m2.end
  BY <1>3, <1>4, <1>5, <1>8
<1>10. m = m2
  <2>1. ASSUME NEW para, NEW r \in RangesOf(para) PROVE r = MatchRange(r.start, r.end)
    BY DEF RangesOf, MatchRange
  <2>2. m = MatchRange(m.start, m.end) /\ m2 = MatchRange(m2.start, m2.end)
    BY <1>1, <1>2, <2>1 DEF Raised
  <2> QED
    BY <1>8, <1>9, <2>2
<1> QED
  BY <1>1, <1>2, <1>6, <1>7, <1>10 DEF Raised

\* No paragraph but one holds an offset, so one anchor is one answer of a plugin.
LEMMA OneAnswered ==
    ASSUME NEW t \in Seq(Chars), NEW named \in BOOLEAN, NEW f \in PluginDetect(t, named),
           NEW g \in PluginDetect(t, named), NewFlagID(f) = NewFlagID(g), CopiesCannotOverlap(f.matchText)
    PROVE  f = g
<1>1. PICK rule, v, j : Answered(f, rule, t, v, j, named)
  BY PluginFlags
<1>2. PICK rule2, v2, j2 : Answered(g, rule2, t, v2, j2, named)
  BY PluginFlags
<1>3. /\ f.rule = g.rule /\ f.matchText = g.matchText
      /\ f.paragraphIndex = g.paragraphIndex /\ f.occurrence = g.occurrence
  BY SameID
<1>4. j \in Nat /\ v \in Seq(Sym) /\ v # << >> /\ PlacedBy(f, rule, t, v, j)
  BY <1>1, AnsweredIsAnchored
<1>5. j2 \in Nat /\ PlacedBy(g, rule2, t, v2, j2)
  BY <1>2, AnsweredIsAnchored
<1>6. f.rule = rule.id /\ f.matchText = v /\ g.rule = rule2.id /\ g.matchText = v2
  BY <1>4, <1>5 DEF PlacedBy
<1>7. rule = rule2 /\ v = v2
  BY <1>1, <1>2, <1>3, <1>6, RulesAssumption DEF Answered, PluginRules
<1>8. PICK i \in 1 .. Len(Paragraphs(t)) :
        /\ Holds(Paragraphs(t), i, j)
        /\ f.paragraphIndex = i - 1 /\ Anchored(f, t, j - Paragraphs(t)[i].start)
  BY <1>4 DEF PlacedBy
<1>9. PICK i2 \in 1 .. Len(Paragraphs(t)) :
        /\ Holds(Paragraphs(t), i2, j2)
        /\ g.paragraphIndex = i2 - 1 /\ Anchored(g, t, j2 - Paragraphs(t)[i2].start)
  BY <1>5 DEF PlacedBy
<1>10. Len(Paragraphs(t)) \in Nat
  BY TextsAreOfSym, Splitted, LenProperties DEF Chain
<1>11. i = i2
  <2>1. i - 1 = i2 - 1
    BY <1>3, <1>8, <1>9
  <2> QED
    BY <1>10, <2>1
<1>12. PICK from \in Nat : from = Paragraphs(t)[i].start
  <2>1. Paragraphs(t)[i].start \in 0 .. Len(t) /\ Len(t) \in Nat
    BY TextsAreOfSym, AParagraph, LenProperties
  <2> QED
    BY <2>1
<1>13. j - from \in Nat /\ j2 - from \in Nat
  BY <1>4, <1>5, <1>8, <1>9, <1>11, <1>12 DEF Holds
<1>14. Anchored(f, t, j - from) /\ Anchored(g, t, j2 - from)
  BY <1>8, <1>9, <1>11, <1>12
<1>15. f.matchText \in Seq(Sym) /\ f.matchText # << >>
  BY <1>4, <1>6
<1>16. j - from = j2 - from
  BY <1>3, <1>13, <1>14, <1>15, OnePlace
<1>17. j = j2
  BY <1>4, <1>5, <1>12, <1>16
<1> QED
  BY <1>1, <1>2, <1>7, <1>17 DEF Answered

\* Two flags of one check are two in the session's map, unless their copies can overlap.
THEOREM NoTwoFlagsShareAnID == FlagsSpec => []FlagIDsDistinct
<1>1. ASSUME FlagsInv PROVE FlagIDsDistinct
  <2> SUFFICES ASSUME NEW f \in flags, NEW g \in flags, CopiesCannotOverlap(f.matchText),
                      NewFlagID(f) = NewFlagID(g)
               PROVE  f = g
    BY DEF FlagIDsDistinct
  <2>1. PICK order \in MapOrders, named \in BOOLEAN :
          flags = EngineDetect(text, order) \cup PluginDetect(text, named)
    BY <1>1 DEF FlagsInv
  <2>2. text \in Seq(Chars)
    BY <1>1 DEF FlagsInv
  <2>3. CASE f \in EngineDetect(text, order) /\ g \in EngineDetect(text, order)
    BY <2>2, <2>3, OneRaised
  <2>4. CASE f \in PluginDetect(text, named) /\ g \in PluginDetect(text, named)
    BY <2>2, <2>4, OneAnswered
  <2>5. ASSUME NEW h \in EngineDetect(text, order) PROVE h.rule \notin PluginIDs
    <3>1. PICK rule, i, m : Raised(h, rule, text, i, m, order)
      BY <2>2, EngineFlags
    <3>2. h.rule = rule.id
      BY <3>1, RaisedFields
    <3> QED
      BY <3>1, <3>2, RulesAssumption DEF Raised, PluginIDs, PluginRules
  <2>6. ASSUME NEW h \in PluginDetect(text, named) PROVE h.rule \in PluginIDs
    <3>1. PICK rule, v, j : Answered(h, rule, text, v, j, named)
      BY PluginFlags
    <3>2. PlacedBy(h, rule, text, v, j)
      BY <2>2, <3>1, AnsweredIsAnchored
    <3>3. h.rule = rule.id
      BY <3>2 DEF PlacedBy
    <3> QED
      BY <3>1, <3>3 DEF Answered, PluginIDs
  <2>7. f.rule = g.rule
    BY SameID
  <2> QED
    BY <2>1, <2>3, <2>4, <2>5, <2>6, <2>7
<1> QED
  BY <1>1, FlagsOfTheText, PTL

-----------------------------------------------------------------------------
\* The sum of severities

IsSums(sums, S) ==
    sums = [s \in SUBSET S |-> IF s = {} THEN 0
                               ELSE (CHOOSE f \in s : TRUE).severity + sums[s \ {CHOOSE f \in s : TRUE}]]

LEMMA PenaltyIsSum ==
    ASSUME NEW S
    PROVE  Penalty(S) = (CHOOSE sums : IsSums(sums, S))[S]
BY DEF Penalty, MapThenSumSet, MapThenFoldSet, IsSums

\* A set that is not empty has one element more than what is left of it.
LEMMA OneLess ==
    ASSUME NEW S, IsFiniteSet(S), NEW s \in SUBSET S, s # {}
    PROVE  LET f == CHOOSE f \in s : TRUE
           IN  /\ f \in s /\ f \in S /\ s \ {f} \in SUBSET S
               /\ Cardinality(s) \in Nat \ {0} /\ Cardinality(s \ {f}) = Cardinality(s) - 1
<1> DEFINE f == CHOOSE f \in s : TRUE
<1>1. f \in s
  OBVIOUS
<1> HIDE DEF f
<1>2. IsFiniteSet(s)
  BY FS_Subset
<1>3. Cardinality(s) \in Nat /\ Cardinality(s) # 0
  BY <1>2, FS_CardinalityType, FS_EmptySet
<1>4. Cardinality(s \ {f}) = Cardinality(s) - 1
  BY <1>1, <1>2, FS_RemoveElement
<1>5. f \in S /\ s \ {f} \in SUBSET S
  BY <1>1
<1> QED
  BY <1>1, <1>3, <1>4, <1>5 DEF f

LEMMA SumsExist ==
    ASSUME NEW S, IsFiniteSet(S), \A f \in S : f.severity \in Nat
    PROVE  \E sums : IsSums(sums, S)
<1> DEFINE one(s) == CHOOSE f \in s : TRUE
           sum(sums, s) == IF s = {} THEN 0 ELSE one(s).severity + sums[s \ {one(s)}]
           good == {n \in Nat : \E sums \in [SUBSET S -> Nat] : \A s \in SUBSET S :
                                   Cardinality(s) <= n => sums[s] = sum(sums, s)}
<1>1. \A s \in SUBSET S : IsFiniteSet(s) /\ Cardinality(s) \in Nat /\ Cardinality(s) <= Cardinality(S)
  BY FS_Subset, FS_CardinalityType
<1>2. ASSUME NEW s \in SUBSET S, s # {}
      PROVE  /\ one(s) \in S /\ s \ {one(s)} \in SUBSET S
             /\ Cardinality(s \ {one(s)}) = Cardinality(s) - 1
  BY <1>2, OneLess
<1>3. 0 \in good
  <2> DEFINE none == [s \in SUBSET S |-> 0]
  <2>1. ASSUME NEW s \in SUBSET S, Cardinality(s) <= 0 PROVE none[s] = sum(none, s)
    <3>1. s = {}
      BY <1>1, <2>1, FS_EmptySet
    <3> QED
      BY <3>1
  <2>2. none \in [SUBSET S -> Nat]
    OBVIOUS
  <2> HIDE DEF none, sum
  <2> QED
    BY <2>1, <2>2
<1>4. ASSUME NEW n \in Nat, n \in good PROVE n + 1 \in good
  <2>1. PICK sums \in [SUBSET S -> Nat] : \A s \in SUBSET S : Cardinality(s) <= n => sums[s] = sum(sums, s)
    BY <1>4
  <2> DEFINE more == [s \in SUBSET S |-> IF Cardinality(s) <= n THEN sums[s] ELSE sum(sums, s)]
  <2>2. \A s \in SUBSET S : sum(sums, s) \in Nat
    BY <1>2
  <2>3. more \in [SUBSET S -> Nat]
    <3> HIDE DEF sum
    <3> QED
      BY <2>2
  <2>4. ASSUME NEW s \in SUBSET S, Cardinality(s) <= n + 1 PROVE more[s] = sum(more, s)
    <3>1. more[s] = sum(sums, s)
      <4> HIDE DEF sum
      <4> QED
        BY <2>1
    <3>2. CASE s = {}
      BY <3>1, <3>2
    <3>3. CASE s # {}
      <4>1. s \ {one(s)} \in SUBSET S /\ Cardinality(s \ {one(s)}) <= n
        BY <1>1, <1>2, <2>4, <3>3
      <4> HIDE DEF one
      <4>2. more[s \ {one(s)}] = sums[s \ {one(s)}]
        BY <4>1
      <4> QED
        BY <3>1, <3>3, <4>2
    <3> QED
      BY <3>2, <3>3
  <2> HIDE DEF more, sum
  <2> QED
    BY <2>3, <2>4
<1>5. Cardinality(S) \in good
  <2> HIDE DEF good
  <2>1. Nat \subseteq good
    BY <1>3, <1>4, CountUp
  <2> QED
    BY <2>1, FS_CardinalityType
<1>6. PICK sums \in [SUBSET S -> Nat] : \A s \in SUBSET S : sums[s] = sum(sums, s)
  <2> HIDE DEF sum
  <2> QED
    BY <1>1, <1>5
<1>7. sums = [s \in SUBSET S |-> sum(sums, s)]
  <2> HIDE DEF sum
  <2> QED
    BY <1>6
<1> QED
  BY <1>7 DEF IsSums

\* A penalty is a number, not less than nothing.
LEMMA PenaltyIsNat ==
    ASSUME NEW S, IsFiniteSet(S), \A f \in S : f.severity \in Nat
    PROVE  Penalty(S) \in Nat
<1> DEFINE sums == CHOOSE sums : IsSums(sums, S)
           good == {n \in Nat : \A s \in SUBSET S : Cardinality(s) <= n => sums[s] \in Nat}
<1>1. IsSums(sums, S)
  BY SumsExist
<1>2. Penalty(S) = sums[S]
  BY PenaltyIsSum
<1> HIDE DEF sums
<1>3. \A s \in SUBSET S : Cardinality(s) \in Nat
  BY FS_Subset, FS_CardinalityType
<1>4. sums[{}] = 0
  BY <1>1 DEF IsSums
<1>5. 0 \in good
  <2>1. ASSUME NEW s \in SUBSET S, Cardinality(s) <= 0 PROVE sums[s] \in Nat
    <3>1. s = {}
      BY <1>3, <2>1, FS_Subset, FS_EmptySet
    <3> QED
      BY <1>4, <3>1
  <2> QED
    BY <2>1
<1>6. ASSUME NEW n \in Nat, n \in good PROVE n + 1 \in good
  <2>1. ASSUME NEW s \in SUBSET S, Cardinality(s) <= n + 1, s # {} PROVE sums[s] \in Nat
    <3> DEFINE f == CHOOSE f \in s : TRUE
    <3>1. sums[s] = f.severity + sums[s \ {f}]
      BY <1>1, <2>1 DEF IsSums
    <3>2. f \in S /\ s \ {f} \in SUBSET S /\ Cardinality(s \ {f}) = Cardinality(s) - 1
      BY <2>1, OneLess
    <3> HIDE DEF f
    <3>3. sums[s \ {f}] \in Nat
      BY <1>3, <1>6, <2>1, <3>2
    <3> QED
      BY <3>1, <3>2, <3>3
  <2>2. ASSUME NEW s \in SUBSET S, Cardinality(s) <= n + 1 PROVE sums[s] \in Nat
    <3>1. CASE s = {}
      <4>1. sums[s] = 0
        BY <1>4, <3>1, Zenon
      <4> QED
        BY <4>1
    <3>2. CASE s # {}
      BY <2>1, <2>2, <3>2
    <3> QED
      BY <3>1, <3>2
  <2> QED
    BY <2>2
<1>7. Cardinality(S) \in good
  <2> HIDE DEF good
  <2>1. Nat \subseteq good
    BY <1>5, <1>6, CountUp
  <2> QED
    BY <2>1, FS_CardinalityType
<1> QED
  BY <1>2, <1>3, <1>7

-----------------------------------------------------------------------------
\* Two scores of one sum

LEMMA Quotient ==
    ASSUME NEW x \in Nat, NEW y \in Nat \ {0}
    PROVE  /\ x \div y \in Nat
           /\ (x \div y) * y <= x /\ x < (x \div y) * y + y
OBVIOUS

\* Whole parts are not rounded.
LEMMA RoundedWhole ==
    ASSUME NEW r \in Nat, NEW y \in Nat \ {0}
    PROVE  Rounded(y * r, y) = r
<1> DEFINE q == Rounded(y * r, y)
           yr == y * r
           yq == y * q
<1>1. yr \in Nat
  OBVIOUS
<1>2. q = (2 * yr + y) \div (2 * y)
  BY DEF Rounded
<1>3. q \in Nat /\ q * (2 * y) <= 2 * yr + y /\ 2 * yr + y < q * (2 * y) + 2 * y
  <2> HIDE DEF yr, q
  <2>1. 2 * yr + y \in Nat /\ 2 * y \in Nat \ {0}
    BY <1>1
  <2> QED
    BY <1>2, <2>1, Quotient
<1> HIDE DEF q
<1>4. q * (2 * y) = 2 * yq /\ yq \in Nat
  BY <1>3
<1>5. 2 * yq <= 2 * yr + y /\ 2 * yr + y < 2 * yq + 2 * y
  BY <1>3, <1>4
<1>6. ~(q >= r + 1)
  <2>1. q >= r + 1 => yq >= yr + y
    BY <1>3
  <2> HIDE DEF yq, yr
  <2> QED
    BY <1>1, <1>4, <1>5, <2>1
<1>7. ~(q + 1 <= r)
  <2>1. q + 1 <= r => yq + y <= yr
    BY <1>3
  <2> HIDE DEF yq, yr
  <2> QED
    BY <1>1, <1>4, <1>5, <2>1
<1> QED
  BY <1>3, <1>6, <1>7 DEF q

\* What is left of the most a text can have, at the server and in the editor.
ServerLeaves(server, share, words) ==
    server = IF 100 * words - share < 0 THEN 0 ELSE Rounded(100 * words - share, words)
ClientLeaves(tenths, share, words) ==
    tenths = 100 * words - (IF share > 100 * words THEN 100 * words ELSE share)

\* Of a text long enough the server rounds what the editor leaves a fraction.
LEMMA LongText ==
    ASSUME NEW words \in Nat \ {0}, NEW share \in Nat, NEW server, NEW tenths,
           ServerLeaves(server, share, words), ClientLeaves(tenths, share, words)
    PROVE  server * words - tenths \in -(words \div 2) .. (words \div 2)
<1>1. PICK half \in Nat : half = words \div 2 /\ 2 * half <= words /\ words <= 2 * half + 1
  <2>1. words \div 2 \in Nat /\ (words \div 2) * 2 <= words /\ words < (words \div 2) * 2 + 2
    BY Quotient
  <2> QED
    BY <2>1
<1>2. CASE 100 * words < share
  <2>1. server = 0 /\ tenths = 0
    BY <1>2 DEF ServerLeaves, ClientLeaves
  <2> QED
    BY <1>1, <2>1
<1>3. CASE share <= 100 * words
  <2>1. 100 * words - share \in Nat
    BY <1>3
  <2>2. PICK points \in Nat : points = 100 * words - share
    BY <2>1
  <2>3. server = (2 * points + words) \div (2 * words) /\ tenths = points
    BY <1>3, <2>2 DEF ServerLeaves, ClientLeaves, Rounded
  <2>4. /\ server \in Nat /\ server * (2 * words) <= 2 * points + words
        /\ 2 * points + words < server * (2 * words) + 2 * words
    <3>1. 2 * points + words \in Nat /\ 2 * words \in Nat \ {0}
      OBVIOUS
    <3> QED
      BY <2>3, <3>1, Quotient
  <2>5. PICK given \in Nat : given = server * words
    BY <2>4
  <2>6. server * (2 * words) = 2 * given
    BY <2>4, <2>5
  <2>7. given - points \in -half .. half
    BY <1>1, <2>4, <2>6
  <2> QED
    BY <1>1, <2>3, <2>5, <2>7
<1> QED
  BY <1>2, <1>3

\* Of a short text the editor charges what the server does Norm / words times.
LEMMA ShortText ==
    ASSUME NEW words \in Nat \ {0}, words < Norm, NEW penalty \in Nat, NEW share, NEW server, NEW tenths,
           share = 10 * Norm * penalty, ServerLeaves(server, share, Norm), ClientLeaves(tenths, share, words)
    PROVE  LET charged == Norm * (100 - server)
           IN  tenths = (IF charged > 100 * words THEN 0 ELSE 100 * words - charged)
<1>1. Norm \in Nat \ {0}
  BY NormAssumption
<1>2. PICK lost \in Nat : lost = Norm * penalty
  BY <1>1
<1>3. share = 10 * lost
  BY <1>1, <1>2
<1>4. CASE penalty <= 10
  <2>1. 100 - 10 * penalty \in Nat
    BY <1>4
  <2>2. PICK points \in Nat : points = 100 - 10 * penalty
    BY <2>1
  <2>3. Norm * points = 100 * Norm - 10 * (Norm * penalty)
    BY <1>1, <2>2
  <2>4. Norm * points \in Nat
    BY <1>1
  <2>5. Norm * points = 100 * Norm - share /\ ~(100 * Norm - share < 0)
    BY <1>1, <1>2, <1>3, <2>3, <2>4
  <2>6. Rounded(Norm * points, Norm) = points
    BY <1>1, RoundedWhole
  <2>7. server = points
    BY <2>5, <2>6 DEF ServerLeaves
  <2>8. 100 - points = 10 * penalty /\ Norm * (10 * penalty) = share
    BY <1>1, <1>2, <1>3, <2>2
  <2>9. Norm * (100 - server) = share
    BY <2>7, <2>8
  <2> QED
    BY <2>9 DEF ClientLeaves
<1>5. CASE penalty > 10
  <2>1. lost > 10 * Norm
    BY <1>1, <1>2, <1>5
  <2>2. server = 0 /\ tenths = 0
    BY <1>1, <1>3, <2>1 DEF ServerLeaves, ClientLeaves
  <2>3. Norm * (100 - server) > 100 * words
    BY <1>1, <2>2
  <2> QED
    BY <2>2, <2>3
<1> QED
  BY <1>4, <1>5

\* The two scores of a category, of as many words and as high a penalty, go together.
LEMMA OneSumOneScore ==
    ASSUME NEW pending, NEW category, NEW words \in Nat, Penalty(InCategory(pending, category)) \in Nat
    PROVE  Consistent(ServerScore(pending, words, category), ClientScore(pending, words, category), words)
<1> DEFINE penalty == Penalty(InCategory(pending, category))
           server == ServerScore(pending, words, category)
           client == ClientScore(pending, words, category)
<1>1. Norm \in Nat \ {0} /\ penalty \in Nat
  BY NormAssumption
<1>2. PICK share \in Nat : share = 10 * Norm * penalty
  <2> HIDE DEF penalty
  <2> QED
    BY <1>1
<1>3. words # 0 => ServerLeaves(server, share, IF words < Norm THEN Norm ELSE words)
  BY <1>2 DEF ServerScore, MaxScore, ServerLeaves
<1>4. words # 0 => client.per = words /\ ClientLeaves(client.tenths, share, words)
  BY <1>2 DEF ClientScore, MaxScore, ClientLeaves
<1>5. words = 0 => server = 100 /\ client.per = 1 /\ client.tenths = 100
  BY DEF ServerScore, ClientScore, MaxScore
<1> HIDE DEF server, client, penalty
<1>6. words >= Norm => words # 0 /\ ~(words < Norm)
  BY <1>1
<1>7. Consistent(server, client, words)
  <2>1. CASE words = 0
    <3>1. server = 100 /\ client.tenths = 100 /\ client.per = 1 /\ ~(words >= Norm)
      BY <1>5, <1>6, <2>1
    <3> QED
      BY <2>1, <3>1, <1>1 DEF Consistent, MaxScore
  <2>2. CASE words >= Norm
    <3>1. ServerLeaves(server, share, words)
      BY <1>3, <1>6, <2>2
    <3>2. client.per = words /\ ClientLeaves(client.tenths, share, words) /\ words \in Nat \ {0}
      BY <1>4, <1>6, <2>2
    <3>3. server * words - client.tenths \in -(words \div 2) .. (words \div 2)
      BY <3>1, <3>2, LongText
    <3> QED
      BY <1>1, <2>2, <3>2, <3>3 DEF Consistent
  <2>3. CASE words < Norm /\ words # 0
    <3>1. ServerLeaves(server, share, Norm)
      BY <1>3, <2>3
    <3>2. client.per = words /\ ClientLeaves(client.tenths, share, words) /\ words \in Nat \ {0}
      BY <1>4, <2>3
    <3>3. LET charged == Norm * (100 - server)
          IN  client.tenths = (IF charged > 100 * words THEN 0 ELSE 100 * words - charged)
      BY <1>1, <1>2, <2>3, <3>1, <3>2, ShortText
    <3> QED
      BY <1>1, <2>3, <3>2, <3>3 DEF Consistent, MaxScore
  <2> QED
    BY <1>1, <2>1, <2>2, <2>3
<1> QED
  BY <1>7 DEF server, client

-----------------------------------------------------------------------------
\* The flags of a text are finitely many

LEMMA ImageFinite ==
    ASSUME NEW S, IsFiniteSet(S), NEW f, f = [x \in S |-> f[x]]
    PROVE  IsFiniteSet({f[x] : x \in S})
<1> DEFINE T == {f[x] : x \in S}
<1>1. f \in [S -> T]
  OBVIOUS
<1>2. \A y \in T : \E x \in S : f[x] = y
  OBVIOUS
<1>3. f \in Surjection(S, T)
  BY <1>1, <1>2 DEF Surjection
<1> QED
  BY <1>3, FS_Surjection

LEMMA RangesFinite ==
    ASSUME NEW t, Len(t) \in Nat
    PROVE  IsFiniteSet(RangesOf(t))
<1> DEFINE places == 0 .. Len(t)
           range == [p \in places \X places |-> MatchRange(p[1], p[2])]
<1>1. IsFiniteSet(places \X places)
  <2>1. IsFiniteSet(places)
    BY FS_Interval
  <2> HIDE DEF places
  <2> QED
    BY <2>1, FS_Product
<1>2. IsFiniteSet({range[p] : p \in places \X places})
  <2>1. range = [p \in places \X places |-> range[p]]
    OBVIOUS
  <2> HIDE DEF range, places
  <2> QED
    BY <1>1, <2>1, ImageFinite
<1>3. RangesOf(t) \subseteq {range[p] : p \in places \X places}
  <2>1. ASSUME NEW i \in places, NEW j \in places
        PROVE  \E p \in places \X places : MatchRange(i, j) = range[p]
    <3>1. <<i, j>> \in places \X places /\ range[<<i, j>>] = MatchRange(i, j)
      OBVIOUS
    <3> QED
      BY <3>1
  <2>2. ASSUME NEW r \in RangesOf(t) PROVE \E p \in places \X places : r = range[p]
    <3>1. PICK i \in places, j \in places : r = MatchRange(i, j)
      BY <2>2 DEF RangesOf
    <3> HIDE DEF range, places
    <3> QED
      BY <2>1, <3>1
  <2> HIDE DEF range, places
  <2> QED
    BY <2>2
<1> QED
  BY <1>2, <1>3, FS_Subset

\* Words are counted.
LEMMA WordsCounted ==
    ASSUME NEW t, Len(t) \in Nat
    PROVE  wordCountIn(t) \in Nat
<1> DEFINE chars == {t[i] : i \in DOMAIN t} \ Spaces
           In(i) == i \in 0 .. (Len(t) - 1) /\ At(t, i) \in chars
           begins == {k \in 0 .. Len(t) : In(k) /\ ~In(k - 1)}
           run == [i \in begins |-> MatchRange(i, Min({j \in i .. Len(t) : ~In(j)}))]
<1>1. IsFiniteSet(begins)
  <2>1. IsFiniteSet(0 .. Len(t))
    BY FS_Interval
  <2>2. begins \in SUBSET (0 .. Len(t))
    OBVIOUS
  <2> HIDE DEF begins
  <2> QED
    BY <2>1, <2>2, FS_Subset
<1>2. Fields(t) = {run[i] : i \in begins}
  <2>1. Fields(t) = {MatchRange(i, Min({j \in i .. Len(t) : ~In(j)})) : i \in begins}
    BY DEF Fields, RunsOf
  <2> HIDE DEF begins, In
  <2> QED
    BY <2>1
<1>3. IsFiniteSet(Fields(t))
  <2> HIDE DEF begins
  <2>1. run = [i \in begins |-> run[i]]
    OBVIOUS
  <2> HIDE DEF run
  <2> QED
    BY <1>1, <1>2, <2>1, ImageFinite
<1> QED
  BY <1>3, FS_CardinalityType DEF wordCountIn

LEMMA EngineFinite ==
    ASSUME NEW t \in Seq(Chars), NEW order
    PROVE  IsFiniteSet(EngineDetect(t, order))
<1>1. t \in Seq(Sym) /\ NewLine \in Sym
  BY TextsAreOfSym
<1>2. IsFiniteSet(ParagraphsOf(t)) /\ \A para \in ParagraphsOf(t) : Len(para.text) \in Nat
  <2> DEFINE para == [i \in DOMAIN Paragraphs(t) |-> [index |-> i - 1, text |-> Slice(t, Paragraphs(t)[i])]]
  <2>1. DOMAIN Paragraphs(t) = 1 .. Len(Paragraphs(t)) /\ Len(Paragraphs(t)) \in Nat
    BY <1>1, Splitted, LenProperties DEF Chain
  <2>2. ParagraphsOf(t) = {para[i] : i \in DOMAIN Paragraphs(t)}
    BY DEF ParagraphsOf
  <2>3. IsFiniteSet(DOMAIN Paragraphs(t))
    BY <2>1, FS_Interval
  <2>4. IsFiniteSet(ParagraphsOf(t))
    <3>1. para = [i \in DOMAIN Paragraphs(t) |-> para[i]]
      OBVIOUS
    <3> HIDE DEF para
    <3> QED
      BY <2>2, <2>3, <3>1, ImageFinite
  <2>5. ASSUME NEW i \in DOMAIN Paragraphs(t) PROVE Len(para[i].text) \in Nat
    <3>1. Slice(t, Paragraphs(t)[i]) \in Seq(Sym)
      BY <1>1, <2>1, AParagraph, Sliced
    <3> QED
      BY <3>1, LenProperties
  <2> HIDE DEF para
  <2> QED
    BY <2>2, <2>4, <2>5
<1> DEFINE inside(rule, para) == {m \in Matches(rule, para, order) \cap RangesOf(para) : m.start < m.end}
           raised(rule, para) == {FlagOf(rule, para, m, order) : m \in inside(rule, para.text)}
           inked == {p \in ParagraphsOf(t) : p.text # << >>}
           running == {r \in Rules : r.enabled /\ ~External(r) /\ r.severity > 0}
<1>3. ASSUME NEW rule, NEW para \in ParagraphsOf(t) PROVE IsFiniteSet(raised(rule, para))
  <2> DEFINE flag == [m \in inside(rule, para.text) |-> FlagOf(rule, para, m, order)]
  <2>1. inside(rule, para.text) \subseteq RangesOf(para.text)
    OBVIOUS
  <2> HIDE DEF inside
  <2>2. IsFiniteSet(inside(rule, para.text))
    BY <1>2, <2>1, RangesFinite, FS_Subset
  <2>3. flag = [m \in inside(rule, para.text) |-> flag[m]]
    OBVIOUS
  <2>4. raised(rule, para) = {flag[m] : m \in inside(rule, para.text)}
    OBVIOUS
  <2> HIDE DEF flag, raised
  <2> QED
    BY <2>2, <2>3, <2>4, ImageFinite
<1>4. ASSUME NEW rule PROVE IsFiniteSet(RuleDetect(rule, t, order))
  <2> DEFINE flags_of == [p \in inked |-> raised(rule, p)]
  <2>1. RuleDetect(rule, t, order) = UNION {raised(rule, p) : p \in inked}
    BY Zenon DEF RuleDetect
  <2>2. inked \subseteq ParagraphsOf(t)
    OBVIOUS
  <2> HIDE DEF raised, inked
  <2>3. {raised(rule, p) : p \in inked} = {flags_of[p] : p \in inked}
    OBVIOUS
  <2>4. flags_of = [p \in inked |-> flags_of[p]]
    OBVIOUS
  <2>5. \A T \in {raised(rule, p) : p \in inked} : IsFiniteSet(T)
    BY <1>3, <2>2
  <2> HIDE DEF flags_of
  <2>6. IsFiniteSet(inked)
    BY <1>2, <2>2, FS_Subset
  <2>7. IsFiniteSet({flags_of[p] : p \in inked})
    BY <2>4, <2>6, ImageFinite
  <2> QED
    BY <2>1, <2>3, <2>5, <2>7, FS_UNION
<1> DEFINE flags_by == [r \in running |-> RuleDetect(r, t, order)]
<1>5. EngineDetect(t, order) = UNION {RuleDetect(r, t, order) : r \in running}
  BY DEF EngineDetect
<1>6. IsFiniteSet(running)
  <2>1. running \in SUBSET Rules
    OBVIOUS
  <2> QED
    BY <2>1, RulesAssumption, FS_Subset
<1> HIDE DEF running
<1>7. {RuleDetect(r, t, order) : r \in running} = {flags_by[r] : r \in running}
  OBVIOUS
<1>8. flags_by = [r \in running |-> flags_by[r]]
  OBVIOUS
<1> HIDE DEF flags_by
<1>9. IsFiniteSet({RuleDetect(r, t, order) : r \in running})
  BY <1>6, <1>7, <1>8, ImageFinite
<1> QED
  BY <1>4, <1>5, <1>9, FS_UNION

LEMMA PluginsFinite ==
    ASSUME NEW t \in Seq(Chars), NEW named \in BOOLEAN
    PROVE  IsFiniteSet(PluginDetect(t, named))
<1>1. Len(t) \in Nat
  BY LenProperties
<1> DEFINE copies(v) == {j \in 0 .. Len(t) : OccursAt(t, v, j)}
           spans(v) == {MatchRange(i, i + Len(v)) : i \in copies(v)}
<1>2. ASSUME NEW v PROVE IsFiniteSet(spans(v))
  <2> DEFINE span == [i \in copies(v) |-> MatchRange(i, i + Len(v))]
  <2>1. IsFiniteSet(0 .. Len(t))
    BY <1>1, FS_Interval
  <2>2. copies(v) \subseteq 0 .. Len(t)
    OBVIOUS
  <2> HIDE DEF copies
  <2>3. IsFiniteSet(copies(v))
    BY <2>1, <2>2, FS_Subset
  <2>4. span = [i \in copies(v) |-> span[i]] /\ spans(v) = {span[i] : i \in copies(v)}
    OBVIOUS
  <2> HIDE DEF span, spans
  <2> QED
    BY <2>3, <2>4, ImageFinite
<1>3. ASSUME NEW rule \in PluginRules PROVE IsFiniteSet(PluginMatches(rule, t))
  <2> DEFINE words == rule.node.config
             spans_of == [v \in words |-> spans(v)]
  <2>1. PluginMatches(rule, t) = UNION {spans(v) : v \in words}
    BY DEF PluginMatches
  <2>2. IsFiniteSet(words)
    BY RulesAssumption
  <2> HIDE DEF words, spans
  <2>3. spans_of = [v \in words |-> spans_of[v]] /\ {spans(v) : v \in words} = {spans_of[v] : v \in words}
    OBVIOUS
  <2>4. \A T \in {spans(v) : v \in words} : IsFiniteSet(T)
    BY <1>2
  <2> HIDE DEF spans_of
  <2>5. IsFiniteSet({spans_of[v] : v \in words})
    BY <2>2, <2>3, ImageFinite
  <2> QED
    BY <2>1, <2>3, <2>4, <2>5, FS_UNION
<1> DEFINE answers(rule) == {PluginFlagOf(rule, t, m, named) : m \in PluginMatches(rule, t)}
           answers_of == [rule \in PluginRules |-> answers(rule)]
<1>4. ASSUME NEW rule \in PluginRules PROVE IsFiniteSet(answers(rule))
  <2> DEFINE answer == [m \in PluginMatches(rule, t) |-> PluginFlagOf(rule, t, m, named)]
  <2>1. answer = [m \in PluginMatches(rule, t) |-> answer[m]]
        /\ answers(rule) = {answer[m] : m \in PluginMatches(rule, t)}
    OBVIOUS
  <2> HIDE DEF answer, answers
  <2> QED
    BY <1>3, <2>1, ImageFinite
<1>5. PluginDetect(t, named) = UNION {answers(rule) : rule \in PluginRules}
  BY DEF PluginDetect
<1>6. IsFiniteSet(PluginRules)
  BY RulesAssumption, FS_Subset DEF PluginRules
<1> HIDE DEF answers
<1>7. /\ answers_of = [rule \in PluginRules |-> answers_of[rule]]
      /\ {answers(rule) : rule \in PluginRules} = {answers_of[rule] : rule \in PluginRules}
  OBVIOUS
<1>8. \A T \in {answers(rule) : rule \in PluginRules} : IsFiniteSet(T)
  BY <1>4
<1> HIDE DEF answers_of
<1>9. IsFiniteSet({answers_of[rule] : rule \in PluginRules})
  BY <1>6, <1>7, ImageFinite
<1> QED
  BY <1>5, <1>7, <1>8, <1>9, FS_UNION

\* The flags on the screen can be summed up.
LEMMA FlagsCanBeScored ==
    ASSUME FlagsInv
    PROVE  IsFiniteSet(flags) /\ \A f \in flags : f.severity \in Nat
<1>1. CASE flags = {}
  BY <1>1, FS_EmptySet
<1>2. CASE flags # {}
  <2>1. PICK order \in MapOrders, named \in BOOLEAN :
          flags = EngineDetect(text, order) \cup PluginDetect(text, named)
    BY <1>2 DEF FlagsInv
  <2>2. text \in Seq(Chars)
    BY DEF FlagsInv
  <2>3. IsFiniteSet(flags)
    BY <2>1, <2>2, EngineFinite, PluginsFinite, FS_Union
  <2>4. ASSUME NEW f \in EngineDetect(text, order) PROVE f.severity \in Nat
    <3>1. PICK rule, i, m : Raised(f, rule, text, i, m, order)
      BY <2>2, EngineFlags
    <3>2. rule \in Rules /\ f.severity = rule.severity
      BY <3>1 DEF Raised, FlagOf
    <3> QED
      BY <3>2, RulesAssumption
  <2>5. ASSUME NEW f \in PluginDetect(text, named) PROVE f.severity \in Nat
    <3>1. PICK rule, v, j : Answered(f, rule, text, v, j, named)
      BY PluginFlags
    <3>2. rule \in Rules /\ f.severity = rule.severity
      BY <3>1 DEF Answered, PluginFlagOf, PluginRules
    <3> QED
      BY <3>2, RulesAssumption
  <2> QED
    BY <2>1, <2>3, <2>4, <2>5
<1> QED
  BY <1>1, <1>2

\* The editor's score of the flags of an answer follows from the server's, however long the
\* text and whatever is flagged: none of the flags is lost by its identity, so both sum up the
\* same severities, and each divides them as Consistent says.
THEOREM BothScoresAgree == FlagsSpec => []ScoresAgree
<1>1. ASSUME FlagsInv, FlagIDsDistinct PROVE ScoresAgree
  <2> SUFFICES ASSUME \A f \in flags : CopiesCannotOverlap(f.matchText), NEW category
               PROVE  LET words == wordCountIn(text)
                      IN  Consistent(ServerScore(flags, words, category), ClientScore(Shown, words, category), words)
    BY DEF ScoresAgree
  <2>1. Shown = flags
    <3>1. ASSUME NEW f \in flags, NEW g \in flags, NewFlagID(g) = NewFlagID(f) PROVE g = f
      BY <1>1, <3>1 DEF FlagIDsDistinct
    <3>2. ASSUME NEW f \in flags PROVE (CHOOSE g \in flags : NewFlagID(g) = NewFlagID(f)) = f
      BY <3>1
    <3> QED
      BY <3>2 DEF Shown
  <2>2. wordCountIn(text) \in Nat
    BY <1>1, WordsCounted, LenProperties DEF FlagsInv
  <2>3. Penalty(InCategory(flags, category)) \in Nat
    <3>1. IsFiniteSet(InCategory(flags, category)) /\ \A f \in InCategory(flags, category) : f.severity \in Nat
      BY <1>1, FlagsCanBeScored, FS_Subset DEF InCategory
    <3> QED
      BY <3>1, PenaltyIsNat
  <2> QED
    BY <2>1, <2>2, <2>3, OneSumOneScore
<1> QED
  BY <1>1, FlagsOfTheText, NoTwoFlagsShareAnID, PTL
=============================================================================
