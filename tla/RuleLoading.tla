---------------------------- MODULE RuleLoading ----------------------------
(***************************************************************************)
(* Where the rule set comes from: infra/rules reads three directories,     *)
(* each later one overriding the earlier, builds the rules, resolves the   *)
(* references between them, and keeps the first set that loads for the     *)
(* rest of the process.  Requests ask for it concurrently, and somebody    *)
(* may edit the directories meanwhile.                                     *)
(*                                                                         *)
(* A directory holds one file, and a file is a sequence of rules.  What    *)
(* the parser makes of one of them, by itself, is RuleTrees' business:     *)
(* here a rule is a record that says whether it is valid (ok), with its    *)
(* id, enabled, severity, node, refs (the references recorded for it),     *)
(* named (those in its tree) and clientSide.                               *)
(***************************************************************************)
EXTENDS Integers, Sequences, FiniteSets, SequencesExt

CONSTANTS Requests,   \* goroutines that ask the repository for the rules
          Contents,   \* what a directory may hold, by a name: <<>> when it is missing
          FirstDisks, \* the directories at the start
          MaxEdits,   \* bound: edits of the directories
          NoRules     \* no rule set (nil)

VARIABLES disk,    \* the three directories
          edits,   \* how often one was edited
          cached,  \* Repository.cached
          lock,    \* who holds Repository.mu
          read,    \* the layers the holder has parsed so far
          merged,  \* what it has merged them into
          left,    \* and the rules of the last one that are still to be merged
          status,  \* where each request is
          got      \* the rule set each request was given

vars == <<disk, edits, cached, lock, read, merged, left, status, got>>

Nobody == "nobody"
Layers == 1..3  \* base, project, override

ASSUME RequestsAssumption == Nobody \notin Requests
ASSUME DisksAssumption == FirstDisks \subseteq [Layers -> DOMAIN Contents]
ASSUME EditsAssumption == MaxEdits \in Nat

-----------------------------------------------------------------------------
(* Parsing: a file becomes rules, or nothing when one of them is invalid *)

Parses(file) == \A i \in DOMAIN file : file[i].ok

\* A rule knows its layer here, so that two versions of it are never equal.
OfLayer(rule, layer) ==
    [field \in DOMAIN rule \cup {"layer"} |-> IF field = "layer" THEN layer ELSE rule[field]]

\* What the parser guarantees of a file it accepts: every reference in a tree is recorded.
ASSUME ContentsAssumption ==
    \A name \in DOMAIN Contents :
        LET file == Contents[name]
        IN  Parses(file) =>
                /\ file \in Seq(ToSet(file))
                /\ \A rule \in ToSet(file) : /\ {"id", "enabled", "node", "refs", "named"} \subseteq DOMAIN rule
                                             /\ rule.named \subseteq rule.refs

ParseYAML(file, layer) == [i \in DOMAIN file |-> OfLayer(file[i], layer)]

-----------------------------------------------------------------------------
(* Merging: each rule of the later layer replaces the last rule of its id, *)
(* removes it when it is disabled, and is appended when there is none.     *)

PlacesOf(rules, id) == {i \in DOMAIN rules : rules[i].id = id}

\* A plausible slip: a disabled rule is skipped instead of removing the one it overrides.
MergeRuleSkipsDisabled(rules, rule) ==
    LET same == PlacesOf(rules, rule.id)
    IN  IF same = {} THEN Append(rules, rule)
        ELSE IF rule.enabled THEN [rules EXCEPT ![Max(same)] = rule] ELSE rules

MergeRule(rules, rule) ==
    LET same == PlacesOf(rules, rule.id)
    IN  IF same = {} THEN Append(rules, rule)
        ELSE IF rule.enabled THEN [rules EXCEPT ![Max(same)] = rule]
        ELSE RemoveAt(rules, Max(same))

-----------------------------------------------------------------------------
(* References: all of those parsed count, also those of overridden rules *)

\* A plausible slip: only the last layer's references are kept.
RefsOfLastLayer(layers) ==
    UNION {{<<r.id, t>> : t \in r.refs} : r \in ToSet(Last(layers))}

RefsOf(layers) ==
    UNION {UNION {{<<r.id, t>> : t \in r.refs} : r \in ToSet(layers[k])} : k \in DOMAIN layers}

\* Some rules each refer to one of themselves: what the three-colour search looks for.
HasCycle(refs) ==
    \E ring \in SUBSET {e[1] : e \in refs} :
        ring # {} /\ \A id \in ring : \E next \in ring : <<id, next>> \in refs

Target(rules, id) == rules[Max(PlacesOf(rules, id))]

ResolveRefs(refs, rules) ==
    /\ ~HasCycle(refs)
    /\ \A e \in refs : /\ \E r \in ToSet(rules) : r.id = e[2]
                       /\ Target(rules, e[2]).node.method # "nil"

\* A rule of severity 0 is there for others to refer to.
IsClientSide(r) == r.enabled /\ r.severity > 0 /\ r.clientSide

ClientRules(rules) == {r \in ToSet(rules) : IsClientSide(r)}

-----------------------------------------------------------------------------
(* The repository: one load at a time, under its mutex *)

Init ==
    /\ disk \in FirstDisks
    /\ edits = 0
    /\ cached = NoRules
    /\ lock = Nobody
    /\ read = <<>>
    /\ merged = <<>>
    /\ left = <<>>
    /\ status = [r \in Requests |-> "idle"]
    /\ got = [r \in Requests |-> NoRules]

\* An operator changes a directory at any time.
Edit(k, content) ==
    /\ edits < MaxEdits
    /\ disk[k] # content
    /\ disk' = [disk EXCEPT ![k] = content]
    /\ edits' = edits + 1
    /\ UNCHANGED <<cached, lock, read, merged, left, status, got>>

Ask(r) ==
    /\ status[r] = "idle"
    /\ status' = [status EXCEPT ![r] = "waiting"]
    /\ UNCHANGED <<disk, edits, cached, lock, read, merged, left, got>>

\* A plausible slip: an error returns without unlocking.
AnswerKeepsLock(r, rules) ==
    /\ got' = [got EXCEPT ![r] = rules]
    /\ status' = [status EXCEPT ![r] = IF rules = NoRules THEN "failed" ELSE "served"]
    /\ lock' = IF rules = NoRules THEN lock ELSE Nobody
    /\ read' = <<>>
    /\ merged' = <<>>
    /\ left' = <<>>

Answer(r, rules) ==
    /\ got' = [got EXCEPT ![r] = rules]
    /\ status' = [status EXCEPT ![r] = IF rules = NoRules THEN "failed" ELSE "served"]
    /\ lock' = Nobody
    /\ read' = <<>>
    /\ merged' = <<>>
    /\ left' = <<>>

EnterCached(r) ==
    /\ status[r] = "waiting" /\ lock = Nobody
    /\ cached # NoRules
    /\ Answer(r, cached)
    /\ UNCHANGED <<disk, edits, cached>>

\* A plausible slip: the set is loaded anew for everyone.
EnterLoadAlways(r) ==
    /\ status[r] = "waiting" /\ lock = Nobody
    /\ lock' = r
    /\ status' = [status EXCEPT ![r] = "loading"]
    /\ UNCHANGED <<disk, edits, cached, read, merged, left, got>>

EnterLoad(r) ==
    /\ status[r] = "waiting" /\ lock = Nobody
    /\ cached = NoRules
    /\ lock' = r
    /\ status' = [status EXCEPT ![r] = "loading"]
    /\ UNCHANGED <<disk, edits, cached, read, merged, left, got>>

\* The first layer is taken as it is.
ReadLayer(r) ==
    /\ lock = r /\ left = <<>> /\ Len(read) < 3
    /\ LET k == Len(read) + 1
           layer == ParseYAML(Contents[disk[k]], k)
       IN  IF Parses(Contents[disk[k]])
           THEN /\ read' = Append(read, layer)
                /\ IF k = 1 THEN merged' = layer /\ UNCHANGED left
                   ELSE left' = layer /\ UNCHANGED merged
                /\ UNCHANGED <<lock, status, got>>
           ELSE Answer(r, NoRules)
    /\ UNCHANGED <<disk, edits, cached>>

Merge(r) ==
    /\ lock = r /\ left # <<>>
    /\ merged' = MergeRule(merged, Head(left))
    /\ left' = Tail(left)
    /\ UNCHANGED <<disk, edits, cached, lock, read, status, got>>

FinishLoad(r) ==
    /\ lock = r /\ left = <<>> /\ Len(read) = 3
    /\ IF ResolveRefs(RefsOf(read), merged)
       THEN /\ cached' = [rules |-> merged, layers |-> read]
            /\ Answer(r, cached')
       ELSE cached' = cached /\ Answer(r, NoRules)
    /\ UNCHANGED <<disk, edits>>

\* The request is over; its goroutine may ask again.
Leave(r) ==
    /\ status[r] \in {"served", "failed"}
    /\ status' = [status EXCEPT ![r] = "idle"]
    /\ got' = [got EXCEPT ![r] = NoRules]
    /\ UNCHANGED <<disk, edits, cached, lock, read, merged, left>>

Step(r) == EnterCached(r) \/ EnterLoad(r) \/ ReadLayer(r) \/ Merge(r) \/ FinishLoad(r)

Next ==
    \/ \E k \in Layers, content \in DOMAIN Contents : Edit(k, content)
    \/ \E r \in Requests : Ask(r)
    \/ \E r \in Requests : EnterCached(r)
    \/ \E r \in Requests : EnterLoad(r)
    \/ \E r \in Requests : ReadLayer(r)
    \/ \E r \in Requests : Merge(r)
    \/ \E r \in Requests : FinishLoad(r)
    \/ \E r \in Requests : Leave(r)

\* A Go mutex starves nobody: a goroutine that keeps finding it free in the end gets it.
Fairness == \A r \in Requests : SF_vars(Step(r))

Spec == Init /\ [][Next]_vars /\ Fairness

-----------------------------------------------------------------------------
(* Properties *)

\* Only a holder of the mutex is loading; nothing of a load is left when it is over.
TypeOK ==
    /\ \A k \in Layers : disk[k] \in DOMAIN Contents
    /\ edits \in 0..MaxEdits
    /\ lock \in Requests \cup {Nobody}
    /\ \A r \in Requests : status[r] = "loading" => lock = r
    /\ Len(read) <= 3 /\ (lock = Nobody => read = <<>> /\ merged = <<>> /\ left = <<>>)

\* Every reference in the tree of a rule in use leads to a rule in use that has a tree, and
\* following references never comes back: Detect of every rule ends, and asks no node that
\* was never resolved.
RefsLeadSomewhere ==
    cached # NoRules =>
        LET rules == ToSet(cached.rules)
            refs == UNION {{<<r.id, t>> : t \in r.named} : r \in rules}
        IN  /\ \A e \in refs : \E r \in rules : r.id = e[2] /\ r.node.method # "nil"
            /\ ~HasCycle(refs)

InUse(rules, id) == {r \in ToSet(rules) : r.id = id /\ r.enabled}

\* The last layer that names a rule decides whether it is in use, and which version is.
LastLayerDecides ==
    cached # NoRules =>
        \A id \in UNION {{r.id : r \in ToSet(cached.layers[k])} : k \in Layers} :
            LET namedIn(k) == PlacesOf(cached.layers[k], id)
                last == Max({k \in Layers : namedIn(k) # {}})
            IN  (\A k \in Layers : Cardinality(namedIn(k)) <= 1) =>
                    InUse(cached.rules, id) = InUse(cached.layers[last], id)

\* All requests of a process work with one rule set, whatever is edited under them: a text
\* checked twice is checked by the same rules, and the analysis cache can be keyed by them.
OneRuleSet ==
    \A r \in Requests : status[r] = "served" => got[r] = cached

\* Whoever asks is answered, also after a load that failed.
EveryoneAnswered ==
    \A r \in Requests : status[r] = "waiting" ~> status[r] \in {"served", "failed"}

\* The API: the rules the browser can run itself are served to it.
ClientRulesServed ==
    cached # NoRules =>
        \A r \in ToSet(cached.rules) :
            /\ r.enabled /\ r.severity > 0
            /\ r.node.method = "cached" /\ r.node.inner.method \in {"wordlist", "regex"}
                => r \in ClientRules(cached.rules)
=============================================================================
