--------------------------- MODULE RuleDetection ---------------------------
(***************************************************************************)
(* From the files of rules to flags and fixes.  The server builds the      *)
(* rules of its files (RuleTrees) and links the references between them;   *)
(* RuleFlags runs them over a text, with the detection trees of            *)
(* DetectNodes and the fixes of FixTrees.  The editor finds each flag in   *)
(* its own text and applies its fix.                                       *)
(***************************************************************************)
EXTENDS RuleFlags, FixTrees, RuleTrees

CONSTANT Files  \* the rules of the files by id, as ruleFromYAML takes them

-----------------------------------------------------------------------------
(* The rule set *)

Parsed == [id \in DOMAIN Files |-> ruleFromYAML(Files[id])]

ASSUME FilesAssumption ==
    \A id \in DOMAIN Files : Parsed[id].ok /\ Parsed[id].refs \subseteq DOMAIN Files

RECURSIVE Linked(_)

\* resolveRefs: a reference gets the tree of the rule it names.
Linked(node) ==
    [key \in DOMAIN node |->
        CASE key = "inner" /\ node.method = "ref" -> Linked(Parsed[node.rule].node)
          [] key \in {"inner", "pattern", "near"} /\ node.method # "ref" -> Linked(node[key])
          [] key = "children" -> [i \in DOMAIN node.children |-> Linked(node.children[i])]
          [] OTHER            -> node[key]]

LinkedRules == {[r EXCEPT !.node = Linked(@)] : r \in Range(Parsed)}

-----------------------------------------------------------------------------
(* What the rules match, and what they put there *)

RuleMatches(rule, para, order) == Detect(rule.node, para, order)

\* A rule without a fix puts nothing.
FixOf(rule, para, m, order) ==
    IF rule.fix.method = "nil" THEN {}
    ELSE {Fix(rule.fix, Slice(para, m), GroupsOf(rule.node, para, m), order)}

\* applyFlagFix, of a fix that is not a deletion.
applyFlagFix(t, f, fixed) ==
    LET span == anchorToSpan(t, f)
    IN  IF span = NoSpan THEN t
        ELSE SubSeq(t, 1, span.start) \o fixed \o SubSeq(t, span.end + 1, Len(t))

-----------------------------------------------------------------------------
(* What the file of a rule asks for, and what is flagged.  A file is read  *)
(* here by its keys alone: the method, and what is written under it.       *)

MethodIn(y) == y.entries[1][1]
ArgsIn(y) == y.entries[1][2]
HasKey(y, key) == \E e \in ToSet(ArgsIn(y).entries) : e[1] = key
Written(y, key) == (CHOOSE e \in ToSet(ArgsIn(y).entries) : e[1] = key)[2]

\* What a part of a file matches when it stands alone.
Tree(y) == Linked(buildDetectNode(UnmarshalYAML(y)).node)

TreeUnder(id, key) ==
    CHOOSE tree \in {Tree(e[2]) : e \in {d \in ToSet(ArgsIn(Files[id].detect).entries) : d[1] = key}} : TRUE

Internal(method) ==
    {id \in DOMAIN Files : /\ MethodIn(Files[id].detect) = method
                           /\ Files[id].enabled /\ Files[id].severity > 0}

Flagged(id, para) == {f.span : f \in {g \in flags : g.rule = id /\ g.paragraphIndex = para.index}}

\* A word list flags all its words that stand alone, and nothing inside a longer word.
WordsFoundWhole ==
    checked => \A id \in Internal("wordlist"), para \in ParagraphsOf(text) :
        LET words == {Lower(w.value) : w \in ToSet(Written(Files[id].detect, "list").items)}
            alone(m) == /\ Lower(Slice(para.text, m)) \in words
                        /\ \A k \in {m.start - 1, m.end} :
                              k \in 0..(Len(para.text) - 1) => At(para.text, k) \notin Letters
        IN  Flagged(id, para) = {m \in RangesOf(para.text) : m.start < m.end /\ alone(m)}

\* The trees an "and" or an "exclude" asks for, and those it leaves out.
Combination(id) ==
    LET y == Files[id].detect
        Trees(parts) == {Tree(p) : p \in parts}
    IN  IF MethodIn(y) = "and"
        THEN LET nots == {p \in ToSet(ArgsIn(y).items) : MethodIn(p) = "not"}
             IN  [wanted |-> Trees(ToSet(ArgsIn(y).items) \ nots), leftOut |-> Trees(nots)]
        ELSE [wanted |-> {TreeUnder(id, "match")}, leftOut |-> Trees(ToSet(Written(y, "without").items))]

Combinations == [id \in Internal("and") \cup Internal("exclude") |-> Combination(id)]

\* An "and" and an "exclude" flag what everything they ask for matches and nothing they
\* leave out does, wherever in the file it stands and whatever refers to another rule.
CombinedAsWritten ==
    checked => \A id \in Internal("and") \cup Internal("exclude") :
        \A asked \in {Combinations[id]}, para \in ParagraphsOf(text) :
            \E order \in Orders :
                LET wanted == {Detect(tree, para.text, order) : tree \in asked.wanted}
                    leftOut == {Detect(tree, para.text, order) : tree \in asked.leftOut}
                IN  Flagged(id, para) =
                        {m \in UNION wanted : /\ m.start < m.end
                                              /\ \A found \in wanted : m \in found
                                              /\ \A found \in leftOut : m \notin found}

Thresholds == {r \in Rules : r.id \in Internal("threshold") /\ r.node.inner.per = "words"}

\* Each flag of a threshold per words lies in a stretch of that many words with enough matches.
ThresholdReached ==
    \A rule \in Thresholds, para \in ParagraphsOf(text) :
      \A span \in Flagged(rule.id, para), n \in {rule.node.inner} :
        LET WordOf(m) == wordCountIn(Slice(para.text, MatchRange(0, m.start)))
            at == WordOf(span)
        IN  \E order \in Orders :
                LET words == [m \in Detect(n.inner, para.text, order) |-> WordOf(m)]
                    Within(k) == {m \in DOMAIN words : words[m] \in k..(k + n.window - 1)}
                IN  \E k \in (at - n.window + 1)..at : Cardinality(Within(k)) >= n.count

\* The two subtrees of a rule with an anchor, by the keys they are written under.
Beside == [id \in Internal("before") \cup Internal("after") |->
    [child |-> TreeUnder(id, "child"), anchor |-> TreeUnder(id, "pattern"),
     max |-> Written(Files[id].detect, "max").value]]

\* A flag found before or after an anchor lies within reach of something the "pattern" of its
\* file matches, on the right side of it, and is something its "child" matches in the whole
\* paragraph too, unless it touches the edge of the window, where the window cut a word.
WindowMatchesAreMatches ==
    \A id \in DOMAIN Beside, para \in ParagraphsOf(text) : \A n \in {Beside[id]} :
        LET window(a) == IF id \in Internal("before") THEN BeforeWindow(para.text, a, n.max)
                         ELSE AfterWindow(para.text, a, n.max)
            windows == {window(a) : a \in UNION {Detect(n.anchor, para.text, order) : order \in Orders}}
            matches == UNION {Detect(n.child, para.text, order) : order \in Orders}
        IN  \A span \in Flagged(id, para) : \E w \in windows :
                /\ w.start <= span.start /\ span.end <= w.end
                /\ w.start < span.start /\ span.end < w.end => span \in matches

Neighbour == [id \in Internal("near") |-> TreeUnder(id, "near")]

\* A match flagged for being near another has no end of a sentence between the two.
NearInOneSentence ==
    \A id \in {i \in DOMAIN Neighbour : ~HasKey(Files[i].detect, "window")}, para \in ParagraphsOf(text) :
      \A near \in {Neighbour[id]}, span \in Flagged(id, para) :
        \E q \in UNION {Detect(near, para.text, order) : order \in Orders} :
            \A i \in Min({span.start, q.start})..(Max({span.start, q.start}) - 1) :
                At(para.text, i) \notin Stops

-----------------------------------------------------------------------------
(* Fixes *)

\* The rules that swap the two groups their expression splits its match into.
Swapping ==
    {r \in Rules : r.fix.method = "regex_replace" /\ r.fix.replacement = <<"$2", "$1">>}

\* What a fix is made of is cut out of the very match it replaces, through every node that
\* hands the match on: swapping its two letters gives the match backwards.
GroupsOfTheMatch ==
    \A f \in flags, r \in Swapping : f.rule = r.id => f.autoFix = {Reverse(f.matchText)}

RECURSIVE SeesCase(_)

\* Something in the tree tells a capital from a small letter.
SeesCase(node) ==
    \/ node.method = "case"
    \/ "caseSensitive" \in DOMAIN node /\ node.caseSensitive
    \/ \E i \in DOMAIN Inside(node) : SeesCase(Inside(node)[i])

CaseFixes == {"uppercase", "lowercase", "capitalize", "sentence_case", "title_case"}

\* The rules whose fix makes letters capital or small and whose detection does not see it.
CaseBlind ==
    {r \in Rules : r.fix.method \in CaseFixes /\ ~SeesCase(r.node)}

\* A fix for words without a capital does nothing to one that has some.
LeftAlone(f, r) == r.fix.method = "when" /\ \E c \in ToSet(f.matchText) : c \in DOMAIN LowerOf

\* With the fix in place the rule flags nothing within what was put there.
Settled(f, r, fix, order) ==
    ~ \E g \in RuleDetect(r, applyFlagFix(text, f, fix), order) :
        /\ g.paragraphIndex = f.paragraphIndex
        /\ f.span.start <= g.span.start /\ g.span.end <= f.span.start + Len(fix)

\* Once its fix is applied a rule is content with the place, whatever stands around it, and
\* the user is not asked the same again - but for two kinds of rule, which ask for ever: a fix
\* that is meant for other matches, and a fix of capitals under a detection that does not see
\* them, as every regular expression and word list is unless its file says otherwise.
FixSettles ==
    \A f \in {g \in flags : CopiesCannotOverlap(g.matchText)}, r \in {s \in Rules : s.fix.method # "nil"} :
        f.rule = r.id => \A fix \in f.autoFix, order \in Orders :
            Settled(f, r, fix, order) <=> r \notin CaseBlind /\ ~LeftAlone(f, r)
=============================================================================
