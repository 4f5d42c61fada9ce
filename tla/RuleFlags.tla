----------------------------- MODULE RuleFlags -----------------------------
(***************************************************************************)
(* Flags and their anchors.  The server runs every internal rule over      *)
(* every paragraph of a text (service/rule_engine.go, Rule.Detect): each   *)
(* match is named by its anchor - paragraph, matched text and which copy   *)
(* of it.  A rule with an external method is taken to a plugin, which      *)
(* answers with offsets in the whole text, to be turned into anchors       *)
(* (infra/plugin/detect_adapter.go).  The editor finds the anchor again in *)
(* its own text (anchorToSpan in client-engine.ts), and both sides score   *)
(* the text by its flags.                                                  *)
(*                                                                         *)
(* What the tree of a rule matches and what its fix puts there is left     *)
(* open here; RuleDetection builds the rules out of their files.           *)
(***************************************************************************)
EXTENDS TextScan, Scores

CONSTANTS Chars,              \* what a user may type
          MaxLen,             \* bound: the length of a text
          Rules,              \* the rules, references linked
          MapOrders,          \* the orders a Go map may be walked in
          Matches(_, _, _),   \* what the tree of a rule matches in a text, in such an order
          AutoFix(_, _, _, _) \* the texts, at most one, its fix puts in place of a match

VARIABLES text,     \* the text in the editor
          checked,  \* the flags are those of this text
          flags     \* what the last check of it found

flagsVars == <<text, checked, flags>>

External(rule) == rule.node.method = "external"
PluginRules == {rule \in Rules : External(rule)}
PluginIDs == {rule.id : rule \in PluginRules}

\* Rules are kept by their ids, and the words a plugin looks for are on one line.
ASSUME RulesAssumption ==
    /\ IsFiniteSet(Rules) /\ \A rule \in Rules : rule.severity \in Nat
    /\ \A r, s \in Rules : r.id = s.id => r = s
    /\ \A rule \in PluginRules :
          /\ IsFiniteSet(rule.node.config)
          /\ \A v \in rule.node.config : v \in Seq(Chars \ {NewLine}) /\ v # << >>

-----------------------------------------------------------------------------
(* The server: Rule.Detect and RuleEngine.Detect *)

\* A plausible slip: a copy that starts where the match does is counted.
occurrenceThrough(para, v, start) ==
    LET from[o \in 0..Len(para)] ==
            LET i == Index(para, v, o)
            IN  IF o > start \/ i = -1 \/ i > start THEN 0 ELSE 1 + from[i + Len(v)]
    IN  from[0]

\* How many copies of v lie before an offset, none overlapping the one before.
occurrenceInParagraph(para, v, start) ==
    LET from[o \in 0..Len(para)] ==
            LET i == Index(para, v, o)
            IN  IF o >= start \/ i = -1 \/ i >= start THEN 0 ELSE 1 + from[i + Len(v)]
    IN  from[0]

\* A plausible slip: the paragraph is left out of the identity.
FlagIDWithoutParagraph(f) == <<f.rule, f.matchText, f.occurrence>>

\* The code hashes these four (FNV-1a); the hash is taken to be injective.
NewFlagID(f) == <<f.rule, f.matchText, f.paragraphIndex, f.occurrence>>

FlagOf(rule, para, m, order) ==
    [rule |-> rule.id, matchText |-> Slice(para.text, m), paragraphIndex |-> para.index,
     occurrence |-> occurrenceInParagraph(para.text, Slice(para.text, m), m.start), span |-> m,
     autoFix |-> AutoFix(rule, para.text, m, order),
     severity |-> rule.severity, category |-> rule.category]

ParagraphsOf(t) ==
    {[index |-> i - 1, text |-> Slice(t, Paragraphs(t)[i])] : i \in DOMAIN Paragraphs(t)}

\* A rule is run on one paragraph at a time; a match that is empty or sticks out of it
\* raises nothing.
RuleDetect(rule, t, order) ==
    LET Inside(para) == {m \in Matches(rule, para, order) \cap RangesOf(para) : m.start < m.end}
    IN  UNION {{FlagOf(rule, para, m, order) : m \in Inside(para.text)} :
                  para \in {p \in ParagraphsOf(t) : p.text # << >>}}

\* Rules off, rules for "ref" only and rules of plugins raise nothing here.
EngineDetect(t, order) ==
    UNION {RuleDetect(rule, t, order) :
               rule \in {r \in Rules : r.enabled /\ ~External(r) /\ r.severity > 0}}

-----------------------------------------------------------------------------
(* Plugins: DetectAdapter.Detect.  The plugin of a rule finds every copy   *)
(* of its words in the whole text, and may or may not repeat them.  A fix  *)
(* is a plugin's own affair.                                               *)

PluginMatches(rule, t) ==
    UNION {{MatchRange(i, i + Len(v)) : i \in {j \in 0..Len(t) : OccursAt(t, v, j)}} :
               v \in rule.node.config}

StartsOf(paras) ==
    LET starts[i \in DOMAIN paras] ==
            IF i = 1 THEN 0 ELSE starts[i - 1] + paras[i - 1].end - paras[i - 1].start + 2
    IN  starts

\* The paragraph of an offset and the offset in it; the last one for any that has none.
findParagraph(paras, offset) ==
    LET size(i) == paras[i].end - paras[i].start
        holding == {i \in DOMAIN paras : offset - StartsOf(paras)[i] \in 0..(size(i) - 1)}
        last == Len(paras)
    IN  IF holding # {} THEN [index |-> Min(holding), start |-> offset - StartsOf(paras)[Min(holding)]]
        ELSE [index |-> last, start |-> Min({offset, size(last)})]

extractMatch(para, start, length) == Slice(para, MatchRange(start, Min({start + length, Len(para)})))

PluginFlagOf(rule, t, m, named) ==
    LET place == findParagraph(Paragraphs(t), m.start)
        para == Slice(t, Paragraphs(t)[place.index])
        matchText == IF named THEN Slice(t, m)
                     ELSE extractMatch(para, place.start, m.end - m.start)
    IN  [rule |-> rule.id, matchText |-> matchText, paragraphIndex |-> place.index - 1,
         occurrence |-> IF matchText = <<>> THEN 0 ELSE occurrenceInParagraph(para, matchText, place.start),
         span |-> m, autoFix |-> {}, severity |-> rule.severity, category |-> rule.category]

\* Execute asks for every external rule, also for one that is off or of severity 0.
PluginDetect(t, named) ==
    UNION {{PluginFlagOf(rule, t, m, named) : m \in PluginMatches(rule, t)} : rule \in PluginRules}

-----------------------------------------------------------------------------
(* The editor: anchorToSpan *)

NoSpan == MatchRange(-1, -1)  \* null

anchorToSpan(t, f) ==
    LET paras == splitParagraphs(t)
        p == paras[f.paragraphIndex + 1]
        copy[k \in 0..f.occurrence] ==
            IF k = 0 THEN Index(Slice(t, p), f.matchText, 0)
            ELSE IF copy[k - 1] = -1 THEN -1
            ELSE Index(Slice(t, p), f.matchText, copy[k - 1] + Len(f.matchText))
        found == copy[f.occurrence]
    IN  IF f.paragraphIndex >= Len(paras) \/ found = -1 THEN NoSpan
        ELSE MatchRange(p.start + found, p.start + found + Len(f.matchText))

-----------------------------------------------------------------------------
FlagsInit == text = <<>> /\ checked = FALSE /\ flags = {}

Type(c) ==
    /\ Len(text) < MaxLen
    /\ text' = Append(text, c)
    /\ checked' = FALSE
    /\ flags' = {}

Check ==
    /\ ~checked
    /\ checked' = TRUE
    /\ LET plugged == {PluginDetect(text, named) : named \in BOOLEAN}
       IN  \E order \in MapOrders :
             LET found == EngineDetect(text, order)
             IN  \E answer \in plugged : flags' = found \cup answer
    /\ UNCHANGED text

FlagsNext == (\E c \in Chars : Type(c)) \/ Check

FlagsSpec == FlagsInit /\ [][FlagsNext]_flagsVars

-----------------------------------------------------------------------------
(* Properties *)

\* Where in the text a flag was found: a plugin's span says it, any other is that of the paragraph.
FoundAt(f) ==
    LET from == IF f.rule \in PluginIDs THEN 0
                ELSE Paragraphs(text)[f.paragraphIndex + 1].start
    IN  MatchRange(from + f.span.start, from + f.span.end)

\* No proper end of v is also a beginning of it, so that copies of v cannot overlap.
CopiesCannotOverlap(v) == \A k \in 1..(Len(v) - 1) : SubSeq(v, 1, k) # SubSeq(v, Len(v) - k + 1, Len(v))

\* The editor marks exactly the range the server or a plugin matched: all split paragraphs
\* alike and count copies alike.  A text whose copies overlap may be matched where neither
\* counts it.
AnchorsResolve ==
    \A f \in flags : CopiesCannotOverlap(f.matchText) => anchorToSpan(text, f) = FoundAt(f)

\* Two flags of one check never get the same identity: the session's map would lose one.
FlagIDsDistinct ==
    \A f, g \in flags : CopiesCannotOverlap(f.matchText) /\ NewFlagID(f) = NewFlagID(g) => f = g

\* The editor keeps one flag of each identity.
Shown == {CHOOSE f \in flags : NewFlagID(f) = id : id \in {NewFlagID(f) : f \in flags}}

\* A text of Norm words has the same two scores, to the tenth.  A shorter one the server takes
\* for one of Norm words and the editor for what it is: there the editor charges the penalty
\* the server does Norm / words times.
Consistent(server, client, words) ==
    LET most == MaxScore * words
        charged == Norm * (MaxScore - server)
    IN  /\ words = 0 => server = MaxScore /\ client.tenths = MaxScore * client.per
        /\ words \in 1..(Norm - 1) =>
              client.tenths = (IF charged > most THEN 0 ELSE most - charged)
        /\ words >= Norm =>
              server * words - client.tenths \in -(words \div 2)..(words \div 2)

\* The editor scores the flags of the last answer itself when the page is entered anew or the
\* text is again the one they answer.  As long as none of them is rejected and no rule runs
\* in the editor, its score follows from the server's: the same for a text of Norm words, and
\* lower for a shorter one, by the factor between Norm and its words (SPEC.md gives one
\* formula for both, without the least number of words the server applies).
ScoresAgree ==
    checked /\ (\A f \in flags : CopiesCannotOverlap(f.matchText)) =>
      \A category \in {"cleanliness", "readability"} :
        LET words == wordCountIn(text)
        IN  Consistent(ServerScore(flags, words, category), ClientScore(Shown, words, category), words)
=============================================================================
