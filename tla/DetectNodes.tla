---------------------------- MODULE DetectNodes ----------------------------
(***************************************************************************)
(* The detection tree of a rule (domain/detect/detect.go).  A node is a    *)
(* record whose field "method" is its YAML name (RuleTrees says how it is  *)
(* built); Detect gives the set of ranges it matches in a text, GroupsOf   *)
(* what the capture groups of a match hold.  A regular expression is a     *)
(* sequence of sets of characters, its groups are ranges of that sequence. *)
(*                                                                         *)
(* The code returns slices.  Their order matters to one thing only: the    *)
(* nodes that keep the first match of each start.  A union comes out of a  *)
(* Go map, in an order nobody chooses, so which end is kept is a choice of *)
(* the run: "order" is "shortest" or "longest".  Duplicates do not occur   *)
(* as long as no word list names a word twice.                             *)
(***************************************************************************)
EXTENDS TextScan

Orders == {"shortest", "longest"}

\* The first match of each start, in the order the run happens to have.
FirstPerStart(matches, order) ==
    {m \in matches : \A n \in matches : n.start = m.start =>
        IF order = "shortest" THEN m.end <= n.end ELSE m.end >= n.end}

filterMatchesAt(matches, positions, field) == {m \in matches : m[field] \in positions}

filterByRange(matches, lo, hi) == {m \in matches : m.start >= lo /\ m.end <= hi}

HasInner(n) == n.inner.method # "nil"

-----------------------------------------------------------------------------
(* Leaves *)

\* What a case-insensitive node looks at.
Folded(n, text) == IF n.caseSensitive THEN text ELSE Lower(text)

\* Every word is looked for on its own, whole words only.
ScanWord(text, word) ==
    LET from[o \in 0..Len(text)] ==
            LET i == Index(text, word, o)
                r == MatchRange(i, i + Len(word))
            IN  IF i = -1 THEN {}
                ELSE IF wordBoundary(text, r) THEN {r} \cup from[r.end]
                ELSE from[i + 1]
    IN  from[0]

\* The leftmost matches that do not overlap.
Regex(n, text) ==
    LET size == Len(n.expr.parts)
        fits(c, part) == Folded(n, <<c>>) \in {Folded(n, <<d>>) : d \in part}
        hits == {i \in 0..(Len(text) - size) :
                    \A k \in 1..size : fits(At(text, i + k - 1), n.expr.parts[k])}
        from[o \in 0..Len(text)] ==
            LET later == {i \in hits : i >= o}
            IN  IF later = {} THEN {}
                ELSE {MatchRange(Min(later), Min(later) + size)} \cup from[Min(later) + size]
    IN  from[0]

Wordlist(n, text) == UNION {ScanWord(Folded(n, text), Folded(n, w)) : w \in n.words}

ScanValue(text, value) ==
    LET from[o \in 0..Len(text)] ==
            LET i == Index(text, value, o)
            IN  IF i = -1 THEN {}
                ELSE {MatchRange(i, i + Len(value))} \cup from[i + Len(value)]
    IN  from[0]

ContainsValue(n, text) == ScanValue(Folded(n, text), Folded(n, n.value))

SurroundedBy(n, text) ==
    LET from[o \in 0..Len(text)] ==
            LET left == Index(text, n.left, o)
                inside == left + Len(n.left)
                right == Index(text, n.right, inside)
            IN  IF left = -1 \/ right = -1 THEN {}
                ELSE {MatchRange(inside, right)} \cup from[right + Len(n.right)]
    IN  from[0]

Eq(n, text) ==
    IF Folded(n, text) = Folded(n, n.value) THEN {MatchRange(0, Len(text))} ELSE {}

Prefix(n, text) ==
    IF OccursAt(Folded(n, text), Folded(n, n.value), 0)
    THEN {MatchRange(0, Len(n.value))} ELSE {}

Suffix(n, text) ==
    LET from == Len(text) - Len(n.value)
    IN  IF from >= 0 /\ OccursAt(Folded(n, text), Folded(n, n.value), from)
        THEN {MatchRange(from, Len(text))} ELSE {}

Whole(text) == IF text = <<>> THEN {} ELSE {MatchRange(0, Len(text))}

-----------------------------------------------------------------------------
(* Filters: what the child matched, where a boundary of the text is or with *)
(* a given length or case.  Without a child a boundary is a match of its    *)
(* own, mostly an empty one, and length and case look at the words.         *)

\* In a text that is not empty.
Empty(text, positions) == {MatchRange(i, i) : i \in {j \in positions : text # << >>}}

SentenceStart(n, text, found) ==
    LET starts == {r.start : r \in sentenceSpans(text)}
    IN  IF HasInner(n) THEN filterMatchesAt(found, starts, "start") ELSE Empty(text, starts)

SentenceEnd(n, text, found) ==
    IF HasInner(n) THEN filterMatchesAt(found, sentenceEndPositions(text), "end")
    ELSE {MatchRange(i - 1, i) : i \in AfterStops(text)}

ParagraphStart(n, text, found) ==
    LET starts == {r.start : r \in paragraphSpans(text)}
    IN  IF HasInner(n) THEN filterMatchesAt(found, starts, "start") ELSE Empty(text, starts)

\* The end of the text is the end of a paragraph only for a child.
ParagraphEnd(n, text, found) ==
    LET ends == {r.end : r \in paragraphSpans(text)}
    IN  IF HasInner(n) THEN filterMatchesAt(found, ends, "end")
        ELSE Empty(text, {r.start : r \in reParagraphBreak(text)})

WordBoundary(n, text, found) ==
    IF HasInner(n) THEN {m \in found : {m.start, m.end} \subseteq wordBoundaryOffsets(text)}
    ELSE Empty(text, wordBoundaryOffsets(text))

Length(n, text, found) ==
    {m \in IF HasInner(n) THEN found ELSE Fields(text) :
        m.end - m.start >= n.min /\ (n.max = 0 \/ m.end - m.start <= n.max)}

checkCase(mode, word) ==
    LET upper == {i \in DOMAIN word : word[i] \in DOMAIN LowerOf}
        lower == {i \in DOMAIN word : word[i] \in Letters \ DOMAIN LowerOf}
    IN  CASE mode = "all_caps"    -> word # <<>> /\ lower = {}
          [] mode = "all_lower"   -> word # <<>> /\ upper = {}
          [] mode = "capitalized" -> upper = {1}
          [] mode = "has_upper"   -> upper # {}
          [] mode = "has_lower"   -> lower # {}

Case(n, text, found) ==
    {m \in IF HasInner(n) THEN found ELSE Fields(text) : checkCase(n.mode, Slice(text, m))}

-----------------------------------------------------------------------------
(* Logical nodes.  A child of "and" that is itself a "not" says what to    *)
(* leave out; children are given with what they matched.                   *)

\* A plausible slip: an empty intersection starts over with the next child.
AndStartsOver(isNot, found) ==
    LET step(acc, i) ==
            IF isNot[i] THEN acc ELSE IF acc = {} THEN found[i] ELSE acc \cap found[i]
    IN  FoldLeftDomain(step, {}, found) \ UNION {found[i] : i \in {j \in DOMAIN found : isNot[j]}}

\* The loop over the children: the result starts with the first of them, and
\* the node gives up as soon as it is empty.
And(isNot, found) ==
    LET step(acc, i) ==
            IF acc.gaveUp \/ isNot[i] THEN acc
            ELSE LET result == IF acc.result = {} THEN found[i] ELSE acc.result \cap found[i]
                 IN  [result |-> result, gaveUp |-> result = {}]
        kept == FoldLeftDomain(step, [result |-> {}, gaveUp |-> FALSE], found).result
    IN  kept \ UNION {found[i] : i \in {j \in DOMAIN found : isNot[j]}}

-----------------------------------------------------------------------------
(* Windows before and after an anchor: the inner node sees the window as a *)
(* text of its own, and its matches are moved back.                        *)

BeforeWindow(text, anchor, max) ==
    MatchRange(Max({0, anchor.start - max}), anchor.start)

AfterWindow(text, anchor, max) ==
    MatchRange(anchor.end, Min({Len(text), anchor.end + max}))

Adjusted(m, window) == MatchRange(m.start + window.start, m.end + window.start)

-----------------------------------------------------------------------------
(* Threshold *)

\* A plausible slip: the window takes one word too many.
ThresholdWindowWide(words, from, window) ==
    from..Min({words - 1, from + window})

ThresholdWindow(words, from, window) ==
    from..(Min({words, from + window}) - 1)

\* Windows of words overlap by half; a match kept in one does not count in the next.
PerWords(n, text, found, order) ==
    LET words == wordCountIn(text)
        WordOf(m) == wordCountIn(Slice(text, MatchRange(0, m.start)))
        half == IF n.window \div 2 < 1 THEN 1 ELSE n.window \div 2
        step(kept, k) ==
            LET inWindow == {m \in found :
                    /\ WordOf(m) \in ThresholdWindow(words, (k - 1) * half, n.window)
                    /\ \A seen \in kept : seen.start # m.start}
            IN  IF Cardinality(inWindow) >= n.count
                THEN kept \cup FirstPerStart(inWindow, order) ELSE kept
    IN  FoldLeft(step, {}, [k \in 1..((words + half - 1) \div half) |-> k])

PerParagraph(n, text, found) ==
    UNION {IF Cardinality(filterByRange(found, p.start, p.end)) >= n.count
           THEN filterByRange(found, p.start, p.end) ELSE {} : p \in paragraphBoundaries(text)}

PerText(n, found) == IF Cardinality(found) >= n.count THEN found ELSE {}

Threshold(n, text, found, order) ==
    CASE n.per = "text"      -> PerText(n, found)
      [] n.per = "paragraph" -> PerParagraph(n, text, found)
      [] OTHER               -> PerWords(n, text, found, order)

-----------------------------------------------------------------------------
(* Near *)

\* A plausible slip: the end of a sentence belongs to it.
InSentenceOrAtEnd(text, s, pos) == pos >= s.start /\ pos <= s.end

\* The sentence of an offset; the end of the text belongs to the last one.
InSentence(text, s, pos) ==
    \/ pos >= s.start /\ pos < s.end
    \/ pos = s.end /\ \A t \in sentenceSpanBoundaries(text) : t.start <= s.start

Overlap(p, q) == p.start < q.end /\ q.start < p.end

rangeDistance(p, q) == IF p.end <= q.start THEN q.start - p.end ELSE p.start - q.end

NearMatches(n, text, patterns, nears, order) ==
    LET near(p) ==
            \/ /\ n.chars > 0
               /\ \E q \in nears : ~Overlap(p, q) /\ rangeDistance(p, q) <= n.chars
            \/ /\ n.chars = 0
               /\ \E q \in nears, s \in sentenceSpanBoundaries(text) :
                      InSentence(text, s, p.start) /\ InSentence(text, s, q.start)
    IN  FirstPerStart({p \in patterns : near(p)}, order)

-----------------------------------------------------------------------------
(* Position: the paragraph, or the characters from..to of the text *)

Position(n, text, found) ==
    LET firstEnd == IF Index(text, ParagraphBreak, 0) = -1 THEN Len(text)
                    ELSE Index(text, ParagraphBreak, 0)
        lastStart == Max({0} \cup {i + 2 : i \in
                        {j \in 0..Len(text) : OccursAt(text, ParagraphBreak, j)}})
        within(lo, hi) == IF HasInner(n) THEN filterByRange(found, lo, hi) ELSE {MatchRange(lo, hi)}
        to == IF n.to = 0 \/ n.to > Len(text) THEN Len(text) ELSE n.to
    IN  CASE n.type = "first_paragraph" -> within(0, firstEnd)
          [] n.type = "last_paragraph"  -> within(lastStart, Len(text))
          [] n.type = ""                -> IF n.from >= to THEN {} ELSE {MatchRange(n.from, to)}

-----------------------------------------------------------------------------
RECURSIVE Detect(_, _, _)

\* Without an anchor: the character before or after each match of the inner node.
NextTo(n, text, order) ==
    LET beside(m) == IF n.method = "before" THEN MatchRange(m.start - 1, m.start)
                     ELSE MatchRange(m.end, m.end + 1)
    IN  {beside(m) : m \in Detect(n.inner, text, order)} \cap RangesOf(text)

\* What the inner node of a before or an after matches in the windows of its anchors.
InWindows(n, text, order) ==
    LET windows == {IF n.method = "before" THEN BeforeWindow(text, a, n.max)
                    ELSE AfterWindow(text, a, n.max) : a \in Detect(n.pattern, text, order)}
    IN  FirstPerStart(UNION {{Adjusted(m, w) : m \in Detect(n.inner, Slice(text, w), order)} :
                                w \in {v \in windows : v.start < v.end}}, order)

Detect(n, text, order) ==
    LET found == IF HasInner(n) THEN Detect(n.inner, text, order) ELSE {}
        children == [i \in DOMAIN n.children |-> Detect(n.children[i], text, order)]
    IN  CASE n.method = "any"             -> Whole(text)
          [] n.method = "wordlist"        -> Wordlist(n, text)
          [] n.method = "regex"           -> Regex(n, text)
          [] n.method = "contains"        -> ContainsValue(n, text)
          [] n.method = "eq"              -> Eq(n, text)
          [] n.method = "prefix"          -> Prefix(n, text)
          [] n.method = "suffix"          -> Suffix(n, text)
          [] n.method = "surrounded_by"   -> SurroundedBy(n, text)
          [] n.method = "and"             ->
                 And([i \in DOMAIN n.children |-> n.children[i].method = "not"], children)
          [] n.method = "or"              -> UNION {children[i] : i \in DOMAIN children}
          [] n.method \in {"not", "ref", "cached"} -> found
          [] n.method = "sentence_start"  -> SentenceStart(n, text, found)
          [] n.method = "sentence_end"    -> SentenceEnd(n, text, found)
          [] n.method = "paragraph_start" -> ParagraphStart(n, text, found)
          [] n.method = "paragraph_end"   -> ParagraphEnd(n, text, found)
          [] n.method = "word_boundary"   -> WordBoundary(n, text, found)
          [] n.method = "length"          -> Length(n, text, found)
          [] n.method = "case"            -> Case(n, text, found)
          [] n.method \in {"before", "after"} ->
                 IF n.pattern.method = "nil" THEN NextTo(n, text, order) ELSE InWindows(n, text, order)
          [] n.method = "threshold"       -> Threshold(n, text, found, order)
          [] n.method = "near"            ->
                 NearMatches(n, text, Detect(n.pattern, text, order),
                             Detect(n.near, text, order), order)
          [] n.method = "position"        -> Position(n, text, found)
          [] n.method = "external"        -> {}

-----------------------------------------------------------------------------
(* Capture groups.  A match of a regular expression brings the text of its *)
(* groups along; nodes that hand a match on keep them, nodes that make a   *)
(* new one (or, before, after, length, case) lose them.  The code carries  *)
(* them in the match.  Here they are looked up for its range: no tree makes *)
(* two matches of one range with different groups, as those of an          *)
(* expression do not overlap and no node that keeps groups adds matches.   *)

\* The whole match first.
Submatches(expr, text, m) ==
    IF expr.groups = << >> THEN << >>
    ELSE <<Slice(text, m)>> \o
         [k \in DOMAIN expr.groups |->
             Slice(text, MatchRange(m.start + expr.groups[k].start, m.start + expr.groups[k].end))]

KeepsGroups == {"not", "ref", "cached", "sentence_start", "sentence_end", "paragraph_start",
                "paragraph_end", "word_boundary", "threshold", "position"}

RECURSIVE GroupsOf(_, _, _)

\* The groups of a match of the node; those of an "and" are its first positive child's.
GroupsOf(n, text, m) ==
    CASE n.method = "regex" -> Submatches(n.expr, text, m)
      [] n.method = "and"   ->
             GroupsOf(SelectSeq(n.children, LAMBDA c : c.method # "not")[1], text, m)
      [] n.method = "near"  -> GroupsOf(n.pattern, text, m)
      [] n.method \in KeepsGroups -> IF HasInner(n) THEN GroupsOf(n.inner, text, m) ELSE << >>
      [] OTHER              -> << >>
=============================================================================
