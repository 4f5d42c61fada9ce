------------------------------ MODULE FixTrees ------------------------------
(***************************************************************************)
(* The fix tree of a rule (domain/fix/fix.go): Fix gives the text that     *)
(* would replace a match.  A node sees the match and the capture groups    *)
(* its detection found; the text around the match is at its disposal, and  *)
(* none looks at it.  RuleTrees says how the trees are built.              *)
(***************************************************************************)
EXTENDS DetectNodes

-----------------------------------------------------------------------------
(* Letters *)

UpperLetter(c) ==
    IF \E u \in DOMAIN LowerOf : LowerOf[u] = c
    THEN CHOOSE u \in DOMAIN LowerOf : LowerOf[u] = c ELSE c

Upper(text) == [i \in DOMAIN text |-> UpperLetter(text[i])]

\* A plausible slip: only the first byte, and a Cyrillic letter has two.
capitalizeFirstByte(text) == text

capitalizeFirst(text) == Upper(SubSeq(text, 1, 1)) \o SubSeq(text, 2, Len(text))

SentenceCase(text) == capitalizeFirst(Lower(text))

\* The first letter of each word is a capital, its other letters are not.
TitleCase(text) ==
    LET IsLetter(i) == i \in DOMAIN text /\ text[i] \in Letters
    IN  [i \in DOMAIN text |->
            IF IsLetter(i - 1) THEN Lower(text)[i] ELSE UpperLetter(text[i])]

-----------------------------------------------------------------------------
(* Spaces *)

TrimSpace(text) ==
    LET inked == {i \in DOMAIN text : text[i] \notin Spaces}
    IN  IF inked = {} THEN << >> ELSE SubSeq(text, Min(inked), Max(inked))

\* Each run of spaces becomes one.
CollapseWhitespace(text) ==
    FoldLeftDomain(LAMBDA s, i :
        CASE text[i] \notin Spaces                          -> Append(s, text[i])
          [] text[i] \in Spaces /\ i > 1 /\ text[i - 1] \in Spaces -> s
          [] OTHER                                          -> Append(s, " "), << >>, text)

-----------------------------------------------------------------------------
(* Groups.  In a replacement a group is named by one element of Groups.    *)

GroupNumber == [x \in {"$0", "$1", "$2"} |-> CASE x = "$0" -> 0 [] x = "$1" -> 1 [] x = "$2" -> 2]

\* The groups put in for their names; a name of no group is handed to "other".
Expand(template, groups, other) ==
    FlattenSeq([i \in DOMAIN template |->
        IF template[i] \notin DOMAIN GroupNumber THEN <<template[i]>>
        ELSE IF GroupNumber[template[i]] < Len(groups) THEN groups[GroupNumber[template[i]] + 1]
        ELSE other[template[i]]])

\* A plausible slip: groups are counted from the first, not from the whole match.
expandGroupsFromFirst(template, groups) ==
    Expand(template, Tail(groups), [x \in DOMAIN GroupNumber |-> <<x>>])

\* Such a name stays as it is written.
expandGroups(template, groups) ==
    IF groups = << >> THEN template
    ELSE Expand(template, groups, [x \in DOMAIN GroupNumber |-> <<x>>])

\* Regexp.ReplaceAllString: every match of the expression, and such a name is dropped.
ReplaceAllString(expr, text, replacement) ==
    LET node == [expr |-> expr, caseSensitive |-> TRUE]
        found == SetToSortSeq(Regex(node, text), LAMBDA m, n : m.start < n.start)
        step(r, m) ==
            [done |-> r.done \o Slice(text, MatchRange(r.at, m.start))
                      \o Expand(replacement,
                                IF expr.groups = << >> THEN <<Slice(text, m)>>
                                ELSE Submatches(expr, text, m),
                                [x \in DOMAIN GroupNumber |-> << >>]),
             at |-> m.end]
        r == FoldLeft(step, [done |-> << >>, at |-> 0], found)
    IN  r.done \o Slice(text, MatchRange(r.at, Len(text)))

\* With groups from the detection the match is not looked at again: what an "and" has made
\* of it so far is dropped.
RegexReplace(n, text, groups) ==
    IF Len(groups) > 1 THEN expandGroups(n.replacement, groups)
    ELSE IF n.expr = << >> THEN text
    ELSE ReplaceAllString(n.expr[1], text, n.replacement)

-----------------------------------------------------------------------------
RECURSIVE Fix(_, _, _, _)

Fix(n, text, groups, order) ==
    CASE n.method = "replace"             -> n.with
      [] n.method = "remove"              -> << >>
      [] n.method = "regex_replace"       -> RegexReplace(n, text, groups)
      [] n.method = "uppercase"           -> Upper(text)
      [] n.method = "lowercase"           -> Lower(text)
      [] n.method = "capitalize"          -> capitalizeFirst(text)
      [] n.method = "sentence_case"       -> SentenceCase(text)
      [] n.method = "title_case"          -> TitleCase(text)
      [] n.method = "prepend"             -> n.with \o text
      [] n.method = "append"              -> text \o n.with
      [] n.method = "wrap"                -> n.prefix \o text \o n.suffix
      [] n.method = "trim"                -> TrimSpace(text)
      [] n.method = "collapse_whitespace" -> CollapseWhitespace(text)
      [] n.method = "and"                 ->
             FoldLeft(LAMBDA t, child : Fix(child, t, groups, order), text, n.children)
      \* the condition looks at the match alone
      [] n.method = "when"                ->
             IF n.condition.method # "nil" /\ Detect(n.condition, text, order) = {} THEN text
             ELSE IF n.then.method = "nil" THEN text
             ELSE Fix(n.then, text, groups, order)
      [] n.method = "external"            -> text
=============================================================================
