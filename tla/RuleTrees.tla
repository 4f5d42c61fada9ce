------------------------------ MODULE RuleTrees ------------------------------
(***************************************************************************)
(* From a rule in a YAML file to the trees the engine runs: what           *)
(* infra/rules/parser.go reads out of the file and what the builders in    *)
(* the init functions of domain/detect and domain/fix make of it.          *)
(*                                                                         *)
(* A YAML node is a scalar, a sequence or a mapping, whose entries are     *)
(* pairs <<key, node>> in the order of the file.  A scalar of another type *)
(* than its key wants, and a key given with the zero value of a string or  *)
(* a list, are left out of the files: the first stops the load, the second *)
(* is as good as not given.                                                *)
(***************************************************************************)
EXTENDS Integers, Sequences, FiniteSets, SequencesExt

CONSTANTS PluginMethods,  \* the detection methods of plugins, none of a built-in's name
          PluginFixes     \* and their fix methods, likewise

Scalar(v) == [kind |-> "scalar", value |-> v]
Items(s) == [kind |-> "sequence", items |-> s]
Mapping(s) == [kind |-> "mapping", entries |-> s]

Nil == [method |-> "nil"]

SentenceWindow == -1  \* window: sentence, the only text there that is no number

-----------------------------------------------------------------------------
(* DetectNodeYAML: the method, the arguments given, the subtrees by key, and *)
(* two lists of subtrees.                                                    *)

NodeYAML(method) ==
    [method |-> method, data |-> << >>, nodes |-> << >>, args |-> << >>, without |-> << >>]

\* A node that does not decode: no method has this name, so no rule with it is built.
Malformed == NodeYAML("malformed")

ListKeys == {"list", "words"}

DataKeys == ListKeys \cup
    {"pattern", "value", "case_sensitive", "left", "right", "min", "max", "mode",
     "from", "to", "type", "count", "per", "window"}

knownDetectMethods == PluginMethods \cup
    {"regex", "wordlist", "contains", "eq", "prefix", "suffix", "sentence_start",
     "sentence_end", "paragraph_start", "paragraph_end", "word_boundary", "before",
     "after", "surrounded_by", "length", "case", "position", "and", "or", "not",
     "threshold", "near", "exclude", "any", "ref",
     "llm", "plugin", "ner", "pos", "function", "expr"}  \* these only a plugin could build

Given(n, key) == key \in DOMAIN n.data

\* An argument; a number that is 0 counts as not given (buildArgs).
Arg(n, key, default) ==
    IF Given(n, key) /\ n.data[key] # 0 THEN n.data[key] ELSE default

Decode(n, key, y) ==
    IF y.kind # (IF key \in ListKeys THEN "sequence" ELSE "scalar") THEN Malformed
    ELSE LET v == IF key \in ListKeys THEN {y.items[i].value : i \in DOMAIN y.items} ELSE y.value
         IN  [n EXCEPT !.data = (key :> v) @@ @]

WithNode(n, key, sub) ==
    IF sub = Malformed THEN Malformed ELSE [n EXCEPT !.nodes = (key :> sub) @@ @]

RECURSIVE UnmarshalYAML(_)

Each(items) == [i \in DOMAIN items |-> UnmarshalYAML(items[i])]

\* method and args next to the arguments.  Any other key, those of subtrees included, is skipped.
flatDetectNode(method, y) ==
    LET noNumber(e) == e[1] = "window" /\ e[2].value = SentenceWindow
        take(n, e) ==
            CASE e[1] = "method"   -> [n EXCEPT !.method = e[2].value]
              [] e[1] = "args"     -> [n EXCEPT !.args = Each(e[2].items)]
              [] e[1] \in DataKeys -> IF noNumber(e) THEN Malformed ELSE Decode(n, e[1], e[2])
              [] OTHER             -> n
    IN  FoldLeft(LAMBDA n, e : IF n = Malformed THEN n ELSE take(n, e), NodeYAML(method), y.entries)

\* The value of a method that stands as a key among the arguments of another.
decodeChildValue(method, y) ==
    CASE y.kind = "scalar"   -> Decode(NodeYAML(method), IF method = "regex" THEN "pattern" ELSE "value", y)
      [] y.kind = "sequence" -> [NodeYAML(method) EXCEPT !.args = Each(y.items)]
      [] y.kind = "mapping"  -> flatDetectNode(method, y)

\* The first such method is the pattern, the second the child; there is no place for a third.
AsSubtree(n, sub) ==
    IF "pattern" \notin DOMAIN n.nodes THEN WithNode(n, "pattern", sub)
    ELSE IF "child" \notin DOMAIN n.nodes \/ sub = Malformed THEN WithNode(n, "child", sub)
    ELSE n

\* One key among the arguments of a method.
TakeKey(n, key, y) ==
    CASE key \in {"child", "if", "match", "near"}   -> WithNode(n, key, UnmarshalYAML(y))
      [] key = "pattern" /\ y.kind # "scalar"       -> WithNode(n, key, UnmarshalYAML(y))
      [] key = "pattern" /\ y.kind = "scalar"       -> Decode(n, key, y)
      [] key = "without"                            -> [n EXCEPT !.without = Each(y.items)]
      [] key = "max_chars"                          -> Decode(n, "max", y)
      [] key \in DataKeys \ {"pattern"}             -> Decode(n, key, y)
      [] key \in knownDetectMethods \ {"near"}      -> AsSubtree(n, decodeChildValue(key, y))
      [] OTHER                                      -> n

KeyAsMethod(method, y) ==
    CASE y.kind = "scalar"   -> Decode(NodeYAML(method), "pattern", y)
      [] y.kind = "sequence" -> [NodeYAML(method) EXCEPT !.args = Each(y.items)]
      [] y.kind = "mapping"  ->
             FoldLeft(LAMBDA n, e : IF n = Malformed THEN n ELSE TakeKey(n, e[1], e[2]),
                      NodeYAML(method), y.entries)

\* A scalar is a regex, a sequence has no method; of a mapping only the first key counts.
UnmarshalYAML(y) ==
    CASE y.kind = "scalar"   -> Decode(NodeYAML("regex"), "pattern", y)
      [] y.kind = "sequence" -> [NodeYAML("") EXCEPT !.args = Each(y.items)]
      [] y.kind = "mapping"  ->
             IF \E e \in ToSet(y.entries) : e[1] = "method" THEN flatDetectNode("", y)
             ELSE IF y.entries = << >> THEN NodeYAML("")
             ELSE KeyAsMethod(y.entries[1][1], y.entries[1][2])

-----------------------------------------------------------------------------
(* The builders of domain/detect: what each requires of its arguments and  *)
(* children, and the node it makes of them.                                *)

Filters == {"sentence_start", "sentence_end", "paragraph_start", "paragraph_end",
            "word_boundary", "length", "case"}

CaseModes == {"all_caps", "all_lower", "capitalized", "has_upper", "has_lower"}

InParagraph(n) == Given(n, "type") /\ n.data.type \in {"first_paragraph", "last_paragraph"}

Accepts(method, n, c) ==
    \/ method \in (Filters \ {"case"}) \cup {"any"}
    \/ method = "case" /\ Given(n, "mode") /\ n.data.mode \in CaseModes
    \/ method = "wordlist" /\ Given(n, "list")
    \/ method = "regex" /\ Given(n, "pattern")
    \/ method \in {"contains", "eq", "prefix", "suffix"} /\ Given(n, "value")
    \/ method = "surrounded_by" /\ Given(n, "left") /\ Given(n, "right")
    \/ method = "position" /\ (InParagraph(n) \/ Arg(n, "from", 0) > 0)
    \/ method = "threshold" /\ Arg(n, "count", 0) > 0 /\ c # << >>
    \/ method \in {"before", "after", "not"} /\ c # << >>
    \/ method \in {"and", "or", "near"} /\ Len(c) >= 2
    \/ method = "exclude" /\ c # << >>
                          /\ (Given(n, "list") \/ Given(n, "words") \/ Len(c) >= 2)
    \/ method \in PluginMethods

First(c) == IF c = << >> THEN Nil ELSE c[1]
Second(c) == IF Len(c) < 2 THEN Nil ELSE c[2]

CaseSensitive(n) == Given(n, "case_sensitive") /\ n.data.case_sensitive

Words(n, key) == [method |-> "wordlist", words |-> n.data[key], caseSensitive |-> CaseSensitive(n)]

\* What an exclude leaves out: its word list, and every child but the first.
Excluded(n, c) ==
    (IF Given(n, "list") THEN <<Words(n, "list")>>
     ELSE IF Given(n, "words") THEN <<Words(n, "words")>> ELSE << >>) \o Tail(c)

OneOf(nodes) == IF Len(nodes) = 1 THEN nodes[1] ELSE [method |-> "or", children |-> nodes]

NodeOf(method, n, c) ==
    CASE method = "wordlist" -> Words(n, "list")
      [] method = "regex" ->
             [method |-> method, expr |-> n.data.pattern, caseSensitive |-> CaseSensitive(n)]
      [] method \in {"contains", "eq", "prefix", "suffix"} ->
             [method |-> method, value |-> n.data.value, caseSensitive |-> CaseSensitive(n)]
      [] method = "surrounded_by" -> [method |-> method, left |-> n.data.left, right |-> n.data.right]
      [] method = "length" ->
             [method |-> method, inner |-> First(c), min |-> Arg(n, "min", 1), max |-> Arg(n, "max", 0)]
      [] method = "case" -> [method |-> method, inner |-> First(c), mode |-> n.data.mode]
      [] method \in Filters \ {"length", "case"} -> [method |-> method, inner |-> First(c)]
      [] method \in {"before", "after"} ->
             [method |-> method, inner |-> First(c), pattern |-> Second(c), max |-> Arg(n, "max", 80)]
      [] method = "position" ->
             [method |-> method, inner |-> First(c), type |-> IF InParagraph(n) THEN n.data.type ELSE "",
              from |-> Arg(n, "from", 0), to |-> Arg(n, "to", 0)]
      [] method = "threshold" ->
             [method |-> method, inner |-> First(c), count |-> n.data.count,
              per |-> IF Given(n, "per") THEN n.data.per ELSE "words",
              window |-> IF Arg(n, "window", 100) < 0 THEN 100 ELSE Arg(n, "window", 100)]
      [] method = "near" ->
             [method |-> method, pattern |-> First(c), near |-> Second(c),
              chars |-> IF Arg(n, "window", 0) < 0 THEN 0 ELSE Arg(n, "window", 0)]
      [] method = "not" -> [method |-> method, inner |-> First(c)]
      [] method \in {"and", "or"} -> [method |-> method, children |-> c]
      [] method = "exclude" ->
             [method |-> "and",
              children |-> <<First(c), [method |-> "not", inner |-> OneOf(Excluded(n, c))]>>]
      [] method = "any" -> [method |-> method]
      [] method \in PluginMethods ->
             [method |-> "external", config |-> IF Given(n, "list") THEN n.data.list ELSE {}]

-----------------------------------------------------------------------------
(* buildDetectNode: the tree, the references in it, or nothing *)

Unbuilt == [ok |-> FALSE, node |-> Nil, refs |-> {}]
Built(node, refs) == [ok |-> TRUE, node |-> node, refs |-> refs]

InferredMethod(n) ==
    IF n.method # "" THEN n.method
    ELSE IF Given(n, "words") \/ Given(n, "list") THEN "wordlist"
    ELSE IF Given(n, "pattern") THEN "regex"
    ELSE ""

Under(n, key) == IF key \in DOMAIN n.nodes THEN <<n.nodes[key]>> ELSE << >>

\* A plausible slip: children come in the order in which the keys are documented.
SubtreesAsDocumented(n) ==
    n.args \o Under(n, "pattern") \o Under(n, "child") \o Under(n, "near") \o Under(n, "if")
           \o Under(n, "match") \o n.without

\* The order of the children is the builders' only way to tell them apart.
Subtrees(n) ==
    n.args \o Under(n, "child") \o Under(n, "pattern") \o Under(n, "near") \o Under(n, "if")
           \o Under(n, "match") \o n.without

RECURSIVE buildDetectNode(_)

buildDetectNode(n) ==
    LET method == InferredMethod(n)
        built == FoldLeft(LAMBDA s, sub : Append(s, buildDetectNode(sub)), << >>, Subtrees(n))
        children == SelectSeq([i \in DOMAIN built |-> built[i].node], LAMBDA c : c.method # "nil")
    IN  CASE method = "ref" ->
               IF Given(n, "pattern")
               THEN Built([method |-> "ref", rule |-> n.data.pattern, inner |-> Nil], {n.data.pattern})
               ELSE Unbuilt
          [] method = "" -> Built(Nil, {})
          [] OTHER ->
               IF (\E i \in DOMAIN built : ~built[i].ok) \/ ~Accepts(method, n, children) THEN Unbuilt
               ELSE Built(NodeOf(method, n, children), UNION {built[i].refs : i \in DOMAIN built})

\* The subtrees of a node that was built.
Inside(node) ==
    LET sub(key) == IF key \in DOMAIN node THEN <<node[key]>> ELSE << >>
    IN  sub("inner") \o sub("pattern") \o sub("near")
            \o (IF "children" \in DOMAIN node THEN node.children ELSE << >>)

RECURSIVE RefsIn(_), IsNodeSync(_)

\* The rules the tree of a rule will ask.
RefsIn(node) ==
    (IF node.method = "ref" THEN {node.rule} ELSE {})
        \cup UNION {RefsIn(Inside(node)[i]) : i \in DOMAIN Inside(node)}

\* Whether the browser could run the tree.  It knows no cached node.
IsNodeSync(node) ==
    \/ node.method \in {"regex", "wordlist", "any", "contains", "eq", "prefix", "suffix", "surrounded_by"}
    \/ /\ node.method \in {"and", "or", "not"}
       /\ \A i \in DOMAIN Inside(node) : IsNodeSync(Inside(node)[i])

-----------------------------------------------------------------------------
(* Fix trees: FixNodeYAML and buildFixNode *)

FixYAML == [method |-> "", data |-> << >>, args |-> << >>, detect |-> << >>, then |-> << >>]

FixKeys == {"with", "pattern", "replacement", "prefix", "suffix", "suggestion", "autofix"}

RECURSIVE UnmarshalFix(_)

FixArgs(items) == [i \in DOMAIN items |-> UnmarshalFix(items[i])]

PutFix(n, key, y) == [n EXCEPT !.data = (key :> y.value) @@ @]

\* The arguments of a fix method; "when" alone has a condition and a fix inside.
TakeFixKey(n, key, y) ==
    CASE key \in FixKeys -> PutFix(n, key, y)
      [] key = "detect"  -> [n EXCEPT !.detect = <<UnmarshalYAML(y)>>]
      [] key = "then"    -> [n EXCEPT !.then = <<UnmarshalFix(y)>>]
      [] OTHER           -> n

\* One key of a fix: a hint, a replacement, or a method.  The first method wins; what it is
\* given as a scalar is skipped.
FixKeyAsMethod(n, key, y) ==
    IF key \in {"suggestion", "autofix"} THEN PutFix(n, key, y)
    ELSE IF n.method # "" THEN n
    ELSE CASE y.kind = "scalar"   -> [n EXCEPT !.method = key]
           [] y.kind = "sequence" -> [n EXCEPT !.method = key, !.args = FixArgs(y.items)]
           [] y.kind = "mapping"  ->
                  FoldLeft(LAMBDA m, e : TakeFixKey(m, e[1], e[2]), [n EXCEPT !.method = key], y.entries)

flatFixNode(y) ==
    LET take(n, e) ==
            CASE e[1] = "method"   -> [n EXCEPT !.method = e[2].value]
              [] e[1] = "args"     -> [n EXCEPT !.args = FixArgs(e[2].items)]
              [] e[1] \in FixKeys  -> PutFix(n, e[1], e[2])
              [] OTHER             -> n
    IN  FoldLeft(take, FixYAML, y.entries)

\* A scalar is no fix.
UnmarshalFix(y) ==
    CASE y.kind = "scalar"   -> FixYAML
      [] y.kind = "sequence" -> [FixYAML EXCEPT !.args = FixArgs(y.items)]
      [] y.kind = "mapping"  ->
             IF \E e \in ToSet(y.entries) : e[1] = "method" THEN flatFixNode(y)
             ELSE FoldLeft(LAMBDA n, e : FixKeyAsMethod(n, e[1], e[2]), FixYAML, y.entries)

\* An empty text is as good as none (buildArgs).
FixArg(n, key) == IF Given(n, key) THEN n.data[key] ELSE << >>
HasFixArg(n, key) == FixArg(n, key) # << >>

PlainFixes == {"remove", "uppercase", "lowercase", "capitalize", "sentence_case", "title_case",
               "trim", "collapse_whitespace"}

AcceptsFix(method, n, c) ==
    \/ method \in PlainFixes \cup {"prepend", "append", "wrap"} \cup PluginFixes
    \/ method = "replace" /\ HasFixArg(n, "with")
    \/ method = "regex_replace" /\ (HasFixArg(n, "pattern") \/ HasFixArg(n, "replacement"))
    \/ method = "and" /\ c # << >>

FixNodeOf(method, n, c) ==
    CASE method \in PlainFixes                     -> [method |-> method]
      [] method \in {"replace", "prepend", "append"} -> [method |-> method, with |-> FixArg(n, "with")]
      [] method = "wrap"          -> [method |-> method, prefix |-> FixArg(n, "prefix"),
                                      suffix |-> FixArg(n, "suffix")]
      [] method = "regex_replace" -> [method |-> method, replacement |-> FixArg(n, "replacement"),
                                      expr |-> IF HasFixArg(n, "pattern") THEN <<n.data.pattern>> ELSE << >>]
      [] method = "and"           -> [method |-> method, children |-> c]
      [] method \in PluginFixes   -> [method |-> "external"]

\* autofix alone is a replacement, which may be empty; so is a fix that names no method.
FixMethod(n) ==
    IF n.method # "" THEN n.method
    ELSE IF Given(n, "autofix") THEN "autofix"
    ELSE IF HasFixArg(n, "with") \/ HasFixArg(n, "pattern") THEN "replace"
    ELSE ""

RECURSIVE buildFixNode(_)

\* References in the condition of a "when" are not recorded, so nothing resolves them.
buildFixNode(n) ==
    LET method == FixMethod(n)
        built == FoldLeft(LAMBDA s, arg : Append(s, buildFixNode(arg)), << >>, n.args)
        children == SelectSeq([i \in DOMAIN built |-> built[i].node], LAMBDA c : c.method # "nil")
        condition == IF n.detect = << >> THEN Built(Nil, {}) ELSE buildDetectNode(n.detect[1])
        then == IF n.then = << >> THEN Built(Nil, {}) ELSE buildFixNode(n.then[1])
    IN  IF method = "" THEN Built(Nil, {})
        ELSE IF method = "autofix" THEN Built([method |-> "replace", with |-> n.data.autofix], {})
        ELSE IF \E i \in DOMAIN built : ~built[i].ok THEN Unbuilt
        ELSE IF method = "when"
        THEN IF condition.ok /\ then.ok
             THEN Built([method |-> "when", condition |-> condition.node, then |-> then.node], {})
             ELSE Unbuilt
        ELSE IF AcceptsFix(method, n, children) THEN Built(FixNodeOf(method, n, children), {})
        ELSE Unbuilt

-----------------------------------------------------------------------------
(* ruleFromYAML: a rule of a file becomes a rule, unless it is invalid *)

Categories == {"cleanliness", "readability"}

Stub(ry) ==
    [ok |-> ry.id # "", id |-> ry.id, enabled |-> FALSE, severity |-> 5, category |-> "cleanliness",
     node |-> Nil, fix |-> Nil, refs |-> {}, named |-> {}, clientSide |-> FALSE]

\* Every tree but that of a plugin's method is wrapped in a cache.
Wrapped(node) ==
    IF node.method \in {"nil", "external"} THEN node ELSE [method |-> "cached", inner |-> node]

\* Every rule needs an id.  One to disable has no tree; any other needs one of the two
\* categories, a severity up to 10, and trees that can be built.
ruleFromYAML(ry) ==
    LET detect == buildDetectNode(UnmarshalYAML(ry.detect))
        fix == buildFixNode(UnmarshalFix(ry.fix))
        node == Wrapped(detect.node)
        valid == ry.id # "" /\ ry.category \in Categories /\ ry.severity \in 0..10
    IN  IF ry.disable THEN Stub(ry)
        ELSE [ok |-> detect.ok /\ fix.ok /\ valid, id |-> ry.id, enabled |-> ry.enabled,
              severity |-> ry.severity, category |-> ry.category, node |-> node, fix |-> fix.node,
              refs |-> detect.refs, named |-> RefsIn(node), clientSide |-> IsNodeSync(node)]
=============================================================================
