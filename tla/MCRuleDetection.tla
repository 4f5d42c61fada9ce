-------------------------- MODULE MCRuleDetection --------------------------
(* A file with one rule of each kind the properties speak of, over texts of a two-letter alphabet.
   The rules with a fix follow the complete ones of docs/guide-rules.md and docs/cookbook.md,
   cut down to the alphabet. *)
EXTENDS RuleDetection

MCLetters == {"a", "A", "b"}
MCLowerOf == [A |-> "a"]
MCChars == {"a", "A", "b", " ", ".", "\n"}
MCPluginMethods == {"terms"}

Key(key, y) == Mapping(<<<<key, y>>>>)
Args(key, entries) == Key(key, Mapping(entries))
Strict == <<"case_sensitive", Scalar(TRUE)>>
InText(v) == Args("contains", <<<<"value", Scalar(v)>>, Strict>>)
List(words) == Args("wordlist", <<<<"list", Items(words)>>>>)
A == List(<<Scalar(<<"a">>)>>)
B == List(<<Scalar(<<"b">>)>>)
Either(y, z) == Key("or", Items(<<y, z>>))
Regex2(c, d) == [parts |-> <<c, d>>, groups |-> <<MatchRange(0, 1), MatchRange(1, 2)>>]
RegexOf(parts) == [parts |-> parts, groups |-> << >>]
Regex1(c) == RegexOf(<<c>>)

NoFix == Mapping(<< >>)
Rule(id, detect) ==
    [id |-> id, disable |-> FALSE, enabled |-> TRUE, severity |-> 5, category |-> "cleanliness",
     detect |-> detect, fix |-> NoFix]
Fixed(id, detect, fix) == [Rule(id, detect) EXCEPT !.fix = fix, !.category = "readability", !.severity = 2]

MCFiles == [id \in {"words", "twice", "and", "exclude", "threshold", "before", "after", "near",
                    "first", "rest", "swap", "caps", "start", "ellipsis", "very", "obscene",
                    "yo-to-e", "after-colon", "helper", "off", "plugin", "plugged off"} |->
    CASE id = "words" -> Rule(id, List(<<Scalar(<<"a">>), Scalar(<<"A", "b">>)>>))
      [] id = "twice" -> Rule(id, Args("after", <<<<"max", Scalar(3)>>, <<"pattern", InText(<<"b">>)>>,
                                                  <<"child", InText(<<"a", "a">>)>>>>))
      [] id = "and" -> Rule(id, Key("and", Items(<<
             InText(<<"a">>),
             Key("not", Items(<<Args("sentence_end", <<<<"child", A>>>>)>>)),
             Args("sentence_start", <<<<"child", InText(<<"a">>)>>>>),
             Args("word_boundary", <<<<"child", Either(InText(<<"a">>), InText(<<"b">>))>>>>)>>)))
      [] id = "exclude" -> Rule(id, Args("exclude", <<
             <<"without", Items(<<Args("paragraph_end", <<<<"child", Key("ref", Scalar("helper"))>>>>),
                                  Args("prefix", <<<<"value", Scalar(<<"b">>)>>, Strict>>)>>)>>,
             <<"match", Key("ref", Scalar("helper"))>>>>))
      [] id = "threshold" -> Rule(id, Args("threshold", <<
             <<"count", Scalar(2)>>, <<"per", Scalar("words")>>, <<"window", Scalar(2)>>,
             <<"child", Either(A, B)>>>>))
      [] id = "before" -> Rule(id, Args("before", <<
             <<"max", Scalar(2)>>, <<"pattern", InText(<<".">>)>>,
             <<"child", Either(A, InText(<<"b", "a">>))>>>>))
      [] id = "after" -> Rule(id, Args("after", <<
             <<"child", Either(A, B)>>, <<"pattern", InText(<<" ">>)>>, <<"max", Scalar(3)>>>>))
      [] id = "near" -> Rule(id, Args("near", <<
             <<"pattern", Either(InText(<<"a">>), InText(<<"a", "b">>))>>, <<"near", B>>>>))
      [] id = "first" -> Rule(id, Args("position", <<
             <<"type", Scalar("first_paragraph")>>, <<"child", A>>>>))
      [] id = "rest" -> Rule(id, Key("or", Items(<<
             Args("eq", <<<<"value", Scalar(<<"a", "b">>)>>>>),
             Args("suffix", <<<<"value", Scalar(<<"b">>)>>>>),
             Args("surrounded_by", <<<<"left", Scalar(<<"a">>)>>, <<"right", Scalar(<<".">>)>>>>),
             Args("position", <<<<"from", Scalar(1)>>, <<"to", Scalar(3)>>>>),
             Args("paragraph_start", <<<<"child", Args("length", <<<<"min", Scalar(3)>>>>)>>>>),
             Key("and", Items(<<Args("length", <<<<"max", Scalar(2)>>>>), Key("any", Mapping(<< >>))>>))>>)))
      [] id = "swap" -> Fixed(id, Args("position", <<
                 <<"type", Scalar("last_paragraph")>>, <<"child", Scalar(Regex2({"a", "A"}, {"b"}))>>>>),
             Args("regex_replace", <<<<"replacement", Scalar(<<"$2", "$1">>)>>>>))
      [] id = "caps" -> Fixed(id, Args("case", <<<<"mode", Scalar("has_upper")>>>>),
             Args("lowercase", << >>))
      [] id = "start" -> Fixed(id, Args("sentence_start", <<
                 <<"child", Args("regex", <<<<"pattern", Scalar(Regex1({"a"}))>>, Strict>>)>>>>),
             Key("capitalize", Mapping(<< >>)))
      [] id = "ellipsis" -> Fixed(id, Key("regex", Scalar(RegexOf(<<{"."}, {"."}, {"."}>>))),
             Args("replace", <<<<"with", Scalar(<<"...">>)>>>>))
      [] id = "very" -> Fixed(id, Key("regex", Scalar([parts |-> <<{"a"}, Spaces, {"b"}>>,
                                                      groups |-> <<MatchRange(2, 3)>>])),
             Args("lowercase", << >>))
      [] id = "obscene" -> Fixed(id, List(<<Scalar(<<"a", "b">>)>>),
             Args("replace", <<<<"with", Scalar(<<"*", "*", "*">>)>>>>))
      [] id = "yo-to-e" -> Fixed(id, Key("regex", Scalar(RegexOf(<<{"a", "b"}, {"b"}>>))),
             Args("when", <<
                 <<"detect", Args("case", <<<<"mode", Scalar("all_lower")>>>>)>>,
                 <<"then", Args("regex_replace", <<<<"pattern", Scalar(Regex1({"b"}))>>,
                                                   <<"replacement", Scalar(<<"a">>)>>>>)>>>>))
      [] id = "after-colon" -> Fixed(id, Args("after", <<
                 <<"pattern", InText(<<".", " ">>)>>, <<"max", Scalar(2)>>,
                 <<"child", Args("regex", <<<<"pattern", Scalar(Regex1({"A"}))>>, Strict>>)>>>>),
             Args("lowercase", << >>))
      [] id = "helper" -> [Rule(id, B) EXCEPT !.severity = 0]
      [] id = "off" -> [Rule(id, B) EXCEPT !.enabled = FALSE]
      [] id = "plugin" -> Rule(id, Args("terms", <<
             <<"list", Items(<<Scalar(<<"a">>), Scalar(<<"b", "a">>)>>)>>>>))
      [] id = "plugged off" -> [Rule(id, Args("terms", <<<<"list", Items(<<Scalar(<<".">>)>>)>>>>))
                                   EXCEPT !.enabled = FALSE, !.severity = 0]]
=============================================================================
