--------------------------- MODULE MCRuleLoading ---------------------------
(* Two rules, "r" and "s", in each form a file may give them. *)
EXTENDS RuleLoading, RuleTrees

CONSTANTS r1, r2

Rule(id, detect) ==
    [id |-> id, disable |-> FALSE, enabled |-> TRUE, severity |-> 5, category |-> "cleanliness",
     detect |-> detect, fix |-> Mapping(<< >>)]

Args(key, entries) == Mapping(<<<<key, Mapping(entries)>>>>)
List == Args("wordlist", <<<<"list", Items(<<Scalar("word")>>)>>>>)
Ref(id) == Mapping(<<<<"ref", Scalar(id)>>>>)
And(y, z) == Mapping(<<<<"and", Items(<<y, z>>)>>>>)

R == Rule("r", List)
S == Rule("s", List)

MCRequests == {r1, r2}
Files == [name \in {"missing", "both", "r asks s", "s asks r", "s disabled", "r off", "other category",
                         "needs a value"} |->
    CASE name = "missing"     -> << >>
      [] name = "both"        -> <<R, S>>
      [] name = "r asks s"    -> <<Rule("r", Args("exclude", <<<<"match", List>>,
                                                             <<"without", Items(<<Ref("s")>>)>>>>)), S>>
      [] name = "s asks r"    -> <<Rule("s", And(Args("sentence_end", <<<<"child", Ref("r")>>>>), List))>>
      [] name = "s disabled"  -> <<[S EXCEPT !.disable = TRUE]>>
      [] name = "r off"       -> <<[R EXCEPT !.enabled = FALSE]>>
      [] name = "other category" -> <<[S EXCEPT !.category = "style"]>>
      [] name = "needs a value" -> <<Rule("s", Mapping(<<<<"eq", Scalar("word")>>>>))>>]

Parsed == [name \in DOMAIN Files |->
    FoldLeft(LAMBDA rules, ry : Append(rules, ruleFromYAML(ry)), << >>, Files[name])]

\* A fold, and no function constructor, for TLC to parse each file once.
MCContents == FoldSet(LAMBDA name, f : (name :> Parsed[name]) @@ f, << >>, DOMAIN Files)
MCFirstDisks == [Layers -> DOMAIN MCContents]
=============================================================================
