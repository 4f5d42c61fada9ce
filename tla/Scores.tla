------------------------------- MODULE Scores -------------------------------
(***************************************************************************)
(* The two scores of a text, once as the server computes them with a check *)
(* (service/score_calculator.go) and once as the editor does while it      *)
(* waits (updateTentativeScores in store.ts).  A flag is a record with a   *)
(* severity and a category.                                                *)
(***************************************************************************)
EXTENDS Integers, FiniteSets, FiniteSetsExt

CONSTANT Norm  \* severities count per so many words: 100

ASSUME NormAssumption == Norm \in Nat \ {0}

MaxScore == 100  \* 10.0: the server's scores are in tenths

Penalty(flags) == MapThenSumSet(LAMBDA f : f.severity, flags)

InCategory(flags, category) == {f \in flags : f.category = category}

\* math.Round of x / y, none of them negative.
Rounded(x, y) == (2 * x + y) \div (2 * y)

\* A plausible slip: whole hundreds of words only.
ServerScoreOfHundreds(pending, words, category) ==
    LET norm == IF words < Norm THEN 1 ELSE words \div Norm
        left == MaxScore - (10 * Penalty(InCategory(pending, category))) \div norm
    IN  IF words = 0 THEN MaxScore ELSE IF left < 0 THEN 0 ELSE left

\* A short text is scored as if it had Norm words.
ServerScore(pending, words, category) ==
    LET effective == IF words < Norm THEN Norm ELSE words
        left == MaxScore * effective - 10 * Norm * Penalty(InCategory(pending, category))
    IN  IF words = 0 THEN MaxScore ELSE IF left < 0 THEN 0 ELSE Rounded(left, effective)

\* The editor does not round: its score is a fraction.
ClientScore(active, words, category) ==
    LET most == MaxScore * words
        share == 10 * Norm * Penalty(InCategory(active, category))
    IN  IF words = 0 THEN [tenths |-> MaxScore, per |-> 1]
        ELSE [tenths |-> most - (IF share > most THEN most ELSE share), per |-> words]
=============================================================================
