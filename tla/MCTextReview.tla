---------------------------- MODULE MCTextReview ----------------------------
(***************************************************************************)
(* TextReview for TLC: three flags on every text of up to MaxText          *)
(* characters, so that two fixes in a row move a third flag.               *)
(***************************************************************************)
EXTENDS TextReview

CONSTANTS MaxText, f1, f2, f3

ShortTexts == UNION {[1 .. k -> Char] : k \in 1 .. MaxText}

\* A deletion, and a word behind a newline: either may make a paragraph break out of the
\* newlines around it, or take one away.
Words == {<< >>, <<"n", "b">>}

Symmetry == Permutations(FlagId)
=============================================================================
