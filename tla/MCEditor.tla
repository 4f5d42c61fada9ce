------------------------------ MODULE MCEditor ------------------------------
(* "a" is deleted, "b" becomes two other characters; a client rule finds "a" too. *)
EXTENDS Editor, TLC

MCTexts == {<< >>, <<"a", "a", "b">>, <<"b", " ", "a">>}
MCAutoFix == [w \in {"a", "b"} |-> IF w = "a" THEN << >> ELSE <<"c", "c">>]
=============================================================================
