------------------------- MODULE MCSharedDetection -------------------------
(* Two analyses over three rules, the first of which refers to the second and that to the last; *)
(* a paragraph, and a window into it.                                                           *)
EXTENDS SharedDetection, TLC

CONSTANTS p1, p2, first, second, last, para, window

MCAnalyses == {p1, p2}
MCRequests == {p2}
MCNodes == {first, second, last}
MCRefs == (first :> {second}) @@ (second :> {last}) @@ (last :> {})
MCTexts == {para, window}
MCWindows == (para :> {para, window}) @@ (window :> {window})
=============================================================================
