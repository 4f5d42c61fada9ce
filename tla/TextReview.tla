----------------------------- MODULE TextReview -----------------------------
(***************************************************************************)
(* The text of one session and the flags on it, under a sequence of fixes: *)
(* ApplyFix.Execute and ApplyAll of usecase/apply_fix.go and the rejections *)
(* between them.                                                            *)
(***************************************************************************)
EXTENDS FixApplier

CONSTANTS Texts,        \* the texts a session may start with
          Suggestions   \* what the rules may suggest, newlines and deletions too

TextsAssumption ==
  /\ Newline \in Char /\ IsFiniteSet(FlagId)
  /\ Texts \subseteq Seq(Char) /\ Suggestions \subseteq Seq(Char)

ASSUME TextsAssumption

VARIABLES text,     \* the content of Session.text
          flags,    \* Session.flags
          match,    \* Flag.matchText, which never changes
          intact    \* not in the code: how many paragraphs, from the first, no fix has
                    \* split or joined since the flags were raised

vars == <<text, flags, match, intact>>

\* Rule.Detect: a flag on some characters of a paragraph of the text.
Spans(t) ==
  LET ps == Paragraphs(t)
  IN UNION {{[para |-> k - 1, start |-> s, end |-> e] :
               s \in 0 .. Len(ps[k]) - 1, e \in 1 .. Len(ps[k])} : k \in DOMAIN ps}

Raised(i, sp, w) ==
  [id |-> i, para |-> sp.para, start |-> sp.start, end |-> sp.end,
   suggestion |-> w, state |-> "raised"]

Init ==
  /\ text \in Texts
  /\ \E spans \in [FlagId -> {sp \in Spans(text) : sp.start < sp.end}],
        words \in [FlagId -> Suggestions] :
       /\ flags = {Raised(i, spans[i], words[i]) : i \in FlagId}
       /\ match = [i \in FlagId |-> Marked(Paragraphs(text)[spans[i].para + 1], spans[i])]
  /\ intact = Len(Paragraphs(text))

SetState(f, s) == [f EXCEPT !.state = s]

RejectFlag(f) ==
  /\ f.state = "raised"
  /\ flags' = (flags \ {f}) \cup {SetState(f, "rejected")}
  /\ UNCHANGED <<text, match, intact>>

\* The fix of f makes or moves a paragraph break: the text, split anew, is not the
\* paragraphs it was put together from.
Resplits(f) ==
  /\ Fits(Paragraphs(text), f)
  /\ Paragraphs(text') # WithFix(Paragraphs(text), f)

\* ApplyFix.Execute: the flag is applied whether or not its span still fits.
ApplyFix(f) ==
  /\ f.state \in {"raised", "accepted"}
  /\ LET g == SetState(f, "applied")
         result == Apply(text, g, (flags \ {f}) \cup {g})
     IN text' = result.text /\ flags' = result.flags
  /\ intact' = IF Resplits(f) /\ f.para < intact THEN f.para ELSE intact
  /\ UNCHANGED match

\* ApplyFix.ApplyAll, which nothing calls: the active flags go to FixApplier.ApplyAll, and
\* the session is left without flags.
Active == {f \in flags : f.state \in {"raised", "accepted"}}

ApplyAllFixes ==
  /\ Active # {}
  /\ \E result \in ApplyAll(text, Active) :
       text' = result.text /\ flags' = result.flags
  /\ UNCHANGED <<match, intact>>

Next == \/ \E f \in flags : RejectFlag(f) \/ ApplyFix(f)
        \/ ApplyAllFixes

Spec == Init /\ [][Next]_vars

-----------------------------------------------------------------------------
\* The session's flags are flags of the type the domain model gives them.
TypeOK == /\ text \in Seq(Char) /\ flags \subseteq Flag
          /\ match \in [FlagId -> Seq(Char)] /\ intact \in Nat
          /\ \A f, g \in flags : f.id = g.id => f = g

\* After any sequence of fixes each flag that may still be applied marks the characters
\* it was raised for, so that the next fix replaces what the user saw: in every paragraph
\* before the first in which a fix made or moved a paragraph break.  From there on it may
\* mark anything, or nothing, and the code does not notice.
SpansStayTrue ==
  \A f \in Active : f.para < intact =>
    /\ Fits(Paragraphs(text), f)
    /\ Marked(Paragraphs(text)[f.para + 1], f) = match[f.id]

\* Two flags that may still be applied never mark a common character unless
\* they did when they were raised: a shift does not run them into each other.
NoNewOverlap ==
  [][\A f, g \in flags : \A h, k \in flags' :
       /\ f.id = h.id /\ g.id = k.id /\ f.id # g.id
       /\ h \in Active' /\ k \in Active' /\ ~Conflicts(f, g)
       => ~Conflicts(h, k)]_vars
=============================================================================
