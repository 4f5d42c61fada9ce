----------------------------- MODULE FixApplier -----------------------------
(***************************************************************************)
(* internal/domain/service/fix_applier.go: the text of a review is one     *)
(* string, split into paragraphs at every blank line (two newlines).  A    *)
(* flag marks the characters start+1 .. end of a paragraph (start and end  *)
(* count as Go slices do, from 0), and a fix puts the flag's suggestion in *)
(* their place and the paragraphs together again.                          *)
(***************************************************************************)
EXTENDS Integers, Sequences, FiniteSets, SequencesExt

CONSTANTS Char, FlagId,
          Newline       \* the character that makes up a paragraph break

Paragraph == Seq(Char)

FlagState == {"raised", "accepted", "rejected", "applied"}

Flag == [id : FlagId, para : Nat, start : Nat, end : Nat,
         suggestion : Seq(Char), state : FlagState]

\* What a flag marks in a paragraph.
Marked(p, f) == SubSeq(p, f.start + 1, f.end)

-----------------------------------------------------------------------------
\* Text.Paragraphs and buildText

Break == <<Newline, Newline>>

EndsWithNewline(p) == p # << >> /\ p[Len(p)] = Newline

\* The paragraphs of a text with one more character.  The second newline in a row
\* takes the first with it and begins a paragraph, as strings.Split does from the left.
Read(paras, c) ==
  LET p == paras[Len(paras)]
  IN IF c = Newline /\ EndsWithNewline(p)
     THEN Append([paras EXCEPT ![Len(paras)] = SubSeq(p, 1, Len(p) - 1)], << >>)
     ELSE [paras EXCEPT ![Len(paras)] = Append(p, c)]

Paragraphs(t) ==
  LET read[k \in 0 .. Len(t)] == IF k = 0 THEN << << >> >> ELSE Read(read[k - 1], t[k])
  IN read[Len(t)]

buildText(paras) ==
  LET built[k \in 1 .. Len(paras)] ==
        IF k = 1 THEN paras[1] ELSE built[k - 1] \o Break \o paras[k]
  IN built[Len(paras)]

-----------------------------------------------------------------------------
\* The paragraph of a flag, and whether its span lies within it.
Fits(paras, f) ==
  /\ f.para < Len(paras)
  /\ f.end <= Len(paras[f.para + 1]) /\ f.start < f.end

Substituted(p, f) ==
  SubSeq(p, 1, f.start) \o f.suggestion \o SubSeq(p, f.end + 1, Len(p))

WithFix(paras, f) ==
  [k \in 1 .. Len(paras) |->
     IF k = f.para + 1 THEN Substituted(paras[k], f) ELSE paras[k]]

\* A slip: the lengths the wrong way round.
DeltaNegated(f) == (f.end - f.start) - Len(f.suggestion)

Delta(f) == Len(f.suggestion) - (f.end - f.start)

\* Flag.AdjustSpan, which leaves a span alone rather than make it invalid.
AdjustSpan(g, delta) ==
  IF g.start + delta < 0 THEN g
  ELSE [g EXCEPT !.start = @ + delta, !.end = @ + delta]

\* A slip: > for >=, so that a flag right behind the span stays put.
AfterStrictly(g, f) == g.para = f.para /\ g.start > f.end

After(g, f) == g.para = f.para /\ g.start >= f.end

Conflicts(g, f) == g.para = f.para /\ g.start < f.end /\ g.end > f.start

\* The flags that outlive the fix of f: neither f nor rejected nor in conflict
\* with f, and moved along with the text behind f.
Remaining(f, flags) ==
  {IF After(g, f) THEN AdjustSpan(g, Delta(f)) ELSE g :
     g \in {h \in flags \ {f} : h.state # "rejected" /\ ~Conflicts(h, f)}}

Apply(t, f, flags) ==
  LET paras == Paragraphs(t)
  IN IF Fits(paras, f)
     THEN [text |-> buildText(WithFix(paras, f)), flags |-> Remaining(f, flags)]
     ELSE [text |-> t, flags |-> flags]

-----------------------------------------------------------------------------
\* ApplyAll of all flags, in order of position.  The flags handed to Apply are
\* those the previous Apply returned, and the first is handed none.

Before(f, g) == f.para < g.para \/ (f.para = g.para /\ f.start < g.start)

\* sort.SliceStable, on flags that come from a map in any order.
ByPosition(flags) ==
  {s \in SetToSeqs(flags) : \A i, j \in DOMAIN s : i < j => ~Before(s[j], s[i])}

ApplyInTurn(t, sorted) ==
  LET done[k \in 0 .. Len(sorted)] ==
        IF k = 0 THEN [text |-> t, flags |-> {}]
        ELSE IF sorted[k].state = "rejected" THEN done[k - 1]
        ELSE Apply(done[k - 1].text, sorted[k], done[k - 1].flags)
  IN done[Len(sorted)]

\* Every result ApplyAll may have.
ApplyAll(t, flags) == {ApplyInTurn(t, s) : s \in ByPosition(flags)}
=============================================================================
