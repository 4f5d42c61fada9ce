------------------------------ MODULE TextScan ------------------------------
(***************************************************************************)
(* What the server and the editor read out of a text: substrings, words,   *)
(* sentences and paragraphs (domain/detect, domain/model, client-engine).  *)
(*                                                                         *)
(* A text is a sequence of characters.  Offsets are those of the code:     *)
(* they start at 0, and a range [start, end) leaves its end out.           *)
(***************************************************************************)
EXTENDS Integers, Sequences, FiniteSets, SequencesExt

CONSTANTS Letters,  \* the characters unicode.IsLetter accepts
          LowerOf   \* the lower-case letter of each upper-case one

NewLine == "\n"
Spaces == {" ", NewLine}
Stops == {".", "!", "?"}

MatchRange(from, to) == [start |-> from, end |-> to]

At(text, i) == text[i + 1]
Slice(text, r) == SubSeq(text, r.start + 1, r.end)
RangesOf(text) == {MatchRange(i, j) : i, j \in 0..Len(text)}

Lower(text) ==
    [i \in DOMAIN text |-> IF text[i] \in DOMAIN LowerOf THEN LowerOf[text[i]] ELSE text[i]]

OccursAt(text, v, i) ==
    i + Len(v) <= Len(text) /\ Slice(text, MatchRange(i, i + Len(v))) = v

\* Where v first occurs at or after an offset, -1 when it does not.
Index(text, v, from) ==
    LET at == {i \in from..Len(text) : OccursAt(text, v, i)}
    IN  IF at = {} THEN -1 ELSE Min(at)

\* The longest ranges all of whose characters are in a set.
RunsOf(text, chars) ==
    LET In(i) == i \in 0..(Len(text) - 1) /\ At(text, i) \in chars
    IN  {MatchRange(i, Min({j \in i..Len(text) : ~In(j)})) :
            i \in {k \in 0..Len(text) : In(k) /\ ~In(k - 1)}}

-----------------------------------------------------------------------------
(* Words *)

\* A plausible slip: only the character before the word is looked at.
wordBoundaryLeft(text, r) == r.start > 0 => At(text, r.start - 1) \notin Letters

wordBoundary(text, r) ==
    /\ r.start > 0 => At(text, r.start - 1) \notin Letters
    /\ r.end < Len(text) => At(text, r.end) \notin Letters

wordBoundaryOffsets(text) ==
    LET IsLetter(i) == i \in 0..(Len(text) - 1) /\ At(text, i) \in Letters
    IN  {i \in 0..Len(text) : IsLetter(i - 1) # IsLetter(i)}

Fields(text) == RunsOf(text, {text[i] : i \in DOMAIN text} \ Spaces)

wordCountIn(text) == Cardinality(Fields(text))

-----------------------------------------------------------------------------
(* Sentences.  The nodes use two notions: sentence_start and sentence_end  *)
(* end a sentence at a stop followed by a space or the end of the text,    *)
(* near ends one at every stop.                                            *)

SkipSpaces(text, i) ==
    Min({j \in i..Len(text) : j = Len(text) \/ At(text, j) \notin Spaces})

SpansEndingAt(text, bounds) ==
    LET starts == {0} \cup {SkipSpaces(text, b) : b \in bounds}
        ends == bounds \cup {Len(text)}
    IN  {MatchRange(s, Min({e \in ends : e > s})) : s \in {t \in starts : t < Len(text)}}

AfterStops(text) == {i \in 1..Len(text) : At(text, i - 1) \in Stops}

sentenceBoundaries(text) ==
    {i \in AfterStops(text) : i = Len(text) \/ At(text, i) \in Spaces}

sentenceSpans(text) ==
    IF sentenceBoundaries(text) = {} THEN {MatchRange(0, Len(text))}
    ELSE SpansEndingAt(text, sentenceBoundaries(text))

sentenceEndPositions(text) ==
    {IF r.end > r.start /\ At(text, r.end - 1) \in Stops THEN r.end - 1 ELSE r.end :
        r \in sentenceSpans(text)}

sentenceSpanBoundaries(text) == SpansEndingAt(text, AfterStops(text))

-----------------------------------------------------------------------------
(* Paragraphs: of the analysed text, of the editor's text, and of the text *)
(* a node is given.                                                        *)

ParagraphBreak == <<NewLine, NewLine>>

\* strings.Split(content, "\n\n"), as ranges of the content.
Paragraphs(text) ==
    LET from[o \in 0..Len(text)] ==
            LET i == Index(text, ParagraphBreak, o)
            IN  IF i = -1 THEN <<MatchRange(o, Len(text))>>
                ELSE <<MatchRange(o, i)>> \o from[i + 2]
    IN  from[0]

\* The editor's loop stops at the end of the text, so it has no last empty paragraph.
splitParagraphs(text) ==
    LET from[o \in 0..Len(text)] ==
            LET i == Index(text, ParagraphBreak, o)
            IN  IF o = Len(text) THEN <<>>
                ELSE IF i = -1 THEN <<MatchRange(o, Len(text))>>
                ELSE <<MatchRange(o, i)>> \o from[i + 2]
    IN  IF text = <<>> THEN <<MatchRange(0, 0)>> ELSE from[0]

reParagraphBreak(text) == {r \in RunsOf(text, {NewLine}) : r.end - r.start >= 2}

paragraphSpans(text) ==
    LET breaks == reParagraphBreak(text)
        starts == {0} \cup {r.end : r \in breaks}
        ends == {r.start : r \in breaks} \cup {Len(text)}
    IN  {MatchRange(s, Min({e \in ends : e >= s})) : s \in starts}

paragraphBoundaries(text) ==
    LET starts == {0} \cup {i \in 2..(Len(text) - 1) :
            /\ OccursAt(text, ParagraphBreak, i - 2)
            /\ At(text, i) # NewLine}
        next(s) == Min({t \in starts : t > s})
        trimmed(s) == Max({s} \cup {e \in s..next(s) : e > s /\ At(text, e - 1) \notin Spaces})
    IN  {MatchRange(s, IF \E t \in starts : t > s THEN trimmed(s) ELSE Len(text)) : s \in starts}
=============================================================================
